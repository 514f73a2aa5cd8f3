--------------------------- MODULE MCMotionClient ---------------------------
(* The polling client for TLC: two polls may leave their socket behind before *)
(* the descriptors run out.                                                   *)
EXTENDS MotionClient

Request == <<"GET ", "/motion.txt", " ">>
=============================================================================
