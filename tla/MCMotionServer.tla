--------------------------- MODULE MCMotionServer ---------------------------
(* The motion server for TLC: two motion connections, so that an event can  *)
(* arrive while another is answered and an empty one can repeat it; one is   *)
(* enough for the question of the run that expects a violation.  One Ctrl-C. *)
EXTENDS MotionServer
=============================================================================
