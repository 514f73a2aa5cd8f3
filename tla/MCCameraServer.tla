-------------------------- MODULE MCCameraServer --------------------------
(***************************************************************************)
(* Small instances of CameraServer for TLC.  The program's 247 turns and   *)
(* its motion window (86, 219) become a handful of turns with a window     *)
(* inside them, so that frames come before, in and after it.               *)
(***************************************************************************)
EXTENDS CameraServer

\* What the terminator written past msg[4] may hit, build by build ...
AllLayouts == {"counter", "pointer", "caller", "padding", "fatal"}

\* ... and the builds in which it does no harm.
PaddingOnly == {"padding"}
===========================================================================
