--------------------------- MODULE CameraModes ---------------------------
(***************************************************************************)
(* The camera server's constants and the decisions task_send and           *)
(* task_motion compute from them, shared by the threaded model             *)
(* (CameraServer) and by what it implements (TurnCycle).                   *)
(***************************************************************************)
EXTENDS Naturals

CONSTANTS
  Count,         \* turns each task takes (247 in the program)
  MotionAfter,   \* motion is reported above this many frames (86) ...
  MotionBefore   \* ... and below this many (219)

ASSUME CountAssumption == Count \in Nat \ {0}
ASSUME WindowAssumption == MotionAfter \in Nat /\ MotionBefore \in Nat

IDLE  == 0
AUTO  == 1
MOVIE == 2
Modes == {IDLE, AUTO, MOVIE}

\* The first letters of the client's mode messages.  task_recieve takes what
\* is neither of the first two as the third.
Letters == {"I", "A", "M"}
ModeOf(c) == IF c = "I" THEN IDLE ELSE IF c = "A" THEN AUTO ELSE MOVIE

\* The turn letters of struct global_data.task once the server runs.
Turns == {"a", "b", "c"}

\* Does the fake camera's motion window contain frame count n?
InMotion(n) == n > MotionAfter /\ n < MotionBefore

\* Milliseconds task_send sleeps after a frame.
Pace(mode, moving) ==
  IF mode = MOVIE \/ (mode = AUTO /\ moving) THEN 125 ELSE 250

\* Mutant: the motion word does not depend on the mode.
FlagInAnyMode(mode, moving) == IF moving THEN "have" ELSE "stil"

\* The motion word task_send puts between a frame's size and its bytes.
Flag(mode, moving) == IF mode = AUTO /\ moving THEN "have" ELSE "stil"
==========================================================================
