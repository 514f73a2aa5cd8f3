---------------------------- MODULE TurnCycle ----------------------------
(***************************************************************************)
(* What the camera server promises its client, without threads, mutex or   *)
(* condition variable: one frame is sent, then one mode request is taken,  *)
(* then one motion check is made, and so on round after round.  Each round *)
(* uses exactly the mode taken and the motion found in the round before.   *)
(*                                                                         *)
(* CameraServer is shown to implement this specification.                  *)
(***************************************************************************)
EXTENDS CameraModes

VARIABLES
  turn,        \* whose turn it is: "a" send, "b" receive, "c" motion
  frameCount,  \* frames sent
  userMode,    \* mode the client asked for
  motion,      \* motion found by the last check
  delay,       \* pause chosen for the last frame
  flag         \* motion word sent with the last frame

cycleVars == <<turn, frameCount, userMode, motion, delay, flag>>

CycleInit ==
  /\ turn = "a"
  /\ frameCount = 0
  /\ userMode = AUTO
  /\ motion = FALSE
  /\ delay = 0
  /\ flag = "stil"

CycleSend ==
  /\ turn = "a"
  /\ frameCount < Count
  /\ frameCount' = frameCount + 1
  /\ delay' = Pace(userMode, motion)
  /\ flag' = Flag(userMode, motion)
  /\ turn' = "b"
  /\ UNCHANGED <<userMode, motion>>

CycleReceive ==
  /\ turn = "b"
  /\ userMode' \in Modes
  /\ turn' = "c"
  /\ UNCHANGED <<frameCount, motion, delay, flag>>

CycleDetect ==
  /\ turn = "c"
  /\ motion' = InMotion(frameCount)
  /\ turn' = "a"
  /\ UNCHANGED <<frameCount, userMode, delay, flag>>

CycleNext == CycleSend \/ CycleReceive \/ CycleDetect

CycleSpec == CycleInit /\ [][CycleNext]_cycleVars
==========================================================================
