---------------------------- MODULE WholeFrames ----------------------------
(***************************************************************************)
(* What the connection between a camera server and its client amounts to:  *)
(* whole frames in one direction, one reply to each in the other, and      *)
(* never more than one of them under way.  Neither bytes nor turns appear. *)
(*                                                                         *)
(* FrameWire, which sends fields in pieces, and CameraServer, which passes *)
(* turns between three threads, are both shown to implement this: frames   *)
(* that CameraServer takes to arrive whole do, as far as FrameWire goes.   *)
(***************************************************************************)
EXTENDS Naturals, Sequences

VARIABLES
  sent,    \* frames the server has sent
  down,    \* the number of the frame under way, if one is
  up,      \* replies under way
  added    \* the frame the client has added last

wholeVars == <<sent, down, up, added>>

WholeInit == sent = 0 /\ down = <<>> /\ up = 0 /\ added = 0

\* The server goes on to a frame when the client is through with the last.
SendWhole ==
  /\ down = <<>> /\ up = 0 /\ added = sent
  /\ sent' = sent + 1
  /\ down' = <<sent'>>
  /\ UNCHANGED <<up, added>>

\* The client adds the frame to its monitor and replies.
AddWhole ==
  /\ down # <<>>
  /\ down' = <<>>
  /\ added' = Head(down)
  /\ up' = up + 1
  /\ UNCHANGED sent

TakeWhole ==
  /\ up = 1
  /\ up' = 0
  /\ UNCHANGED <<sent, down, added>>

WholeNext == SendWhole \/ AddWhole \/ TakeWhole

WholeSpec == WholeInit /\ [][WholeNext]_wholeVars
============================================================================
