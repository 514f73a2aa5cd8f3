---------------------------- MODULE CameraSystem ----------------------------
(***************************************************************************)
(* Two cameras, their connections, the client and its user, end to end:    *)
(* each camera server as the turn cycle its threads implement (TurnCycle), *)
(* the client as in module Viewer.                                         *)
(*                                                                         *)
(* A frame crosses a connection as a whole (module FrameWire has its       *)
(* bytes), and both ends stay up.  How the threads may lose a turn is in   *)
(* module CameraServer; here none is lost.                                 *)
(***************************************************************************)
EXTENDS Viewer, CameraModes

ASSUME FramesAssumption == FrameLimit = Count

VARIABLES
  turn, frameCount, userMode, motion, delay, flag,   \* of each camera server
  down,       \* motion words of the frames on the way from each camera
  up,         \* mode letters on the way to it
  sentSince   \* history: it has sent a frame since the user's last choice

serverVars == <<turn, frameCount, userMode, motion, delay, flag>>
systemVars == <<serverVars, down, up, sentSince>>
allVars    == <<viewerVars, systemVars>>

SystemInit ==
  /\ ViewerInit
  /\ turn = [c \in Cameras |-> "a"]
  /\ frameCount = [c \in Cameras |-> 0]
  /\ userMode = [c \in Cameras |-> AUTO]
  /\ motion = [c \in Cameras |-> FALSE]
  /\ delay = [c \in Cameras |-> 0]
  /\ flag = [c \in Cameras |-> "stil"]
  /\ down = [c \in Cameras |-> <<>>]
  /\ up = [c \in Cameras |-> <<>>]
  /\ sentSince = [c \in Cameras |-> FALSE]
---------------------------------------------------------------------------
(* The camera servers *)

\* Mutant: one more frame is sent than the other tasks take turns for.
SendsOnceMore(c) ==
  /\ turn[c] = "a"
  /\ frameCount[c] <= Count
  /\ frameCount' = [frameCount EXCEPT ![c] = @ + 1]
  /\ delay' = [delay EXCEPT ![c] = Pace(userMode[c], motion[c])]
  /\ flag' = [flag EXCEPT ![c] = Flag(userMode[c], motion[c])]
  /\ down' = [down EXCEPT ![c] = Append(@, flag'[c])]
  /\ turn' = [turn EXCEPT ![c] = "b"]
  /\ sentSince' = [sentSince EXCEPT ![c] = TRUE]
  /\ UNCHANGED <<viewerVars, userMode, motion, up>>

Sends(c) ==
  /\ turn[c] = "a"
  /\ frameCount[c] < Count
  /\ frameCount' = [frameCount EXCEPT ![c] = @ + 1]
  /\ delay' = [delay EXCEPT ![c] = Pace(userMode[c], motion[c])]
  /\ flag' = [flag EXCEPT ![c] = Flag(userMode[c], motion[c])]
  /\ down' = [down EXCEPT ![c] = Append(@, flag'[c])]
  /\ turn' = [turn EXCEPT ![c] = "b"]
  /\ sentSince' = [sentSince EXCEPT ![c] = TRUE]
  /\ UNCHANGED <<viewerVars, userMode, motion, up>>

\* Mutant: the receive turn goes on when there is no message yet.
ReceivesWithoutWaiting(c) ==
  /\ turn[c] = "b"
  /\ userMode' = [userMode EXCEPT ![c] = IF up[c] = <<>> THEN @ ELSE ModeOf(Head(up[c]))]
  /\ up' = [up EXCEPT ![c] = IF @ = <<>> THEN @ ELSE Tail(@)]
  /\ turn' = [turn EXCEPT ![c] = "c"]
  /\ UNCHANGED <<viewerVars, frameCount, motion, delay, flag, down, sentSince>>

Receives(c) ==
  /\ turn[c] = "b"
  /\ up[c] # <<>>
  /\ userMode' = [userMode EXCEPT ![c] = ModeOf(Head(up[c]))]
  /\ up' = [up EXCEPT ![c] = Tail(@)]
  /\ turn' = [turn EXCEPT ![c] = "c"]
  /\ UNCHANGED <<viewerVars, frameCount, motion, delay, flag, down, sentSince>>

Detects(c) ==
  /\ turn[c] = "c"
  /\ motion' = [motion EXCEPT ![c] = InMotion(frameCount[c])]
  /\ turn' = [turn EXCEPT ![c] = "a"]
  /\ UNCHANGED <<viewerVars, frameCount, userMode, delay, flag, down, up, sentSince>>
---------------------------------------------------------------------------
(* The client at its connections *)

FrameArrives(c) ==
  /\ down[c] # <<>>
  /\ BeginFrame(c)
  /\ UNCHANGED systemVars

FrameComplete(c) ==
  /\ EndFrame(c)
  /\ UNCHANGED systemVars

FrameAdded(c) ==
  /\ AddFrame(c, Head(down[c]) = "have")
  /\ down' = [down EXCEPT ![c] = Tail(@)]
  /\ UNCHANGED <<serverVars, up, sentSince>>

\* Mutant: the mode is asked of the monitor before the frame is added, and the
\* answer of the round before is sent.
RepliesLate(c) ==
  /\ Reply(c)
  /\ up' = [up EXCEPT ![c] = Append(@, asked[c])]
  /\ UNCHANGED <<serverVars, down, sentSince>>

Replies(c) ==
  /\ Reply(c)
  /\ up' = [up EXCEPT ![c] = Append(@, asked'[c])]
  /\ UNCHANGED <<serverVars, down, sentSince>>

Camera(c) == Sends(c) \/ Receives(c) \/ Detects(c)
Client(c) == FrameArrives(c) \/ FrameComplete(c) \/ FrameAdded(c) \/ Replies(c)

\* The user's clicks, the clock and wake-ups of the display thread.
Elsewhere ==
  /\ Environment
  /\ sentSince' = IF userCamMode' # userCamMode THEN [c \in Cameras |-> FALSE] ELSE sentSince
  /\ UNCHANGED <<serverVars, down, up>>

Shows ==
  /\ DisplayThread \/ \E j \in jobs : Prepare(j) \/ Paint(j)
  /\ UNCHANGED systemVars

SystemNext ==
  \/ \E c \in Cameras : Camera(c) \/ Client(c)
  \/ Elsewhere
  \/ Shows

SystemSpec == SystemInit /\ [][SystemNext]_allVars
---------------------------------------------------------------------------
(* Properties *)

\* Type invariant, with the client's.
SystemTypeOK ==
  /\ ViewerTypeOK
  /\ turn \in [Cameras -> Turns]
  /\ frameCount \in [Cameras -> 0..Count]
  /\ userMode \in [Cameras -> Modes]
  /\ motion \in [Cameras -> BOOLEAN]
  /\ delay \in [Cameras -> {0, 125, 250}]
  /\ flag \in [Cameras -> {"have", "stil"}]
  /\ down \in [Cameras -> Seq({"have", "stil"})]
  /\ up \in [Cameras -> Seq(Letters)]
  /\ sentSince \in [Cameras -> BOOLEAN]

\* No camera is ever more than one frame ahead of the client's monitor, and no
\* frame is shown, taken or added that its camera has not sent: each camera
\* waits for the client to have stored its last frame.
OneFrameAhead ==
  \A c \in Cameras :
     /\ shown[c] <= taken[c] /\ taken[c] <= added[c]
     /\ added[c] <= frameCount[c] /\ frameCount[c] <= added[c] + 1
     /\ turn[c] \in {"a", "c"} => added[c] = frameCount[c]

\* A camera mode the user chooses is in force after at most one more frame of
\* each camera, whatever is on the way when the button is clicked.
ChoiceWithinOneFrame ==
  \A c \in Cameras :
     turn[c] = "a" /\ sentSince[c] => userMode[c] = ModeOf(FramesRate)

\* The guards of a camera's steps, and of the client's at its connection.
CameraCanGo(c) ==
  \/ turn[c] = "a" /\ frameCount[c] < Count
  \/ turn[c] = "b" /\ up[c] # <<>>
  \/ turn[c] = "c"

ClientCanGo(c) ==
  \/ client[c] = "frame" /\ down[c] # <<>> /\ added[c] < FrameLimit
  \/ client[c] = "bytes"
  \/ client[c] = "add" /\ added[c] < FrameLimit /\ Times # {}
  \/ client[c] = "reply"

\* Someone can go on, without the user's or the clock's doing.  A worker that
\* exists has an image to prepare or to paint.
SomeoneCanGo ==
  (\E c \in Cameras : CameraCanGo(c) \/ ClientCanGo(c)) \/ DisplayCanGo \/ jobs # {}

\* When nobody can go on but the user and the clock, nothing is left to be
\* done: each camera has sent all its frames and had them answered, every frame
\* taken from a list is on its panel, and one is left in a list only where the
\* synchronous branch waits for the other camera or was not notified.  So
\* neither cameras and client nor display and workers wait for each other.
NothingLeftUndone ==
  \/ SomeoneCanGo
  \/ /\ \A c \in Cameras : /\ frameCount[c] = Count /\ added[c] = Count
                            /\ turn[c] = "a" /\ client[c] = "frame"
                            /\ painted[c] = 1..taken[c]
     /\ DrainedOrStuck

\* The client behaves as module Viewer has it with any cameras.
ClientViews == ViewerSpec

\* Each connection as its ends see it: the frame under way by its number, and
\* a reply from the moment the client owes it.
UnderWay(c) == IF down[c] = <<>> THEN <<>> ELSE <<frameCount[c]>>
Owed(c) == Len(up[c]) + (IF client[c] = "reply" THEN 1 ELSE 0)
Whole1 == INSTANCE WholeFrames WITH
  sent <- frameCount[1], down <- UnderWay(1), up <- Owed(1), added <- added[1]
Whole2 == INSTANCE WholeFrames WITH
  sent <- frameCount[2], down <- UnderWay(2), up <- Owed(2), added <- added[2]

\* Over each connection go whole frames, one by one, each added and answered
\* once before the next is sent, as the modules of its two ends have it.
FramesCrossWhole == Whole1!WholeSpec /\ Whole2!WholeSpec
=============================================================================
