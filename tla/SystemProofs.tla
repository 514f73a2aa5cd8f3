---------------------------- MODULE SystemProofs ----------------------------
(***************************************************************************)
(* The composed system proved for any number of frames, motion window,     *)
(* time stamps and buttons: the client in it is that of module Viewer,     *)
(* each camera goes through the cycle its own threads were proved to       *)
(* implement, no camera runs ahead, and the user's choice reaches both.    *)
(***************************************************************************)
EXTENDS CameraSystem, ViewerProofs

\* The one thing that is under way between a camera and the client.
LockOf(c) ==
  \/ /\ turn[c] \in {"a", "c"} /\ client[c] = "frame"
     /\ frameCount[c] = added[c] /\ down[c] = <<>> /\ up[c] = <<>>
  \/ /\ turn[c] = "b" /\ client[c] \in {"frame", "bytes", "add"}
     /\ frameCount[c] = added[c] + 1 /\ up[c] = <<>>
     /\ down[c] \in {<<"have">>, <<"stil">>}
  \/ /\ turn[c] = "b" /\ client[c] = "reply"
     /\ frameCount[c] = added[c] /\ down[c] = <<>> /\ up[c] = <<>>
  \/ /\ turn[c] = "b" /\ client[c] = "frame"
     /\ frameCount[c] = added[c] /\ down[c] = <<>>
     /\ up[c] \in {<<"I">>, <<"A">>, <<"M">>}

\* A frame sent since the user's choice is answered with that choice.
ChoiceOf(c) ==
  sentSince[c] =>
    /\ up[c] # <<>> => Head(up[c]) = FramesRate
    /\ turn[c] \in {"a", "c"} => userMode[c] = ModeOf(FramesRate)

SystemTypes ==
  /\ turn \in [Cameras -> Turns]
  /\ frameCount \in [Cameras -> 0..Count]
  /\ userMode \in [Cameras -> Modes]
  /\ motion \in [Cameras -> BOOLEAN]
  /\ delay \in [Cameras -> {0, 125, 250}]
  /\ flag \in [Cameras -> {"have", "stil"}]
  /\ down \in [Cameras -> Seq({"have", "stil"})]
  /\ up \in [Cameras -> Seq(Letters)]
  /\ sentSince \in [Cameras -> BOOLEAN]

SystemInv ==
  /\ ViewerInv
  /\ SystemTypes
  /\ \A c \in Cameras : LockOf(c) /\ ChoiceOf(c)

USE FramesAssumption, CountAssumption

LEMMA OneMessage ==
  ASSUME NEW S, NEW x \in S
  PROVE  Head(<<x>>) = x /\ Tail(<<x>>) = <<>> /\ Append(<<>>, x) = <<x>>
<1>1. <<x>> \in Seq(S) /\ <<x>> # <<>> /\ Len(<<x>>) = 1
  OBVIOUS
<1>2. Tail(<<x>>) \in Seq(S) /\ Len(Tail(<<x>>)) = 0
  BY <1>1, HeadTailProperties
<1>3. Tail(<<x>>) = <<>>
  BY <1>2, EmptySeq
<1> QED
  BY <1>3

\* Every step of the system is a step of the client or leaves it alone.
LEMMA StepIsViewers ==
  ASSUME [SystemNext]_allVars
  PROVE  [ViewerNext]_viewerVars
<1>1. ASSUME NEW c \in Cameras, Camera(c) PROVE UNCHANGED viewerVars
  BY <1>1 DEF Camera, Sends, Receives, Detects
<1>2. ASSUME NEW c \in Cameras, Client(c) PROVE ClientThread(c)
  BY <1>2 DEF Client, FrameArrives, FrameComplete, FrameAdded, Replies, ClientThread
<1>3. Elsewhere \/ Shows => ViewerNext
  BY DEF Elsewhere, Shows, ViewerNext
<1> QED
  BY <1>1, <1>2, <1>3 DEF SystemNext, ViewerNext, allVars

LEMMA ViewerStepInv ==
  ASSUME ViewerInv, [ViewerNext]_viewerVars
  PROVE  ViewerInv'
BY ClientInv, ShowingInv, PrepareInv, PaintInv, EnvironmentInv DEF ViewerNext

LEMMA SystemInitInv == ASSUME SystemInit PROVE SystemInv
<1>1. ViewerInv
  BY ViewerInitInv DEF SystemInit
<1>2. SystemTypes
  BY DEF SystemInit, SystemTypes, Turns, Modes, AUTO
<1>3. ASSUME NEW c \in Cameras PROVE LockOf(c) /\ ChoiceOf(c)
  BY DEF SystemInit, ViewerInit, MonitorInit, LockOf, ChoiceOf
<1> QED
  BY <1>1, <1>2, <1>3 DEF SystemInv

\* A server's turn.
LEMMA CameraInv ==
  ASSUME SystemInv, NEW c \in Cameras, Camera(c)
  PROVE  SystemInv'
<1>1. ViewerInv' /\ UNCHANGED viewerVars /\ UNCHANGED <<added, client, userCamMode>>
  BY EnvironmentInv DEF Camera, Sends, Receives, Detects, SystemInv, viewerVars,
                        monitorVars, listVars, modeVars, clientVars
<1>2. FramesRate' = FramesRate
  BY <1>1 DEF FramesRate
<1>3. LockOf(c) /\ ChoiceOf(c) /\ added[c] \in Nat /\ SystemTypes
  BY CounterFacts DEF SystemInv, ViewerInv
<1>4. SystemTypes' /\ LockOf(c)' /\ ChoiceOf(c)'
  <2>1. CASE Sends(c)
    <3>1. down[c] = <<>> /\ up[c] = <<>> /\ frameCount[c] = added[c] /\ client[c] = "frame"
      BY <1>3, <2>1 DEF Sends, LockOf
    <3>2. flag'[c] \in {"have", "stil"} /\ frameCount[c] + 1 \in 0..Count
          /\ Pace(userMode[c], motion[c]) \in {0, 125, 250}
      BY <1>3, <2>1 DEF Sends, Flag, Pace, SystemTypes
    <3>3. Append(down[c], flag'[c]) = <<flag'[c]>>
          /\ Append(down[c], flag'[c]) \in Seq({"have", "stil"})
      BY <3>1, <3>2
    <3>4. SystemTypes'
      BY <1>3, <2>1, <3>2, <3>3 DEF Sends, SystemTypes, Turns, Flag
    <3>5. LockOf(c)'
      BY <1>1, <1>3, <2>1, <3>1, <3>2, <3>3 DEF Sends, SystemTypes, LockOf
    <3>6. ChoiceOf(c)'
      BY <1>3, <2>1, <3>1 DEF Sends, SystemTypes, ChoiceOf
    <3> QED
      BY <3>4, <3>5, <3>6
  <2>2. CASE Receives(c)
    <3>1. /\ client[c] = "frame" /\ frameCount[c] = added[c] /\ down[c] = <<>>
          /\ up[c] \in {<<"I">>, <<"A">>, <<"M">>}
      BY <1>3, <2>2 DEF Receives, LockOf
    <3>2. Tail(up[c]) = <<>> /\ ModeOf(Head(up[c])) \in Modes
      BY <3>1, OneMessage DEF ModeOf, Modes
    <3>3. SystemTypes'
      BY <1>3, <2>2, <3>2 DEF Receives, SystemTypes, Turns
    <3>4. LockOf(c)'
      BY <1>1, <1>3, <2>2, <3>1, <3>2 DEF Receives, SystemTypes, LockOf
    <3>5. ChoiceOf(c)'
      BY <1>2, <1>3, <2>2, <3>1, <3>2 DEF Receives, SystemTypes, ChoiceOf
    <3> QED
      BY <3>3, <3>4, <3>5
  <2>3. CASE Detects(c)
    <3>1. SystemTypes'
      BY <1>3, <2>3 DEF Detects, SystemTypes, Turns, InMotion
    <3>2. LockOf(c)'
      BY <1>1, <1>3, <2>3 DEF Detects, SystemTypes, LockOf
    <3>3. ChoiceOf(c)'
      BY <1>2, <1>3, <2>3 DEF Detects, SystemTypes, ChoiceOf
    <3> QED
      BY <3>1, <3>2, <3>3
  <2> QED
    BY <2>1, <2>2, <2>3 DEF Camera
<1>5. ASSUME NEW d \in Cameras, d # c PROVE LockOf(d)' /\ ChoiceOf(d)'
  <2>1. /\ turn'[d] = turn[d] /\ frameCount'[d] = frameCount[d] /\ userMode'[d] = userMode[d]
        /\ down'[d] = down[d] /\ up'[d] = up[d] /\ sentSince'[d] = sentSince[d]
    BY <1>3, <1>5 DEF Camera, Sends, Receives, Detects, SystemTypes
  <2>2. LockOf(d) /\ ChoiceOf(d)
    BY DEF SystemInv
  <2> QED
    BY <1>1, <1>2, <2>1, <2>2 DEF LockOf, ChoiceOf
<1> QED
  BY <1>1, <1>4, <1>5 DEF SystemInv

\* The client at one of its connections.
LEMMA ConnectionInv ==
  ASSUME SystemInv, NEW c \in Cameras, Client(c)
  PROVE  SystemInv'
<1>1. ViewerInv'
  BY ClientInv DEF SystemInv, Client, FrameArrives, FrameComplete, FrameAdded, Replies,
                   ClientThread
<1>2. LockOf(c) /\ ChoiceOf(c) /\ added[c] \in Nat /\ SystemTypes
  BY CounterFacts DEF SystemInv, ViewerInv
<1>3. client \in [Cameras -> {"frame", "bytes", "add", "reply"}]
      /\ asked \in [Cameras -> {"I", "A", "M"}] /\ added \in [Cameras -> 0..FrameLimit]
  BY DEF SystemInv, ViewerInv, ViewerTypeOK, MonitorInv, MonitorTypeOK
<1>4. userCamMode' = userCamMode /\ FramesRate' = FramesRate
  BY DEF Client, FrameArrives, FrameComplete, FrameAdded, Replies, BeginFrame, EndFrame,
         AddFrame, AddImage, Reply, monitorVars, modeVars, FramesRate
<1>5. UNCHANGED <<serverVars, sentSince>>
  BY DEF Client, FrameArrives, FrameComplete, FrameAdded, Replies, systemVars
<1>6. SystemTypes' /\ LockOf(c)' /\ ChoiceOf(c)'
  <2>1. CASE FrameArrives(c)
    <3>1. UNCHANGED <<added, down, up>> /\ client' = [client EXCEPT ![c] = "bytes"]
          /\ down[c] # <<>> /\ client[c] = "frame"
      BY <2>1 DEF FrameArrives, BeginFrame, systemVars, monitorVars, listVars
    <3> QED
      BY <1>2, <1>3, <1>4, <1>5, <3>1 DEF SystemTypes, LockOf, ChoiceOf, serverVars
  <2>2. CASE FrameComplete(c)
    <3>1. UNCHANGED <<added, down, up>> /\ client' = [client EXCEPT ![c] = "add"]
          /\ client[c] = "bytes"
      BY <2>2 DEF FrameComplete, EndFrame, systemVars, monitorVars, listVars
    <3> QED
      BY <1>2, <1>3, <1>4, <1>5, <3>1 DEF SystemTypes, LockOf, ChoiceOf, serverVars
  <2>3. CASE FrameAdded(c)
    <3>1. /\ client' = [client EXCEPT ![c] = "reply"] /\ client[c] = "add"
          /\ down' = [down EXCEPT ![c] = Tail(@)] /\ up' = up
          /\ added' = [added EXCEPT ![c] = @ + 1]
      BY <2>3 DEF FrameAdded, AddFrame, AddImage
    <3>2. frameCount[c] = added[c] + 1 /\ down[c] \in {<<"have">>, <<"stil">>} /\ turn[c] = "b"
          /\ up[c] = <<>>
      BY <1>2, <3>1 DEF LockOf
    <3>3. Tail(down[c]) = <<>>
      BY <3>2, OneMessage
    <3>4. SystemTypes'
      <4>1. down' \in [Cameras -> Seq({"have", "stil"})]
        <5>1. down' = [down EXCEPT ![c] = <<>>]
          BY <3>1, <3>3
        <5>2. <<>> \in Seq({"have", "stil"})
          OBVIOUS
        <5> QED
          BY <1>2, <5>1, <5>2 DEF SystemTypes
      <4> QED
        BY <1>2, <1>5, <3>1, <4>1 DEF SystemTypes, serverVars
    <3>5. LockOf(c)' /\ ChoiceOf(c)'
      BY <1>2, <1>3, <1>5, <3>1, <3>2, <3>3 DEF SystemTypes, LockOf, ChoiceOf, serverVars
    <3> QED
      BY <3>4, <3>5
  <2>4. CASE Replies(c)
    <3>1. /\ client' = [client EXCEPT ![c] = "frame"] /\ client[c] = "reply"
          /\ asked' = [asked EXCEPT ![c] = FramesRate]
          /\ up' = [up EXCEPT ![c] = Append(@, asked'[c])] /\ UNCHANGED <<down, added>>
      BY <2>4 DEF Replies, Reply, monitorVars, listVars
    <3>2. asked'[c] = FramesRate /\ FramesRate \in Letters
      BY <1>3, <3>1 DEF FramesRate, Letters
    <3>3. frameCount[c] = added[c] /\ down[c] = <<>> /\ turn[c] = "b" /\ up[c] = <<>>
      BY <1>2, <3>1 DEF LockOf
    <3>4. Append(up[c], asked'[c]) = <<FramesRate>>
      BY <3>2, <3>3
    <3>5. SystemTypes'
      BY <1>2, <1>5, <3>1, <3>2, <3>4 DEF SystemTypes, serverVars
    <3>6. up'[c] = <<FramesRate>> /\ Head(up'[c]) = FramesRate
      BY <1>2, <3>1, <3>2, <3>4, OneMessage DEF SystemTypes
    <3>7. LockOf(c)' /\ ChoiceOf(c)'
      BY <1>2, <1>3, <1>4, <1>5, <3>1, <3>2, <3>3, <3>6 DEF LockOf, ChoiceOf, serverVars, Letters
    <3> QED
      BY <3>5, <3>7
  <2> QED
    BY <2>1, <2>2, <2>3, <2>4 DEF Client
<1>7. ASSUME NEW d \in Cameras, d # c PROVE LockOf(d)' /\ ChoiceOf(d)'
  <2>1. /\ client'[d] = client[d] /\ added'[d] = added[d]
        /\ down'[d] = down[d] /\ up'[d] = up[d]
    <3>1. CASE FrameArrives(c) \/ FrameComplete(c)
      BY <1>2, <1>3, <1>7, <3>1 DEF FrameArrives, FrameComplete, BeginFrame, EndFrame,
         monitorVars, listVars, systemVars
    <3>2. CASE FrameAdded(c)
      BY <1>2, <1>3, <1>7, <3>2 DEF FrameAdded, AddFrame, AddImage, SystemTypes
    <3>3. CASE Replies(c)
      BY <1>2, <1>3, <1>7, <3>3 DEF Replies, Reply, monitorVars, listVars, SystemTypes
    <3> QED
      BY <3>1, <3>2, <3>3 DEF Client
  <2>2. LockOf(d) /\ ChoiceOf(d)
    BY DEF SystemInv
  <2> QED
    BY <1>4, <1>5, <2>1, <2>2 DEF LockOf, ChoiceOf, serverVars
<1> QED
  BY <1>1, <1>6, <1>7 DEF SystemInv

\* Clicks, the clock, and all that goes on between monitor and screen.
LEMMA RestInv ==
  ASSUME SystemInv, Elsewhere \/ Shows \/ UNCHANGED allVars
  PROVE  SystemInv'
<1>1. ViewerInv'
  BY StepIsViewers, ViewerStepInv DEF SystemInv, SystemNext
<1>2. UNCHANGED <<serverVars, down, up, added, client>>
  BY DisplayTakes DEF Elsewhere, Shows, Environment, allVars, systemVars, viewerVars, monitorVars,
     listVars, clientVars, ButtonClick, ChangeViewMode, ChangeCamMode, TimePasses, SpuriousWakeup,
     DisplayThread, Prepare, Paint, SystemInv, ViewerInv
<1>3. \/ userCamMode' = userCamMode /\ sentSince' = sentSince
      \/ sentSince' = [c \in Cameras |-> FALSE]
  <2>1. CASE Elsewhere
    BY <2>1 DEF Elsewhere
  <2>2. CASE Shows
    <3>1. Display => userCamMode' = userCamMode
      BY DEF Display, SyncWaits, SyncShows, PauseGoesOn, SyncShowsSecond, AsyncWaits, AsyncShows,
             WaitAt, modeVars
    <3> QED
      BY <2>2, <3>1 DEF Shows, systemVars, DisplayThread, Prepare, Paint, monitorVars, modeVars
  <2>3. CASE UNCHANGED allVars
    BY <2>3 DEF allVars, systemVars, viewerVars, monitorVars, modeVars
  <2> QED
    BY <2>1, <2>2, <2>3
<1>4. SystemTypes'
  <2>1. SystemTypes
    BY DEF SystemInv
  <2>2. sentSince' \in [Cameras -> BOOLEAN]
    <3>1. [c \in Cameras |-> FALSE] \in [Cameras -> BOOLEAN]
      OBVIOUS
    <3> QED
      BY <1>3, <2>1, <3>1, Zenon DEF SystemTypes
  <2> QED
    BY <1>2, <2>1, <2>2 DEF SystemTypes, serverVars
<1>5. ASSUME NEW c \in Cameras PROVE LockOf(c)' /\ ChoiceOf(c)'
  <2>1. LockOf(c)'
    BY <1>2 DEF SystemInv, LockOf, serverVars
  <2>2. ChoiceOf(c)'
    BY <1>2, <1>3 DEF SystemInv, ChoiceOf, FramesRate, serverVars
  <2> QED
    BY <2>1, <2>2
<1> QED
  BY <1>1, <1>4, <1>5 DEF SystemInv

\* The invariant holds in every state of the system.
THEOREM SystemInvariance == SystemSpec => []SystemInv
<1>1. SystemInv /\ [SystemNext]_allVars => SystemInv'
  BY CameraInv, ConnectionInv, RestInv DEF SystemNext
<1> QED
  BY SystemInitInv, <1>1, PTL DEF SystemSpec

\* Type correctness of the system.
THEOREM SystemTypeCorrect == SystemSpec => []SystemTypeOK
<1>1. SystemInv => SystemTypeOK
  BY DEF SystemInv, ViewerInv, SystemTypes, SystemTypeOK
<1> QED
  BY <1>1, SystemInvariance, PTL

\* A camera is never more than one frame ahead of the client.
THEOREM NoCameraRunsAhead == SystemSpec => []OneFrameAhead
<1>1. SystemInv => OneFrameAhead
  <2> SUFFICES ASSUME SystemInv, NEW c \in Cameras
               PROVE  /\ shown[c] <= taken[c] /\ taken[c] <= added[c]
                      /\ added[c] <= frameCount[c] /\ frameCount[c] <= added[c] + 1
                      /\ turn[c] \in {"a", "c"} => added[c] = frameCount[c]
    BY DEF OneFrameAhead
  <2>1. WorkersOf(c) /\ LockOf(c) /\ SystemTypes
    BY DEF SystemInv, ViewerInv
  <2>2. taken[c] \in Nat /\ added[c] \in Nat /\ taken[c] <= added[c]
    BY CounterFacts DEF SystemInv, ViewerInv
  <2>3. shown[c] <= taken[c]
    BY <2>1, <2>2 DEF WorkersOf
  <2> QED
    BY <2>1, <2>2, <2>3 DEF LockOf, SystemTypes
<1> QED
  BY <1>1, SystemInvariance, PTL

\* The user's choice of camera mode is in force one frame later.
THEOREM ChoiceReachesCameras == SystemSpec => []ChoiceWithinOneFrame
<1>1. SystemInv => ChoiceWithinOneFrame
  BY DEF SystemInv, ChoiceOf, ChoiceWithinOneFrame
<1> QED
  BY <1>1, SystemInvariance, PTL

\* The client within the system is a client of any cameras: what is proved of
\* module Viewer holds of it.
THEOREM SystemsClient == SystemSpec => ClientViews
<1>1. SystemInit => ViewerInit
  BY DEF SystemInit
<1> QED
  BY <1>1, StepIsViewers, PTL DEF SystemSpec, ClientViews, ViewerSpec

\* So what was proved of the client with any cameras holds with these: no frame
\* is lost between list and worker, none is found older than meant, and panels
\* go back in time only where workers overlapped.
THEOREM ClientsPromises ==
  SystemSpec => [](NeverOlderThanMeant /\ TakenFramesHaveWorkers /\ InOrderUnlessOverlapped)
BY SystemsClient, NothingOlderFound, OneWorkerEach, PanelsInOrder, PTL DEF ClientViews

\* What a step may do to the connection of one camera, numbers for frames.
ExchangeOf(c) ==
  \/ /\ UnderWay(c) = <<>> /\ Owed(c) = 0 /\ added[c] = frameCount[c]
     /\ frameCount'[c] = frameCount[c] + 1 /\ UnderWay(c)' = <<frameCount'[c]>>
     /\ Owed(c)' = Owed(c) /\ added'[c] = added[c]
  \/ /\ UnderWay(c) = <<frameCount[c]>> /\ UnderWay(c)' = <<>>
     /\ added'[c] = frameCount[c] /\ Owed(c) = 0 /\ Owed(c)' = 1
     /\ frameCount'[c] = frameCount[c]
  \/ /\ Owed(c) = 1 /\ Owed(c)' = 0
     /\ frameCount'[c] = frameCount[c] /\ UnderWay(c)' = UnderWay(c) /\ added'[c] = added[c]
  \/ /\ frameCount'[c] = frameCount[c] /\ UnderWay(c)' = UnderWay(c)
     /\ Owed(c)' = Owed(c) /\ added'[c] = added[c]

\* A step that leaves the connection alone.
LEMMA NoExchange ==
  ASSUME NEW c \in Cameras, frameCount'[c] = frameCount[c], down'[c] = down[c],
         up'[c] = up[c], added'[c] = added[c], client'[c] = client[c]
  PROVE  ExchangeOf(c)
BY DEF ExchangeOf, UnderWay, Owed

LEMMA Exchanges ==
  ASSUME SystemInv, [SystemNext]_allVars, NEW c \in Cameras
  PROVE  ExchangeOf(c)
<1>0. /\ LockOf(c) /\ added[c] \in Nat /\ frameCount[c] \in Nat
      /\ SystemTypes /\ client \in [Cameras -> {"frame", "bytes", "add", "reply"}]
      /\ added \in [Cameras -> 0..FrameLimit] /\ asked \in [Cameras -> {"I", "A", "M"}]
      /\ Len(<<>>) = 0 /\ \A x : Len(<<x>>) = 1 /\ <<x>> # <<>>
  <2>1. Len(<<>>) = 0 /\ \A x : Len(<<x>>) = 1 /\ <<x>> # <<>>
    OBVIOUS
  <2>2. LockOf(c) /\ SystemTypes /\ ViewerTypeOK /\ MonitorTypeOK /\ MonitorInv
    BY DEF SystemInv, ViewerInv, ViewerTypeOK
  <2>3. added[c] \in Nat
    BY <2>2, CounterFacts
  <2>4. frameCount[c] \in Nat
    BY <2>2, CountAssumption DEF SystemTypes
  <2>5. /\ client \in [Cameras -> {"frame", "bytes", "add", "reply"}]
        /\ asked \in [Cameras -> {"I", "A", "M"}]
    BY <2>2 DEF ViewerTypeOK
  <2>6. added \in [Cameras -> 0..FrameLimit]
    BY <2>2 DEF MonitorTypeOK
  <2> QED
    BY <2>1, <2>2, <2>3, <2>4, <2>5, <2>6
<1>1. CASE Sends(c)
  <2>1. /\ down[c] = <<>> /\ up[c] = <<>> /\ frameCount[c] = added[c] /\ client[c] = "frame"
        /\ flag'[c] \in {"have", "stil"}
    BY <1>0, <1>1 DEF Sends, LockOf, SystemTypes, Flag
  <2>2. /\ down'[c] = Append(<<>>, flag'[c]) /\ frameCount'[c] = frameCount[c] + 1
        /\ UNCHANGED <<up, added, client>>
    BY <1>0, <1>1, <2>1
    DEF Sends, SystemTypes, viewerVars, monitorVars, listVars, clientVars
  <2>3. down'[c] # <<>>
    BY <2>1, <2>2, OneMessage
  <2> QED BY <1>0, <2>1, <2>2, <2>3 DEF ExchangeOf, UnderWay, Owed
<1>2. CASE Receives(c)
  <2>1. client[c] = "frame" /\ up[c] \in {<<"I">>, <<"A">>, <<"M">>}
    BY <1>0, <1>2 DEF Receives, LockOf
  <2>2. /\ up'[c] = <<>> /\ UNCHANGED <<frameCount, down, added, client>>
    BY <1>0, <1>2, <2>1, OneMessage
    DEF Receives, SystemTypes, viewerVars, monitorVars, listVars, clientVars
  <2> QED BY <1>0, <2>1, <2>2 DEF ExchangeOf, UnderWay, Owed
<1>3. CASE FrameAdded(c)
  <2>1. /\ client[c] = "add" /\ client'[c] = "reply" /\ added'[c] = added[c] + 1
        /\ down'[c] = Tail(down[c]) /\ UNCHANGED <<up, frameCount>>
    BY <1>0, <1>3 DEF FrameAdded, AddFrame, AddImage, SystemTypes, serverVars
  <2>2. /\ frameCount[c] = added[c] + 1 /\ up[c] = <<>>
        /\ down[c] \in {<<"have">>, <<"stil">>}
    BY <1>0, <2>1 DEF LockOf
  <2>3. Tail(down[c]) = <<>>
    BY <2>2, OneMessage
  <2>4. UnderWay(c) = <<frameCount[c]>> /\ UnderWay(c)' = <<>>
    BY <1>0, <2>1, <2>2, <2>3 DEF UnderWay
  <2>5. Owed(c) = 0 /\ Owed(c)' = 1
    BY <1>0, <2>1, <2>2 DEF Owed
  <2> QED BY <2>1, <2>2, <2>4, <2>5 DEF ExchangeOf
<1>4. CASE Replies(c)
  <2>1. /\ client[c] = "reply" /\ client'[c] = "frame"
        /\ up'[c] = Append(up[c], asked'[c]) /\ UNCHANGED <<down, frameCount, added>>
    BY <1>0, <1>4 DEF Replies, Reply, SystemTypes, serverVars, monitorVars, listVars
  <2>2. up[c] = <<>>
    BY <1>0, <2>1 DEF LockOf
  <2>3. up'[c] = <<asked'[c]>>
    BY <2>1, <2>2
  <2> QED BY <1>0, <2>1, <2>2, <2>3 DEF ExchangeOf, UnderWay, Owed
<1>5. CASE Detects(c) \/ FrameArrives(c) \/ FrameComplete(c)
  <2>1. UNCHANGED <<frameCount, down, up, added>>
    BY <1>5
    DEF Detects, FrameArrives, FrameComplete, BeginFrame, EndFrame, systemVars, serverVars,
        viewerVars, monitorVars, listVars
  <2>2. client'[c] = client[c] \/ (client[c] # "reply" /\ client'[c] # "reply")
    <3>1. CASE Detects(c)
      BY <3>1 DEF Detects, viewerVars, clientVars
    <3>2. CASE FrameArrives(c)
      BY <1>0, <3>2 DEF FrameArrives, BeginFrame
    <3>3. CASE FrameComplete(c)
      BY <1>0, <3>3 DEF FrameComplete, EndFrame
    <3> QED
      BY <1>5, <3>1, <3>2, <3>3
  <2> QED BY <2>1, <2>2 DEF ExchangeOf, UnderWay, Owed
<1>6. ASSUME NEW d \in Cameras, d # c, Camera(d) \/ Client(d) PROVE ExchangeOf(c)
  <2>1. CASE Camera(d)
    <3>1. UNCHANGED <<added, client>>
      BY <2>1
      DEF Camera, Sends, Receives, Detects, viewerVars, monitorVars, listVars, clientVars
    <3>2. frameCount'[c] = frameCount[c] /\ down'[c] = down[c] /\ up'[c] = up[c]
      BY <1>0, <1>6, <2>1 DEF Camera, Sends, Receives, Detects, SystemTypes
    <3> QED
      BY <3>1, <3>2, NoExchange
  <2>2. CASE FrameArrives(d) \/ FrameComplete(d)
    BY <1>0, <1>6, <2>2, NoExchange
    DEF FrameArrives, FrameComplete, BeginFrame, EndFrame, systemVars, serverVars, monitorVars,
        listVars
  <2>3. CASE FrameAdded(d)
    BY <1>0, <1>6, <2>3, NoExchange DEF FrameAdded, AddFrame, AddImage, SystemTypes, serverVars
  <2>4. CASE Replies(d)
    BY <1>0, <1>6, <2>4, NoExchange
    DEF Replies, Reply, SystemTypes, serverVars, monitorVars, listVars
  <2> QED BY <1>6, <2>1, <2>2, <2>3, <2>4 DEF Client
<1>7. CASE Elsewhere \/ Shows \/ UNCHANGED allVars
  <2>1. UNCHANGED <<serverVars, down, up, added, client>>
    BY <1>7, DisplayTakes
    DEF Elsewhere, Shows, Environment, allVars, systemVars, viewerVars, monitorVars, listVars,
        clientVars, ButtonClick, ChangeViewMode, ChangeCamMode, TimePasses, SpuriousWakeup,
        DisplayThread, Prepare, Paint, SystemInv, ViewerInv
  <2> QED BY <2>1, NoExchange DEF serverVars
<1> QED
  BY <1>1, <1>2, <1>3, <1>4, <1>5, <1>6, <1>7 DEF SystemNext, Camera, Client

\* Over each connection of the system go whole frames, one by one: the
\* connections are those that FrameWire's bytes and CameraServer's threads were
\* proved to make, for each camera and with any user.
THEOREM ConnectionsCarryFrames == SystemSpec => FramesCrossWhole
<1>1. SystemInit => Whole1!WholeInit /\ Whole2!WholeInit
  <2>1. Len(<<>>) = 0
    OBVIOUS
  <2> QED
    BY <2>1
    DEF SystemInit, ViewerInit, MonitorInit, Whole1!WholeInit, Whole2!WholeInit, UnderWay, Owed,
        Cameras
<1>2. ASSUME SystemInv, [SystemNext]_allVars
      PROVE  [Whole1!WholeNext]_(Whole1!wholeVars) /\ [Whole2!WholeNext]_(Whole2!wholeVars)
  <2>1. ExchangeOf(1) /\ ExchangeOf(2)
    BY <1>2, Exchanges DEF Cameras
  <2>2. \A x : <<x>> # <<>> /\ Head(<<x>>) = x
    OBVIOUS
  <2>3. [Whole1!WholeNext]_(Whole1!wholeVars)
    BY <2>1, <2>2
    DEF ExchangeOf, Whole1!WholeNext, Whole1!SendWhole, Whole1!AddWhole, Whole1!TakeWhole,
        Whole1!wholeVars
  <2>4. [Whole2!WholeNext]_(Whole2!wholeVars)
    BY <2>1, <2>2
    DEF ExchangeOf, Whole2!WholeNext, Whole2!SendWhole, Whole2!AddWhole, Whole2!TakeWhole,
        Whole2!wholeVars
  <2> QED BY <2>3, <2>4
<1> QED
  BY <1>1, <1>2, SystemInvariance, PTL
  DEF SystemSpec, FramesCrossWhole, Whole1!WholeSpec, Whole2!WholeSpec
---------------------------------------------------------------------------
(* Going on *)

\* Cameras, connections, client, display thread and workers never wait for each
\* other in a circle, whatever the film's length and whatever the user does.
THEOREM NobodyWaitsInCircle == SystemSpec => []NothingLeftUndone
<1>1. ASSUME SystemInv, ~ SomeoneCanGo
      PROVE  /\ \A c \in Cameras : /\ frameCount[c] = Count /\ added[c] = Count
                                   /\ turn[c] = "a" /\ client[c] = "frame"
                                   /\ painted[c] = 1..taken[c]
             /\ DrainedOrStuck
  <2>1. ASSUME NEW c \in Cameras
        PROVE  /\ frameCount[c] = Count /\ added[c] = Count
               /\ turn[c] = "a" /\ client[c] = "frame"
    <3>1. /\ LockOf(c) /\ added[c] \in Nat /\ frameCount[c] \in 0..Count
          /\ ~ CameraCanGo(c) /\ ~ ClientCanGo(c)
      BY <1>1, CounterFacts DEF SystemInv, ViewerInv, SystemTypes, SomeoneCanGo
    <3>2. turn[c] # "c" /\ client[c] \notin {"bytes", "reply"}
      BY <3>1 DEF CameraCanGo, ClientCanGo
    <3>3. turn[c] # "b"
      <4> SUFFICES ASSUME turn[c] = "b" PROVE FALSE
        OBVIOUS
      <4>1. /\ client[c] \in {"frame", "add"} /\ frameCount[c] = added[c] + 1
            /\ down[c] \in {<<"have">>, <<"stil">>}
        BY <3>1, <3>2 DEF LockOf, CameraCanGo
      <4>2. added[c] < FrameLimit
        BY <3>1, <4>1
      <4>3. down[c] # <<>>
        BY <4>1
      <4> QED
        BY <3>1, <4>1, <4>2, <4>3, TimesAssumption DEF ClientCanGo
    <3>4. turn[c] = "a" /\ client[c] = "frame" /\ frameCount[c] = added[c]
      BY <3>1, <3>2, <3>3 DEF LockOf
    <3> QED
      BY <3>1, <3>4 DEF CameraCanGo
  <2>2. ASSUME NEW c \in Cameras PROVE painted[c] = 1..taken[c]
    BY <1>1 DEF SystemInv, ViewerInv, WorkersOf, SomeoneCanGo
  <2>3. DrainedOrStuck
    <3>1. MonitorInv /\ ~ DisplayCanGo
      BY <1>1 DEF SystemInv, ViewerInv, SomeoneCanGo
    <3>2. waiting
      BY <3>1, AwakeCanGo
    <3> QED
      BY <3>1, <3>2 DEF MonitorInv, MonitorTypeOK, NoMissedNotify, DrainedOrStuck
  <2> QED
    BY <2>1, <2>2, <2>3
<1>2. SystemInv => NothingLeftUndone
  BY <1>1 DEF NothingLeftUndone
<1> QED
  BY <1>2, SystemInvariance, PTL

\* Steps of camera and client to the end of a round, and of all rounds.
ClientRank == [frame |-> 6, bytes |-> 5, add |-> 4, reply |-> 3]
RoundLeft(c) ==
  CASE turn[c] = "a" -> 0
    [] turn[c] = "c" -> 1
    [] turn[c] = "b" /\ up[c] # <<>> -> 2
    [] OTHER -> ClientRank[client[c]]
ConnectionLeft(c) == 7 * (Count - frameCount[c]) + RoundLeft(c)

LEMMA RoundIs ==
  ASSUME SystemInv, NEW c \in Cameras
  PROVE  RoundLeft(c) \in 0..6 /\ ConnectionLeft(c) \in Nat
<1>1. /\ turn[c] \in {"a", "b", "c"} /\ frameCount[c] \in 0..Count
      /\ client[c] \in {"frame", "bytes", "add", "reply"}
  BY DEF SystemInv, SystemTypes, Turns, ViewerInv, ViewerTypeOK
<1>2. ClientRank[client[c]] \in 3..6
  BY <1>1 DEF ClientRank
<1>3. RoundLeft(c) \in 0..6
  BY <1>1, <1>2 DEF RoundLeft
<1> QED
  BY <1>1, <1>3 DEF ConnectionLeft

LEMMA ConnectionsAre == SystemInv => ConnectionLeft(1) \in Nat /\ ConnectionLeft(2) \in Nat
BY RoundIs DEF Cameras

LEMMA ConnectionsNext == SystemInv' => ConnectionLeft(1)' \in Nat /\ ConnectionLeft(2)' \in Nat
<1>1. (SystemInv => ConnectionLeft(1) \in Nat /\ ConnectionLeft(2) \in Nat)'
  BY ConnectionsAre, PTL
<1> QED
  BY <1>1

\* A step at one connection brings its end nearer, and leaves the other one
\* and what is between lists and panels alone.
LEMMA ConnectionLess ==
  ASSUME SystemInv, NEW c \in Cameras, Camera(c) \/ Client(c)
  PROVE  /\ ConnectionLeft(c)' < ConnectionLeft(c)
         /\ ConnectionLeft(3 - c)' = ConnectionLeft(3 - c)
         /\ UNCHANGED <<jobs, taken>>
<1>0. /\ LockOf(c) /\ added[c] \in Nat /\ frameCount[c] \in 0..Count
      /\ SystemTypes /\ client \in [Cameras -> {"frame", "bytes", "add", "reply"}]
      /\ turn \in [Cameras -> Turns] /\ frameCount \in [Cameras -> 0..Count]
      /\ up \in [Cameras -> Seq(Letters)]
      /\ 3 - c \in Cameras /\ 3 - c # c
  <2>1. LockOf(c) /\ SystemTypes /\ ViewerTypeOK /\ MonitorInv
    BY DEF SystemInv, ViewerInv
  <2>2. added[c] \in Nat
    BY <2>1, CounterFacts
  <2>3. 3 - c \in Cameras /\ 3 - c # c
    BY DEF Cameras
  <2> QED
    BY <2>1, <2>2, <2>3 DEF SystemTypes, ViewerTypeOK
<1>1. UNCHANGED <<jobs, taken>>
  BY DEF Camera, Client, Sends, Receives, Detects, FrameArrives, FrameComplete, FrameAdded, Replies,
         BeginFrame, EndFrame, AddFrame, AddImage, Reply, viewerVars, monitorVars, listVars,
         paintVars
<1>2. ClientRank["frame"] = 6 /\ ClientRank["bytes"] = 5 /\ ClientRank["add"] = 4
      /\ ClientRank["reply"] = 3
  BY DEF ClientRank
<1>3. CASE Sends(c)
  <2>1. /\ turn[c] = "a" /\ turn'[c] = "b" /\ frameCount'[c] = frameCount[c] + 1
        /\ frameCount[c] < Count
        /\ up' = up /\ client' = client /\ client[c] = "frame" /\ up[c] = <<>>
        /\ turn'[3 - c] = turn[3 - c] /\ frameCount'[3 - c] = frameCount[3 - c]
    BY <1>0, <1>3 DEF Sends, LockOf, viewerVars, clientVars
  <2>2. RoundLeft(c) = 0 /\ RoundLeft(c)' = 6
    BY <1>2, <2>1 DEF RoundLeft
  <2>3. RoundLeft(3 - c)' = RoundLeft(3 - c)
    BY <2>1 DEF RoundLeft
  <2> QED
    BY <1>0, <1>1, <2>1, <2>2, <2>3 DEF ConnectionLeft
<1>4. ASSUME UNCHANGED frameCount, RoundLeft(c) \in 0..6, RoundLeft(c)' \in 0..6,
             RoundLeft(c)' < RoundLeft(c), RoundLeft(3 - c)' = RoundLeft(3 - c)
      PROVE  /\ ConnectionLeft(c)' < ConnectionLeft(c)
             /\ ConnectionLeft(3 - c)' = ConnectionLeft(3 - c)
  <2>1. /\ ConnectionLeft(c)' = 7 * (Count - frameCount[c]) + RoundLeft(c)'
        /\ ConnectionLeft(3 - c)' = 7 * (Count - frameCount[3 - c]) + RoundLeft(3 - c)'
    BY <1>4 DEF ConnectionLeft
  <2>2. Count - frameCount[c] \in Nat
    BY <1>0, CountAssumption
  <2> QED
    BY <1>4, <2>1, <2>2 DEF ConnectionLeft
<1>5. CASE Receives(c)
  <2>1. /\ turn[c] = "b" /\ turn'[c] = "c" /\ up[c] # <<>>
        /\ turn'[3 - c] = turn[3 - c] /\ up'[3 - c] = up[3 - c]
        /\ UNCHANGED <<frameCount, client>>
    BY <1>0, <1>5 DEF Receives, viewerVars, clientVars
  <2>2. RoundLeft(c) = 2 /\ RoundLeft(c)' = 1 /\ RoundLeft(3 - c)' = RoundLeft(3 - c)
    BY <2>1 DEF RoundLeft
  <2> QED
    BY <1>1, <1>4, <2>1, <2>2
<1>6. CASE Detects(c)
  <2>1. /\ turn[c] = "c" /\ turn'[c] = "a" /\ turn'[3 - c] = turn[3 - c]
        /\ UNCHANGED <<up, frameCount, client>>
    BY <1>0, <1>6 DEF Detects, viewerVars, clientVars
  <2>2. RoundLeft(c) = 1 /\ RoundLeft(c)' = 0 /\ RoundLeft(3 - c)' = RoundLeft(3 - c)
    BY <2>1 DEF RoundLeft
  <2> QED
    BY <1>1, <1>4, <2>1, <2>2
<1>7. CASE FrameArrives(c) \/ FrameComplete(c) \/ FrameAdded(c)
  <2>1. /\ client'[3 - c] = client[3 - c]
        /\ \/ client[c] = "frame" /\ down[c] # <<>> /\ client'[c] = "bytes"
           \/ client[c] = "bytes" /\ client'[c] = "add"
           \/ client[c] = "add" /\ client'[c] = "reply"
    BY <1>0, <1>7
    DEF FrameArrives, FrameComplete, FrameAdded, BeginFrame, EndFrame, AddFrame
  <2>2. UNCHANGED <<turn, up, frameCount>>
    BY <1>7 DEF FrameArrives, FrameComplete, FrameAdded, systemVars, serverVars
  <2>3. turn[c] = "b" /\ up[c] = <<>>
    BY <1>0, <2>1 DEF LockOf
  <2>4. /\ RoundLeft(c) = ClientRank[client[c]] /\ RoundLeft(c)' = ClientRank[client'[c]]
        /\ RoundLeft(3 - c)' = RoundLeft(3 - c)
    BY <2>1, <2>2, <2>3 DEF RoundLeft, ClientRank
  <2>5. /\ ClientRank[client[c]] \in 0..6 /\ ClientRank[client'[c]] \in 0..6
        /\ ClientRank[client'[c]] < ClientRank[client[c]]
    BY <1>2, <2>1
  <2> QED
    BY <1>1, <1>4, <2>2, <2>4, <2>5
<1>8. CASE Replies(c)
  <2>1. /\ client[c] = "reply" /\ client'[c] = "frame" /\ client'[3 - c] = client[3 - c]
        /\ up' = [up EXCEPT ![c] = Append(@, asked'[c])]
        /\ UNCHANGED <<turn, frameCount>>
    BY <1>0, <1>8 DEF Replies, Reply, serverVars
  <2>2. turn[c] = "b" /\ up[c] = <<>>
    BY <1>0, <2>1 DEF LockOf
  <2>3. up'[c] # <<>> /\ up'[3 - c] = up[3 - c]
    BY <1>0, <2>1, <2>2
  <2>4. RoundLeft(c) = 3 /\ RoundLeft(c)' = 2 /\ RoundLeft(3 - c)' = RoundLeft(3 - c)
    BY <1>2, <2>1, <2>2, <2>3 DEF RoundLeft
  <2> QED
    BY <1>1, <1>4, <2>1, <2>4
<1> QED
  BY <1>3, <1>5, <1>6, <1>7, <1>8 DEF Camera, Client

\* All that is left to do: the rounds of both connections, what is between the
\* lists and the panels, and a look of the display thread if it is awake.
ToDo ==
  2 * (ConnectionLeft(1) + ConnectionLeft(2)) + ToPaint + (IF waiting THEN 0 ELSE 1)

\* The step of one connection leaves less of both.
LEMMA ConnectionsLess ==
  ASSUME SystemInv, SystemInv', NEW c \in Cameras, Camera(c) \/ Client(c)
  PROVE  /\ ConnectionLeft(1)' + ConnectionLeft(2)' < ConnectionLeft(1) + ConnectionLeft(2)
         /\ UNCHANGED <<jobs, taken>>
<1>1. /\ ConnectionLeft(1) \in Nat /\ ConnectionLeft(2) \in Nat
      /\ ConnectionLeft(1)' \in Nat /\ ConnectionLeft(2)' \in Nat
  BY ConnectionsAre, ConnectionsNext
<1>2. CASE c = 1
  <2>1. ConnectionLeft(1)' < ConnectionLeft(1) /\ ConnectionLeft(3 - 1)' = ConnectionLeft(3 - 1)
        /\ UNCHANGED <<jobs, taken>>
    BY <1>2, ConnectionLess
  <2>2. ConnectionLeft(2)' = ConnectionLeft(2)
    BY <2>1
  <2> QED
    BY <1>1, <2>1, <2>2
<1>3. CASE c = 2
  <2>1. ConnectionLeft(2)' < ConnectionLeft(2) /\ ConnectionLeft(3 - 2)' = ConnectionLeft(3 - 2)
        /\ UNCHANGED <<jobs, taken>>
    BY <1>3, ConnectionLess
  <2>2. ConnectionLeft(1)' = ConnectionLeft(1)
    BY <2>1
  <2> QED
    BY <1>1, <2>1, <2>2
<1> QED
  BY <1>2, <1>3 DEF Cameras

\* A step that leaves the connections as they are.
LEMMA ConnectionsKept ==
  ASSUME UNCHANGED <<turn, frameCount, up, client>>
  PROVE  ConnectionLeft(1)' = ConnectionLeft(1) /\ ConnectionLeft(2)' = ConnectionLeft(2)
<1>1. RoundLeft(1)' = RoundLeft(1) /\ RoundLeft(2)' = RoundLeft(2)
  BY DEF RoundLeft
<1> QED
  BY <1>1 DEF ConnectionLeft

\* How the sum follows its terms.
LEMMA ToDoFalls ==
  ASSUME NEW r \in Nat, NEW p \in Nat, NEW a \in 0..1,
         NEW s \in Nat, NEW q \in Nat, NEW b \in 0..1
  PROVE  /\ s < r /\ q = p => 2 * s + q + b < 2 * r + p + a
         /\ s = r /\ q < p /\ b <= a => 2 * s + q + b < 2 * r + p + a
         /\ s = r /\ q = p /\ b < a => 2 * s + q + b < 2 * r + p + a
         /\ s = r /\ q = p => 2 * s + q + b <= 2 * r + p + a + 1
OBVIOUS

\* What a step does to it, whoever takes it.
GetsOn ==
  /\ ToDo \in Nat
  /\ Shows \/ (\E c \in Cameras : Camera(c) \/ Client(c)) => ToDo' < ToDo
  /\ Elsewhere => ToDo' <= ToDo + 1

\* Each step of a camera, of a ClientThread, of the display thread or of a
\* worker leaves less to do; a click, the clock or a spurious wakeup can only
\* have the display thread look once more.  So between two of those there are
\* finitely many steps, and all in all there is no end of them only if there is
\* no end of clicks, clock and wakeups either.
THEOREM EachStepGetsOn == SystemSpec => [][GetsOn]_allVars
<1> DEFINE Awake == IF waiting THEN 0 ELSE 1
           Rounds == ConnectionLeft(1) + ConnectionLeft(2)
<1>0. ASSUME SystemInv, IsFiniteSet(jobs)
      PROVE  Rounds \in Nat /\ ToPaint \in Nat /\ Awake \in 0..1 /\ ToDo \in Nat
  <2>1. ConnectionLeft(1) \in Nat /\ ConnectionLeft(2) \in Nat
    BY <1>0, ConnectionsAre
  <2>2. taken[1] \in 0..FrameLimit /\ taken[2] \in 0..FrameLimit
    BY <1>0 DEF SystemInv, ViewerInv, MonitorInv, MonitorTypeOK, Cameras
  <2>3. WorkOf(jobs) \in Nat
    BY <1>0, WorkIs
  <2>4. ToPaint \in Nat
    BY <2>2, <2>3, FrameLimitAssumption DEF ToPaint, ToTake
  <2> QED
    BY <2>1, <2>4 DEF ToDo
<1>1. ASSUME SystemInv, SystemNext PROVE SystemInv'
  BY <1>1, CameraInv, ConnectionInv, RestInv DEF SystemNext
<1>2. ASSUME NEW c \in Cameras, SystemInv, SystemInv', IsFiniteSet(jobs), Camera(c) \/ Client(c)
      PROVE  IsFiniteSet(jobs') /\ ToDo' < ToDo
  <2>1. Rounds' < Rounds /\ UNCHANGED <<jobs, taken>>
    BY <1>2, ConnectionsLess
  <2>2. ToPaint' = ToPaint /\ IsFiniteSet(jobs')
    BY <1>2, <2>1 DEF ToPaint, ToTake
  <2>3. /\ Rounds \in Nat /\ ToPaint \in Nat /\ Awake \in 0..1
        /\ ToDo = 2 * Rounds + ToPaint + Awake
    BY <1>0, <1>2 DEF ToDo
  <2>4. Rounds' \in Nat /\ Awake' \in 0..1 /\ ToDo' = 2 * Rounds' + ToPaint' + Awake'
    <3>1. ConnectionLeft(1)' \in Nat /\ ConnectionLeft(2)' \in Nat
      BY <1>2, ConnectionsNext
    <3> QED
      BY <3>1 DEF ToDo
  <2> HIDE DEF Rounds, Awake
  <2> QED
    BY <2>1, <2>2, <2>3, <2>4, ToDoFalls
<1>3. ASSUME SystemInv, IsFiniteSet(jobs), Shows PROVE IsFiniteSet(jobs') /\ ToDo' < ToDo
  <2>1. /\ IsFiniteSet(jobs') /\ ToPaint \in Nat /\ ToPaint' \in Nat
        /\ \/ ToPaint' < ToPaint
           \/ ToPaint' = ToPaint /\ ~ waiting /\ waiting'
        /\ waiting => waiting'
    <3>1. ViewerInv
      BY <1>3 DEF SystemInv
    <3>2. CASE DisplayThread
      BY <1>3, <3>1, <3>2, ShowingLess
    <3>3. ASSUME NEW j \in jobs, Prepare(j) \/ Paint(j)
          PROVE  /\ IsFiniteSet(jobs') /\ ToPaint \in Nat /\ ToPaint' \in Nat
                 /\ ToPaint' < ToPaint /\ waiting' = waiting
      BY <1>3, <3>1, <3>3, WorkerLess
    <3> QED
      BY <1>3, <3>2, <3>3 DEF Shows
  <2>2. Rounds' = Rounds
    <3>1. UNCHANGED <<turn, frameCount, up, client>>
      BY <1>3 DEF Shows, DisplayThread, Prepare, Paint, systemVars, serverVars, clientVars
    <3> QED
      BY <3>1, ConnectionsKept
  <2>3. /\ Rounds \in Nat /\ ToDo = 2 * Rounds + ToPaint + Awake
        /\ ToDo' = 2 * Rounds' + ToPaint' + Awake'
    BY <1>0, <1>3 DEF ToDo
  <2>4. /\ Awake \in 0..1 /\ Awake' \in 0..1 /\ Awake' <= Awake
        /\ ~ waiting /\ waiting' => Awake = 1 /\ Awake' = 0
    BY <2>1
  <2> HIDE DEF Rounds, Awake
  <2>5. CASE ToPaint' < ToPaint
    BY <2>1, <2>2, <2>3, <2>4, <2>5, ToDoFalls
  <2>6. CASE ToPaint' = ToPaint /\ ~ waiting /\ waiting'
    BY <2>1, <2>2, <2>3, <2>4, <2>6, ToDoFalls
  <2> QED
    BY <2>1, <2>5, <2>6
<1>4. ASSUME SystemInv, IsFiniteSet(jobs), Elsewhere PROVE IsFiniteSet(jobs') /\ ToDo' <= ToDo + 1
  <2>1. UNCHANGED <<turn, frameCount, up, client, jobs, taken>>
    BY <1>4
    DEF Elsewhere, Environment, clientVars, paintVars, serverVars, listVars, ButtonClick,
        ChangeViewMode, ChangeCamMode, TimePasses, SpuriousWakeup
  <2>2. Rounds' = Rounds /\ ToPaint' = ToPaint /\ IsFiniteSet(jobs')
    BY <1>4, <2>1, ConnectionsKept DEF ToPaint, ToTake
  <2>3. /\ Rounds \in Nat /\ ToPaint \in Nat /\ ToDo = 2 * Rounds + ToPaint + Awake
        /\ ToDo' = 2 * Rounds' + ToPaint' + Awake'
    BY <1>0, <1>4 DEF ToDo
  <2>4. Awake \in 0..1 /\ Awake' \in 0..1
    OBVIOUS
  <2> HIDE DEF Rounds, Awake
  <2> QED
    BY <2>2, <2>3, <2>4, ToDoFalls
<1>5. SystemInv /\ IsFiniteSet(jobs) /\ [SystemNext]_allVars => IsFiniteSet(jobs)'
  BY <1>1, <1>2, <1>3, <1>4 DEF SystemNext, allVars, viewerVars, paintVars
<1>6. ASSUME SystemInv, IsFiniteSet(jobs), SystemNext PROVE GetsOn
  BY <1>0, <1>1, <1>2, <1>3, <1>4, <1>6 DEF GetsOn
<1>7. SystemInit => IsFiniteSet(jobs)
  BY FS_EmptySet DEF SystemInit, ViewerInit
<1>8. SystemInv /\ IsFiniteSet(jobs) /\ [SystemNext]_allVars => [GetsOn]_allVars
  BY <1>6
<1> QED
  BY <1>5, <1>7, <1>8, SystemInvariance, PTL DEF SystemSpec
=============================================================================
