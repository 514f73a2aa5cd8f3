------------------------- MODULE MotionServerProofs -------------------------
(***************************************************************************)
(* The motion server's safety properties for any number of connections and *)
(* of interruptions.  The invariant has two parts: control (where threads  *)
(* are, who holds the mutex, which threads exist) and data (how the time   *)
(* stamps of events and those read for an answer relate).                  *)
(***************************************************************************)
EXTENDS MotionServer, TLAPS

Setup == {"init", "initHeld", "sockets", "start", "startHeld", "createBg"}

\* A thread exists only once main has gone past its creation.
Created ==
  /\ pc["main"] \in Setup => pc["bg"] = "new"
  /\ pc["main"] \in Setup \cup {"createUi"} => pc["ui"] = "new"
  /\ pc["main"] \in Setup \cup {"createUi", "createMotion"} => pc["motion"] = "new"

ControlInv == TypeOK /\ Created /\ HeldByHolder /\ SocketsOutliveMotion

\* Each event is stamped later than the one before, and between two events the
\* camera's time stamp is that of the last.
Events ==
  /\ t_local <= accepted
  /\ pc["motion"] \in {"read", "parse", "stamp"} => t_local < accepted
  /\ pc["motion"] # "stamp" => t_remote = remoteOf[t_local]
  /\ pc["motion"] = "new" => accepted = 0 /\ t_remote = 0

\* A camera's time stamp that a client may be told: of an event registered
\* since the request, or of one that is being registered.
Recent(stamp) ==
  \/ \E n \in fresh..t_local : stamp = remoteOf[n]
  \/ pc["motion"] = "stamp" /\ stamp = t_remote

\* What main has read so far for an answer is no older than the request.
Reading ==
  /\ pc["main"] = "since" => fresh <= t_local /\ l = Unread /\ r = Unread
  /\ pc["main"] = "answer" =>
        /\ fresh <= since /\ since <= t_local
        /\ l # Unread => since <= l
        /\ r # Unread => Recent(r)

DataInv == Events /\ Reading

\* The type invariant in two parts: the threads' places, and all other values.
PlacesOK ==
  /\ pc \in [Threads -> MainSteps \cup BgSteps \cup UiSteps \cup MotionSteps]
  /\ pc["main"] \in MainSteps /\ pc["bg"] \in BgSteps
  /\ pc["ui"] \in UiSteps /\ pc["motion"] \in MotionSteps

ValuesOK ==
  /\ handler \in Threads \cup {Nobody}
  /\ interrupts \in 0..Interrupts
  /\ mutex \in Threads \cup {Nobody, "handler"}
  /\ running \in BOOLEAN /\ quit \in BOOLEAN
  /\ buf \in Notifications
  /\ accepted \in Stamps
  /\ t_remote \in Stamps /\ t_local \in Stamps
  /\ since \in Stamps
  /\ l \in Stamps \cup {Unread} /\ r \in Stamps \cup {Unread}
  /\ remoteOf \in [Stamps -> Stamps]
  /\ fresh \in Stamps

\* Initially no thread exists but main, and no event was registered.
LEMMA InitControl == Init => ControlInv /\ DataInv
<1> SUFFICES ASSUME Init PROVE ControlInv /\ DataInv
  OBVIOUS
<1> USE BoundsAssumption DEF Init, Threads, Nobody
<1>1. TypeOK
  <2>1. remoteOf \in [Stamps -> Stamps] /\ 0 \in Stamps
    BY DEF Stamps
  <2>2. PlacesOK
    BY DEF PlacesOK, MainSteps, BgSteps, UiSteps, MotionSteps
  <2>3. buf \in Notifications
    BY <2>1 DEF Requests, Notifications
  <2>4. ValuesOK
    <3>1. interrupts \in 0..Interrupts
      OBVIOUS
    <3>2. /\ accepted \in Stamps /\ t_remote \in Stamps /\ t_local \in Stamps
          /\ since \in Stamps /\ fresh \in Stamps
          /\ l \in Stamps \cup {Unread} /\ r \in Stamps \cup {Unread}
      BY <2>1
    <3>3. /\ handler \in Threads \cup {Nobody} /\ mutex \in Threads \cup {Nobody, "handler"}
          /\ running \in BOOLEAN /\ quit \in BOOLEAN
      OBVIOUS
    <3> QED
      BY <2>1, <2>3, <3>1, <3>2, <3>3 DEF ValuesOK
  <2> QED
    BY <2>1, <2>2, <2>3, <2>4 DEF TypeOK, PlacesOK, ValuesOK
<1>2. Created /\ HeldByHolder /\ SocketsOutliveMotion
  BY DEF Created, HeldByHolder, SocketsOutliveMotion, Setup
<1>3. DataInv
  BY DEF DataInv, Events, Reading, Stamps
<1> QED
  BY <1>1, <1>2, <1>3 DEF ControlInv

\* A step of main preserves the control part: it creates each thread once, in
\* order, and closes the sockets after joining the motion thread or before
\* creating it.
LEMMA MainControl == ControlInv /\ Main => ControlInv'
<1> SUFFICES ASSUME ControlInv, Main PROVE ControlInv'
  OBVIOUS
<1> USE BoundsAssumption
    DEF ControlInv, At, Go, Threads, Nobody,
        threadVars, eventVars, answerVars
<1>1. CASE Lock("main", "init", "initHeld")
  <2>1. TypeOK'
    BY <1>1 DEF Lock, TypeOK, MainSteps, BgSteps, UiSteps, MotionSteps
  <2>2. Created' /\ SocketsOutliveMotion'
    BY <1>1 DEF Lock, TypeOK, Created, SocketsOutliveMotion, Setup
  <2>3. HeldByHolder'
    BY <1>1 DEF Lock, TypeOK, HeldByHolder, Created, Setup
  <2> QED
    BY <2>1, <2>2, <2>3
<1>2. CASE InitGlobalState
  <2>1. TypeOK'
    <3>1. PlacesOK'
      BY <1>2 DEF InitGlobalState, TypeOK, MainSteps, BgSteps, UiSteps, MotionSteps, PlacesOK
    <3>0. 0 \in Stamps
      BY DEF Stamps
    <3>2. ValuesOK'
      BY <1>2, <3>0 DEF InitGlobalState, TypeOK, ValuesOK
    <3> QED
      BY <3>1, <3>2 DEF PlacesOK, ValuesOK, TypeOK
  <2>2. Created' /\ SocketsOutliveMotion'
    BY <1>2 DEF InitGlobalState, TypeOK, Created, SocketsOutliveMotion, Setup
  <2>3. HeldByHolder'
    BY <1>2 DEF InitGlobalState, TypeOK, HeldByHolder, Created, Setup
  <2> QED
    BY <2>1, <2>2, <2>3
<1>3. CASE CreateSockets
  <2>1. TypeOK'
    BY <1>3 DEF CreateSockets, TypeOK, MainSteps, BgSteps, UiSteps, MotionSteps
  <2>2. Created' /\ SocketsOutliveMotion'
    BY <1>3 DEF CreateSockets, TypeOK, Created, SocketsOutliveMotion, Setup
  <2>3. HeldByHolder'
    BY <1>3 DEF CreateSockets, TypeOK, HeldByHolder, Created, Setup
  <2> QED
    BY <2>1, <2>2, <2>3
<1>4. CASE Lock("main", "start", "startHeld")
  <2>1. TypeOK'
    BY <1>4 DEF Lock, TypeOK, MainSteps, BgSteps, UiSteps, MotionSteps
  <2>2. Created' /\ SocketsOutliveMotion'
    BY <1>4 DEF Lock, TypeOK, Created, SocketsOutliveMotion, Setup
  <2>3. HeldByHolder'
    BY <1>4 DEF Lock, TypeOK, HeldByHolder, Created, Setup
  <2> QED
    BY <2>1, <2>2, <2>3
<1>5. CASE StartRunning
  <2>1. TypeOK'
    BY <1>5 DEF StartRunning, TypeOK, MainSteps, BgSteps, UiSteps, MotionSteps
  <2>2. Created' /\ SocketsOutliveMotion'
    BY <1>5 DEF StartRunning, TypeOK, Created, SocketsOutliveMotion, Setup
  <2>3. HeldByHolder'
    BY <1>5 DEF StartRunning, TypeOK, HeldByHolder, Created, Setup
  <2> QED
    BY <2>1, <2>2, <2>3
<1>6. CASE CreateThread("bg", "createBg", "createUi")
  <2>1. TypeOK'
    <3>1. PlacesOK'
      BY <1>6 DEF CreateThread, TypeOK, MainSteps, BgSteps, UiSteps, MotionSteps, PlacesOK
    <3>2. ValuesOK'
      BY <1>6 DEF CreateThread, TypeOK, ValuesOK
    <3> QED
      BY <3>1, <3>2 DEF PlacesOK, ValuesOK, TypeOK
  <2>2. Created' /\ SocketsOutliveMotion'
    BY <1>6 DEF CreateThread, TypeOK, Created, SocketsOutliveMotion, Setup
  <2>3. HeldByHolder'
    BY <1>6 DEF CreateThread, TypeOK, HeldByHolder, Created, Setup
  <2> QED
    BY <2>1, <2>2, <2>3
<1>7. CASE CreateThread("ui", "createUi", "createMotion")
  <2>1. TypeOK'
    <3>1. PlacesOK'
      BY <1>7 DEF CreateThread, TypeOK, MainSteps, BgSteps, UiSteps, MotionSteps, PlacesOK
    <3>2. ValuesOK'
      BY <1>7 DEF CreateThread, TypeOK, ValuesOK
    <3> QED
      BY <3>1, <3>2 DEF PlacesOK, ValuesOK, TypeOK
  <2>2. Created' /\ SocketsOutliveMotion'
    BY <1>7 DEF CreateThread, TypeOK, Created, SocketsOutliveMotion, Setup
  <2>3. HeldByHolder'
    BY <1>7 DEF CreateThread, TypeOK, HeldByHolder, Created, Setup
  <2> QED
    BY <2>1, <2>2, <2>3
<1>8. CASE CreateThread("motion", "createMotion", "poll")
  <2>1. TypeOK'
    <3>1. PlacesOK'
      BY <1>8 DEF CreateThread, TypeOK, MainSteps, BgSteps, UiSteps, MotionSteps, PlacesOK
    <3>2. ValuesOK'
      BY <1>8 DEF CreateThread, TypeOK, ValuesOK
    <3> QED
      BY <3>1, <3>2 DEF PlacesOK, ValuesOK, TypeOK
  <2>2. Created' /\ SocketsOutliveMotion'
    BY <1>8 DEF CreateThread, TypeOK, Created, SocketsOutliveMotion, Setup
  <2>3. HeldByHolder'
    BY <1>8 DEF CreateThread, TypeOK, HeldByHolder, Created, Setup
  <2> QED
    BY <2>1, <2>2, <2>3
<1>9. CASE PollClients
  <2>1. TypeOK'
    BY <1>9 DEF PollClients, TypeOK, MainSteps, BgSteps, UiSteps, MotionSteps
  <2>2. Created' /\ SocketsOutliveMotion'
    BY <1>9 DEF PollClients, TypeOK, Created, SocketsOutliveMotion, Setup
  <2>3. HeldByHolder'
    BY <1>9 DEF PollClients, TypeOK, HeldByHolder, Created, Setup
  <2> QED
    BY <2>1, <2>2, <2>3
<1>10. CASE ReadRequest
  <2>1. TypeOK'
    <3>1. PlacesOK'
      BY <1>10 DEF ReadRequest, TypeOK, MainSteps, BgSteps, UiSteps, MotionSteps, PlacesOK
    <3>2. ValuesOK'
      BY <1>10 DEF ReadRequest, TypeOK, ValuesOK
    <3> QED
      BY <3>1, <3>2 DEF PlacesOK, ValuesOK, TypeOK
  <2>2. Created' /\ SocketsOutliveMotion'
    BY <1>10 DEF ReadRequest, TypeOK, Created, SocketsOutliveMotion, Setup
  <2>3. HeldByHolder'
    BY <1>10 DEF ReadRequest, TypeOK, HeldByHolder, Created, Setup
  <2> QED
    BY <2>1, <2>2, <2>3
<1>11. CASE ReadSince
  <2>1. TypeOK'
    BY <1>11 DEF ReadSince, TypeOK, MainSteps, BgSteps, UiSteps, MotionSteps
  <2>2. Created' /\ SocketsOutliveMotion'
    BY <1>11 DEF ReadSince, TypeOK, Created, SocketsOutliveMotion, Setup
  <2>3. HeldByHolder'
    BY <1>11 DEF ReadSince, TypeOK, HeldByHolder, Created, Setup
  <2> QED
    BY <2>1, <2>2, <2>3
<1>12. CASE ReadPair
  <2>1. TypeOK'
    <3>1. PlacesOK'
      BY <1>12 DEF ReadPair, TypeOK, MainSteps, BgSteps, UiSteps, MotionSteps, PlacesOK
    <3>2. ValuesOK'
      BY <1>12 DEF ReadPair, TypeOK, ValuesOK
    <3> QED
      BY <3>1, <3>2 DEF PlacesOK, ValuesOK, TypeOK
  <2>2. Created' /\ SocketsOutliveMotion'
    BY <1>12 DEF ReadPair, TypeOK, Created, SocketsOutliveMotion, Setup
  <2>3. HeldByHolder'
    BY <1>12 DEF ReadPair, TypeOK, HeldByHolder, Created, Setup
  <2> QED
    BY <2>1, <2>2, <2>3
<1>13. CASE Answer
  <2>1. TypeOK'
    <3>1. PlacesOK'
      BY <1>13 DEF Answer, TypeOK, MainSteps, BgSteps, UiSteps, MotionSteps, PlacesOK
    <3>2. ValuesOK'
      <4>1. 0 \in Stamps
        BY BoundsAssumption DEF Stamps
      <4> QED
        BY <1>13, <4>1 DEF Answer, TypeOK, ValuesOK, eventVars
    <3> QED
      BY <3>1, <3>2 DEF PlacesOK, ValuesOK, TypeOK
  <2>2. Created' /\ SocketsOutliveMotion'
    BY <1>13 DEF Answer, TypeOK, Created, SocketsOutliveMotion, Setup
  <2>3. HeldByHolder'
    BY <1>13 DEF Answer, TypeOK, HeldByHolder, Created, Setup
  <2> QED
    BY <2>1, <2>2, <2>3
<1>14. CASE Join("bg", "joinBg", "joinMotion")
  <2>1. TypeOK'
    BY <1>14 DEF Join, TypeOK, MainSteps, BgSteps, UiSteps, MotionSteps
  <2>2. Created' /\ SocketsOutliveMotion'
    BY <1>14 DEF Join, TypeOK, Created, SocketsOutliveMotion, Setup
  <2>3. HeldByHolder'
    BY <1>14 DEF Join, TypeOK, HeldByHolder, Created, Setup
  <2> QED
    BY <2>1, <2>2, <2>3
<1>15. CASE Join("motion", "joinMotion", "close")
  <2>1. TypeOK'
    BY <1>15 DEF Join, TypeOK, MainSteps, BgSteps, UiSteps, MotionSteps
  <2>2. Created' /\ SocketsOutliveMotion'
    BY <1>15 DEF Join, TypeOK, Created, SocketsOutliveMotion, Setup
  <2>3. HeldByHolder'
    BY <1>15 DEF Join, TypeOK, HeldByHolder, Created, Setup
  <2> QED
    BY <2>1, <2>2, <2>3
<1>16. CASE CloseSockets
  <2>1. TypeOK'
    BY <1>16 DEF CloseSockets, TypeOK, MainSteps, BgSteps, UiSteps, MotionSteps
  <2>2. Created' /\ SocketsOutliveMotion'
    BY <1>16 DEF CloseSockets, TypeOK, Created, SocketsOutliveMotion, Setup
  <2>3. HeldByHolder'
    BY <1>16 DEF CloseSockets, TypeOK, HeldByHolder, Created, Setup
  <2> QED
    BY <2>1, <2>2, <2>3
<1> QED
  BY <1>1, <1>2, <1>3, <1>4, <1>5, <1>6, <1>7, <1>8, <1>9, <1>10, <1>11, <1>12, <1>13, <1>14,
     <1>15, <1>16 DEF Main

\* A step of bg preserves the control part.
LEMMA BgControl == ControlInv /\ Bg => ControlInv'
<1> SUFFICES ASSUME ControlInv, Bg PROVE ControlInv'
  OBVIOUS
<1> USE BoundsAssumption
    DEF ControlInv, At, Go, Threads, Nobody,
        threadVars, eventVars, answerVars
<1>1. CASE Test("bg", "lock")
  <2>1. TypeOK'
    BY <1>1 DEF Test, TypeOK, MainSteps, BgSteps, UiSteps, MotionSteps
  <2>2. Created' /\ SocketsOutliveMotion'
    BY <1>1 DEF Test, TypeOK, Created, SocketsOutliveMotion, Setup
  <2>3. HeldByHolder'
    BY <1>1 DEF Test, TypeOK, HeldByHolder, Created, Setup
  <2> QED
    BY <2>1, <2>2, <2>3
<1>2. CASE Lock("bg", "lock", "held")
  <2>1. TypeOK'
    BY <1>2 DEF Lock, TypeOK, MainSteps, BgSteps, UiSteps, MotionSteps
  <2>2. Created' /\ SocketsOutliveMotion'
    BY <1>2 DEF Lock, TypeOK, Created, SocketsOutliveMotion, Setup
  <2>3. HeldByHolder'
    BY <1>2 DEF Lock, TypeOK, HeldByHolder, Created, Setup
  <2> QED
    BY <2>1, <2>2, <2>3
<1>3. CASE BgWait
  <2>1. TypeOK'
    BY <1>3 DEF BgWait, TypeOK, MainSteps, BgSteps, UiSteps, MotionSteps
  <2>2. Created' /\ SocketsOutliveMotion'
    BY <1>3 DEF BgWait, TypeOK, Created, SocketsOutliveMotion, Setup
  <2>3. HeldByHolder'
    BY <1>3 DEF BgWait, TypeOK, HeldByHolder, Created, Setup
  <2> QED
    BY <2>1, <2>2, <2>3
<1>4. CASE Lock("bg", "woken", "wokenHeld")
  <2>1. TypeOK'
    BY <1>4 DEF Lock, TypeOK, MainSteps, BgSteps, UiSteps, MotionSteps
  <2>2. Created' /\ SocketsOutliveMotion'
    BY <1>4 DEF Lock, TypeOK, Created, SocketsOutliveMotion, Setup
  <2>3. HeldByHolder'
    BY <1>4 DEF Lock, TypeOK, HeldByHolder, Created, Setup
  <2> QED
    BY <2>1, <2>2, <2>3
<1>5. CASE BgUnlock
  <2>1. TypeOK'
    BY <1>5 DEF BgUnlock, TypeOK, MainSteps, BgSteps, UiSteps, MotionSteps
  <2>2. Created' /\ SocketsOutliveMotion'
    BY <1>5 DEF BgUnlock, TypeOK, Created, SocketsOutliveMotion, Setup
  <2>3. HeldByHolder'
    BY <1>5 DEF BgUnlock, TypeOK, HeldByHolder, Created, Setup
  <2> QED
    BY <2>1, <2>2, <2>3
<1> QED
  BY <1>1, <1>2, <1>3, <1>4, <1>5 DEF Bg

\* A step of ui preserves the control part.
LEMMA UiControl == ControlInv /\ Ui => ControlInv'
<1> SUFFICES ASSUME ControlInv, Ui PROVE ControlInv'
  OBVIOUS
<1> USE BoundsAssumption
    DEF ControlInv, At, Go, Threads, Nobody,
        threadVars, eventVars, answerVars
<1>1. CASE Test("ui", "char")
  <2>1. TypeOK'
    BY <1>1 DEF Test, TypeOK, MainSteps, BgSteps, UiSteps, MotionSteps
  <2>2. Created' /\ SocketsOutliveMotion'
    BY <1>1 DEF Test, TypeOK, Created, SocketsOutliveMotion, Setup
  <2>3. HeldByHolder'
    BY <1>1 DEF Test, TypeOK, HeldByHolder, Created, Setup
  <2> QED
    BY <2>1, <2>2, <2>3
<1>2. CASE UiCommand
  <2>1. TypeOK'
    BY <1>2 DEF UiCommand, TypeOK, MainSteps, BgSteps, UiSteps, MotionSteps
  <2>2. Created' /\ SocketsOutliveMotion'
    BY <1>2 DEF UiCommand, TypeOK, Created, SocketsOutliveMotion, Setup
  <2>3. HeldByHolder'
    BY <1>2 DEF UiCommand, TypeOK, HeldByHolder, Created, Setup
  <2> QED
    BY <2>1, <2>2, <2>3
<1>3. CASE Lock("ui", "quit", "quitHeld")
  <2>1. TypeOK'
    BY <1>3 DEF Lock, TypeOK, MainSteps, BgSteps, UiSteps, MotionSteps
  <2>2. Created' /\ SocketsOutliveMotion'
    BY <1>3 DEF Lock, TypeOK, Created, SocketsOutliveMotion, Setup
  <2>3. HeldByHolder'
    BY <1>3 DEF Lock, TypeOK, HeldByHolder, Created, Setup
  <2> QED
    BY <2>1, <2>2, <2>3
<1>4. CASE UiQuit
  <2>1. TypeOK'
    BY <1>4 DEF UiQuit, DoQuit, Broadcast, TypeOK, MainSteps, BgSteps, UiSteps, MotionSteps
  <2>2. Created' /\ SocketsOutliveMotion'
    BY <1>4 DEF UiQuit, DoQuit, Broadcast, TypeOK, Created, SocketsOutliveMotion, Setup
  <2>3. HeldByHolder'
    BY <1>4 DEF UiQuit, DoQuit, Broadcast, TypeOK, HeldByHolder, Created, Setup
  <2> QED
    BY <2>1, <2>2, <2>3
<1>5. CASE Lock("ui", "nudge", "nudgeHeld")
  <2>1. TypeOK'
    BY <1>5 DEF Lock, TypeOK, MainSteps, BgSteps, UiSteps, MotionSteps
  <2>2. Created' /\ SocketsOutliveMotion'
    BY <1>5 DEF Lock, TypeOK, Created, SocketsOutliveMotion, Setup
  <2>3. HeldByHolder'
    BY <1>5 DEF Lock, TypeOK, HeldByHolder, Created, Setup
  <2> QED
    BY <2>1, <2>2, <2>3
<1>6. CASE UiNudge
  <2>1. TypeOK'
    BY <1>6 DEF UiNudge, Broadcast, TypeOK, MainSteps, BgSteps, UiSteps, MotionSteps
  <2>2. Created' /\ SocketsOutliveMotion'
    BY <1>6 DEF UiNudge, Broadcast, TypeOK, Created, SocketsOutliveMotion, Setup
  <2>3. HeldByHolder'
    BY <1>6 DEF UiNudge, Broadcast, TypeOK, HeldByHolder, Created, Setup
  <2> QED
    BY <2>1, <2>2, <2>3
<1> QED
  BY <1>1, <1>2, <1>3, <1>4, <1>5, <1>6 DEF Ui

\* A step of the motion thread preserves the control part: it never holds the
\* mutex.
LEMMA MotionControl == ControlInv /\ Motion => ControlInv'
<1> SUFFICES ASSUME ControlInv, Motion PROVE ControlInv'
  OBVIOUS
<1> USE BoundsAssumption
    DEF ControlInv, At, Go, Threads, Nobody,
        threadVars, eventVars, answerVars
<1>1. CASE PollMotion
  <2>1. TypeOK'
    <3>1. PlacesOK'
      BY <1>1 DEF PollMotion, TypeOK, MainSteps, BgSteps, UiSteps, MotionSteps, PlacesOK
    <3>0. accepted' \in Stamps
      <4>1. accepted \in Stamps
        BY DEF TypeOK
      <4>2. accepted' = accepted \/ (accepted < Connections /\ accepted' = accepted + 1)
        BY <1>1 DEF PollMotion
      <4> QED
        BY <4>1, <4>2 DEF Stamps
    <3>2. ValuesOK'
      BY <1>1, <3>0 DEF PollMotion, TypeOK, ValuesOK
    <3> QED
      BY <3>1, <3>2 DEF PlacesOK, ValuesOK, TypeOK
  <2>2. Created' /\ SocketsOutliveMotion'
    BY <1>1 DEF PollMotion, TypeOK, Created, SocketsOutliveMotion, Setup
  <2>3. HeldByHolder'
    BY <1>1 DEF PollMotion, TypeOK, HeldByHolder, Created, Setup
  <2> QED
    BY <2>1, <2>2, <2>3
<1>2. CASE ReadNotification
  <2>1. TypeOK'
    BY <1>2 DEF ReadNotification, TypeOK, MainSteps, BgSteps, UiSteps, MotionSteps,
       Notifications, Requests, Stamps
  <2>2. Created' /\ SocketsOutliveMotion'
    BY <1>2 DEF ReadNotification, TypeOK, Created, SocketsOutliveMotion, Setup
  <2>3. HeldByHolder'
    BY <1>2 DEF ReadNotification, TypeOK, HeldByHolder, Created, Setup
  <2> QED
    BY <2>1, <2>2, <2>3
<1>3. CASE ParseNotification
  <2>1. TypeOK'
    <3>1. PlacesOK'
      BY <1>3 DEF ParseNotification, IsMotion, TypeOK, MainSteps, BgSteps, UiSteps, MotionSteps,
         PlacesOK
    <3>2. ValuesOK'
      BY <1>3 DEF ParseNotification, IsMotion, TypeOK, ValuesOK, Notifications, Stamps
    <3> QED
      BY <3>1, <3>2 DEF PlacesOK, ValuesOK, TypeOK
  <2>2. Created' /\ SocketsOutliveMotion'
    BY <1>3 DEF ParseNotification, IsMotion, TypeOK, Created, SocketsOutliveMotion, Setup
  <2>3. HeldByHolder'
    BY <1>3 DEF ParseNotification, IsMotion, TypeOK, HeldByHolder, Created, Setup
  <2> QED
    BY <2>1, <2>2, <2>3
<1>4. CASE StampEvent
  <2>1. TypeOK'
    BY <1>4 DEF StampEvent, TypeOK, MainSteps, BgSteps, UiSteps, MotionSteps
  <2>2. Created' /\ SocketsOutliveMotion'
    BY <1>4 DEF StampEvent, TypeOK, Created, SocketsOutliveMotion, Setup
  <2>3. HeldByHolder'
    BY <1>4 DEF StampEvent, TypeOK, HeldByHolder, Created, Setup
  <2> QED
    BY <2>1, <2>2, <2>3
<1> QED
  BY <1>1, <1>2, <1>3, <1>4 DEF Motion

\* So do Ctrl-C, the handler it starts, a spurious wakeup of bg, and the failure
\* of a call of the motion thread.
LEMMA EnvironmentControl ==
  ASSUME ControlInv,
         BgSpuriousWakeup \/ MotionFails \/ Handler \/ \E t \in Threads : Interrupt(t)
  PROVE  ControlInv'
<1> USE BoundsAssumption
    DEF ControlInv, At, Go, Threads, Nobody,
        threadVars, eventVars, answerVars
<1>1. CASE BgSpuriousWakeup
  <2>1. TypeOK'
    BY <1>1 DEF BgSpuriousWakeup, TypeOK, MainSteps, BgSteps, UiSteps, MotionSteps
  <2>2. Created' /\ SocketsOutliveMotion'
    BY <1>1 DEF BgSpuriousWakeup, TypeOK, Created, SocketsOutliveMotion, Setup
  <2>3. HeldByHolder'
    BY <1>1 DEF BgSpuriousWakeup, TypeOK, HeldByHolder, Created, Setup
  <2> QED
    BY <2>1, <2>2, <2>3
<1>2. CASE MotionFails
  <2>1. TypeOK'
    BY <1>2 DEF MotionFails, TypeOK, MainSteps, BgSteps, UiSteps, MotionSteps
  <2>2. Created' /\ SocketsOutliveMotion'
    BY <1>2 DEF MotionFails, TypeOK, Created, SocketsOutliveMotion, Setup
  <2>3. HeldByHolder'
    BY <1>2 DEF MotionFails, TypeOK, HeldByHolder, Created, Setup
  <2> QED
    BY <2>1, <2>2, <2>3
<1>3. CASE HandlerLock
  <2>1. TypeOK'
    BY <1>3 DEF HandlerLock, TypeOK, MainSteps, BgSteps, UiSteps, MotionSteps
  <2>2. Created' /\ SocketsOutliveMotion'
    BY <1>3 DEF HandlerLock, TypeOK, Created, SocketsOutliveMotion, Setup
  <2>3. HeldByHolder'
    BY <1>3 DEF HandlerLock, TypeOK, HeldByHolder, Created, Setup
  <2> QED
    BY <2>1, <2>2, <2>3
<1>4. CASE HandlerQuit
  <2>1. TypeOK'
    BY <1>4 DEF HandlerQuit, DoQuit, Broadcast, TypeOK, MainSteps, BgSteps, UiSteps, MotionSteps
  <2>2. Created' /\ SocketsOutliveMotion'
    BY <1>4 DEF HandlerQuit, DoQuit, Broadcast, TypeOK, Created, SocketsOutliveMotion, Setup
  <2>3. HeldByHolder'
    BY <1>4 DEF HandlerQuit, DoQuit, Broadcast, TypeOK, HeldByHolder, Created, Setup
  <2> QED
    BY <2>1, <2>2, <2>3
<1>5. ASSUME NEW t \in Threads, Interrupt(t) PROVE ControlInv'
  <2>1. TypeOK'
    BY <1>5 DEF Interrupt, TypeOK, MainSteps, BgSteps, UiSteps, MotionSteps
  <2>2. Created' /\ SocketsOutliveMotion'
    BY <1>5 DEF Interrupt, TypeOK, Created, SocketsOutliveMotion, Setup
  <2>3. HeldByHolder'
    BY <1>5 DEF Interrupt, TypeOK, HeldByHolder, Created, Setup
  <2> QED
    BY <2>1, <2>2, <2>3
<1> QED
  BY <1>1, <1>2, <1>3, <1>4, <1>5 DEF Handler

\* Every step preserves the control part.
LEMMA NextControl == ControlInv /\ [Next]_vars => ControlInv'
<1> SUFFICES ASSUME ControlInv, [Next]_vars PROVE ControlInv'
  OBVIOUS
<1>1. CASE UNCHANGED vars
  BY <1>1 DEF vars, threadVars, eventVars, answerVars, ControlInv, TypeOK, Created,
     HeldByHolder, SocketsOutliveMotion
<1> QED
  BY <1>1, MainControl, BgControl, UiControl, MotionControl, EnvironmentControl
  DEF Next, MainRuns, BgRuns, UiRuns, MotionRuns, HandlerRuns

\* A step that changes no time stamp and takes neither main nor the motion thread
\* to a place where one matters preserves the data part.
LEMMA SameData ==
  ASSUME DataInv, UNCHANGED <<eventVars, answerVars>>,
         pc'["main"] \in {"since", "answer"} => pc'["main"] = pc["main"],
         \/ pc'["motion"] = pc["motion"]
         \/ /\ pc["motion"] \in {"new", "poll", "read", "parse"}
            /\ pc'["motion"] \in {"poll", "parse", "done"}
              /\ (pc'["motion"] = "parse" => pc["motion"] = "read")
  PROVE  DataInv'
<1>1. Events'
  BY DEF DataInv, Events, eventVars
<1>2. Reading'
  BY DEF DataInv, Reading, Recent, eventVars, answerVars
<1> QED
  BY <1>1, <1>2 DEF DataInv

\* Reading t_local and t_remote for an answer, in either order, while events are
\* registered: what is read is of now, and so not older than the request.
LEMMA ReadingData ==
  ASSUME ControlInv, DataInv, ReadRequest \/ ReadSince \/ ReadPair \/ Answer
  PROVE  DataInv'
<1>1. /\ t_local \in Nat /\ fresh \in Nat /\ since \in Nat
      /\ Unread \in Nat /\ t_local < Unread
      /\ pc \in [Threads -> MainSteps \cup BgSteps \cup UiSteps \cup MotionSteps]
  BY BoundsAssumption DEF ControlInv, TypeOK, Stamps, Unread
<1>2. UNCHANGED eventVars /\ pc'["motion"] = pc["motion"] /\ Events'
  BY <1>1 DEF DataInv, Events, ReadRequest, ReadSince, ReadPair, Answer, Go, eventVars,
              threadVars, Threads
<1>3. CASE ReadRequest
  BY <1>1, <1>2, <1>3 DEF DataInv, Reading, ReadRequest, At, Go, Threads, eventVars
<1>4. CASE ReadSince
  BY <1>1, <1>2, <1>4 DEF DataInv, Reading, ReadSince, At, Go, Threads, eventVars
<1>5. CASE ReadPair
  <2>1. /\ pc' = pc /\ pc["main"] = "answer" /\ UNCHANGED <<since, fresh>>
        /\ fresh <= since /\ since <= t_local /\ fresh <= t_local
    BY <1>1, <1>5 DEF DataInv, Reading, ReadPair, At, threadVars
  <2>2. UNCHANGED <<pc, t_local, t_remote, remoteOf, since, fresh>>
    BY <1>2, <2>1 DEF eventVars
  <2>3. CASE l = Unread /\ l' = t_local /\ UNCHANGED r
    BY <1>1, <1>2, <2>1, <2>2, <2>3 DEF DataInv, Reading, Recent, eventVars
  <2>4. CASE r = Unread /\ r' = t_remote /\ UNCHANGED l
    <3>1. Recent(r)'
      <4>1. pc["motion"] # "stamp" => t_remote = remoteOf[t_local]
        BY DEF DataInv, Events
      <4>2. t_local \in fresh..t_local
        BY <1>1, <2>1
      <4> QED
        BY <2>2, <2>4, <4>1, <4>2 DEF Recent
    <3> QED
      BY <1>1, <1>2, <2>1, <2>4, <3>1 DEF DataInv, Reading, eventVars
  <2> QED
    BY <1>2, <1>5, <2>3, <2>4 DEF ReadPair, DataInv
<1>6. CASE Answer
  BY <1>1, <1>2, <1>6 DEF DataInv, Reading, Answer, At, Go, Threads
<1> QED
  BY <1>2, <1>3, <1>4, <1>5, <1>6 DEF DataInv

\* Registering events: the local time only grows, and main, if it is making an
\* answer meanwhile, finds the old or the new time stamps.
LEMMA MotionData == ControlInv /\ DataInv /\ Motion => DataInv'
<1> SUFFICES ASSUME ControlInv, DataInv, Motion PROVE DataInv'
  OBVIOUS
<1>1. /\ t_local \in Nat /\ fresh \in Nat /\ since \in Nat /\ accepted \in Nat
      /\ remoteOf \in [Stamps -> Stamps] /\ t_local \in Stamps /\ accepted \in Stamps
      /\ pc \in [Threads -> MainSteps \cup BgSteps \cup UiSteps \cup MotionSteps]
  BY BoundsAssumption DEF ControlInv, TypeOK, Stamps
<1>2. CASE PollMotion
  <2>1. /\ UNCHANGED <<t_remote, t_local, remoteOf, answerVars>>
        /\ pc'["main"] = pc["main"] /\ pc["motion"] = "poll"
        /\ pc'["motion"] \in {"read", "done"}
        /\ accepted' = accepted \/ accepted' = accepted + 1
        /\ pc'["motion"] = "read" => accepted' = accepted + 1
    BY <1>1, <1>2 DEF PollMotion, At, Go, Threads
  <2>2. Events'
    BY <1>1, <2>1 DEF DataInv, Events
  <2>3. Reading'
    BY <2>1 DEF DataInv, Reading, Recent, answerVars
  <2> QED
    BY <2>2, <2>3 DEF DataInv
<1>3. CASE ReadNotification
  <2>1. /\ UNCHANGED <<accepted, t_remote, t_local, remoteOf, answerVars>>
        /\ pc'["main"] = pc["main"] /\ pc["motion"] = "read" /\ pc'["motion"] = "parse"
    BY <1>1, <1>3 DEF ReadNotification, At, Go, Threads
  <2> QED
    BY <2>1 DEF DataInv, Events, Reading, Recent, answerVars
<1>4. CASE ParseNotification
  <2>1. /\ UNCHANGED <<accepted, t_local, remoteOf, answerVars>>
        /\ pc'["main"] = pc["main"] /\ pc["motion"] = "parse"
        /\ \/ pc'["motion"] = "stamp"
           \/ pc'["motion"] = "poll" /\ t_remote' = t_remote
    BY <1>1, <1>4 DEF ParseNotification, At, Go, Threads
  <2>2. Events'
    BY <2>1 DEF DataInv, Events
  <2>3. Reading'
    BY <2>1 DEF DataInv, Reading, Recent, answerVars
  <2> QED
    BY <2>2, <2>3 DEF DataInv
<1>5. CASE StampEvent
  <2>1. /\ UNCHANGED <<accepted, t_remote, answerVars>>
        /\ t_local' = accepted /\ t_local < accepted
        /\ pc'["main"] = pc["main"] /\ pc["motion"] = "stamp" /\ pc'["motion"] = "poll"
        /\ remoteOf' = [remoteOf EXCEPT ![accepted] = t_remote]
    BY <1>1, <1>5 DEF StampEvent, At, Go, Threads, DataInv, Events
  <2>2. /\ remoteOf'[accepted] = t_remote
        /\ \A n \in 0..t_local : remoteOf'[n] = remoteOf[n]
    BY <1>1, <2>1, BoundsAssumption DEF Stamps
  <2>3. Events'
    BY <1>1, <2>1, <2>2 DEF Events
  <2>4. ASSUME pc["main"] = "answer", Recent(r) PROVE Recent(r)'
    <3>1. fresh <= t_local
      BY <1>1, <2>4 DEF DataInv, Reading
    <3>2. CASE r = t_remote
      BY <1>1, <2>1, <2>2, <3>1, <3>2 DEF Recent, answerVars
    <3>3. CASE \E n \in fresh..t_local : r = remoteOf[n]
      <4>1. PICK n \in fresh..t_local : r = remoteOf[n]
        BY <3>3
      <4>2. n \in fresh'..t_local' /\ r' = remoteOf'[n]
        BY <1>1, <2>1, <2>2, <4>1 DEF answerVars
      <4> QED
        BY <4>2 DEF Recent
    <3> QED
      BY <2>4, <3>2, <3>3 DEF Recent
  <2>5. Reading'
    BY <1>1, <2>1, <2>4 DEF DataInv, Reading, answerVars
  <2> QED
    BY <2>3, <2>5 DEF DataInv
<1> QED
  BY <1>2, <1>3, <1>4, <1>5 DEF Motion

\* Every step preserves the data part.
LEMMA NextData == ControlInv /\ DataInv /\ [Next]_vars => DataInv'
<1> SUFFICES ASSUME ControlInv, DataInv, [Next]_vars PROVE DataInv'
  OBVIOUS
<1>1. pc \in [Threads -> MainSteps \cup BgSteps \cup UiSteps \cup MotionSteps]
  BY DEF ControlInv, TypeOK
<1>2. CASE UNCHANGED vars
  BY <1>2 DEF vars, threadVars, eventVars, answerVars, DataInv, Events, Reading, Recent
<1>3. CASE Main
  <2>1. CASE InitGlobalState
    <3>1. /\ pc["main"] = "initHeld" /\ pc'["main"] = "sockets" /\ pc["motion"] = "new"
          /\ pc'["motion"] = "new" /\ accepted = 0 /\ t_remote = 0 /\ t_local \in Stamps
          /\ t_local <= accepted
      BY <1>1, <2>1 DEF InitGlobalState, At, Go, Threads, DataInv, Events, ControlInv, TypeOK,
                        Created, Setup
    <3>2. t_local = 0 /\ t_remote = remoteOf[t_local]
      BY <3>1, BoundsAssumption DEF Stamps, DataInv, Events
    <3> QED
      BY <2>1, <3>1, <3>2 DEF InitGlobalState, DataInv, Events, Reading
  <2>2. CASE ReadRequest \/ ReadSince \/ ReadPair \/ Answer
    BY <2>2, ReadingData
  <2>3. CASE CreateThread("motion", "createMotion", "poll")
    <3>1. pc["motion"] = "new"
      BY <1>1, <2>3 DEF CreateThread, At, ControlInv, Created
    <3> QED
      BY <1>1, <2>3, <3>1, SameData DEF CreateThread, At, Go, Threads
  <2>4. CASE CreateThread("bg", "createBg", "createUi")
             \/ CreateThread("ui", "createUi", "createMotion")
    BY <1>1, <2>4, SameData DEF CreateThread, At, Go, Threads
  <2>5. CASE Lock("main", "init", "initHeld") \/ Lock("main", "start", "startHeld")
             \/ StartRunning \/ CreateSockets \/ CloseSockets
    BY <1>1, <2>5, SameData DEF Lock, StartRunning, CreateSockets, CloseSockets, At, Go, Threads
  <2>6. CASE PollClients \/ Join("bg", "joinBg", "joinMotion")
             \/ Join("motion", "joinMotion", "close")
    BY <1>1, <2>6, SameData DEF PollClients, Join, At, Go, Threads
  <2> QED
    BY <1>3, <2>1, <2>2, <2>3, <2>4, <2>5, <2>6 DEF Main
<1>4. CASE Bg \/ BgSpuriousWakeup
  BY <1>1, <1>4, SameData DEF Bg, BgSpuriousWakeup, Test, Lock, BgWait, BgUnlock, At, Go, Threads
<1>5. CASE Ui
  BY <1>1, <1>5, SameData DEF Ui, Test, UiCommand, Lock, UiQuit, UiNudge, DoQuit, Broadcast,
     At, Go, Threads
<1>6. CASE Motion
  BY <1>6, MotionData
<1>7. CASE MotionFails
  BY <1>1, <1>7, SameData DEF MotionFails, Go, Threads
<1>8. CASE Handler \/ \E t \in Threads : Interrupt(t)
  BY <1>1, <1>8, SameData DEF Handler, HandlerLock, HandlerQuit, Interrupt, DoQuit, Broadcast,
     Threads
<1> QED
  BY <1>2, <1>3, <1>4, <1>5, <1>6, <1>7, <1>8
  DEF Next, MainRuns, BgRuns, UiRuns, MotionRuns, HandlerRuns

\* Both parts hold in every state of every behaviour.
THEOREM MotionInvariance == Spec => [](ControlInv /\ DataInv)
<1>1. Init => ControlInv /\ DataInv
  BY InitControl
<1>2. (ControlInv /\ DataInv) /\ [Next]_vars => (ControlInv /\ DataInv)'
  BY NextControl, NextData
<1> QED
  BY <1>1, <1>2, PTL DEF Spec

\* Type correctness of the motion server.
THEOREM MotionTypes == Spec => []TypeOK
<1>1. ControlInv /\ DataInv => TypeOK
  BY DEF ControlInv
<1> QED
  BY <1>1, MotionInvariance, PTL

\* global_mutex is held by a thread exactly between its lock and its unlock or
\* wait, and by the handler only while one runs.
THEOREM MutexHeld == Spec => []HeldByHolder
<1>1. ControlInv /\ DataInv => HeldByHolder
  BY DEF ControlInv
<1> QED
  BY <1>1, MotionInvariance, PTL

\* serve_client never answers with an event older than its request found.
THEOREM FreshAnswers == Spec => []AnswersAreFresh
<1>1. ControlInv /\ DataInv => AnswersAreFresh
  BY DEF DataInv, Reading, Recent, AnswersAreFresh
<1> QED
  BY <1>1, MotionInvariance, PTL

\* main closes the sockets only when no motion thread uses them.
THEOREM SocketsClosedLast == Spec => []SocketsOutliveMotion
<1>1. ControlInv /\ DataInv => SocketsOutliveMotion
  BY DEF ControlInv
<1> QED
  BY <1>1, MotionInvariance, PTL

---------------------------------------------------------------------------
(* Shutting down *)

\* A thread that main may join exists, unless its creation failed and main has
\* gone to close the sockets.
Existing ==
  /\ pc["main"] \in {"createUi", "createMotion", "poll", "read", "since", "answer", "joinBg"}
       => pc["bg"] # "new"
  /\ pc["main"] \in {"poll", "read", "since", "answer", "joinBg", "joinMotion"}
       => pc["motion"] # "new"

\* The guards of the actions that need no one outside the server.
MainCanGo ==
  /\ pc["main"] \notin {"read", "ended"}
  /\ pc["main"] \in {"init", "start"} => mutex = Nobody
  /\ pc["main"] = "joinBg" => At("bg", "done")
  /\ pc["main"] = "joinMotion" => At("motion", "done")
BgCanGo ==
  \/ pc["bg"] \in {"test", "held", "wokenHeld"}
  \/ pc["bg"] \in {"lock", "woken"} /\ mutex = Nobody
UiCanGo ==
  \/ pc["ui"] \in {"test", "quitHeld", "nudgeHeld"}
  \/ pc["ui"] \in {"quit", "nudge"} /\ mutex = Nobody
MotionCanGo ==
  \/ pc["motion"] \in {"parse", "stamp"}
  \/ pc["motion"] = "poll" /\ ~ running
CanGoOn ==
  \/ handler # "main" /\ MainCanGo
  \/ handler # "bg" /\ BgCanGo
  \/ handler # "ui" /\ UiCanGo
  \/ handler # "motion" /\ MotionCanGo
  \/ handler # Nobody /\ mutex \in {Nobody, "handler"}

\* Someone from outside has to speak first, bg sleeps through the broadcast, or
\* the handler waits for the mutex of the thread it interrupts.
Hitch ==
  \/ At("main", "read") \/ At("motion", "read")
  \/ pc["bg"] = "wait"
  \/ handler # Nobody /\ mutex = handler

LEMMA ExistingInitially == Init => Existing
BY DEF Init, Existing, Threads

LEMMA ExistingKept == ControlInv /\ Existing /\ [Next]_vars => Existing'
<1> SUFFICES ASSUME ControlInv, Existing, [Next]_vars PROVE Existing'
  OBVIOUS
<1>0. pc \in [Threads -> MainSteps \cup BgSteps \cup UiSteps \cup MotionSteps]
  BY DEF ControlInv, TypeOK
<1>1. CASE Main
  <2>1. CASE CreateThread("bg", "createBg", "createUi")
    BY <1>0, <2>1 DEF CreateThread, At, Go, Threads, Existing
  <2>2. CASE CreateThread("ui", "createUi", "createMotion")
    BY <1>0, <2>2 DEF CreateThread, At, Go, Threads, Existing
  <2>3. CASE CreateThread("motion", "createMotion", "poll")
    BY <1>0, <2>3 DEF CreateThread, At, Go, Threads, Existing
  <2>4. CASE ReadPair
    BY <2>4 DEF ReadPair, threadVars, Existing
  <2>5. CASE Lock("main", "init", "initHeld") \/ InitGlobalState \/ CreateSockets
             \/ Lock("main", "start", "startHeld") \/ StartRunning
    BY <1>0, <2>5
    DEF Lock, InitGlobalState, CreateSockets, StartRunning, At, Go, Threads, Existing
  <2>6. CASE PollClients \/ ReadRequest \/ ReadSince \/ Answer
    BY <1>0, <2>6 DEF PollClients, ReadRequest, ReadSince, Answer, At, Go, Threads, Existing
  <2>7. CASE Join("bg", "joinBg", "joinMotion") \/ Join("motion", "joinMotion", "close")
             \/ CloseSockets
    BY <1>0, <2>7 DEF Join, CloseSockets, At, Go, Threads, Existing
  <2> QED BY <1>1, <2>1, <2>2, <2>3, <2>4, <2>5, <2>6, <2>7 DEF Main
<1>2. CASE Bg \/ BgSpuriousWakeup
  BY <1>0, <1>2
  DEF Bg, BgSpuriousWakeup, Test, Lock, BgWait, BgUnlock, At, Go, Threads, Existing
<1>3. CASE Ui
  BY <1>0, <1>3
  DEF Ui, Test, UiCommand, Lock, UiQuit, UiNudge, Broadcast, At, Go, Threads, Existing
<1>4. CASE Motion \/ MotionFails
  BY <1>0, <1>4
  DEF Motion, MotionFails, PollMotion, ReadNotification, ParseNotification, StampEvent, At, Go,
      Threads, Existing
<1>5. CASE Handler \/ \E t \in Threads : Interrupt(t)
  BY <1>0, <1>5
  DEF Handler, HandlerLock, HandlerQuit, Interrupt, Broadcast, Threads, Existing
<1>6. CASE UNCHANGED vars
  BY <1>6 DEF vars, threadVars, Existing
<1> QED
  BY <1>1, <1>2, <1>3, <1>4, <1>5, <1>6
  DEF Next, MainRuns, BgRuns, UiRuns, MotionRuns, HandlerRuns

\* After running was reset nobody waits in a circle, whoever holds the mutex
\* and whomever Ctrl-C interrupts: until the process ends, some thread or the
\* handler can go on by itself, unless one of the three known hitches is there.
THEOREM OnlyHitchesStop ==
  Spec => [](pc["main"] # "ended" /\ ~ running => Hitch \/ CanGoOn)
<1>1. ASSUME ControlInv, Existing, pc["main"] # "ended", ~ running, ~ Hitch
      PROVE  CanGoOn
  <2>0. /\ pc["main"] \in MainSteps /\ pc["bg"] \in BgSteps
        /\ pc["ui"] \in UiSteps /\ pc["motion"] \in MotionSteps
        /\ handler \in Threads \cup {Nobody} /\ mutex \in Threads \cup {Nobody, "handler"}
    BY <1>1 DEF ControlInv, TypeOK
  <2>1. /\ pc["main"] # "read" /\ pc["motion"] # "read" /\ pc["bg"] # "wait"
        /\ handler # Nobody => mutex # handler
    BY <1>1 DEF Hitch, At
  <2>2. CASE mutex \in Threads
    <3>1. pc[mutex] \in {"initHeld", "startHeld", "held", "wokenHeld", "quitHeld", "nudgeHeld"}
      BY <1>1, <2>2 DEF ControlInv, HeldByHolder
    <3>2. handler # mutex
      BY <2>1, <2>2 DEF Threads, Nobody
    <3> QED
      BY <2>0, <2>2, <3>1, <3>2
      DEF CanGoOn, MainCanGo, BgCanGo, UiCanGo, Threads, MainSteps, BgSteps, UiSteps, MotionSteps
  <2>3. CASE handler # Nobody /\ mutex \in {Nobody, "handler"}
    BY <2>3 DEF CanGoOn
  <2>4. CASE handler = Nobody /\ mutex \notin Threads
    <3>1. mutex = Nobody
      BY <1>1, <2>0, <2>4 DEF ControlInv, HeldByHolder
    <3>2. CASE pc["main"] = "joinBg"
      <4>1. CASE pc["bg"] = "done"
        BY <2>4, <3>1, <3>2, <4>1 DEF CanGoOn, MainCanGo, At, Threads, Nobody
      <4>2. CASE pc["bg"] # "done"
        <5>1. pc["bg"] \in {"test", "lock", "held", "woken", "wokenHeld"}
          BY <1>1, <2>0, <2>1, <3>2, <4>2 DEF Existing, BgSteps
        <5> QED BY <2>4, <3>1, <5>1 DEF CanGoOn, BgCanGo, Nobody
      <4> QED BY <4>1, <4>2
    <3>3. CASE pc["main"] = "joinMotion"
      <4>1. CASE pc["motion"] = "done"
        BY <2>4, <3>1, <3>3, <4>1 DEF CanGoOn, MainCanGo, At, Threads, Nobody
      <4>2. CASE pc["motion"] # "done"
        <5>1. pc["motion"] \in {"poll", "parse", "stamp"}
          BY <1>1, <2>0, <2>1, <3>3, <4>2 DEF Existing, MotionSteps
        <5> QED BY <1>1, <2>4, <5>1 DEF CanGoOn, MotionCanGo, Nobody
      <4> QED BY <4>1, <4>2
    <3>4. CASE pc["main"] \notin {"joinBg", "joinMotion"}
      BY <1>1, <2>1, <2>4, <3>1, <3>4 DEF CanGoOn, MainCanGo, Nobody
    <3> QED BY <3>2, <3>3, <3>4
  <2> QED BY <2>0, <2>2, <2>3, <2>4
<1>2. Spec => []Existing
  BY ExistingInitially, ExistingKept, MotionInvariance, PTL DEF Spec
<1> QED BY <1>1, <1>2, MotionInvariance, PTL

\* How far main, each thread and the handler still are from their ends when
\* running is reset: an upper bound, which counts each further Ctrl-C too.
MainAhead ==
  [init |-> 17, initHeld |-> 16, sockets |-> 15, start |-> 14, startHeld |-> 13,
   createBg |-> 12, createUi |-> 11, createMotion |-> 10, read |-> 9, since |-> 8,
   answer |-> 5, poll |-> 4, joinBg |-> 3, joinMotion |-> 2, close |-> 1, ended |-> 0]
BgAhead ==
  [new |-> 7, lock |-> 6, held |-> 5, wait |-> 4, woken |-> 3, wokenHeld |-> 2, test |-> 1,
   done |-> 0]
UiAhead ==
  [new |-> 5, char |-> 4, quit |-> 3, nudge |-> 3, quitHeld |-> 2, nudgeHeld |-> 2,
   test |-> 1, done |-> 0]
MotionAhead == [new |-> 5, read |-> 4, parse |-> 3, stamp |-> 2, poll |-> 1, done |-> 0]

ToRead(value) == IF pc["main"] = "answer" /\ value = Unread THEN 1 ELSE 0
MainLeft == MainAhead[pc["main"]] + ToRead(l) + ToRead(r)
BgLeft == BgAhead[pc["bg"]]
UiLeft == UiAhead[pc["ui"]]
MotionLeft == MotionAhead[pc["motion"]]
HandlerLeft ==
  3 * (Interrupts - interrupts)
    + (IF handler = Nobody THEN 0 ELSE IF mutex = "handler" THEN 1 ELSE 2)
StepsLeft == MainLeft + BgLeft + UiLeft + MotionLeft + HandlerLeft

LeftOK == /\ MainLeft \in Nat /\ BgLeft \in Nat /\ UiLeft \in Nat /\ MotionLeft \in Nat
          /\ HandlerLeft \in Nat

LEMMA LeftIs == ControlInv => LeftOK
<1> SUFFICES ASSUME ControlInv PROVE LeftOK
  OBVIOUS
<1>1. /\ pc["main"] \in MainSteps /\ pc["bg"] \in BgSteps
      /\ pc["ui"] \in UiSteps /\ pc["motion"] \in MotionSteps
      /\ interrupts \in 0..Interrupts
  BY DEF ControlInv, TypeOK
<1>2. BgLeft \in Nat
  BY <1>1 DEF BgLeft, BgSteps, BgAhead
<1>3. UiLeft \in Nat
  BY <1>1 DEF UiLeft, UiSteps, UiAhead
<1>4. MotionLeft \in Nat
  BY <1>1 DEF MotionLeft, MotionSteps, MotionAhead
<1>5. MainLeft \in Nat
  <2>1. MainAhead[pc["main"]] \in Nat
    BY <1>1 DEF MainSteps, MainAhead
  <2> QED BY <2>1 DEF MainLeft, ToRead
<1>6. HandlerLeft \in Nat
  BY <1>1, BoundsAssumption DEF HandlerLeft
<1> QED BY <1>2, <1>3, <1>4, <1>5, <1>6 DEF LeftOK

\* A step of one thread that the others' places and the handler are not in.
LEMMA OthersStay ==
  ASSUME UNCHANGED <<handler, interrupts>>, mutex = "handler" <=> mutex' = "handler"
  PROVE  HandlerLeft' = HandlerLeft
BY DEF HandlerLeft

LEMMA MainLess ==
  ASSUME ControlInv, ~ running, Main
  PROVE  /\ MainLeft' < MainLeft /\ BgLeft' <= BgLeft /\ UiLeft' <= UiLeft
         /\ MotionLeft' <= MotionLeft /\ HandlerLeft' = HandlerLeft
<1>0. /\ pc \in [Threads -> MainSteps \cup BgSteps \cup UiSteps \cup MotionSteps]
      /\ LeftOK /\ t_local # Unread /\ t_remote # Unread
  BY LeftIs, BoundsAssumption DEF ControlInv, TypeOK, Stamps, Unread
<1>1. CASE ReadPair
  <2>1. /\ UNCHANGED <<pc, handler, interrupts, mutex>>
        /\ pc["main"] = "answer"
        /\ \/ l = Unread /\ l' # Unread /\ r' = r
           \/ r = Unread /\ r' # Unread /\ l' = l
    BY <1>0, <1>1 DEF ReadPair, threadVars, At
  <2>2. MainAhead["answer"] = 5
    BY DEF MainAhead
  <2>3. MainLeft' < MainLeft
    BY <2>1, <2>2 DEF MainLeft, ToRead
  <2>4. UNCHANGED <<BgLeft, UiLeft, MotionLeft, HandlerLeft>>
    BY <2>1 DEF BgLeft, UiLeft, MotionLeft, HandlerLeft
  <2> QED BY <1>0, <2>3, <2>4 DEF LeftOK
<1>2. CASE Answer
  <2>1. /\ UNCHANGED <<handler, interrupts, mutex>>
        /\ pc["main"] = "answer" /\ l # Unread /\ r # Unread
        /\ pc' = [pc EXCEPT !["main"] = "poll"]
    BY <1>2 DEF Answer, At, Go
  <2>2. MainAhead["answer"] = 5 /\ MainAhead["poll"] = 4
    BY DEF MainAhead
  <2>3. /\ pc'["main"] = "poll" /\ pc'["bg"] = pc["bg"] /\ pc'["ui"] = pc["ui"]
        /\ pc'["motion"] = pc["motion"]
    BY <1>0, <2>1 DEF Threads
  <2>4. MainLeft' < MainLeft
    BY <2>1, <2>2, <2>3 DEF MainLeft, ToRead
  <2>5. UNCHANGED <<BgLeft, UiLeft, MotionLeft, HandlerLeft>>
    BY <2>1, <2>3 DEF BgLeft, UiLeft, MotionLeft, HandlerLeft
  <2> QED BY <1>0, <2>4, <2>5 DEF LeftOK
<1>3. CASE ReadSince
  <2>1. /\ UNCHANGED <<handler, interrupts, mutex>>
        /\ pc["main"] = "since"
        /\ pc' = [pc EXCEPT !["main"] = "answer"]
    BY <1>3 DEF ReadSince, At, Go
  <2>2. MainAhead["answer"] = 5 /\ MainAhead["since"] = 8
    BY DEF MainAhead
  <2>3. /\ pc'["main"] = "answer" /\ pc'["bg"] = pc["bg"] /\ pc'["ui"] = pc["ui"]
        /\ pc'["motion"] = pc["motion"]
    BY <1>0, <2>1 DEF Threads
  <2>4. MainLeft' < MainLeft
    BY <2>1, <2>2, <2>3 DEF MainLeft, ToRead
  <2>5. UNCHANGED <<BgLeft, UiLeft, MotionLeft, HandlerLeft>>
    BY <2>1, <2>3 DEF BgLeft, UiLeft, MotionLeft, HandlerLeft
  <2> QED BY <1>0, <2>4, <2>5 DEF LeftOK
<1>4. ASSUME pc'["main"] # "answer", pc["main"] # "answer",
             MainAhead[pc'["main"]] < MainAhead[pc["main"]],
             MainAhead[pc'["main"]] \in Nat, MainAhead[pc["main"]] \in Nat
      PROVE  MainLeft' < MainLeft
  BY <1>4 DEF MainLeft, ToRead
<1>5. CASE \/ Lock("main", "init", "initHeld") \/ InitGlobalState \/ CreateSockets
           \/ Lock("main", "start", "startHeld") \/ StartRunning
           \/ PollClients \/ ReadRequest
           \/ Join("bg", "joinBg", "joinMotion") \/ Join("motion", "joinMotion", "close")
           \/ CloseSockets
  <2>1. \E x, y \in MainSteps :
           /\ pc["main"] = x /\ pc' = [pc EXCEPT !["main"] = y]
           /\ x # "answer" /\ y # "answer" /\ MainAhead[y] < MainAhead[x]
           /\ MainAhead[x] \in Nat /\ MainAhead[y] \in Nat
    <3>1. CASE \/ Lock("main", "init", "initHeld") \/ InitGlobalState \/ CreateSockets
      BY <3>1 DEF Lock, InitGlobalState, CreateSockets, At, Go, MainSteps, MainAhead
    <3>2. CASE \/ Lock("main", "start", "startHeld") \/ StartRunning \/ PollClients
      BY <3>2 DEF Lock, StartRunning, PollClients, At, Go, MainSteps, MainAhead
    <3>3. CASE \/ Join("bg", "joinBg", "joinMotion") \/ Join("motion", "joinMotion", "close")
               \/ ReadRequest \/ CloseSockets
      BY <3>3 DEF Join, ReadRequest, CloseSockets, At, Go, MainSteps, MainAhead
    <3> QED
      BY <1>5, <3>1, <3>2, <3>3
  <2>2. /\ UNCHANGED <<handler, interrupts>>
        /\ mutex = "handler" <=> mutex' = "handler"
    BY <1>5
    DEF Lock, InitGlobalState, CreateSockets, StartRunning, PollClients, ReadRequest, Join,
        CloseSockets, At, ControlInv, HeldByHolder, Threads, Nobody
  <2>3. /\ pc'["bg"] = pc["bg"] /\ pc'["ui"] = pc["ui"] /\ pc'["motion"] = pc["motion"]
        /\ pc'["main"] # "answer" /\ pc["main"] # "answer"
        /\ MainAhead[pc'["main"]] < MainAhead[pc["main"]]
        /\ MainAhead[pc'["main"]] \in Nat /\ MainAhead[pc["main"]] \in Nat
    BY <1>0, <2>1 DEF Threads
  <2>4. HandlerLeft' = HandlerLeft
    BY <2>2, OthersStay
  <2>5. UNCHANGED <<BgLeft, UiLeft, MotionLeft>>
    BY <2>3 DEF BgLeft, UiLeft, MotionLeft
  <2> QED BY <1>0, <1>4, <2>3, <2>4, <2>5 DEF LeftOK
<1>6. ASSUME NEW t \in {"bg", "ui", "motion"}, NEW here, NEW next,
             <<t, here, next>> \in {<<"bg", "createBg", "createUi">>,
                                    <<"ui", "createUi", "createMotion">>,
                                    <<"motion", "createMotion", "poll">>},
             CreateThread(t, here, next)
      PROVE  /\ MainLeft' < MainLeft /\ BgLeft' <= BgLeft /\ UiLeft' <= UiLeft
             /\ MotionLeft' <= MotionLeft /\ HandlerLeft' = HandlerLeft
  <2>1. pc["main"] = here /\ pc[t] = "new" /\ UNCHANGED <<handler, interrupts, mutex>>
    BY <1>6 DEF CreateThread, At, ControlInv, Created, Setup
  <2>2. /\ pc'["main"] \in {next, "close"}
        /\ \A u \in {"bg", "ui", "motion"} :
              \/ pc'[u] = pc[u]
              \/ u = t /\ pc'[u] = IF t = "motion" THEN "poll" ELSE "test"
    BY <1>0, <1>6 DEF CreateThread, Go, Threads
  <2>3. MainLeft' < MainLeft
    <3>1. /\ pc'["main"] # "answer" /\ pc["main"] # "answer"
          /\ MainAhead[pc'["main"]] < MainAhead[pc["main"]]
          /\ MainAhead[pc'["main"]] \in Nat /\ MainAhead[pc["main"]] \in Nat
      BY <1>6, <2>1, <2>2 DEF MainAhead
    <3> QED BY <1>4, <3>1
  <2>4. BgLeft' <= BgLeft
    BY <1>0, <2>1, <2>2 DEF BgLeft, BgAhead, LeftOK
  <2>5. UiLeft' <= UiLeft
    BY <1>0, <2>1, <2>2 DEF UiLeft, UiAhead, LeftOK
  <2>sum. MotionLeft' <= MotionLeft
    BY <1>0, <2>1, <2>2 DEF MotionLeft, MotionAhead, LeftOK
  <2> QED BY <2>1, <2>3, <2>4, <2>5, <2>sum DEF HandlerLeft
<1> QED BY <1>1, <1>2, <1>3, <1>5, <1>6 DEF Main

\* Neither broadcasts nor spurious wakeups take bg back: what it does next
\* without running is to leave.
LEMMA BgLess ==
  ASSUME ControlInv, ~ running, Bg \/ BgSpuriousWakeup
  PROVE  /\ BgLeft' < BgLeft
         /\ UNCHANGED <<MainLeft, UiLeft, MotionLeft, HandlerLeft>>
<1>0. pc \in [Threads -> MainSteps \cup BgSteps \cup UiSteps \cup MotionSteps]
  BY DEF ControlInv, TypeOK
<1>1. \E y \in BgSteps : pc' = [pc EXCEPT !["bg"] = y] /\ BgAhead[y] < BgAhead[pc["bg"]]
  BY DEF Bg, BgSpuriousWakeup, Test, Lock, BgWait, BgUnlock, At, Go, BgSteps, BgAhead
<1>2. /\ UNCHANGED <<handler, interrupts, l, r>>
      /\ mutex = "handler" <=> mutex' = "handler"
  BY DEF Bg, BgSpuriousWakeup, Test, Lock, BgWait, BgUnlock, At, ControlInv, HeldByHolder,
     Threads, Nobody, answerVars
<1>3. /\ pc'["main"] = pc["main"] /\ pc'["ui"] = pc["ui"] /\ pc'["motion"] = pc["motion"]
      /\ BgAhead[pc'["bg"]] < BgAhead[pc["bg"]]
  BY <1>0, <1>1 DEF Threads
<1>4. HandlerLeft' = HandlerLeft
  BY <1>2, OthersStay
<1> QED BY <1>2, <1>3, <1>4 DEF BgLeft, UiLeft, MotionLeft, MainLeft, ToRead

LEMMA UiLess ==
  ASSUME ControlInv, ~ running, Ui
  PROVE  /\ UiLeft' < UiLeft /\ BgLeft' <= BgLeft
         /\ UNCHANGED <<MainLeft, MotionLeft, HandlerLeft>>
<1>0. pc \in [Threads -> MainSteps \cup BgSteps \cup UiSteps \cup MotionSteps] /\ LeftOK
  BY LeftIs DEF ControlInv, TypeOK
<1>1. /\ UiAhead[pc'["ui"]] < UiAhead[pc["ui"]]
      /\ pc'["main"] = pc["main"] /\ pc'["motion"] = pc["motion"]
      /\ pc'["bg"] = pc["bg"] \/ (pc["bg"] = "wait" /\ pc'["bg"] = "woken")
  BY <1>0
  DEF Ui, Test, UiCommand, Lock, UiQuit, UiNudge, Broadcast, At, Go, UiAhead, Threads
<1>2. /\ UNCHANGED <<handler, interrupts, l, r>>
      /\ mutex = "handler" <=> mutex' = "handler"
  BY DEF Ui, Test, UiCommand, Lock, UiQuit, UiNudge, DoQuit, At, ControlInv, HeldByHolder,
     Threads, Nobody, answerVars
<1>3. HandlerLeft' = HandlerLeft
  BY <1>2, OthersStay
<1>4. BgLeft' <= BgLeft
  BY <1>0, <1>1 DEF BgLeft, BgAhead, LeftOK
<1> QED BY <1>1, <1>2, <1>3, <1>4 DEF UiLeft, MotionLeft, MainLeft, ToRead

LEMMA MotionLess ==
  ASSUME ControlInv, ~ running, Motion \/ MotionFails
  PROVE  /\ MotionLeft' < MotionLeft
         /\ UNCHANGED <<MainLeft, BgLeft, UiLeft, HandlerLeft>>
<1>0. pc \in [Threads -> MainSteps \cup BgSteps \cup UiSteps \cup MotionSteps]
  BY DEF ControlInv, TypeOK
<1>1. \E y \in MotionSteps :
         pc' = [pc EXCEPT !["motion"] = y] /\ MotionAhead[y] < MotionAhead[pc["motion"]]
  BY DEF Motion, MotionFails, PollMotion, ReadNotification, ParseNotification, StampEvent,
     At, Go, MotionSteps, MotionAhead
<1>2. UNCHANGED <<handler, interrupts, mutex, l, r>>
  BY DEF Motion, MotionFails, PollMotion, ReadNotification, ParseNotification, StampEvent,
     answerVars
<1>3. /\ pc'["main"] = pc["main"] /\ pc'["ui"] = pc["ui"] /\ pc'["bg"] = pc["bg"]
      /\ MotionAhead[pc'["motion"]] < MotionAhead[pc["motion"]]
  BY <1>0, <1>1 DEF Threads
<1> QED BY <1>2, <1>3 DEF BgLeft, UiLeft, MotionLeft, MainLeft, ToRead, HandlerLeft

LEMMA HandlerLess ==
  ASSUME ControlInv, Handler \/ \E t \in Threads : Interrupt(t)
  PROVE  /\ HandlerLeft' < HandlerLeft /\ BgLeft' <= BgLeft
         /\ UNCHANGED <<MainLeft, UiLeft, MotionLeft>>
<1>0. /\ pc \in [Threads -> MainSteps \cup BgSteps \cup UiSteps \cup MotionSteps] /\ LeftOK
      /\ interrupts \in 0..Interrupts
  BY LeftIs DEF ControlInv, TypeOK
<1>1. /\ pc'["main"] = pc["main"] /\ pc'["motion"] = pc["motion"] /\ pc'["ui"] = pc["ui"]
      /\ pc'["bg"] = pc["bg"] \/ (pc["bg"] = "wait" /\ pc'["bg"] = "woken")
      /\ UNCHANGED <<l, r>>
  BY <1>0 DEF Handler, HandlerLock, HandlerQuit, Interrupt, Broadcast, Threads, answerVars
<1>2. BgLeft' <= BgLeft
  BY <1>0, <1>1 DEF BgLeft, BgAhead, LeftOK
<1>3. HandlerLeft' < HandlerLeft
  <2>1. CASE HandlerLock
    BY <1>0, <2>1, BoundsAssumption DEF HandlerLock, HandlerLeft, Nobody
  <2>2. CASE HandlerQuit
    <3>1. handler # Nobody /\ mutex = "handler" /\ handler' = Nobody /\ interrupts' = interrupts
      BY <2>2 DEF HandlerQuit, ControlInv, HeldByHolder
    <3> QED BY <1>0, <3>1, BoundsAssumption DEF HandlerLeft
  <2>3. ASSUME NEW t \in Threads, Interrupt(t) PROVE HandlerLeft' < HandlerLeft
    BY <1>0, <2>3, BoundsAssumption DEF Interrupt, HandlerLeft
  <2> QED BY <2>1, <2>2, <2>3 DEF Handler
<1> QED BY <1>1, <1>2, <1>3 DEF UiLeft, MotionLeft, MainLeft, ToRead

\* A sum falls when one of its terms does and none rises.
LEMMA SumLess ==
  ASSUME NEW a \in Nat, NEW b \in Nat, NEW v \in Nat, NEW w \in Nat, v <= a, w <= b
  PROVE  /\ a + b \in Nat /\ v + w \in Nat /\ v + w <= a + b
         /\ v < a \/ w < b => v + w < a + b
OBVIOUS

\* While running is reset, each step of anybody, spurious wakeups, failures and
\* Ctrl-C included, brings the end nearer: the server takes finitely many.
THEOREM ShutdownLeadsOn ==
  Spec => [][/\ StepsLeft \in Nat
             /\ ~ running => StepsLeft' < StepsLeft]_vars
<1>1. LeftOK => StepsLeft \in Nat
  BY DEF LeftOK, StepsLeft
<1>2. ASSUME ControlInv, LeftOK, LeftOK', Next, ~ running PROVE StepsLeft' < StepsLeft
  <2>0. /\ MainLeft \in Nat /\ BgLeft \in Nat /\ UiLeft \in Nat /\ MotionLeft \in Nat
        /\ HandlerLeft \in Nat /\ MainLeft' \in Nat /\ BgLeft' \in Nat /\ UiLeft' \in Nat
        /\ MotionLeft' \in Nat /\ HandlerLeft' \in Nat
    BY <1>2 DEF LeftOK
  <2>sum. ASSUME MainLeft' <= MainLeft, BgLeft' <= BgLeft, UiLeft' <= UiLeft,
               MotionLeft' <= MotionLeft, HandlerLeft' <= HandlerLeft,
               \/ MainLeft' < MainLeft \/ BgLeft' < BgLeft \/ UiLeft' < UiLeft
               \/ MotionLeft' < MotionLeft \/ HandlerLeft' < HandlerLeft
        PROVE  StepsLeft' < StepsLeft
    <3> DEFINE two == MainLeft + BgLeft
               three == two + UiLeft
               four == three + MotionLeft
    <3>1. /\ two \in Nat /\ two' \in Nat /\ two' <= two
          /\ MainLeft' < MainLeft \/ BgLeft' < BgLeft => two' < two
      BY <2>0, <2>sum, SumLess
    <3> HIDE DEF two
    <3>2. /\ three \in Nat /\ three' \in Nat /\ three' <= three
          /\ two' < two \/ UiLeft' < UiLeft => three' < three
      BY <2>0, <2>sum, <3>1, SumLess
    <3> HIDE DEF three
    <3>3. /\ four \in Nat /\ four' \in Nat /\ four' <= four
          /\ three' < three \/ MotionLeft' < MotionLeft => four' < four
      BY <2>0, <2>sum, <3>2, SumLess
    <3> HIDE DEF four
    <3>4. four' + HandlerLeft' < four + HandlerLeft
      BY <2>0, <2>sum, <3>1, <3>2, <3>3, SumLess
    <3> QED
      BY <3>4 DEF StepsLeft, four, three, two
  <2>1. CASE Main
    <3>1. /\ MainLeft' < MainLeft /\ BgLeft' <= BgLeft /\ UiLeft' <= UiLeft
          /\ MotionLeft' <= MotionLeft /\ HandlerLeft' = HandlerLeft
      BY <1>2, <2>1, MainLess
    <3> QED BY <2>0, <2>sum, <3>1
  <2>2. CASE Bg \/ BgSpuriousWakeup
    <3>1. /\ BgLeft' < BgLeft
          /\ UNCHANGED <<MainLeft, UiLeft, MotionLeft, HandlerLeft>>
      BY <1>2, <2>2, BgLess
    <3> QED BY <2>0, <2>sum, <3>1
  <2>3. CASE Ui
    <3>1. /\ UiLeft' < UiLeft /\ BgLeft' <= BgLeft
          /\ UNCHANGED <<MainLeft, MotionLeft, HandlerLeft>>
      BY <1>2, <2>3, UiLess
    <3> QED BY <2>0, <2>sum, <3>1
  <2>4. CASE Motion \/ MotionFails
    <3>1. /\ MotionLeft' < MotionLeft
          /\ UNCHANGED <<MainLeft, BgLeft, UiLeft, HandlerLeft>>
      BY <1>2, <2>4, MotionLess
    <3> QED BY <2>0, <2>sum, <3>1
  <2>5. CASE Handler \/ \E t \in Threads : Interrupt(t)
    <3>1. /\ HandlerLeft' < HandlerLeft /\ BgLeft' <= BgLeft
          /\ UNCHANGED <<MainLeft, UiLeft, MotionLeft>>
      BY <1>2, <2>5, HandlerLess
    <3> QED BY <2>0, <2>sum, <3>1
  <2> QED
    BY <1>2, <2>1, <2>2, <2>3, <2>4, <2>5
    DEF Next, MainRuns, BgRuns, UiRuns, MotionRuns, HandlerRuns
<1>3. ControlInv /\ LeftOK /\ LeftOK' /\ [Next]_vars =>
        [/\ StepsLeft \in Nat
         /\ ~ running => StepsLeft' < StepsLeft]_vars
  BY <1>1, <1>2
<1>4. Spec => [](ControlInv /\ LeftOK)
  BY LeftIs, MotionInvariance, PTL
<1> QED BY <1>3, <1>4, PTL DEF Spec
=============================================================================
