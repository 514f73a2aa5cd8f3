---------------------------- MODULE ViewerProofs ----------------------------
(***************************************************************************)
(* The client's properties proved for any number of frames, any time       *)
(* stamps and any buttons: what the workers find in the shared arrays, that *)
(* each frame taken has one worker, and when panels keep the order.        *)
(***************************************************************************)
EXTENDS Viewer, MonitorProofs, FiniteSetTheorems

\* What each array holds follows from where its ClientThread is.
ArrayOf(c) ==
  /\ client[c] \in {"frame", "reply"} => imageBytes[c] = added[c]
  /\ client[c] = "bytes" => imageBytes[c] = Torn
  /\ client[c] = "add" => imageBytes[c] = added[c] + 1
  /\ client[c] \in {"bytes", "add"} => added[c] < FrameLimit

\* TakenFramesHaveWorkers, frame by frame.
WorkersOf(c) ==
  /\ \A n \in 1..taken[c] : n \in painted[c] \/ \E j \in jobs : j.camera = c /\ j.nr = n
  /\ painted[c] \subseteq 1..taken[c]
  /\ shown[c] \in 0..taken[c]
  /\ \A j \in jobs : j.camera = c => j.nr \in 1..taken[c] /\ j.nr \notin painted[c]
  /\ \A j, k \in jobs : j.camera = c /\ k.camera = c /\ j.nr = k.nr => j = k

\* As long as workers of a camera did not overlap, the only one there may be is
\* at the frame taken last.
OrderOf(c) ==
  ~ overlapped[c] =>
    /\ \A j \in jobs : j.camera = c => j.nr = taken[c]
    /\ \A n \in painted[c] : n <= shown[c]

ViewerInv ==
  /\ MonitorInv
  /\ ViewerTypeOK
  /\ NeverOlderThanMeant
  /\ \A c \in Cameras : ArrayOf(c) /\ WorkersOf(c) /\ OrderOf(c)

LEMMA ViewerInitInv == ASSUME ViewerInit PROVE ViewerInv
<1> USE FrameLimitAssumption DEF ViewerInit
<1>1. MonitorInv
  BY MonitorInitInv
<1>2. \A c \in Cameras : added[c] = 0 /\ taken[c] = 0
  BY DEF MonitorInit
<1>3. ViewerTypeOK
  BY <1>1 DEF MonitorInv, ViewerTypeOK, Torn
<1>4. ASSUME NEW c \in Cameras PROVE ArrayOf(c) /\ WorkersOf(c) /\ OrderOf(c)
  BY <1>2 DEF ArrayOf, WorkersOf, OrderOf
<1> QED
  BY <1>1, <1>3, <1>4 DEF ViewerInv, NeverOlderThanMeant

\* The counters, and how they bound each other.
LEMMA CounterFacts ==
  ASSUME MonitorInv, NEW c \in Cameras
  PROVE  /\ added[c] \in Nat /\ taken[c] \in Nat
         /\ taken[c] <= added[c] /\ added[c] <= FrameLimit
<1>1. Len(imageList[c]) \in Nat
  BY LenProperties DEF MonitorInv, MonitorTypeOK
<1> QED
  BY <1>1, FrameLimitAssumption DEF MonitorInv, MonitorTypeOK, Backlog

\* Steps that leave the painting alone and take no frame keep its part of the
\* invariant, if what they add to a list was counted.
LEMMA PaintingUndisturbed ==
  ASSUME ViewerInv, MonitorInv', UNCHANGED <<paintVars, taken>>,
         \A c \in Cameras : added'[c] >= added[c]
  PROVE  /\ NeverOlderThanMeant'
         /\ \A c \in Cameras : WorkersOf(c)' /\ OrderOf(c)'
<1>1. NeverOlderThanMeant'
  <2> SUFFICES ASSUME NEW j \in jobs', j.content \notin {Unread, Torn}
               PROVE  j.content >= j.nr /\ j.content <= added'[j.camera] + 1
    BY DEF NeverOlderThanMeant
  <2>1. j \in jobs /\ j.camera \in Cameras /\ j.content \in Int
    BY FrameLimitAssumption DEF ViewerInv, ViewerTypeOK, Jobs, paintVars, Unread
  <2>2. added[j.camera] \in Nat /\ added'[j.camera] \in Nat
    BY <2>1, CounterFacts DEF ViewerInv, MonitorInv, MonitorTypeOK
  <2> QED
    BY <2>1, <2>2 DEF ViewerInv, NeverOlderThanMeant
<1>2. ASSUME NEW c \in Cameras PROVE WorkersOf(c)' /\ OrderOf(c)'
  BY DEF ViewerInv, WorkersOf, OrderOf, paintVars
<1> QED
  BY <1>1, <1>2

\* ClientThread.run keeps the invariant.
LEMMA ClientInv ==
  ASSUME ViewerInv, NEW c \in Cameras, ClientThread(c)
  PROVE  ViewerInv'
<1> USE FrameLimitAssumption DEF clientVars
<1>1. /\ added[c] \in Nat /\ added[c] <= FrameLimit
      /\ client[c] \in {"frame", "bytes", "add", "reply"}
      /\ \A d \in Cameras : added[d] \in Nat
  BY CounterFacts DEF ViewerInv, ViewerTypeOK
<1>2. CASE BeginFrame(c) \/ EndFrame(c) \/ Reply(c)
  <2>1. UNCHANGED <<monitorVars, paintVars>>
    BY <1>2 DEF BeginFrame, EndFrame, Reply
  <2>2. MonitorInv' /\ UNCHANGED <<taken, added>> /\ MonitorTypeOK'
    BY <2>1, OthersInv DEF ViewerInv, MonitorInv, monitorVars, listVars
  <2>3. ViewerTypeOK'
    <3>1. client' \in [Cameras -> {"frame", "bytes", "add", "reply"}]
      BY <1>2 DEF BeginFrame, EndFrame, Reply, ViewerInv, ViewerTypeOK
    <3>2. imageBytes' \in [Cameras -> Torn..FrameLimit]
      <4>1. CASE BeginFrame(c)
        BY <4>1 DEF BeginFrame, ViewerInv, ViewerTypeOK, Torn
      <4>2. CASE EndFrame(c)
        <5>1. added[c] + 1 \in Torn..FrameLimit
          BY <1>1, <4>2 DEF EndFrame, ViewerInv, ArrayOf, Torn
        <5> QED
          BY <4>2, <5>1 DEF EndFrame, ViewerInv, ViewerTypeOK
      <4>3. CASE Reply(c)
        BY <4>3 DEF Reply, ViewerInv, ViewerTypeOK
      <4> QED
        BY <1>2, <4>1, <4>2, <4>3
    <3>3. asked' \in [Cameras -> {"I", "A", "M"}]
      BY <1>2 DEF BeginFrame, EndFrame, Reply, FramesRate, ViewerInv, ViewerTypeOK
    <3> QED
      BY <2>1, <2>2, <3>1, <3>2, <3>3 DEF ViewerInv, ViewerTypeOK, paintVars
  <2>4. ASSUME NEW d \in Cameras PROVE ArrayOf(d)'
    BY <1>1, <1>2, <2>2 DEF BeginFrame, EndFrame, Reply, ViewerInv, ViewerTypeOK, ArrayOf
  <2>5. NeverOlderThanMeant' /\ \A d \in Cameras : WorkersOf(d)' /\ OrderOf(d)'
    BY <1>1, <2>1, <2>2, PaintingUndisturbed
  <2> QED
    BY <2>2, <2>3, <2>4, <2>5 DEF ViewerInv
<1>3. ASSUME NEW motion \in BOOLEAN, AddFrame(c, motion) PROVE ViewerInv'
  <2>1. PICK ts \in Times, recent \in BOOLEAN : AddImage(c, ts, recent, motion)
    BY <1>3 DEF AddFrame
  <2>2. MonitorInv' /\ MonitorTypeOK'
    BY <2>1, AddImageInv DEF ViewerInv, MonitorInv
  <2>3. UNCHANGED <<paintVars, taken, imageBytes, asked>>
    BY <1>3, <2>1 DEF AddFrame, AddImage
  <2>4. added' = [added EXCEPT ![c] = @ + 1] /\ client' = [client EXCEPT ![c] = "reply"]
    BY <1>3, <2>1 DEF AddFrame, AddImage
  <2>5. added \in [Cameras -> 0..FrameLimit] /\ client[c] = "add"
    BY <1>3 DEF AddFrame, ViewerInv, MonitorInv, MonitorTypeOK
  <2>6. ViewerTypeOK'
    BY <2>2, <2>3, <2>4 DEF ViewerInv, ViewerTypeOK, paintVars
  <2>7. ASSUME NEW d \in Cameras PROVE ArrayOf(d)'
    BY <1>1, <2>3, <2>4, <2>5 DEF ViewerInv, ViewerTypeOK, ArrayOf
  <2>8. NeverOlderThanMeant' /\ \A d \in Cameras : WorkersOf(d)' /\ OrderOf(d)'
    BY <1>1, <2>2, <2>3, <2>4, <2>5, PaintingUndisturbed
  <2> QED
    BY <2>2, <2>6, <2>7, <2>8 DEF ViewerInv
<1> QED
  BY <1>2, <1>3 DEF ClientThread

\* Every frame display() takes is the next of its camera.
LEMMA DisplayTakes ==
  ASSUME MonitorInv, Display
  PROVE  /\ added' = added
         /\ \A c \in Cameras :
              \/ taken'[c] = taken[c]
              \/ /\ taken'[c] = taken[c] + 1
                 /\ Head(imageList[c]).nr = taken[c] + 1
<1> USE DEF listVars
<1>1. ASSUME NEW S \in SUBSET Cameras, \A c \in S : HasImage(c), Take(S)
      PROVE  /\ added' = added
             /\ \A c \in Cameras : \/ taken'[c] = taken[c]
                                   \/ /\ taken'[c] = taken[c] + 1
                                      /\ Head(imageList[c]).nr = taken[c] + 1
  <2> SUFFICES ASSUME NEW c \in S
               PROVE  taken'[c] = taken[c] + 1 /\ Head(imageList[c]).nr = taken[c] + 1
    BY <1>1 DEF Take
  <2>1. imageList[c] \in Seq(Images) /\ imageList[c] # <<>>
    BY <1>1 DEF HasImage, MonitorInv, MonitorTypeOK
  <2>2. Head(imageList[c]) = imageList[c][1] /\ 1 \in 1..Len(imageList[c])
    BY <2>1, HeadTailProperties, LenProperties, EmptySeq
  <2>3. imageList[c][1].nr = taken[c] + 1
    BY <2>2 DEF MonitorInv, Backlog
  <2> QED
    BY <1>1, <2>2, <2>3 DEF Take
<1>2. CASE UNCHANGED listVars
  BY <1>2
<1>3. CASE SyncShows
  <2>1. \/ Take(Cameras)
        \/ \E older \in Cameras : Take({older})
    BY <1>3 DEF SyncShows, Cameras
  <2>2. \A c \in Cameras : HasImage(c)
    BY <1>3 DEF SyncShows
  <2> QED
    BY <1>1, <2>1, <2>2
<1>4. CASE SyncShowsSecond
  <2>1. Other(first) \in Cameras
    BY DEF MonitorInv, MonitorTypeOK, Cameras, Other
  <2>2. HasImage(Other(first)) /\ Take({Other(first)})
    BY <1>4 DEF SyncShowsSecond, MonitorInv, PairStaysTogether
  <2> QED
    BY <1>1, <2>1, <2>2
<1>5. CASE AsyncShows
  BY <1>1, <1>5 DEF AsyncShows
<1> QED
  BY <1>2, <1>3, <1>4, <1>5 DEF Display, SyncWaits, PauseGoesOn, AsyncWaits, WaitAt

\* The display thread starts one worker for each frame it takes.
LEMMA ShowingInv ==
  ASSUME ViewerInv, DisplayThread
  PROVE  ViewerInv'
<1> USE FrameLimitAssumption
<1> DEFINE new(c) == [camera |-> c, nr |-> taken[c] + 1, content |-> Unread]
           moved == {d \in Cameras : taken'[d] # taken[d]}
<1>1. /\ MonitorInv' /\ MonitorTypeOK'
      /\ UNCHANGED <<clientVars, shown, painted, added>>
  BY DisplayInv, DisplayTakes DEF DisplayThread, ViewerInv, MonitorInv
<1>2. \A c \in Cameras : \/ taken'[c] = taken[c]
                         \/ taken'[c] = taken[c] + 1 /\ c \in moved
  BY DisplayTakes, CounterFacts DEF DisplayThread, ViewerInv
<1>3. jobs' = jobs \cup {new(c) : c \in moved}
  BY DisplayTakes DEF DisplayThread, Executed, ViewerInv
<1>4. ASSUME NEW c \in Cameras
      PROVE  /\ taken[c] \in Nat /\ taken'[c] \in Nat
             /\ taken'[c] <= added[c] /\ added[c] <= FrameLimit
             /\ added[c] \in Nat
  <2>1. Len(imageList'[c]) \in Nat
    BY <1>1, LenProperties DEF MonitorTypeOK
  <2>2. taken'[c] + Len(imageList'[c]) = added'[c] /\ added' = added
    BY <1>1 DEF MonitorInv, Backlog
  <2>3. taken'[c] \in Nat
    BY <1>1 DEF MonitorTypeOK
  <2>4. taken[c] \in Nat /\ added[c] \in Nat /\ added[c] <= FrameLimit
    BY CounterFacts DEF ViewerInv
  <2> QED
    BY <2>1, <2>2, <2>3, <2>4
<1>5. ViewerTypeOK'
  <2>1. ASSUME NEW c \in moved PROVE new(c) \in Jobs
    <3>1. taken[c] + 1 \in 1..FrameLimit
      BY <1>2, <1>4
    <3>2. Unread \in Unread..FrameLimit
      BY DEF Unread
    <3> QED
      BY <3>1, <3>2 DEF Jobs
  <2>2. jobs' \subseteq Jobs
    BY <1>3, <2>1 DEF ViewerInv, ViewerTypeOK
  <2>3. overlapped' \in [Cameras -> BOOLEAN]
    BY DEF DisplayThread, ViewerInv, ViewerTypeOK
  <2> QED
    BY <1>1, <2>2, <2>3 DEF ViewerInv, ViewerTypeOK, clientVars
<1>6. NeverOlderThanMeant'
  <2>1. \A j \in jobs' : j.content \notin {Unread, Torn} => j \in jobs
    BY <1>3
  <2> QED
    BY <1>1, <2>1 DEF ViewerInv, NeverOlderThanMeant
<1>7. ASSUME NEW c \in Cameras PROVE WorkersOf(c)'
  <2>1. WorkersOf(c) /\ painted' = painted /\ shown' = shown
    BY <1>1 DEF ViewerInv
  <2>2. shown[c] \in 0..taken'[c]
    BY <1>2, <1>4, <2>1 DEF WorkersOf
  <2>3. CASE taken'[c] = taken[c]
    <3>1. c \notin moved
      BY <2>3
    <3>2. \A j \in jobs' : j.camera = c => j \in jobs
      BY <1>3, <3>1
    <3> QED
      BY <1>3, <2>2, <2>1, <2>3, <3>2 DEF WorkersOf
  <2>4. CASE taken'[c] = taken[c] + 1 /\ c \in moved
    <3>1. \A j \in jobs' : j.camera = c => j \in jobs \/ j = new(c)
      BY <1>3
    <3>2. new(c) \in jobs' /\ new(c).nr = taken'[c] /\ new(c).camera = c
      BY <1>3, <2>4
    <3>3. \A j \in jobs : j.camera = c => j.nr \in 1..taken[c] /\ j.nr # taken'[c]
      BY <1>4, <2>1, <2>4 DEF WorkersOf
    <3>4. \A n \in 1..taken'[c] : n \in painted[c] \/ \E j \in jobs' : j.camera = c /\ j.nr = n
      BY <1>3, <1>4, <2>1, <2>4, <3>2 DEF WorkersOf
    <3>5. taken'[c] \notin painted[c] /\ painted[c] \subseteq 1..taken'[c]
      BY <1>4, <2>1, <2>4 DEF WorkersOf
    <3>6. \A j \in jobs' : j.camera = c => j.nr \in 1..taken'[c] /\ j.nr \notin painted[c]
      BY <1>4, <2>1, <2>4, <3>1, <3>2, <3>3, <3>5 DEF WorkersOf
    <3>7. \A j, k \in jobs' : j.camera = c /\ k.camera = c /\ j.nr = k.nr => j = k
      BY <2>1, <3>1, <3>2, <3>3 DEF WorkersOf
    <3> QED
      BY <2>2, <2>1, <3>4, <3>5, <3>6, <3>7 DEF WorkersOf
  <2> QED
    BY <1>2, <2>3, <2>4
<1>8. ASSUME NEW c \in Cameras PROVE OrderOf(c)'
  <2> SUFFICES ASSUME ~ overlapped'[c]
               PROVE  /\ \A j \in jobs' : j.camera = c => j.nr = taken'[c]
                      /\ \A n \in painted[c] : n <= shown[c]
    BY <1>1 DEF OrderOf
  <2>1. /\ ~ overlapped[c]
        /\ \A j, k \in jobs' : j.camera = c /\ k.camera = c => j = k
    BY DEF DisplayThread
  <2>2. OrderOf(c)
    BY DEF ViewerInv
  <2>3. CASE taken'[c] = taken[c]
    <3>1. \A j \in jobs' : j.camera = c => j \in jobs
      BY <1>3, <2>3
    <3> QED
      BY <2>1, <2>2, <2>3, <3>1 DEF OrderOf
  <2>4. CASE taken'[c] = taken[c] + 1 /\ c \in moved
    <3>1. new(c) \in jobs' /\ new(c).nr = taken'[c] /\ new(c).camera = c
      BY <1>3, <2>4
    <3> QED
      BY <2>1, <2>2, <3>1 DEF OrderOf
  <2> QED
    BY <1>2, <2>3, <2>4
<1>9. \A c \in Cameras : ArrayOf(c)'
  BY <1>1 DEF ViewerInv, ArrayOf, clientVars
<1> QED
  BY <1>1, <1>5, <1>6, <1>7, <1>8, <1>9 DEF ViewerInv

\* A worker that prepares its image only notes what it found.
LEMMA PrepareInv ==
  ASSUME ViewerInv, NEW j \in jobs, Prepare(j)
  PROVE  ViewerInv'
<1> USE FrameLimitAssumption DEF clientVars
<1> DEFINE found == [j EXCEPT !.content = imageBytes[j.camera]]
<1>1. /\ UNCHANGED <<monitorVars, clientVars, shown, painted, overlapped>>
      /\ jobs' = (jobs \ {j}) \cup {found}
  BY DEF Prepare
<1>2. MonitorInv' /\ MonitorTypeOK' /\ UNCHANGED <<added, taken>>
  BY <1>1, OthersInv DEF ViewerInv, MonitorInv, monitorVars, listVars
<1>3. j \in Jobs /\ j.camera \in Cameras /\ imageBytes[j.camera] \in Torn..FrameLimit
  BY DEF ViewerInv, ViewerTypeOK, Jobs
<1>4. found \in Jobs /\ found.camera = j.camera /\ found.nr = j.nr
      /\ found.content = imageBytes[j.camera]
  BY <1>3 DEF Jobs, Unread, Torn
<1>5. ViewerTypeOK'
  BY <1>1, <1>2, <1>4 DEF ViewerInv, ViewerTypeOK
<1>6. NeverOlderThanMeant'
  <2>1. found.content # Torn => found.content >= j.nr /\ found.content <= added[j.camera] + 1
    <3>1. /\ taken[j.camera] <= added[j.camera]
          /\ taken[j.camera] \in Nat /\ added[j.camera] \in Nat
      BY <1>3, CounterFacts DEF ViewerInv
    <3>2. j.nr \in 1..taken[j.camera]
      BY <1>3 DEF ViewerInv, WorkersOf
    <3>3. client[j.camera] \in {"frame", "bytes", "add", "reply"} /\ ArrayOf(j.camera)
      BY <1>3 DEF ViewerInv, ViewerTypeOK
    <3> QED
      BY <1>4, <3>1, <3>2, <3>3 DEF ArrayOf
  <2> QED
    BY <1>1, <1>2, <1>4, <2>1 DEF ViewerInv, NeverOlderThanMeant
<1>7. ASSUME NEW c \in Cameras PROVE WorkersOf(c)' /\ OrderOf(c)' /\ ArrayOf(c)'
  <2>1. WorkersOf(c) /\ OrderOf(c) /\ ArrayOf(c)
    BY DEF ViewerInv
  <2>2. ArrayOf(c)' /\ OrderOf(c)'
    BY <1>1, <1>2, <1>4, <2>1 DEF ArrayOf, OrderOf
  <2> HIDE DEF found
  <2>3. ASSUME NEW n \in 1..taken[c], n \notin painted[c]
        PROVE  \E k \in jobs' : k.camera = c /\ k.nr = n
    <3>1. PICK k \in jobs : k.camera = c /\ k.nr = n
      BY <2>1, <2>3 DEF WorkersOf
    <3>2. CASE k = j
      BY <1>1, <1>4, <3>1, <3>2
    <3>3. CASE k # j
      BY <1>1, <3>1, <3>3
    <3> QED
      BY <3>2, <3>3
  <2>4. \A k \in jobs' : k.camera = c => k.nr \in 1..taken[c] /\ k.nr \notin painted[c]
    BY <1>1, <1>4, <2>1 DEF WorkersOf
  <2>5. ASSUME NEW k \in jobs', NEW l \in jobs', k.camera = c, l.camera = c, k.nr = l.nr
        PROVE  k = l
    <3>1. \A p, q \in jobs : p.camera = c /\ q.camera = c /\ p.nr = q.nr => p = q
      BY <2>1 DEF WorkersOf
    <3>2. k \in jobs \ {j} \/ k = found
      BY <1>1
    <3>3. l \in jobs \ {j} \/ l = found
      BY <1>1
    <3> QED
      BY <1>4, <2>5, <3>1, <3>2, <3>3
  <2>6. /\ painted[c] \subseteq 1..taken[c] /\ shown[c] \in 0..taken[c]
        /\ UNCHANGED <<painted, taken, shown>>
    BY <1>1, <1>2, <2>1 DEF WorkersOf
  <2>7. WorkersOf(c)'
    BY <2>3, <2>4, <2>5, <2>6 DEF WorkersOf
  <2> QED
    BY <2>2, <2>7
<1> QED
  BY <1>2, <1>5, <1>6, <1>7 DEF ViewerInv

\* A worker that paints is done.
LEMMA PaintInv ==
  ASSUME ViewerInv, NEW j \in jobs, Paint(j)
  PROVE  ViewerInv'
<1> USE FrameLimitAssumption DEF clientVars
<1>1. /\ UNCHANGED <<monitorVars, clientVars, overlapped>>
      /\ jobs' = jobs \ {j}
      /\ shown' = [shown EXCEPT ![j.camera] = j.nr]
      /\ painted' = [painted EXCEPT ![j.camera] = @ \cup {j.nr}]
  BY DEF Paint
<1>2. MonitorInv' /\ MonitorTypeOK' /\ UNCHANGED <<added, taken>>
  BY <1>1, OthersInv DEF ViewerInv, MonitorInv, monitorVars, listVars
<1>3. j.camera \in Cameras /\ j.nr \in 1..FrameLimit /\ j.nr \in 0..FrameLimit
  BY DEF ViewerInv, ViewerTypeOK, Jobs
<1>4. ViewerTypeOK'
  BY <1>1, <1>2, <1>3 DEF ViewerInv, ViewerTypeOK
<1>5. NeverOlderThanMeant'
  BY <1>1, <1>2 DEF ViewerInv, NeverOlderThanMeant
<1>6. ASSUME NEW c \in Cameras PROVE WorkersOf(c)' /\ OrderOf(c)' /\ ArrayOf(c)'
  <2>1. WorkersOf(c) /\ OrderOf(c) /\ ArrayOf(c)
    BY DEF ViewerInv
  <2>2. ArrayOf(c)'
    BY <1>1, <1>2, <2>1 DEF ArrayOf
  <2>3. CASE c # j.camera
    <3>1. shown'[c] = shown[c] /\ painted'[c] = painted[c]
      BY <1>1, <2>3 DEF ViewerInv, ViewerTypeOK
    <3> QED
      BY <1>1, <1>2, <2>1, <2>2, <2>3, <3>1 DEF WorkersOf, OrderOf
  <2>4. CASE c = j.camera
    <3>1. shown'[c] = j.nr /\ painted'[c] = painted[c] \cup {j.nr}
      BY <1>1, <2>4 DEF ViewerInv, ViewerTypeOK
    <3>2. j.nr \in 1..taken[c] /\ taken[c] \in Nat
      BY <2>1, <2>4, CounterFacts DEF WorkersOf, ViewerInv
    <3>3. WorkersOf(c)'
      BY <1>1, <1>2, <2>1, <2>4, <3>1, <3>2 DEF WorkersOf
    <3>4. OrderOf(c)'
      <4> SUFFICES ASSUME ~ overlapped[c]
                   PROVE  /\ \A k \in jobs' : k.camera = c => k.nr = taken[c]
                          /\ \A n \in painted'[c] : n <= shown'[c]
        BY <1>1, <1>2 DEF OrderOf
      <4>1. j.nr = taken[c]
        BY <2>1, <2>4 DEF OrderOf
      <4>2. \A n \in painted'[c] : n <= taken[c]
        BY <2>1, <3>1, <3>2 DEF WorkersOf
      <4> QED
        BY <1>1, <2>1, <3>1, <4>1, <4>2 DEF OrderOf
    <3> QED
      BY <2>2, <3>3, <3>4
  <2> QED
    BY <2>3, <2>4
<1> QED
  BY <1>2, <1>4, <1>5, <1>6 DEF ViewerInv

LEMMA EnvironmentInv ==
  ASSUME ViewerInv, Environment \/ UNCHANGED viewerVars
  PROVE  ViewerInv'
<1>1. MonitorInv' /\ UNCHANGED <<clientVars, paintVars>>
  BY OthersInv DEF Environment, viewerVars, ViewerInv
<1>2. UNCHANGED <<added, taken>>
  BY DEF Environment, viewerVars, monitorVars, listVars, ButtonClick, ChangeViewMode,
         ChangeCamMode, TimePasses, SpuriousWakeup
<1>3. \A c \in Cameras : added'[c] >= added[c] /\ ArrayOf(c)'
  BY <1>1, <1>2, CounterFacts DEF ViewerInv, ArrayOf, clientVars
<1>4. NeverOlderThanMeant' /\ \A c \in Cameras : WorkersOf(c)' /\ OrderOf(c)'
  BY <1>1, <1>2, <1>3, PaintingUndisturbed
<1>5. ViewerTypeOK'
  BY <1>1 DEF ViewerInv, ViewerTypeOK, MonitorInv, clientVars, paintVars
<1> QED
  BY <1>1, <1>3, <1>4, <1>5 DEF ViewerInv

\* The invariant holds in every state of the client, whatever cameras send.
THEOREM ViewerInvariance == ViewerSpec => []ViewerInv
<1>1. ViewerInit => ViewerInv
  BY ViewerInitInv
<1>2. ViewerInv /\ [ViewerNext]_viewerVars => ViewerInv'
  BY ClientInv, ShowingInv, PrepareInv, PaintInv, EnvironmentInv DEF ViewerNext
<1> QED
  BY <1>1, <1>2, PTL DEF ViewerSpec

\* Type correctness of the client.
THEOREM ViewerTypes == ViewerSpec => []ViewerTypeOK
<1>1. ViewerInv => ViewerTypeOK
  BY DEF ViewerInv
<1> QED
  BY <1>1, ViewerInvariance, PTL

\* A worker never finds a frame older than the one it was made for.
THEOREM NothingOlderFound == ViewerSpec => []NeverOlderThanMeant
<1>1. ViewerInv => NeverOlderThanMeant
  BY DEF ViewerInv
<1> QED
  BY <1>1, ViewerInvariance, PTL

\* Each frame taken from a list has exactly one worker, or was painted.
THEOREM OneWorkerEach == ViewerSpec => []TakenFramesHaveWorkers
<1>1. ViewerInv => TakenFramesHaveWorkers
  <2> SUFFICES ASSUME ViewerInv PROVE TakenFramesHaveWorkers
    OBVIOUS
  <2> SUFFICES ASSUME NEW c \in Cameras
               PROVE  LET pending == {j.nr : j \in {k \in jobs : k.camera = c}}
                      IN  /\ painted[c] \cup pending = 1..taken[c]
                          /\ painted[c] \cap pending = {}
                          /\ \A j, k \in jobs :
                               j.camera = c /\ k.camera = c /\ j.nr = k.nr => j = k
    BY DEF TakenFramesHaveWorkers
  <2>1. WorkersOf(c)
    BY DEF ViewerInv
  <2> QED
    BY <2>1 DEF WorkersOf
<1> QED
  BY <1>1, ViewerInvariance, PTL

\* Without overlapping workers no panel goes back to an older frame.
THEOREM PanelsInOrder == ViewerSpec => []InOrderUnlessOverlapped
<1>1. ViewerInv => InOrderUnlessOverlapped
  BY DEF ViewerInv, OrderOf, InOrderUnlessOverlapped
<1> QED
  BY <1>1, ViewerInvariance, PTL
---------------------------------------------------------------------------
(* Going on *)

\* Steps the workers in J have still to make: to prepare an image, to paint it.
WorkOf(J) == Cardinality(J) + Cardinality({j \in J : j.content = Unread})

LEMMA WorkIs ==
  ASSUME NEW J, IsFiniteSet(J)
  PROVE  /\ IsFiniteSet({j \in J : j.content = Unread})
         /\ Cardinality({j \in J : j.content = Unread}) \in Nat
         /\ Cardinality(J) \in Nat /\ WorkOf(J) \in Nat
<1> DEFINE U == {j \in J : j.content = Unread}
<1>1. U \in SUBSET J
  OBVIOUS
<1>2. IsFiniteSet(U)
  BY <1>1, FS_Subset
<1>3. Cardinality(U) \in Nat /\ Cardinality(J) \in Nat
  BY <1>2, FS_CardinalityType
<1> QED
  BY <1>2, <1>3 DEF WorkOf

\* A new worker is two steps more, at most.
LEMMA WorkOfOneMore ==
  ASSUME NEW J, IsFiniteSet(J), NEW x
  PROVE  IsFiniteSet(J \cup {x}) /\ WorkOf(J \cup {x}) <= WorkOf(J) + 2
<1> DEFINE U(I) == {j \in I : j.content = Unread}
<1>1. /\ IsFiniteSet(J \cup {x})
      /\ Cardinality(J \cup {x}) = IF x \in J THEN Cardinality(J) ELSE Cardinality(J) + 1
  BY FS_AddElement
<1>2. /\ IsFiniteSet(U(J)) /\ Cardinality(U(J)) \in Nat /\ Cardinality(J) \in Nat
      /\ WorkOf(J) = Cardinality(J) + Cardinality(U(J))
  BY WorkIs DEF WorkOf
<1>3. WorkOf(J \cup {x}) = Cardinality(J \cup {x}) + Cardinality(U(J \cup {x}))
  BY DEF WorkOf
<1>4. Cardinality(U(J \cup {x})) = Cardinality(U(J))
        \/ Cardinality(U(J \cup {x})) = Cardinality(U(J)) + 1
  <2>1. U(J \cup {x}) = U(J) \/ U(J \cup {x}) = U(J) \cup {x}
    OBVIOUS
  <2>2. Cardinality(U(J) \cup {x})
          = IF x \in U(J) THEN Cardinality(U(J)) ELSE Cardinality(U(J)) + 1
    BY <1>2, FS_AddElement
  <2> HIDE DEF U
  <2> QED
    BY <2>1, <2>2
<1> HIDE DEF U
<1> QED
  BY <1>1, <1>2, <1>3, <1>4

\* A worker that has found its image has a step less to go.
LEMMA WorkOfPrepared ==
  ASSUME NEW J, IsFiniteSet(J), NEW x \in J, x.content = Unread, NEW y, y.content # Unread
  PROVE  /\ IsFiniteSet((J \ {x}) \cup {y})
         /\ WorkOf((J \ {x}) \cup {y}) < WorkOf(J)
<1> DEFINE U(I) == {j \in I : j.content = Unread}
           K == (J \ {x}) \cup {y}
<1>1. IsFiniteSet(J \ {x}) /\ Cardinality(J \ {x}) = Cardinality(J) - 1
  BY FS_RemoveElement
<1>2. /\ IsFiniteSet(K)
      /\ Cardinality(K) = IF y \in J \ {x} THEN Cardinality(J \ {x})
                          ELSE Cardinality(J \ {x}) + 1
  BY <1>1, FS_AddElement
<1>3. /\ IsFiniteSet(U(J)) /\ Cardinality(U(J)) \in Nat /\ Cardinality(J) \in Nat
      /\ WorkOf(J) = Cardinality(J) + Cardinality(U(J))
  BY WorkIs DEF WorkOf
<1>4. WorkOf(K) = Cardinality(K) + Cardinality(U(K))
  BY DEF WorkOf
<1>5. Cardinality(U(K)) = Cardinality(U(J)) - 1
  <2>1. U(K) = U(J) \ {x} /\ x \in U(J)
    OBVIOUS
  <2> HIDE DEF U, K
  <2> QED
    BY <1>3, <2>1, FS_RemoveElement
<1>6. Cardinality(K) <= Cardinality(J)
  <2> HIDE DEF K
  <2> QED
    BY <1>1, <1>2, <1>3
<1>7. Cardinality(K) \in Nat
  BY <1>2, FS_CardinalityType
<1> HIDE DEF U, K
<1>8. WorkOf(K) < WorkOf(J)
  BY <1>3, <1>4, <1>5, <1>6, <1>7
<1> QED
  BY <1>2, <1>8 DEF K

\* A worker that has painted is gone.
LEMMA WorkOfPainted ==
  ASSUME NEW J, IsFiniteSet(J), NEW x \in J, x.content # Unread
  PROVE  IsFiniteSet(J \ {x}) /\ WorkOf(J \ {x}) < WorkOf(J)
<1> DEFINE U(I) == {j \in I : j.content = Unread}
<1>1. IsFiniteSet(J \ {x}) /\ Cardinality(J \ {x}) = Cardinality(J) - 1
  BY FS_RemoveElement
<1>2. /\ Cardinality(U(J)) \in Nat /\ Cardinality(J) \in Nat
      /\ WorkOf(J) = Cardinality(J) + Cardinality(U(J))
  BY WorkIs DEF WorkOf
<1>3. WorkOf(J \ {x}) = Cardinality(J \ {x}) + Cardinality(U(J \ {x}))
  BY DEF WorkOf
<1>4. U(J \ {x}) = U(J)
  OBVIOUS
<1> HIDE DEF U
<1> QED
  BY <1>1, <1>2, <1>3, <1>4

\* Images still to be taken and steps of workers: all there is between the
\* lists and the panels.
ToPaint == 3 * ToTake + WorkOf(jobs)

\* The display thread that takes images gives them workers, and their steps
\* count less than the images.
LEMMA ShowingLess ==
  ASSUME ViewerInv, IsFiniteSet(jobs), DisplayThread
  PROVE  /\ IsFiniteSet(jobs') /\ ToPaint \in Nat /\ ToPaint' \in Nat
         /\ ~ waiting
         /\ \/ waiting' /\ ToPaint' = ToPaint
            \/ ToPaint' < ToPaint
<1> USE FrameLimitAssumption
<1> DEFINE new(c) == [camera |-> c, nr |-> Head(imageList[c]).nr, content |-> Unread]
<1>0. /\ taken[1] \in 0..FrameLimit /\ taken[2] \in 0..FrameLimit
      /\ 1 \in Cameras /\ 2 \in Cameras
  BY DEF ViewerInv, MonitorInv, MonitorTypeOK, Cameras
<1>1. /\ taken'[1] = taken[1] \/ taken'[1] = taken[1] + 1
      /\ taken'[2] = taken[2] \/ taken'[2] = taken[2] + 1
      /\ taken'[1] \in 0..FrameLimit /\ taken'[2] \in 0..FrameLimit
  <2>1. taken' \in [Cameras -> 0..FrameLimit]
    BY DisplayInv DEF DisplayThread, ViewerInv, MonitorInv, MonitorTypeOK
  <2> QED
    BY <1>0, <2>1, DisplayTakes DEF DisplayThread, ViewerInv
<1>2. jobs' = jobs \cup {new(c) : c \in {d \in Cameras : taken'[d] # taken[d]}}
  BY DEF DisplayThread, Executed
<1>3. WorkOf(jobs) \in Nat
  BY WorkIs
<1>4. /\ IsFiniteSet(jobs')
      /\ WorkOf(jobs') <= WorkOf(jobs) + 2 * ((taken'[1] - taken[1]) + (taken'[2] - taken[2]))
  <2>1. CASE taken'[1] = taken[1] /\ taken'[2] = taken[2]
    <3>1. {d \in Cameras : taken'[d] # taken[d]} = {}
      BY <2>1 DEF Cameras
    <3>2. jobs' = jobs
      BY <1>2, <3>1
    <3> QED
      BY <1>0, <1>3, <2>1, <3>2
  <2>2. CASE taken'[1] = taken[1] + 1 /\ taken'[2] = taken[2]
    <3>1. {d \in Cameras : taken'[d] # taken[d]} = {1}
      BY <1>0, <2>2 DEF Cameras
    <3>2. jobs' = jobs \cup {new(1)}
      BY <1>2, <3>1
    <3>3. IsFiniteSet(jobs') /\ WorkOf(jobs') <= WorkOf(jobs) + 2
      BY <3>2, WorkOfOneMore
    <3> QED
      BY <1>0, <1>3, <2>2, <3>3
  <2>3. CASE taken'[1] = taken[1] /\ taken'[2] = taken[2] + 1
    <3>1. {d \in Cameras : taken'[d] # taken[d]} = {2}
      BY <1>0, <2>3 DEF Cameras
    <3>2. jobs' = jobs \cup {new(2)}
      BY <1>2, <3>1
    <3>3. IsFiniteSet(jobs') /\ WorkOf(jobs') <= WorkOf(jobs) + 2
      BY <3>2, WorkOfOneMore
    <3> QED
      BY <1>0, <1>3, <2>3, <3>3
  <2>4. CASE taken'[1] = taken[1] + 1 /\ taken'[2] = taken[2] + 1
    <3>1. {d \in Cameras : taken'[d] # taken[d]} = {1, 2}
      BY <1>0, <2>4 DEF Cameras
    <3>2. jobs' = (jobs \cup {new(1)}) \cup {new(2)}
      BY <1>2, <3>1
    <3>3. IsFiniteSet(jobs \cup {new(1)}) /\ WorkOf(jobs \cup {new(1)}) <= WorkOf(jobs) + 2
      BY WorkOfOneMore
    <3>4. IsFiniteSet(jobs') /\ WorkOf(jobs') <= WorkOf(jobs \cup {new(1)}) + 2
      BY <3>2, <3>3, WorkOfOneMore
    <3>5. WorkOf(jobs \cup {new(1)}) \in Nat /\ WorkOf(jobs') \in Nat
      BY <3>3, <3>4, WorkIs
    <3> HIDE DEF new
    <3> QED
      BY <1>0, <1>3, <2>4, <3>3, <3>4, <3>5
  <2> QED
    BY <1>1, <2>1, <2>2, <2>3, <2>4
<1>5. WorkOf(jobs') \in Nat
  BY <1>4, WorkIs
<1>6. ToPaint \in Nat /\ ToPaint' \in Nat
  BY <1>0, <1>1, <1>3, <1>5 DEF ToPaint, ToTake
<1>7. /\ ~ waiting
      /\ \/ waiting' /\ UNCHANGED listVars
         \/ \E S \in SUBSET Cameras : S # {} /\ Take(S)
  BY WaitsOrTakes DEF DisplayThread, ViewerInv
<1>8. CASE waiting' /\ UNCHANGED listVars
  <2>1. {d \in Cameras : taken'[d] # taken[d]} = {} /\ taken' = taken
    BY <1>8 DEF listVars
  <2>2. jobs' = jobs
    BY <1>2, <2>1
  <2>3. ToPaint' = ToPaint
    BY <2>1, <2>2 DEF ToPaint, ToTake
  <2> QED
    BY <1>4, <1>6, <1>7, <1>8, <2>3
<1>9. ASSUME NEW S \in SUBSET Cameras, S # {}, Take(S) PROVE ToPaint' < ToPaint
  <2>1. taken'[1] = taken[1] + 1 \/ taken'[2] = taken[2] + 1
    BY <1>0, <1>9 DEF Take, Cameras
  <2> QED
    BY <1>0, <1>1, <1>3, <1>4, <1>5, <2>1 DEF ToPaint, ToTake
<1> QED
  BY <1>4, <1>6, <1>7, <1>8, <1>9

\* A worker's own step leaves less to do.
LEMMA WorkerLess ==
  ASSUME ViewerInv, IsFiniteSet(jobs), NEW j \in jobs, Prepare(j) \/ Paint(j)
  PROVE  /\ IsFiniteSet(jobs') /\ ToPaint \in Nat /\ ToPaint' \in Nat
         /\ ToPaint' < ToPaint /\ waiting' = waiting
<1> USE FrameLimitAssumption
<1>1. UNCHANGED <<taken, waiting>>
  BY DEF Prepare, Paint, monitorVars, listVars
<1>2. IsFiniteSet(jobs') /\ WorkOf(jobs') < WorkOf(jobs)
  <2>1. CASE Prepare(j)
    <3> DEFINE found == [j EXCEPT !.content = imageBytes[j.camera]]
    <3>1. found.content # Unread
      BY DEF ViewerInv, ViewerTypeOK, Jobs, Unread, Torn
    <3>2. jobs' = (jobs \ {j}) \cup {found} /\ j.content = Unread
      BY <2>1 DEF Prepare
    <3> HIDE DEF found
    <3> QED
      BY <3>1, <3>2, WorkOfPrepared
  <2>2. CASE Paint(j)
    BY <2>2, WorkOfPainted DEF Paint
  <2> QED
    BY <2>1, <2>2
<1>3. WorkOf(jobs) \in Nat /\ WorkOf(jobs') \in Nat
  BY <1>2, WorkIs
<1>4. taken[1] \in 0..FrameLimit /\ taken[2] \in 0..FrameLimit
  BY DEF ViewerInv, MonitorInv, MonitorTypeOK, Cameras
<1> QED
  BY <1>1, <1>2, <1>3, <1>4 DEF ToPaint, ToTake
=============================================================================
