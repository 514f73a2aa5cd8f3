--------------------------- MODULE MonitorProofs ---------------------------
(***************************************************************************)
(* monitor.java's safety properties proved for any number of frames and    *)
(* any time stamps.  They hold together with one more fact: the display    *)
(* thread is in the wait set only where display() calls wait().            *)
(***************************************************************************)
EXTENDS Monitor, SequenceTheorems, TLAPS

MonitorInv ==
  /\ MonitorTypeOK
  /\ Backlog
  /\ PairStaysTogether
  /\ ChosenViewInForce
  /\ NoMissedNotify
  /\ display = "entry" => ~ waiting

\* What a list holds after LinkedList.add.
LEMMA EnqueueFacts ==
  ASSUME NEW list \in Seq(Images), NEW image \in Images
  PROVE  /\ Enqueue(list, image) \in Seq(Images)
         /\ Len(Enqueue(list, image)) = Len(list) + 1
         /\ \A i \in 1..Len(list) : Enqueue(list, image)[i] = list[i]
         /\ Enqueue(list, image)[Len(list) + 1] = image
         /\ Enqueue(list, image) # <<>>
         /\ list # <<>> => Head(Enqueue(list, image)) = Head(list)
<1>1. /\ Append(list, image) \in Seq(Images)
      /\ Len(Append(list, image)) = Len(list) + 1
      /\ \A i \in 1..Len(list) : Append(list, image)[i] = list[i]
      /\ Append(list, image)[Len(list) + 1] = image
  BY AppendProperties
<1>2. Append(list, image) # <<>>
  BY <1>1
<1>3. ASSUME list # <<>> PROVE Head(Append(list, image)) = Head(list)
  <2>1. 1 \in 1..Len(list)
    BY <1>3
  <2> QED
    BY <1>1, <1>2, <1>3, <2>1
<1> QED
  BY <1>1, <1>2, <1>3 DEF Enqueue

\* What a nonempty list holds after LinkedList.removeFirst.
LEMMA RemoveFirstFacts ==
  ASSUME NEW list \in Seq(Images), list # <<>>
  PROVE  /\ Head(list) \in Images
         /\ Head(list) = list[1]
         /\ Tail(list) \in Seq(Images)
         /\ Len(Tail(list)) = Len(list) - 1
         /\ Len(list) \in Nat /\ Len(list) > 0
         /\ \A i \in 1..Len(Tail(list)) : Tail(list)[i] = list[i + 1]
  BY HeadTailProperties, LenProperties, EmptySeq

\* display() takes images only from lists that have one, and what is left is
\* again the backlog.
LEMMA TakeFacts ==
  ASSUME MonitorInv, NEW S \in SUBSET Cameras, \A c \in S : HasImage(c), Take(S)
  PROVE  /\ imageList' \in [Cameras -> Seq(Images)]
         /\ taken' \in [Cameras -> 0..FrameLimit]
         /\ added' = added
         /\ Backlog'
         /\ \A c \in Cameras \ S : imageList'[c] = imageList[c]
<1> USE FrameLimitAssumption
<1>1. \A c \in Cameras : /\ imageList[c] \in Seq(Images)
                         /\ taken[c] \in 0..FrameLimit /\ added[c] \in 0..FrameLimit
                         /\ taken[c] + Len(imageList[c]) = added[c]
                         /\ \A i \in 1..Len(imageList[c]) : imageList[c][i].nr = taken[c] + i
  BY DEF MonitorInv, MonitorTypeOK, Backlog
<1>2. \A c \in S : /\ Tail(imageList[c]) \in Seq(Images)
                   /\ Len(Tail(imageList[c])) = Len(imageList[c]) - 1
                   /\ Len(imageList[c]) \in Nat /\ Len(imageList[c]) > 0
                   /\ \A i \in 1..Len(Tail(imageList[c])) :
                         Tail(imageList[c])[i] = imageList[c][i + 1]
  BY <1>1, RemoveFirstFacts DEF HasImage
<1>3. imageList' \in [Cameras -> Seq(Images)]
  BY <1>1, <1>2 DEF Take
<1>4. taken' \in [Cameras -> 0..FrameLimit]
  BY <1>1, <1>2 DEF Take
<1>5. ASSUME NEW c \in Cameras
      PROVE  /\ taken'[c] + Len(imageList'[c]) = added'[c]
             /\ \A i \in 1..Len(imageList'[c]) : imageList'[c][i].nr = taken'[c] + i
  <2>1. CASE c \in S
    <3>1. imageList'[c] = Tail(imageList[c]) /\ taken'[c] = taken[c] + 1 /\ added' = added
      BY <2>1 DEF Take
    <3>2. taken'[c] + Len(imageList'[c]) = added'[c]
      <4>1. Len(imageList'[c]) = Len(imageList[c]) - 1 /\ Len(imageList[c]) \in Nat
        BY <1>2, <2>1, <3>1
      <4>2. taken[c] \in Int /\ taken[c] + Len(imageList[c]) = added[c]
        BY <1>1
      <4> QED
        BY <3>1, <4>1, <4>2
    <3>3. ASSUME NEW i \in 1..Len(imageList'[c]) PROVE imageList'[c][i].nr = taken'[c] + i
      <4>1. i + 1 \in 1..Len(imageList[c]) /\ imageList'[c][i] = imageList[c][i + 1]
        BY <1>2, <2>1, <3>1, <3>3
      <4>2. imageList[c][i + 1].nr = taken[c] + (i + 1)
        BY <1>1, <4>1
      <4> QED
        BY <1>1, <3>1, <4>1, <4>2
    <3> QED
      BY <3>2, <3>3
  <2>2. CASE c \notin S
    BY <1>1, <2>2 DEF Take
  <2> QED
    BY <2>1, <2>2
<1> QED
  BY <1>3, <1>4, <1>5 DEF Take, Backlog

\* Initially both lists are empty and the display thread has not waited yet.
LEMMA MonitorInitInv == MonitorInit => MonitorInv
<1> SUFFICES ASSUME MonitorInit PROVE MonitorInv
  OBVIOUS
<1> USE FrameLimitAssumption DEF MonitorInit
<1>1. MonitorTypeOK
  <2>1. imageList \in [Cameras -> Seq(Images)]
    OBVIOUS
  <2>2. added \in [Cameras -> 0..FrameLimit] /\ taken \in [Cameras -> 0..FrameLimit]
    OBVIOUS
  <2>3. stamped \in BOOLEAN /\ waiting \in BOOLEAN /\ due \in BOOLEAN
    OBVIOUS
  <2> QED
    BY <2>1, <2>2, <2>3
    DEF MonitorTypeOK, Cameras, SYNCHRONOUS_MODE, ASYNCHRONOUS_MODE, AUTOMATIC_MODE,
        IDLE_MODE, MOVIE_MODE
<1>2. Backlog
  BY EmptySeq DEF Backlog
<1> QED
  BY <1>1, <1>2 DEF MonitorInv, PairStaysTogether, ChosenViewInForce, NoMissedNotify

\* An arriving image preserves the invariant: it goes to the end of its list,
\* behind the image display() may be pausing for, and wakes the display thread.
LEMMA AddImageInv ==
  ASSUME MonitorInv, NEW c \in Cameras, NEW ts \in Times,
         NEW recent \in BOOLEAN, NEW motion \in BOOLEAN, AddImage(c, ts, recent, motion)
  PROVE  MonitorInv'
<1> USE FrameLimitAssumption, TimesAssumption
<1> DEFINE image == [nr |-> added[c] + 1, ts |-> ts]
<1>1. /\ \A d \in Cameras : /\ imageList[d] \in Seq(Images)
                            /\ added[d] \in 0..FrameLimit /\ taken[d] \in 0..FrameLimit
                            /\ taken[d] + Len(imageList[d]) = added[d]
                            /\ \A i \in 1..Len(imageList[d]) : imageList[d][i].nr = taken[d] + i
      /\ imageList \in [Cameras -> Seq(Images)]
      /\ added \in [Cameras -> 0..FrameLimit]
  BY DEF MonitorInv, MonitorTypeOK, Backlog
<1>2. image \in Images /\ image.nr = added[c] + 1
  BY <1>1 DEF AddImage, Images
<1>3. /\ added[c] < FrameLimit
      /\ imageList' = [imageList EXCEPT ![c] = Enqueue(imageList[c], image)]
      /\ added' = [added EXCEPT ![c] = added[c] + 1]
      /\ taken' = taken
  BY <1>1 DEF AddImage
<1> HIDE DEF image
<1>4. /\ Enqueue(imageList[c], image) \in Seq(Images)
      /\ Len(Enqueue(imageList[c], image)) = Len(imageList[c]) + 1
      /\ \A i \in 1..Len(imageList[c]) : Enqueue(imageList[c], image)[i] = imageList[c][i]
      /\ Enqueue(imageList[c], image)[Len(imageList[c]) + 1] = image
      /\ Enqueue(imageList[c], image) # <<>>
      /\ imageList[c] # <<>> => Head(Enqueue(imageList[c], image)) = Head(imageList[c])
  BY <1>1, <1>2, EnqueueFacts
<1>5. imageList' \in [Cameras -> Seq(Images)] /\ added' \in [Cameras -> 0..FrameLimit]
  BY <1>1, <1>3, <1>4
<1>6. MonitorTypeOK'
  <2>1. viewingMode' \in {SYNCHRONOUS_MODE, ASYNCHRONOUS_MODE} /\ stamped' \in BOOLEAN
    BY DEF MonitorInv, MonitorTypeOK, AddImage, ChooseViewing
  <2>2. cameraMode' \in {IDLE_MODE, MOVIE_MODE} /\ waiting' \in BOOLEAN
    BY DEF AddImage, NotifyAll
  <2> QED
    BY <1>3, <1>5, <2>1, <2>2 DEF MonitorInv, MonitorTypeOK, AddImage, displayVars
<1>7. Backlog'
  <2> SUFFICES ASSUME NEW d \in Cameras
               PROVE  /\ taken'[d] + Len(imageList'[d]) = added'[d]
                      /\ \A i \in 1..Len(imageList'[d]) : imageList'[d][i].nr = taken'[d] + i
    BY DEF Backlog
  <2>1. CASE d = c
    <3>1. imageList'[c] = Enqueue(imageList[c], image) /\ added'[c] = added[c] + 1
      BY <1>1, <1>3
    <3>2. Len(imageList[c]) \in Nat /\ taken[c] \in Nat /\ added[c] = taken[c] + Len(imageList[c])
      BY <1>1, LenProperties
    <3>3. taken'[c] + Len(imageList'[c]) = added'[c]
      <4>1. taken'[c] = taken[c] /\ Len(imageList'[c]) = Len(imageList[c]) + 1
        BY <1>3, <1>4, <3>1
      <4> QED
        BY <3>1, <3>2, <4>1
    <3>4. ASSUME NEW i \in 1..Len(imageList'[c]) PROVE imageList'[c][i].nr = taken'[c] + i
      <4>1. i \in 1..Len(imageList[c]) \/ i = Len(imageList[c]) + 1
        BY <1>4, <3>1, <3>2
      <4>2. CASE i \in 1..Len(imageList[c])
        <5>1. imageList'[c][i] = imageList[c][i]
          BY <1>4, <3>1, <4>2
        <5>2. imageList[c][i].nr = taken[c] + i
          BY <1>1, <4>2
        <5>3. taken'[c] = taken[c]
          BY <1>3
        <5> QED
          BY <5>1, <5>2, <5>3
      <4>3. CASE i = Len(imageList[c]) + 1
        <5>1. imageList'[c][i] = image
          BY <1>4, <3>1, <4>3
        <5>2. image.nr = taken[c] + Len(imageList[c]) + 1
          BY <1>2, <3>2
        <5>3. taken'[c] = taken[c]
          BY <1>3
        <5>4. imageList'[c][i].nr = taken[c] + i
          BY <3>2, <4>3, <5>1, <5>2
        <5> QED
          BY <5>3, <5>4
      <4> QED
        BY <4>1, <4>2, <4>3
    <3> QED
      BY <2>1, <3>3, <3>4
  <2>2. CASE d # c
    BY <1>1, <1>3, <2>2
  <2> QED
    BY <2>1, <2>2
<1>8. PairStaysTogether'
  <2>1. \A d \in Cameras : HasImage(d) =>
           imageList'[d] # <<>> /\ Head(imageList'[d]) = Head(imageList[d])
    BY <1>1, <1>3, <1>4 DEF HasImage
  <2>2. Other(first) \in Cameras
    BY DEF MonitorInv, MonitorTypeOK, Other, Cameras
  <2> QED
    BY <2>1, <2>2 DEF MonitorInv, PairStaysTogether, AddImage, displayVars, HasImage
<1>9. ChosenViewInForce'
  BY DEF MonitorInv, ChosenViewInForce, AddImage, ChooseViewing
<1>10. NoMissedNotify' /\ (display = "entry" => ~ waiting)'
  BY DEF AddImage, NotifyAll, NoMissedNotify
<1> QED
  BY <1>6, <1>7, <1>8, <1>9, <1>10 DEF MonitorInv

\* So do the user's clicks, the clock and spurious wakeups.
LEMMA OthersInv ==
  ASSUME MonitorInv, ButtonClick \/ TimePasses \/ SpuriousWakeup \/ UNCHANGED monitorVars
  PROVE  MonitorInv'
<1> USE DEF listVars, modeVars, displayVars, monitorVars
<1>1. UNCHANGED listVars /\ UNCHANGED <<display, first, diff, firstTs, stamped>>
  BY DEF ButtonClick, ChangeViewMode, ChangeCamMode, TimePasses, SpuriousWakeup
<1>2. waiting' = waiting \/ waiting' = FALSE
  BY DEF ButtonClick, ChangeViewMode, ChangeCamMode, TimePasses, SpuriousWakeup, NotifyAll
<1>3. /\ viewingMode' \in {SYNCHRONOUS_MODE, ASYNCHRONOUS_MODE}
      /\ userViewMode' \in {SYNCHRONOUS_MODE, ASYNCHRONOUS_MODE, AUTOMATIC_MODE}
      /\ ChosenViewInForce'
  BY ClicksAssumption
  DEF MonitorInv, MonitorTypeOK, ChosenViewInForce, ButtonClick, ChangeViewMode, ChangeCamMode,
      TimePasses, SpuriousWakeup, SYNCHRONOUS_MODE, ASYNCHRONOUS_MODE, AUTOMATIC_MODE
<1>4. /\ cameraMode' \in {IDLE_MODE, MOVIE_MODE}
      /\ userCamMode' \in {IDLE_MODE, MOVIE_MODE, AUTOMATIC_MODE}
  BY ClicksAssumption
  DEF MonitorInv, MonitorTypeOK, ButtonClick, ChangeViewMode, ChangeCamMode,
      TimePasses, SpuriousWakeup, IDLE_MODE, MOVIE_MODE, AUTOMATIC_MODE
<1>5. due' \in BOOLEAN
  BY DEF MonitorInv, MonitorTypeOK, ButtonClick, ChangeViewMode, ChangeCamMode,
         TimePasses, SpuriousWakeup
<1>6. MonitorTypeOK'
  BY <1>1, <1>2, <1>3, <1>4, <1>5 DEF MonitorInv, MonitorTypeOK
<1>7. Backlog' /\ PairStaysTogether'
  BY <1>1 DEF MonitorInv, Backlog, PairStaysTogether, HasImage
<1>8. NoMissedNotify' /\ (display = "entry" => ~ waiting)'
  BY <1>1, <1>2 DEF MonitorInv, NoMissedNotify, HasImage
<1> QED
  BY <1>3, <1>6, <1>7, <1>8 DEF MonitorInv

\* The display thread's own steps preserve the invariant.
LEMMA DisplayInv ==
  ASSUME MonitorInv, Display
  PROVE  MonitorInv'
<1> USE DEF listVars, modeVars
<1>1. ASSUME NEW place \in {"syncWait", "asyncWait", "pause"}, WaitAt(place),
             place = "asyncWait" => \A c \in Cameras : ~ HasImage(c),
             place = "syncWait" => \E c \in Cameras : ~ HasImage(c),
             place = "pause" => display = "pause"
      PROVE  MonitorInv'
  <2>1. MonitorTypeOK' /\ Backlog' /\ ChosenViewInForce'
    BY <1>1 DEF WaitAt, MonitorInv, MonitorTypeOK, Backlog, ChosenViewInForce
  <2>2. PairStaysTogether'
    BY <1>1 DEF WaitAt, MonitorInv, PairStaysTogether, HasImage
  <2>3. NoMissedNotify' /\ (display = "entry" => ~ waiting)'
    BY <1>1 DEF WaitAt, NoMissedNotify, HasImage
  <2> QED
    BY <2>1, <2>2, <2>3 DEF MonitorInv
<1>2. CASE SyncWaits \/ AsyncWaits \/ PauseGoesOn
  BY <1>1, <1>2 DEF SyncWaits, AsyncWaits, PauseGoesOn
<1>3. ASSUME NEW S \in SUBSET Cameras, \A c \in S : HasImage(c), Take(S),
             display' = "entry", ~ waiting', UNCHANGED modeVars,
             first' \in Cameras, diff' \in Nat, due' \in BOOLEAN, firstTs' \in Int,
             waiting' \in BOOLEAN
      PROVE  MonitorInv'
  <2>1. /\ imageList' \in [Cameras -> Seq(Images)]
        /\ taken' \in [Cameras -> 0..FrameLimit]
        /\ added' = added
        /\ Backlog'
    BY <1>3, TakeFacts
  <2>2. MonitorTypeOK'
    BY <1>3, <2>1 DEF MonitorInv, MonitorTypeOK
  <2>3. PairStaysTogether' /\ ChosenViewInForce' /\ NoMissedNotify'
    BY <1>3 DEF MonitorInv, PairStaysTogether, ChosenViewInForce, NoMissedNotify
  <2> QED
    BY <1>3, <2>1, <2>2, <2>3 DEF MonitorInv
<1>4. CASE SyncShowsSecond
  <2>1. Other(first) \in Cameras /\ HasImage(Other(first))
    BY <1>4 DEF SyncShowsSecond, MonitorInv, MonitorTypeOK, PairStaysTogether, Other, Cameras
  <2> QED
    BY <1>3, <1>4, <2>1 DEF SyncShowsSecond, MonitorInv, MonitorTypeOK
<1>5. CASE AsyncShows
  <2>1. ~ waiting /\ waiting' = waiting
    BY <1>5 DEF AsyncShows, InAsync, MonitorInv
  <2>2. {c \in Cameras : HasImage(c)} \in SUBSET Cameras
    OBVIOUS
  <2> QED
    BY <1>3, <1>5, <2>1, <2>2 DEF AsyncShows, MonitorInv, MonitorTypeOK
<1>6. CASE SyncShows
  <2> DEFINE ts == [c \in Cameras |-> Head(imageList[c]).ts]
             older == IF ts[1] < ts[2] THEN 1 ELSE 2
  <2>1. /\ \A c \in Cameras : HasImage(c)
        /\ first' = older /\ firstTs' = ts[older] /\ diff' = ts[Other(older)] - ts[older]
        /\ UNCHANGED modeVars
    BY <1>6 DEF SyncShows
  <2>2. \A c \in Cameras : ts[c] = Head(imageList[c]).ts /\ ts[c] \in Int
    <3> SUFFICES ASSUME NEW c \in Cameras PROVE Head(imageList[c]).ts \in Int
      OBVIOUS
    <3>1. imageList[c] \in Seq(Images) /\ imageList[c] # <<>>
      BY <2>1 DEF MonitorInv, MonitorTypeOK, HasImage
    <3>2. Head(imageList[c]) \in Images
      BY <3>1, RemoveFirstFacts
    <3> QED
      BY <3>2, TimesAssumption DEF Images
  <2>3. /\ older \in Cameras /\ Other(older) \in Cameras /\ Other(older) # older
        /\ firstTs' \in Int /\ diff' \in Nat
        /\ firstTs' + diff' = ts[Other(older)]
    <3>1. ts[1] \in Int /\ ts[2] \in Int
      BY <2>2 DEF Cameras
    <3> HIDE DEF ts
    <3>2. CASE ts[1] < ts[2]
      BY <2>1, <3>1, <3>2 DEF Cameras, Other
    <3>3. CASE ~ (ts[1] < ts[2])
      BY <2>1, <3>1, <3>3 DEF Cameras, Other
    <3> QED
      BY <3>2, <3>3
  <2>4. CASE Take(Cameras) /\ due' = TRUE /\ display' = "entry" /\ waiting' = FALSE
    BY <1>3, <2>1, <2>3, <2>4
  <2>5. CASE diff' > 0 /\ Take({older}) /\ due' = FALSE /\ display' = "pause" /\ waiting' = TRUE
    <3> HIDE DEF older
    <3>1. /\ imageList' \in [Cameras -> Seq(Images)]
          /\ taken' \in [Cameras -> 0..FrameLimit]
          /\ added' = added
          /\ Backlog'
          /\ imageList'[Other(older)] = imageList[Other(older)]
      <4>1. {older} \in SUBSET Cameras /\ (\A c \in {older} : HasImage(c)) /\ Take({older})
        BY <2>1, <2>3, <2>5
      <4>2. Other(older) \in Cameras \ {older}
        BY <2>3
      <4> QED
        BY <4>1, <4>2, TakeFacts
    <3>2. MonitorTypeOK'
      BY <2>1, <2>3, <2>5, <3>1 DEF MonitorInv, MonitorTypeOK
    <3>3. Other(first') = Other(older)
      BY <2>1
    <3>4. Head(imageList'[Other(older)]).ts = ts[Other(older)] /\ imageList'[Other(older)] # <<>>
      BY <2>1, <2>2, <2>3, <3>1 DEF HasImage
    <3>5. PairStaysTogether'
      BY <2>3, <2>5, <3>3, <3>4 DEF PairStaysTogether, HasImage, Other
    <3>6. ChosenViewInForce' /\ NoMissedNotify'
      BY <2>1, <2>5 DEF MonitorInv, ChosenViewInForce, NoMissedNotify
    <3> QED
      BY <2>5, <3>1, <3>2, <3>5, <3>6 DEF MonitorInv
  <2> QED
    BY <1>6, <2>4, <2>5 DEF SyncShows
<1> QED
  BY <1>2, <1>4, <1>5, <1>6 DEF Display

\* The invariant holds in every reachable state.
THEOREM MonitorInvariance == MonitorSpec => []MonitorInv
<1>1. MonitorInit => MonitorInv
  BY MonitorInitInv
<1>2. MonitorInv /\ [MonitorNext]_monitorVars => MonitorInv'
  BY AddImageInv, OthersInv, DisplayInv DEF MonitorNext, AddSomeImage
<1> QED
  BY <1>1, <1>2, PTL DEF MonitorSpec

\* Type correctness for any number of frames and any time stamps.
THEOREM MonitorTypes == MonitorSpec => []MonitorTypeOK
<1>1. MonitorInv => MonitorTypeOK
  BY DEF MonitorInv
<1> QED
  BY <1>1, MonitorInvariance, PTL

\* No frame is lost, taken twice or out of order between addImage and display.
THEOREM NoFrameLost == MonitorSpec => []Backlog
<1>1. MonitorInv => Backlog
  BY DEF MonitorInv
<1> QED
  BY <1>1, MonitorInvariance, PTL

\* The second image of a pair is there when its time has come.
THEOREM PairKept == MonitorSpec => []PairStaysTogether
<1>1. MonitorInv => PairStaysTogether
  BY DEF MonitorInv
<1> QED
  BY <1>1, MonitorInvariance, PTL

\* The user's viewing mode is in force.
THEOREM ViewEnforced == MonitorSpec => []ChosenViewInForce
<1>1. MonitorInv => ChosenViewInForce
  BY DEF MonitorInv
<1> QED
  BY <1>1, MonitorInvariance, PTL

\* The display thread never sleeps through images it waits for.
THEOREM NotifyReaches == MonitorSpec => []NoMissedNotify
<1>1. MonitorInv => NoMissedNotify
  BY DEF MonitorInv
<1> QED
  BY <1>1, MonitorInvariance, PTL
---------------------------------------------------------------------------
(* Going on *)

LEMMA AwakeCanGo == MonitorInv => waiting \/ DisplayCanGo
<1> SUFFICES ASSUME MonitorInv, ~ waiting PROVE DisplayCanGo
  OBVIOUS
<1>1. display \in {"entry", "syncWait", "asyncWait", "pause"}
  BY DEF MonitorInv, MonitorTypeOK
<1>2. CASE display = "pause"
  BY <1>2 DEF MonitorInv, PairStaysTogether, DisplayCanGo
<1>3. CASE display # "pause"
  BY <1>1, <1>3 DEF DisplayCanGo, InSync, InAsync
<1> QED
  BY <1>2, <1>3

\* The display thread can go on whenever no wait() holds it, and none does while
\* there is an image to show, but for the synchronous branch's: whatever was
\* added or clicked while the monitor was free, getFirst has what it returns.
THEOREM DisplayRunsOn ==
  MonitorSpec => [](/\ waiting \/ DisplayCanGo
                    /\ DisplayCanGo \/ DrainedOrStuck)
<1>1. MonitorInv => /\ waiting \/ DisplayCanGo
                    /\ DisplayCanGo \/ DrainedOrStuck
  <2>1. MonitorInv /\ waiting => DrainedOrStuck
    BY DEF MonitorInv, MonitorTypeOK, NoMissedNotify, DrainedOrStuck
  <2> QED
    BY <2>1, AwakeCanGo
<1> QED
  BY <1>1, MonitorInvariance, PTL

\* Each step of display either ends in a wait or takes the next image of at
\* least one list.
LEMMA WaitsOrTakes ==
  ASSUME MonitorInv, Display
  PROVE  /\ ~ waiting
         /\ \/ waiting' /\ UNCHANGED listVars
               /\ DrainedOrStuck'
            \/ \E S \in SUBSET Cameras : /\ S # {} /\ Take(S)
                                         /\ \A c \in S : HasImage(c)
<1>1. CASE SyncWaits \/ PauseGoesOn
  BY <1>1 DEF SyncWaits, PauseGoesOn, WaitAt, InSync, DrainedOrStuck, MonitorInv, listVars
<1>2. CASE AsyncWaits
  <2>1. waiting' /\ UNCHANGED listVars /\ ~ waiting
    BY <1>2 DEF AsyncWaits, WaitAt, InAsync, MonitorInv
  <2>2. \A c \in Cameras : ~ HasImage(c)'
    BY <1>2, <2>1 DEF AsyncWaits, HasImage, listVars
  <2> QED
    BY <2>1, <2>2 DEF DrainedOrStuck
<1>3. CASE SyncShows
  <2>1. \/ Take(Cameras)
        \/ \E older \in Cameras : Take({older})
    BY <1>3 DEF SyncShows, Cameras
  <2>2. /\ ~ waiting /\ \A c \in Cameras : HasImage(c)
        /\ Cameras # {} /\ \A c \in Cameras : {c} # {} /\ {c} \subseteq Cameras
    BY <1>3 DEF SyncShows, InSync, MonitorInv, Cameras
  <2> QED
    BY <2>1, <2>2
<1>4. CASE SyncShowsSecond
  <2>1. Other(first) \in Cameras
    BY DEF MonitorInv, MonitorTypeOK, Cameras, Other
  <2>2. HasImage(Other(first)) /\ Take({Other(first)}) /\ ~ waiting
    BY <1>4 DEF SyncShowsSecond, MonitorInv, PairStaysTogether
  <2>3. {Other(first)} # {} /\ {Other(first)} \subseteq Cameras
    BY <2>1
  <2> QED
    BY <2>2, <2>3
<1>5. CASE AsyncShows
  <2> DEFINE S == {c \in Cameras : HasImage(c)}
  <2>1. S # {} /\ Take(S) /\ ~ waiting /\ S \subseteq Cameras /\ \A c \in S : HasImage(c)
    BY <1>5 DEF AsyncShows, InAsync, MonitorInv
  <2> QED
    BY <2>1
<1> QED
  BY <1>1, <1>2, <1>3, <1>4, <1>5 DEF Display

\* Images that display has still to take, of both cameras' whole deliveries.
ToTake == (FrameLimit - taken[1]) + (FrameLimit - taken[2])

\* Nothing adds to what display has still to take, and each of its steps takes
\* some of it or ends where DrainsUnlessStuck holds.
THEOREM EachDisplayDrains ==
  MonitorSpec => [][/\ ToTake \in Nat /\ ToTake' <= ToTake
                    /\ Display => ToTake' < ToTake \/ DrainedOrStuck']_monitorVars
<1> DEFINE Drains == /\ ToTake \in Nat /\ ToTake' <= ToTake
                     /\ Display => ToTake' < ToTake \/ DrainedOrStuck'
<1>0. ASSUME MonitorInv
      PROVE  /\ taken[1] \in 0..FrameLimit /\ taken[2] \in 0..FrameLimit
             /\ taken \in [Cameras -> 0..FrameLimit] /\ ToTake \in Nat
  <2>1. taken \in [Cameras -> 0..FrameLimit] /\ 1 \in Cameras /\ 2 \in Cameras
    BY <1>0 DEF MonitorInv, MonitorTypeOK, Cameras
  <2>2. taken[1] \in 0..FrameLimit /\ taken[2] \in 0..FrameLimit
    BY <2>1
  <2>3. FrameLimit - taken[1] \in Nat /\ FrameLimit - taken[2] \in Nat
    BY <2>2, FrameLimitAssumption
  <2> QED
    BY <2>1, <2>2, <2>3 DEF ToTake
<1>1. ASSUME MonitorInv, MonitorNext PROVE Drains
  <2>1. CASE ~ Display
    <3>1. UNCHANGED taken
      BY <1>1, <2>1
      DEF MonitorNext, AddSomeImage, AddImage, ButtonClick, ChangeViewMode, ChangeCamMode,
          TimePasses, SpuriousWakeup, listVars
    <3> QED
      BY <1>0, <1>1, <2>1, <3>1 DEF ToTake
  <2>2. CASE Display
    <3>1. CASE UNCHANGED listVars /\ DrainedOrStuck'
      BY <1>0, <1>1, <3>1 DEF ToTake, listVars
    <3>2. ASSUME NEW S \in SUBSET Cameras, S # {}, Take(S) PROVE Drains
      <4>1. \A c \in Cameras : taken'[c] = IF c \in S THEN taken[c] + 1 ELSE taken[c]
        BY <3>2 DEF Take
      <4>2. (1 \in S \/ 2 \in S) /\ 1 \in Cameras /\ 2 \in Cameras
        BY <3>2 DEF Cameras
      <4>3. /\ taken'[1] = taken[1] \/ taken'[1] = taken[1] + 1
            /\ taken'[2] = taken[2] \/ taken'[2] = taken[2] + 1
            /\ taken'[1] = taken[1] + 1 \/ taken'[2] = taken[2] + 1
        BY <4>1, <4>2
      <4>4. ToTake' < ToTake
        BY <1>0, <1>1, <4>3, FrameLimitAssumption DEF ToTake
      <4>5. ToTake \in Nat /\ ToTake' \in Int
        BY <1>0, <1>1, <4>3, FrameLimitAssumption DEF ToTake
      <4> QED
        BY <4>4, <4>5
    <3> QED
      BY <1>1, <2>2, <3>1, <3>2, WaitsOrTakes
  <2> QED
    BY <2>1, <2>2
<1>2. MonitorInv /\ [MonitorNext]_monitorVars => [Drains]_monitorVars
  BY <1>1
<1> QED
  BY <1>2, MonitorInvariance, PTL DEF MonitorSpec
===========================================================================
