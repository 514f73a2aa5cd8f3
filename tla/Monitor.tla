------------------------------ MODULE Monitor ------------------------------
(***************************************************************************)
(* monitor.java: the image lists and modes shared by two ClientThreads     *)
(* (addImage), the GUI's listener (changeMode) and one DisplayThread       *)
(* (display, called for ever).                                             *)
(*                                                                         *)
(* Every method is synchronized, so a stretch of one between two wait()s   *)
(* is one action here.  Only the display thread waits on the monitor;      *)
(* notifyAll makes it runnable, and it tests its condition again later,    *)
(* after whatever the other threads did in between.                        *)
(*                                                                         *)
(* The fields newImage, emptyList and updatedMode are written and never    *)
(* read by the program, and are left out.                                  *)
(***************************************************************************)
EXTENDS Integers, Sequences

CONSTANTS
  FrameLimit,  \* frames a camera delivers (its server's turns: 247)
  Times,       \* time stamps of images, in milliseconds
  Clicks       \* calls <<newMode, type>> of changeMode the user's buttons make

ASSUME FrameLimitAssumption == FrameLimit \in Nat
ASSUME TimesAssumption == Times \subseteq Int /\ Times # {}

ASSUME ClicksAssumption == Clicks \subseteq {0, 1, 2} \X {0, 1}

SYNCHRONOUS_MODE  == 0
ASYNCHRONOUS_MODE == 1
IDLE_MODE         == 0
MOVIE_MODE        == 1
AUTOMATIC_MODE    == 2

Cameras == {1, 2}
Other(c) == 3 - c
Images == [nr : 1..FrameLimit, ts : Times]   \* nr is the camera's n-th frame

VARIABLES
  imageList,     \* the lists imageList1 and imageList2
  viewingMode, userViewMode, cameraMode, userCamMode,
  stamped,       \* lastTimeAdded has been set (it starts at 0, long ago)
  display,       \* where the display thread is in display()
  waiting,       \* it is in the monitor's wait set
  first,         \* the camera shown first in a synchronous pair (display1)
  diff,          \* time to wait between the two images of a pair
  due,           \* dispTime has come
  added, taken,  \* history: frames added to and taken from each list
  firstTs        \* history: time stamp of the first image of the pair

listVars    == <<imageList, added, taken>>
modeVars    == <<viewingMode, userViewMode, cameraMode, userCamMode, stamped>>
displayVars == <<display, first, diff, due, firstTs>>
monitorVars == <<listVars, modeVars, displayVars, waiting>>
---------------------------------------------------------------------------
MonitorInit ==
  /\ imageList = [c \in Cameras |-> <<>>]
  /\ viewingMode = ASYNCHRONOUS_MODE
  /\ userViewMode = AUTOMATIC_MODE
  /\ cameraMode = IDLE_MODE
  /\ userCamMode = AUTOMATIC_MODE
  /\ stamped = FALSE
  /\ display = "entry"
  /\ waiting = FALSE
  /\ first = 2
  /\ diff = 0
  /\ due = TRUE
  /\ added = [c \in Cameras |-> 0]
  /\ taken = [c \in Cameras |-> 0]
  /\ firstTs = 0
\* notifyAll: the display thread, if it waits, is to run again.
NotifyNobody == UNCHANGED waiting      \* mutant: notifyAll commented out
NotifyAll == waiting' = FALSE

\* LinkedList.add
EnqueueInFront(list, image) == <<image>> \o list      \* mutant
Enqueue(list, image) == Append(list, image)
---------------------------------------------------------------------------
(* addImage *)

\* Mutant: the timing of arrivals overrides the user's choice.
ChooseViewingAlways(recent) ==
  /\ viewingMode' = IF recent THEN SYNCHRONOUS_MODE ELSE ASYNCHRONOUS_MODE
  /\ stamped' = TRUE

\* With automatic viewing, images less than 200 ms apart (recent) select the
\* synchronous mode and others the asynchronous one.
ChooseViewing(recent) ==
  IF userViewMode = AUTOMATIC_MODE
  THEN /\ viewingMode' = IF recent THEN SYNCHRONOUS_MODE ELSE ASYNCHRONOUS_MODE
       /\ stamped' = TRUE
  ELSE UNCHANGED <<viewingMode, stamped>>

AddImage(c, ts, recent, motion) ==
  /\ added[c] < FrameLimit
  /\ recent => stamped
  /\ imageList' = [imageList EXCEPT ![c] =
       Enqueue(@, [nr |-> added[c] + 1, ts |-> ts])]
  /\ added' = [added EXCEPT ![c] = @ + 1]
  /\ ChooseViewing(recent)
  /\ cameraMode' = IF motion /\ userCamMode # IDLE_MODE THEN MOVIE_MODE ELSE IDLE_MODE
  /\ NotifyAll
  /\ UNCHANGED <<taken, userViewMode, userCamMode, displayVars>>

AddSomeImage(c) ==
  \E ts \in Times, recent, motion \in BOOLEAN : AddImage(c, ts, recent, motion)
---------------------------------------------------------------------------
(* changeMode: choosing the mode already chosen returns without effect *)

\* Mutant: "automatic" is copied to the mode in force.
ChangeViewModeAlways(newMode) ==
  /\ newMode # userViewMode
  /\ userViewMode' = newMode
  /\ viewingMode' = newMode
  /\ NotifyAll
  /\ UNCHANGED <<cameraMode, userCamMode, stamped, listVars, displayVars>>

ChangeViewMode(newMode) ==
  /\ newMode # userViewMode
  /\ userViewMode' = newMode
  /\ viewingMode' = IF newMode # AUTOMATIC_MODE THEN newMode ELSE viewingMode
  /\ NotifyAll
  /\ UNCHANGED <<cameraMode, userCamMode, stamped, listVars, displayVars>>

ChangeCamMode(newMode) ==
  /\ newMode # userCamMode
  /\ userCamMode' = newMode
  /\ cameraMode' = IF newMode # AUTOMATIC_MODE THEN newMode ELSE cameraMode
  /\ NotifyAll
  /\ UNCHANGED <<viewingMode, userViewMode, stamped, listVars, displayVars>>

\* One of the GUI's buttons: type 0 is the viewing mode, 1 the camera mode.
ButtonClick ==
  \E click \in Clicks : \/ click[2] = 0 /\ ChangeViewMode(click[1])
                        \/ click[2] = 1 /\ ChangeCamMode(click[1])
\* framesRate: the first letter of the message for the cameras.
FramesRate ==
  IF userCamMode = IDLE_MODE THEN "I" ELSE IF userCamMode = AUTOMATIC_MODE THEN "A" ELSE "M"
---------------------------------------------------------------------------
(* display *)

\* Mutant: the images shown stay in their lists.
TakeWithoutRemoving(S) ==
  /\ taken' = [c \in Cameras |-> IF c \in S THEN taken[c] + 1 ELSE taken[c]]
  /\ UNCHANGED <<imageList, added>>

\* viewImage is given the first image of each list in S, which leaves the list.
Take(S) ==
  /\ imageList' = [c \in Cameras |-> IF c \in S THEN Tail(imageList[c]) ELSE imageList[c]]
  /\ taken' = [c \in Cameras |-> IF c \in S THEN taken[c] + 1 ELSE taken[c]]
  /\ UNCHANGED added

WaitAt(place) ==
  /\ display' = place
  /\ waiting' = TRUE
  /\ UNCHANGED <<listVars, modeVars, first, diff, due, firstTs>>

HasImage(c) == imageList[c] # <<>>

\* In the synchronous branch, from the top or after a wait.
InSync == \/ display = "entry" /\ viewingMode = SYNCHRONOUS_MODE
          \/ display = "syncWait" /\ ~ waiting

SyncWaits ==
  /\ InSync
  /\ \E c \in Cameras : ~ HasImage(c)
  /\ WaitAt("syncWait")

\* Show the older of the two first images, and compute when the other is due.
\* It may be due by the time the clock is read again; if not, wait() first.
SyncShows ==
  /\ InSync
  /\ \A c \in Cameras : HasImage(c)
  /\ LET ts == [c \in Cameras |-> Head(imageList[c]).ts]
         older == IF ts[1] < ts[2] THEN 1 ELSE 2
     IN  /\ first' = older
         /\ firstTs' = ts[older]
         /\ diff' = ts[Other(older)] - ts[older]
         /\ \/ /\ Take(Cameras)
               /\ due' = TRUE
               /\ display' = "entry"
               /\ waiting' = FALSE
            \/ /\ diff' > 0
               /\ Take({older})
               /\ due' = FALSE
               /\ display' = "pause"
               /\ waiting' = TRUE
  /\ UNCHANGED modeVars

\* The wall clock reaches dispTime.  Nobody is notified of it.
TimePasses ==
  /\ display = "pause"
  /\ ~ due
  /\ due' = TRUE
  /\ UNCHANGED <<listVars, modeVars, waiting, display, first, diff, firstTs>>

PauseGoesOn ==
  /\ display = "pause" /\ ~ waiting
  /\ ~ due
  /\ WaitAt("pause")

\* "Now we have waited the right amount, display the second image".
SyncShowsSecond ==
  /\ display = "pause" /\ ~ waiting
  /\ due
  /\ Take({Other(first)})
  /\ display' = "entry"
  /\ UNCHANGED <<modeVars, waiting, first, diff, due, firstTs>>

InAsync == \/ display = "entry" /\ viewingMode # SYNCHRONOUS_MODE
           \/ display = "asyncWait" /\ ~ waiting

\* Mutant: || for && in the condition of the loop.
AsyncWaitsForBoth ==
  /\ InAsync
  /\ \E c \in Cameras : ~ HasImage(c)
  /\ WaitAt("asyncWait")

AsyncWaits ==
  /\ InAsync
  /\ \A c \in Cameras : ~ HasImage(c)
  /\ WaitAt("asyncWait")

\* Show the first image of each list that has one.
AsyncShows ==
  /\ InAsync
  /\ \E c \in Cameras : HasImage(c)
  /\ Take({c \in Cameras : HasImage(c)})
  /\ display' = "entry"
  /\ UNCHANGED <<modeVars, waiting, first, diff, due, firstTs>>

Display ==
  \/ SyncWaits \/ SyncShows \/ PauseGoesOn \/ SyncShowsSecond
  \/ AsyncWaits \/ AsyncShows

\* Java lets wait() return without a notification.
SpuriousWakeup ==
  /\ waiting
  /\ waiting' = FALSE
  /\ UNCHANGED <<listVars, modeVars, displayVars>>
---------------------------------------------------------------------------
MonitorNext ==
  \/ \E c \in Cameras : AddSomeImage(c)
  \/ ButtonClick
  \/ Display
  \/ TimePasses
  \/ SpuriousWakeup

MonitorSpec == MonitorInit /\ [][MonitorNext]_monitorVars

\* The display thread runs when it can and the clock goes on.  The cameras may
\* stop delivering at any time, and the user need not do anything.
MonitorFairness == WF_monitorVars(Display) /\ WF_monitorVars(TimePasses)

MonitorFairSpec == MonitorSpec /\ MonitorFairness
---------------------------------------------------------------------------
(* Properties *)

\* Type invariant.
MonitorTypeOK ==
  /\ imageList \in [Cameras -> Seq(Images)]
  /\ viewingMode \in {SYNCHRONOUS_MODE, ASYNCHRONOUS_MODE}
  /\ userViewMode \in {SYNCHRONOUS_MODE, ASYNCHRONOUS_MODE, AUTOMATIC_MODE}
  /\ cameraMode \in {IDLE_MODE, MOVIE_MODE}
  /\ userCamMode \in {IDLE_MODE, MOVIE_MODE, AUTOMATIC_MODE}
  /\ stamped \in BOOLEAN
  /\ display \in {"entry", "syncWait", "asyncWait", "pause"}
  /\ waiting \in BOOLEAN
  /\ first \in Cameras
  /\ diff \in Nat
  /\ due \in BOOLEAN
  /\ added \in [Cameras -> 0..FrameLimit]
  /\ taken \in [Cameras -> 0..FrameLimit]
  /\ firstTs \in Int

\* Between added and taken, each list is the backlog of its camera: no frame is
\* lost, taken twice or out of order, whichever branches of display took them.
Backlog ==
  \A c \in Cameras :
     /\ taken[c] + Len(imageList[c]) = added[c]
     /\ \A i \in 1..Len(imageList[c]) : imageList[c][i].nr = taken[c] + i

\* While display pauses with the monitor released, whatever is added meanwhile
\* or chosen by the user, the second image stays first in its list: getFirst at
\* the end finds it, and it was captured the time waited after the first.
PairStaysTogether ==
  display = "pause" =>
    /\ HasImage(Other(first))
    /\ diff > 0
    /\ Head(imageList[Other(first)]).ts = firstTs + diff

\* A viewing mode the user chose is in force, whatever images arrive when.
ChosenViewInForce ==
  userViewMode # AUTOMATIC_MODE => viewingMode = userViewMode

\* The display thread is never left in the wait set with images it waits for.
NoMissedNotify ==
  waiting => /\ display = "asyncWait" => \A c \in Cameras : ~ HasImage(c)
             /\ display = "syncWait" => \E c \in Cameras : ~ HasImage(c)

\* The guards of display's steps, from where the display thread is.
DisplayCanGo ==
  \/ InSync \/ InAsync
  \/ display = "pause" /\ ~ waiting /\ (~ due \/ HasImage(Other(first)))

\* There is nothing to show, or display waits for an image of the other camera
\* or for a notification.
DrainedOrStuck ==
  \/ \A c \in Cameras : ~ HasImage(c)
  \/ waiting /\ display \in {"syncWait", "pause"}

\* Again and again all images are on the way to the screen, unless the
\* synchronous branch is starved by one camera or is not notified of the time.
DrainsUnlessStuck == []<>DrainedOrStuck

\* The comment in the asynchronous branch: "display as soon as available".
AsyncAsSoonAsAvailable ==
  \A c \in Cameras :
     (viewingMode = ASYNCHRONOUS_MODE /\ HasImage(c))
        ~> (~ HasImage(c) \/ viewingMode = SYNCHRONOUS_MODE)
===========================================================================
