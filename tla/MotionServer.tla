---------------------------- MODULE MotionServer ----------------------------
(***************************************************************************)
(* motion_server.c: a camera notifies one port of motion events, clients   *)
(* ask for the last event on another.                                      *)
(*                                                                         *)
(*   main    starts the others, serves one client at a time, joins, closes *)
(*   motion  registers events: first t_remote, then t_local                *)
(*   bg      waits on global_cond for ever, so that there is someone to    *)
(*           join                                                          *)
(*   ui      reads commands from the terminal: q quits, b signals bg       *)
(*                                                                         *)
(* running, t_local and t_remote are read without the mutex.  Ctrl-C runs  *)
(* do_quit on whichever thread the system interrupts, which locks          *)
(* global_mutex even if that thread holds it.                              *)
(*                                                                         *)
(* Local time is modelled by the number of motion connections accepted, so *)
(* that each event has a time of its own.                                  *)
(***************************************************************************)
EXTENDS Naturals

CONSTANTS
  Connections,  \* bound on the motion connections accepted
  Interrupts    \* bound on the times Ctrl-C is pressed

ASSUME BoundsAssumption == Connections \in Nat /\ Interrupts \in Nat

Threads == {"main", "bg", "ui", "motion"}
Nobody  == "nobody"

\* What a motion connection can carry: a notification with the camera's time
\* stamp or without Message parameter, another request, or nothing at all.
Requests == {"event", "noMessage", "other", "empty"}

VARIABLES
  pc,               \* where each thread is
  handler,          \* the thread interrupted by Ctrl-C, or Nobody
  interrupts,       \* times Ctrl-C was pressed
  mutex,            \* holder of global_mutex; "handler" for the signal handler
  running, quit,
  buf,              \* motion_task's buffer: last request read, its time stamp
  accepted,         \* motion connections accepted (local time)
  t_remote, t_local,
  since, l, r,      \* what main read of them for the answer it is making
  remoteOf,         \* history: the camera's time stamp of the event at a local time
  fresh             \* history: t_local when main had read the request

threadVars == <<pc, handler, interrupts, mutex, running, quit>>
eventVars  == <<buf, accepted, t_remote, t_local, remoteOf>>
answerVars == <<since, l, r, fresh>>
vars == <<threadVars, eventVars, answerVars>>

Stamps == 0..Connections
Unread == Connections + 1   \* not a time stamp
Notifications == [request : Requests, stamp : Stamps]

Init ==
  /\ pc = [t \in Threads |-> IF t = "main" THEN "init" ELSE "new"]
  /\ handler = Nobody
  /\ interrupts = 0
  /\ mutex = Nobody
  /\ running = FALSE
  /\ quit = FALSE
  /\ buf = [request |-> "empty", stamp |-> 0]
  /\ accepted = 0
  /\ t_remote = 0
  /\ t_local = 0
  /\ since = 0
  /\ l = 0
  /\ r = 0
  /\ remoteOf = [n \in Stamps |-> 0]
  /\ fresh = 0

\* What a client can ask for, and what parse_http_request makes of it: only
\* GET / and GET /motion.txt are answered with the last event.  A client that
\* hangs up without a word is read as something other than GET.
HttpRequests == {"GET /", "GET /motion.txt", "GET otherwise", "not GET"}
HttpResult(request) ==
  IF request \notin {"GET /", "GET /motion.txt", "GET otherwise"} THEN 501
  ELSE IF request = "GET otherwise" THEN 404 ELSE 0

At(t, place) == pc[t] = place
Go(t, place) == pc' = [pc EXCEPT ![t] = place]

Lock(t, here, next) ==
  /\ At(t, here)
  /\ mutex = Nobody
  /\ mutex' = t
  /\ Go(t, next)
  /\ UNCHANGED <<handler, interrupts, running, quit, eventVars, answerVars>>

\* pthread_cond_broadcast: only bg ever waits on global_cond.
Broadcast(p) == pc' = IF p["bg"] = "wait" THEN [p EXCEPT !["bg"] = "woken"] ELSE p
---------------------------------------------------------------------------
(* main *)

InitGlobalState ==
  /\ At("main", "initHeld")
  /\ running' = FALSE /\ quit' = FALSE
  /\ t_local' = 0 /\ t_remote' = 0
  /\ mutex' = Nobody
  /\ Go("main", "sockets")
  /\ UNCHANGED <<handler, interrupts, buf, accepted, remoteOf, answerVars>>

\* create_socket and bind_and_listen succeed; or bind_and_listen fails and main
\* closes the sockets, or create_socket does and main returns at once.
CreateSockets ==
  /\ At("main", "sockets")
  /\ \E next \in {"start", "close", "ended"} : Go("main", next)
  /\ UNCHANGED <<handler, interrupts, mutex, running, quit, eventVars, answerVars>>

\* state.running = 1, whatever happened to it since the handler was installed.
StartRunning ==
  /\ At("main", "startHeld")
  /\ running' = TRUE
  /\ mutex' = Nobody
  /\ Go("main", "createBg")
  /\ UNCHANGED <<handler, interrupts, quit, eventVars, answerVars>>

CreateThread(t, here, next) ==
  /\ At("main", here)
  /\ \/ /\ pc' = [pc EXCEPT !["main"] = next,
                            ![t] = IF t = "motion" THEN "poll" ELSE "test"]
        /\ UNCHANGED running
     \/ /\ Go("main", "close")     \* pthread_create failed
        /\ running' = (running /\ t = "bg")
  /\ UNCHANGED <<handler, interrupts, mutex, quit, eventVars, answerVars>>

\* serve_clients: poll and accept, or leave the loop because of running or
\* because poll failed.
PollClients ==
  /\ At("main", "poll")
  /\ \/ running /\ Go("main", "read")
     \/ Go("main", "joinBg")
  /\ UNCHANGED <<handler, interrupts, mutex, running, quit, eventVars, answerVars>>

\* Mutant: what was read for the last answer is used for this one.
ReadRequestKeepsPair ==
  /\ At("main", "read")
  /\ \/ /\ Go("main", "since")
        /\ fresh' = t_local
        /\ UNCHANGED <<l, r>>
     \/ /\ Go("main", "poll")
        /\ UNCHANGED <<fresh, l, r>>
  /\ UNCHANGED <<handler, interrupts, mutex, running, quit, eventVars, since>>

\* serve_client: read() returned.  The last event answers a request that
\* parse_http_request accepts; other requests get their status at once, and a
\* failed read gets no answer.
ReadRequest ==
  /\ At("main", "read")
  /\ \/ /\ \E request \in HttpRequests : HttpResult(request) = 0
        /\ Go("main", "since")
        /\ fresh' = t_local
        /\ l' = Unread /\ r' = Unread
     \/ /\ \E request \in HttpRequests \cup {"failed"} : HttpResult(request) # 0
        /\ Go("main", "poll")
        /\ UNCHANGED <<fresh, l, r>>
  /\ UNCHANGED <<handler, interrupts, mutex, running, quit, eventVars, since>>

\* tdiff = time(0) - t_local
ReadSince ==
  /\ At("main", "since")
  /\ since' = t_local
  /\ Go("main", "answer")
  /\ UNCHANGED <<handler, interrupts, mutex, running, quit, eventVars, l, r, fresh>>

\* The arguments of snprintf, read in either order.
ReadPair ==
  /\ At("main", "answer")
  /\ \/ l = Unread /\ l' = t_local /\ UNCHANGED r
     \/ r = Unread /\ r' = t_remote /\ UNCHANGED l
  /\ UNCHANGED <<threadVars, eventVars, since, fresh>>

\* The text is sent and serve_client returns; its locals are forgotten.
Answer ==
  /\ At("main", "answer")
  /\ l # Unread /\ r # Unread
  /\ since' = 0 /\ l' = 0 /\ r' = 0 /\ fresh' = 0
  /\ Go("main", "poll")
  /\ UNCHANGED <<handler, interrupts, mutex, running, quit, eventVars>>

\* Mutant: main does not wait for the thread.
JoinAtOnce(t, here, next) ==
  /\ At("main", here)
  /\ Go("main", next)
  /\ UNCHANGED <<handler, interrupts, mutex, running, quit, eventVars, answerVars>>

Join(t, here, next) ==
  /\ At("main", here)
  /\ At(t, "done")
  /\ Go("main", next)
  /\ UNCHANGED <<handler, interrupts, mutex, running, quit, eventVars, answerVars>>

CloseSockets ==
  /\ At("main", "close")
  /\ Go("main", "ended")
  /\ UNCHANGED <<handler, interrupts, mutex, running, quit, eventVars, answerVars>>

Main ==
  \/ Lock("main", "init", "initHeld") \/ InitGlobalState
  \/ CreateSockets
  \/ Lock("main", "start", "startHeld") \/ StartRunning
  \/ CreateThread("bg", "createBg", "createUi")
  \/ CreateThread("ui", "createUi", "createMotion")
  \/ CreateThread("motion", "createMotion", "poll")
  \/ PollClients \/ ReadRequest \/ ReadSince \/ ReadPair \/ Answer
  \/ Join("bg", "joinBg", "joinMotion") \/ Join("motion", "joinMotion", "close")
  \/ CloseSockets
---------------------------------------------------------------------------
(* bg_task *)

\* while(s->running), tested without the mutex.
Test(t, next) ==
  /\ At(t, "test")
  /\ Go(t, IF running THEN next ELSE "done")
  /\ UNCHANGED <<handler, interrupts, mutex, running, quit, eventVars, answerVars>>

\* pthread_cond_wait, whatever running is by now.
BgWait ==
  /\ At("bg", "held")
  /\ mutex' = Nobody
  /\ Go("bg", "wait")
  /\ UNCHANGED <<handler, interrupts, running, quit, eventVars, answerVars>>

\* Mutant: the mutex stays locked.
BgKeepsMutex ==
  /\ At("bg", "wokenHeld")
  /\ Go("bg", "test")
  /\ UNCHANGED <<handler, interrupts, mutex, running, quit, eventVars, answerVars>>

BgUnlock ==
  /\ At("bg", "wokenHeld")
  /\ mutex' = Nobody
  /\ Go("bg", "test")
  /\ UNCHANGED <<handler, interrupts, running, quit, eventVars, answerVars>>

Bg == \/ Test("bg", "lock") \/ Lock("bg", "lock", "held") \/ BgWait
      \/ Lock("bg", "woken", "wokenHeld") \/ BgUnlock

BgSpuriousWakeup ==
  /\ At("bg", "wait")
  /\ Go("bg", "woken")
  /\ UNCHANGED <<handler, interrupts, mutex, running, quit, eventVars, answerVars>>
---------------------------------------------------------------------------
(* ui_task *)

\* getchar(): any character but q and b changes nothing.
UiCommand ==
  /\ At("ui", "char")
  /\ \E next \in {"test", "quit", "nudge"} : Go("ui", next)
  /\ UNCHANGED <<handler, interrupts, mutex, running, quit, eventVars, answerVars>>

\* do_quit's critical section, entered by t or by the handler.
DoQuit ==
  /\ quit' = TRUE
  /\ running' = FALSE
  /\ mutex' = Nobody

UiQuit ==
  /\ At("ui", "quitHeld")
  /\ DoQuit
  /\ Broadcast([pc EXCEPT !["ui"] = "test"])
  /\ UNCHANGED <<handler, interrupts, eventVars, answerVars>>

UiNudge ==
  /\ At("ui", "nudgeHeld")
  /\ mutex' = Nobody
  /\ Broadcast([pc EXCEPT !["ui"] = "test"])
  /\ UNCHANGED <<handler, interrupts, running, quit, eventVars, answerVars>>

Ui == \/ Test("ui", "char") \/ UiCommand
      \/ Lock("ui", "quit", "quitHeld") \/ UiQuit
      \/ Lock("ui", "nudge", "nudgeHeld") \/ UiNudge
---------------------------------------------------------------------------
(* motion_task *)

\* Mutant: while(ret==0), so that a poll without an event goes on for ever.
PollMotionForever ==
  /\ At("motion", "poll")
  /\ running /\ accepted < Connections
  /\ accepted' = accepted + 1
  /\ Go("motion", "read")
  /\ UNCHANGED <<handler, interrupts, mutex, running, quit, buf, t_remote, t_local,
                 remoteOf, answerVars>>

PollMotion ==
  /\ At("motion", "poll")
  /\ \/ /\ running /\ accepted < Connections
        /\ accepted' = accepted + 1
        /\ Go("motion", "read")
     \/ /\ ~ running
        /\ Go("motion", "done")
        /\ UNCHANGED accepted
  /\ UNCHANGED <<handler, interrupts, mutex, running, quit, buf, t_remote, t_local,
                 remoteOf, answerVars>>

\* A connection that carries nothing leaves the last request in buf.
ReadNotification ==
  /\ At("motion", "read")
  /\ \E request \in Requests :
        buf' = IF request = "empty" THEN buf
               ELSE [request |-> request,
                     stamp |-> IF request = "event" THEN accepted ELSE 0]
  /\ Go("motion", "parse")
  /\ UNCHANGED <<handler, interrupts, mutex, running, quit, accepted, t_remote, t_local,
                 remoteOf, answerVars>>

\* poll() or read() fails: the thread ends and the server goes on without it.
MotionFails ==
  /\ pc["motion"] \in {"poll", "read"}
  /\ Go("motion", "done")
  /\ UNCHANGED <<handler, interrupts, mutex, running, quit, eventVars, answerVars>>

IsMotion(request) == request \in {"event", "noMessage"}

\* parse_motion_request, up to the camera's time stamp ...
ParseNotification ==
  /\ At("motion", "parse")
  /\ IF IsMotion(buf.request)
     THEN t_remote' = buf.stamp /\ Go("motion", "stamp")
     ELSE UNCHANGED t_remote /\ Go("motion", "poll")
  /\ UNCHANGED <<handler, interrupts, mutex, running, quit, buf, accepted, t_local,
                 remoteOf, answerVars>>

\* Mutant: the local time stamp is ahead of the clock.
StampEventAhead ==
  /\ At("motion", "stamp")
  /\ t_local' = accepted + 1
  /\ remoteOf' = [remoteOf EXCEPT ![accepted] = t_remote]
  /\ Go("motion", "poll")
  /\ UNCHANGED <<handler, interrupts, mutex, running, quit, buf, accepted, t_remote, answerVars>>

\* ... and to the local one; then the response and close().
StampEvent ==
  /\ At("motion", "stamp")
  /\ t_local' = accepted
  /\ remoteOf' = [remoteOf EXCEPT ![accepted] = t_remote]
  /\ Go("motion", "poll")
  /\ UNCHANGED <<handler, interrupts, mutex, running, quit, buf, accepted, t_remote, answerVars>>

Motion == PollMotion \/ ReadNotification \/ ParseNotification \/ StampEvent
---------------------------------------------------------------------------
(* Ctrl-C *)

Interrupt(t) ==
  /\ interrupts < Interrupts
  /\ handler = Nobody
  /\ pc[t] \notin {"new", "done"}
  /\ handler' = t
  /\ interrupts' = interrupts + 1
  /\ UNCHANGED <<pc, mutex, running, quit, eventVars, answerVars>>

HandlerLock ==
  /\ handler # Nobody
  /\ mutex = Nobody
  /\ mutex' = "handler"
  /\ UNCHANGED <<pc, handler, interrupts, running, quit, eventVars, answerVars>>

HandlerQuit ==
  /\ mutex = "handler"
  /\ DoQuit
  /\ Broadcast(pc)
  /\ handler' = Nobody
  /\ UNCHANGED <<interrupts, eventVars, answerVars>>

Handler == HandlerLock \/ HandlerQuit
---------------------------------------------------------------------------
\* A thread steps while the process lives and no handler runs on it.
Runs(t) == pc["main"] # "ended" /\ handler # t

MainRuns   == Runs("main") /\ Main
BgRuns     == Runs("bg") /\ Bg
UiRuns     == Runs("ui") /\ Ui
MotionRuns == Runs("motion") /\ Motion
HandlerRuns == pc["main"] # "ended" /\ Handler

Next ==
  \/ MainRuns \/ BgRuns \/ UiRuns \/ MotionRuns
  \/ Runs("bg") /\ BgSpuriousWakeup
  \/ Runs("motion") /\ MotionFails
  \/ HandlerRuns
  \/ pc["main"] # "ended" /\ \E t \in Threads : Interrupt(t)

Spec == Init /\ [][Next]_vars

\* The threads and the handler run when they can.  Nobody has to press a key,
\* those who connect need not send anything, and no call has to fail.  The
\* handler gets the mutex however often others take it in the meantime.
Fairness ==
  /\ WF_vars(MainRuns /\ ~ At("main", "read"))
  /\ WF_vars(BgRuns)
  /\ WF_vars(MotionRuns /\ ~ At("motion", "read"))
  /\ SF_vars(HandlerRuns)
  /\ WF_vars(Runs("ui") /\ Ui /\ ~ At("ui", "char"))

FairSpec == Spec /\ Fairness
---------------------------------------------------------------------------
(* Properties *)

MainSteps == {"init", "initHeld", "sockets", "start", "startHeld", "createBg", "createUi",
              "createMotion", "poll", "read", "since", "answer", "joinBg", "joinMotion",
              "close", "ended"}
BgSteps == {"new", "test", "lock", "held", "wait", "woken", "wokenHeld", "done"}
UiSteps == {"new", "test", "char", "quit", "quitHeld", "nudge", "nudgeHeld", "done"}
MotionSteps == {"new", "poll", "read", "parse", "stamp", "done"}

\* Type invariant.
TypeOK ==
  /\ pc \in [Threads -> MainSteps \cup BgSteps \cup UiSteps \cup MotionSteps]
  /\ pc["main"] \in MainSteps /\ pc["bg"] \in BgSteps
  /\ pc["ui"] \in UiSteps /\ pc["motion"] \in MotionSteps
  /\ handler \in Threads \cup {Nobody}
  /\ interrupts \in 0..Interrupts
  /\ mutex \in Threads \cup {Nobody, "handler"}
  /\ running \in BOOLEAN /\ quit \in BOOLEAN
  /\ buf \in Notifications
  /\ accepted \in Stamps
  /\ t_remote \in Stamps /\ t_local \in Stamps
  /\ since \in Stamps
  /\ l \in Stamps \cup {Unread} /\ r \in Stamps \cup {Unread}
  /\ remoteOf \in [Stamps -> Stamps]
  /\ fresh \in Stamps

\* The places where a thread holds the mutex are where it is the holder, and
\* the handler holds it only while it interrupts a thread that does not.
HeldByHolder ==
  /\ \A t \in Threads :
        mutex = t <=> pc[t] \in {"initHeld", "startHeld", "held", "wokenHeld",
                                 "quitHeld", "nudgeHeld"}
  /\ mutex = "handler" => handler # Nobody

\* An answer is not older than its request: both time stamps, though read
\* without the mutex while events are registered, are of events no older than
\* the last one registered when the request had been read.
AnswersAreFresh ==
  pc["main"] = "answer" /\ l # Unread /\ r # Unread =>
    /\ fresh <= since /\ since <= l
    /\ \/ \E n \in fresh..t_local : r = remoteOf[n]
       \/ pc["motion"] = "stamp" /\ r = t_remote

\* The sockets are not closed under a motion thread that may still use them,
\* on the failure paths either.
SocketsOutliveMotion ==
  pc["main"] \in {"close", "ended"} => pc["motion"] \in {"new", "done"}

\* After running was reset the process ends, unless bg sleeps through the
\* broadcast, the handler waits for the mutex of the thread it interrupts, or
\* main or the motion thread reads from a connection that says nothing.
EndsUnlessMissed ==
  []<>(\/ pc["main"] = "ended"
       \/ running
       \/ At("main", "read") \/ At("motion", "read")
       \/ pc["bg"] = "wait"
       \/ handler # Nobody /\ mutex = handler)

\* The comment on handle_sigint: "signal handler to do a clean shutdown on
\* Ctrl-C".  Whenever it is pressed, the server ends.
CtrlCShutsDown == handler # Nobody ~> pc["main"] = "ended"
=============================================================================
