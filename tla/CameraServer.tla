--------------------------- MODULE CameraServer ---------------------------
(***************************************************************************)
(* The camera server, CameraServerMain.c with the socket helpers of        *)
(* server.c it calls: main creates three threads that share one mutex, one *)
(* condition variable and a turn letter.                                   *)
(*                                                                         *)
(*   task_send    (turn "a")  sends one frame, sleeps                      *)
(*   task_recieve (turn "b")  blocks in read() for the client's mode       *)
(*   task_motion  (turn "c")  recomputes the motion flag                   *)
(*                                                                         *)
(* A task holds the mutex for its whole turn, passes the letter on and     *)
(* calls pthread_cond_signal once.  All three wait on the same condition,  *)
(* and the signal wakes whichever waiter the system picks.                 *)
(*                                                                         *)
(* The other end of the socket is ClientThread.run reduced to what the     *)
(* server sees: each frame read is answered by one mode message.           *)
(***************************************************************************)
EXTENDS CameraModes, Sequences

CONSTANT
  Overruns  \* what may lie one byte past msg[4] in the builds considered

(* get_javamsg stores '\0' at msg[res], which for a full four byte message *)
(* is one past task_recieve's char msg[4].  What is there depends on the   *)
(* build's stack layout: the loop counter i ("counter", as in the          *)
(* executable kept with the sources), the pointer d to the shared data     *)
(* ("pointer"), what the thread's caller has saved ("caller"), padding     *)
(* ("padding"), or what ends the process when it is changed ("fatal").     *)
ASSUME OverrunAssumption ==
  Overruns \in (SUBSET {"counter", "pointer", "caller", "padding", "fatal"}) \ {{}}

Threads == {"send", "recv", "motn"}
Nobody  == "nobody"

\* The letter each task waits for, and the one it leaves behind.
Turn == [send |-> "a", recv |-> "b", motn |-> "c"]
SuccessorSkipsReceive(t) == IF t = "motn" THEN "a" ELSE "c"       \* mutant
SuccessorKeepsMotion(t) == IF t = "send" THEN "b" ELSE "c"        \* mutant
Successor(t) == IF t = "send" THEN "b" ELSE IF t = "recv" THEN "c" ELSE "a"

\* The test of each task's for loop.
MoreTurnsInclusive(i) == i <= Count       \* mutant
MoreTurns(i) == i < Count

\* Mutant: the terminator hits the highest byte of i, as with the other byte
\* order.
HighByteCleared(i) == i % (2 ^ 24)

\* The terminator hits the lowest byte of the loop counter i.
LowByteCleared(i) == 256 * (i \div 256)

\* First byte of msg: a mode letter, or "nul" after reading end of file.
MsgBytes == Letters \cup {"nul"}

Frames == [nr : 1..Count, flag : {"have", "stil"}]

MainSteps == {"createSend", "startTask", "createRecv", "createMotn", "signal",
              "joinSend", "joinRecv", "joinMotn", "close", "returned"}
ThreadSteps == {"new", "lock", "wait", "woken", "work", "pass", "done", "astray"}

VARIABLES
  main,        \* where main is
  pc,          \* where each thread is
  mutex,       \* holder of mtx
  task,        \* struct global_data.task; "none" before main sets it
  turns,       \* loop counter i of each task
  userMode, motion, frameCount,   \* the shared struct's fields
  delay,       \* task_send's delayBetweenFrames
  msg,         \* first byte of task_recieve's msg
  conn,        \* client socket: "open", "closed" by the client, or "none"
  down,        \* frames written and not yet read by the client
  up,          \* mode letters written by the client and not yet read
  asked,       \* history: the last mode letter the client wrote
  sentFlag,    \* history: the motion word of the last frame
  process,     \* "running", "finished" (main returned) or "gone"
  overrun      \* what lies past msg[4] in this build; "spoilt" when it was
               \* the caller's and has been overwritten

threadVars == <<main, pc, mutex, task, turns>>
dataVars   == <<userMode, motion, frameCount, delay, msg, sentFlag>>
wireVars   == <<conn, down, up, asked>>
vars == <<threadVars, dataVars, wireVars, process, overrun>>
---------------------------------------------------------------------------
\* main once getConnection1 and getConnection2 have returned.  If either
\* failed, clientfd is unusable ("none") and the program goes on regardless.
Init ==
  /\ main = "createSend"
  /\ pc = [t \in Threads |-> "new"]
  /\ mutex = Nobody
  /\ task = "none"
  /\ turns = [t \in Threads |-> 0]
  /\ userMode = AUTO
  /\ motion = FALSE
  /\ frameCount = 0
  /\ delay = 0
  /\ msg \in Letters           \* uninitialised stack byte
  /\ conn \in {"open", "none"}
  /\ down = <<>>
  /\ up = <<>>
  /\ asked = "A"
  /\ sentFlag = "stil"
  /\ process = "running"
  /\ overrun \in Overruns

\* pthread_cond_signal: one waiter of the condition, if any, is to run again.
SignalOne(p) ==
  LET waiting == {t \in Threads : p[t] = "wait"}
  IN  \/ waiting = {} /\ pc' = p
      \/ \E t \in waiting : pc' = [p EXCEPT ![t] = "woken"]
---------------------------------------------------------------------------
(* main *)

Create(t, here, next) ==
  /\ main = here
  /\ main' = next
  /\ pc' = [pc EXCEPT ![t] = "lock"]
  /\ UNCHANGED <<mutex, task, turns, dataVars, wireVars, process, overrun>>

\* A pthread_create fails: exit() takes the threads already started with it.
CreateFails ==
  /\ main \in {"createSend", "createRecv", "createMotn"}
  /\ process' = "gone"
  /\ UNCHANGED <<threadVars, dataVars, wireVars, overrun>>

\* data.task = 'a', without the mutex and after the sending thread started.
StartFirstTask ==
  /\ main = "startTask"
  /\ task' = "a"
  /\ main' = "createRecv"
  /\ UNCHANGED <<pc, mutex, turns, dataVars, wireVars, process, overrun>>

\* One extra signal under the mutex, a second after the threads were created.
MainSignal ==
  /\ main = "signal"
  /\ mutex = Nobody
  /\ SignalOne(pc)
  /\ main' = "joinSend"
  /\ UNCHANGED <<mutex, task, turns, dataVars, wireVars, process, overrun>>

\* Mutant: main does not wait for the thread.
JoinAtOnce(t, here, next) ==
  /\ main = here
  /\ main' = next
  /\ UNCHANGED <<pc, mutex, task, turns, dataVars, wireVars, process, overrun>>

Join(t, here, next) ==
  /\ main = here
  /\ pc[t] = "done"
  /\ main' = next
  /\ UNCHANGED <<pc, mutex, task, turns, dataVars, wireVars, process, overrun>>

\* closeConnection(data.clientfd); return 0.
Finish ==
  /\ main = "close"
  /\ main' = "returned"
  /\ conn' = "closed"
  /\ process' = "finished"
  /\ UNCHANGED <<pc, mutex, task, turns, dataVars, down, up, asked, overrun>>

Main ==
  /\ process = "running"
  /\ \/ Create("send", "createSend", "startTask")
     \/ StartFirstTask
     \/ Create("recv", "createRecv", "createMotn")
     \/ Create("motn", "createMotn", "signal")
     \/ CreateFails
     \/ MainSignal
     \/ Join("send", "joinSend", "joinRecv")
     \/ Join("recv", "joinRecv", "joinMotn")
     \/ Join("motn", "joinMotn", "close")
     \/ Finish
---------------------------------------------------------------------------
(* The turn protocol common to the three tasks *)

\* Mutant: "if" instead of "while" around pthread_cond_wait, so that a thread
\* that was woken does not look at the letter again.
EnterTestingOnce(t) ==
  /\ pc[t] \in {"lock", "woken"}
  /\ mutex = Nobody
  /\ \/ /\ task = Turn[t] \/ pc[t] = "woken"
        /\ mutex' = t
        /\ pc' = [pc EXCEPT ![t] = "work"]
     \/ /\ task # Turn[t] /\ pc[t] = "lock"
        /\ pc' = [pc EXCEPT ![t] = "wait"]
        /\ UNCHANGED mutex
  /\ UNCHANGED <<main, task, turns, dataVars, wireVars, process, overrun>>

\* pthread_mutex_lock, or the relock inside pthread_cond_wait, followed by
\* the test of the while loop: take the turn or (again) wait for it.
Enter(t) ==
  /\ pc[t] \in {"lock", "woken"}
  /\ mutex = Nobody
  /\ \/ /\ task = Turn[t]
        /\ mutex' = t
        /\ pc' = [pc EXCEPT ![t] = "work"]
     \/ /\ task # Turn[t]
        /\ pc' = [pc EXCEPT ![t] = "wait"]
        /\ UNCHANGED mutex
  /\ UNCHANGED <<main, task, turns, dataVars, wireVars, process, overrun>>

\* POSIX lets pthread_cond_wait return without a signal.
SpuriousWakeup(t) ==
  /\ pc[t] = "wait"
  /\ pc' = [pc EXCEPT ![t] = "woken"]
  /\ UNCHANGED <<main, mutex, task, turns, dataVars, wireVars, process, overrun>>

\* Hand the turn on, signal, unlock, and go round the for loop or leave it.
PassTurn(t) ==
  /\ pc[t] = "pass"
  /\ task' = Successor(t)
  /\ mutex' = Nobody
  /\ turns' = [turns EXCEPT ![t] = @ + 1]
  /\ SignalOne([pc EXCEPT ![t] = IF MoreTurns(turns[t] + 1) THEN "lock" ELSE "done"])
  /\ UNCHANGED <<main, dataVars, wireVars, process, overrun>>
---------------------------------------------------------------------------
(* The work of each turn *)

\* task_send: choose the pace, write size, motion word, image and timestamp.
\* Writes to a socket that is not open are lost and their errors ignored.
SendFrame ==
  /\ pc["send"] = "work"
  /\ delay' = Pace(userMode, motion)
  /\ sentFlag' = Flag(userMode, motion)
  /\ frameCount' = frameCount + 1
  /\ down' = IF conn = "open"
             THEN Append(down, [nr |-> frameCount + 1, flag |-> sentFlag'])
             ELSE down
  /\ pc' = [pc EXCEPT !["send"] = "pass"]
  /\ UNCHANGED <<main, mutex, task, turns, userMode, motion, msg, conn, up, asked, process,
                 overrun>>

\* The process dies in a send turn: the capture returned no frame and its
\* size is read through NULL, or SIGPIPE from a client that went away.
SendDies ==
  /\ pc["send"] = "work"
  /\ process' = "gone"
  /\ UNCHANGED <<threadVars, dataVars, wireVars, overrun>>

\* Mutant: the mode is taken from what msg held before the read.
TakeStaleMode ==
  /\ userMode' = ModeOf(msg)
  /\ pc' = [pc EXCEPT !["recv"] = "pass"]
  /\ UNCHANGED <<main, mutex, task, process>>

\* The receive turn goes on with msg[0] as it now is.
TakeMode ==
  /\ userMode' = ModeOf(msg')
  /\ pc' = [pc EXCEPT !["recv"] = "pass"]
  /\ UNCHANGED <<main, mutex, task, process>>

\* With the pointer d to the shared data changed, the thread's writes go
\* elsewhere; it signals and unlocks, and it never has a turn again.
GoAstray ==
  /\ SignalOne([pc EXCEPT !["recv"] = "astray"])
  /\ mutex' = Nobody
  /\ UNCHANGED <<main, task, turns, userMode, process>>

\* What becomes of the thread when its message is terminated past the buffer.
Terminate ==
  \/ overrun \in {"padding", "caller", "spoilt"} /\ TakeMode /\ UNCHANGED turns
  \/ /\ overrun = "counter"
     /\ TakeMode
     /\ turns' = [turns EXCEPT !["recv"] = LowByteCleared(@)]
  \/ overrun = "pointer" /\ GoAstray
  \/ overrun = "fatal" /\ process' = "gone" /\ UNCHANGED <<threadVars, userMode>>

\* get_javamsg reads a whole message and terminates it past the buffer.
ReadLetter ==
  /\ pc["recv"] = "work"
  /\ conn # "none"
  /\ up # <<>>
  /\ msg' = Head(up)
  /\ up' = Tail(up)
  /\ Terminate
  /\ overrun' = IF overrun = "caller" THEN "spoilt" ELSE overrun
  /\ UNCHANGED <<motion, frameCount, delay, sentFlag, conn, down, asked>>

\* read() returns 0: the client closed, and msg becomes the empty string.
ReadEndOfFile ==
  /\ pc["recv"] = "work"
  /\ conn = "closed"
  /\ up = <<>>
  /\ msg' = "nul"
  /\ TakeMode
  /\ UNCHANGED <<turns, motion, frameCount, delay, sentFlag, wireVars, overrun>>

\* read() fails (connection reset, or no usable socket): msg keeps whatever
\* it held and is interpreted all the same.
ReadFails ==
  /\ pc["recv"] = "work"
  /\ conn # "open"
  /\ up = <<>>
  /\ msg' = msg
  /\ TakeMode
  /\ UNCHANGED <<turns, motion, frameCount, delay, sentFlag, wireVars, overrun>>

\* The receiver has returned into a caller whose saved registers it spoilt,
\* and what the caller does before main can join the thread ends the process.
ReturnDies ==
  /\ process = "running"
  /\ overrun = "spoilt"
  /\ pc["recv"] = "done"
  /\ main \notin {"joinMotn", "close", "returned"}
  /\ process' = "gone"
  /\ UNCHANGED <<threadVars, dataVars, wireVars, overrun>>

\* Mutant: motion once seen is never reset.
DetectOnlyOnset ==
  /\ pc["motn"] = "work"
  /\ motion' = (motion \/ InMotion(frameCount))
  /\ pc' = [pc EXCEPT !["motn"] = "pass"]
  /\ UNCHANGED <<main, mutex, task, turns, userMode, frameCount, delay, msg,
                 sentFlag, wireVars, process, overrun>>

\* task_motion on the fake camera.
Detect ==
  /\ pc["motn"] = "work"
  /\ motion' = InMotion(frameCount)
  /\ pc' = [pc EXCEPT !["motn"] = "pass"]
  /\ UNCHANGED <<main, mutex, task, turns, userMode, frameCount, delay, msg,
                 sentFlag, wireVars, process, overrun>>

Work(t) ==
  \/ t = "send" /\ (SendFrame \/ SendDies)
  \/ t = "recv" /\ (ReadLetter \/ ReadEndOfFile \/ ReadFails)
  \/ t = "motn" /\ Detect

Thread(t) == process = "running" /\ (Enter(t) \/ Work(t) \/ PassTurn(t))
Spurious(t) == process = "running" /\ SpuriousWakeup(t)
---------------------------------------------------------------------------
(* The client *)

\* ClientThread.run reads a frame, hands it to its monitor and answers with
\* the mode its user has selected by then.
ClientReplies ==
  /\ conn = "open"
  /\ down # <<>>
  /\ down' = Tail(down)
  /\ \E c \in Letters : up' = Append(up, c) /\ asked' = c
  /\ UNCHANGED <<threadVars, dataVars, conn, process, overrun>>

\* The user closes the client's window: System.exit(0).
ClientCloses ==
  /\ conn = "open"
  /\ conn' = "closed"
  /\ down' = <<>>
  /\ UNCHANGED <<threadVars, dataVars, up, asked, process, overrun>>
---------------------------------------------------------------------------
Next ==
  \/ Main
  \/ \E t \in Threads : Thread(t) \/ Spurious(t)
  \/ ReturnDies
  \/ ClientReplies
  \/ ClientCloses

Spec == Init /\ [][Next]_vars

\* The threads and main run whenever they can.  The client answers each frame
\* while it is connected; nobody has to close it or to wake up spuriously.
Fairness ==
  /\ WF_vars(Main)
  /\ \A t \in Threads : WF_vars(Thread(t))
  /\ WF_vars(ClientReplies)

FairSpec == Spec /\ Fairness
---------------------------------------------------------------------------
(* Properties *)

\* Type invariant.
TypeOK ==
  /\ main \in MainSteps
  /\ pc \in [Threads -> ThreadSteps]
  /\ mutex \in Threads \cup {Nobody}
  /\ task \in Turns \cup {"none"}
  /\ turns \in [Threads -> 0..Count]
  /\ userMode \in Modes
  /\ motion \in BOOLEAN
  /\ frameCount \in 0..Count
  /\ delay \in {0, 125, 250}
  /\ msg \in MsgBytes
  /\ conn \in {"open", "closed", "none"}
  /\ down \in Seq(Frames)
  /\ up \in Seq(Letters)
  /\ asked \in Letters
  /\ sentFlag \in {"have", "stil"}
  /\ process \in {"running", "finished", "gone"}
  /\ overrun \in Overruns \cup {"spoilt"}

\* A thread inside its turn holds the mutex and its letter is out, although
\* main writes the letter without the mutex while the sender is running
\* (CameraServerMain.c:213).
TurnMutex ==
  \A t \in Threads : pc[t] \in {"work", "pass"} => mutex = t /\ task = Turn[t]

\* No signal or wakeup ever gives a task a turn out of order: the loop counters
\* stay within one of each other in the order send, receive, motion, and
\* frameCount is the number of frames the sender's turns have sent.  The
\* terminator may set the receiver's counter back, but never ahead.
TurnsInOrder ==
  /\ overrun # "counter" => turns["motn"] <= turns["recv"]
  /\ turns["recv"] <= turns["send"]
  /\ turns["motn"] <= turns["send"] /\ turns["send"] <= turns["motn"] + 1
  /\ frameCount = turns["send"] + (IF pc["send"] = "pass" THEN 1 ELSE 0)

\* Where the terminator hits the loop counter, every reply starts the receiver's
\* count again: with more than one turn it never leaves its loop while the
\* client is connected, and main never gets past pthread_join to close.
StaysWhileConnected ==
  overrun = "counter" /\ conn = "open" /\ Count > 1 =>
    /\ pc["recv"] # "done"
    /\ main \notin {"joinMotn", "close", "returned"}

\* The connection never holds more than one message, in either direction:
\* get_javamsg's single read() cannot return two replies run together, and
\* both directions are empty when the sender has its turn.
Lockstep ==
  /\ Len(down) + Len(up) <= 1
  /\ pc["send"] = "work" => down = <<>> /\ up = <<>>

\* The mode in force when the sender may run is the one the connected client
\* asked for last: the request answers the previous frame and is never stale.
ModeIsCurrent ==
  conn = "open" /\ task = "a" /\ pc["send"] # "pass" => userMode = ModeOf(asked)

\* A frame on its way says "have" exactly when the client had asked for AUTO
\* and the motion window held the count of frames before this one.
FrameReflectsReply ==
  \A i \in DOMAIN down :
     down[i].flag = "have" <=> asked = "A" /\ InMotion(down[i].nr - 1)

\* main closes the socket and returns only after every task took all its turns.
ClosedAfterAllTurns ==
  process = "finished" => /\ \A t \in Threads : pc[t] = "done" /\ turns[t] = Count
                          /\ frameCount = Count
                          /\ mutex = Nobody

\* The threads implement the round-robin cycle: a turn takes effect when its
\* work does, and main's late 'a' is the cycle's first turn.
Cycle == INSTANCE TurnCycle WITH
  turn <- IF mutex \in Threads /\ pc[mutex] = "pass" THEN Successor(mutex)
          ELSE IF task = "none" THEN "a" ELSE task,
  flag <- sentFlag

\* Every step of the threaded server is a step of the cycle or none at all.
ImplementsCycle == Cycle!CycleSpec

\* The connection as its client sees it: frames by their numbers.
Whole == INSTANCE WholeFrames WITH
  sent <- frameCount,
  down <- [i \in 1..Len(down) |-> down[i].nr],
  up <- Len(up),
  added <- frameCount - Len(down)

\* While the client is connected, the threads send it a frame only when it is
\* through with the one before, and take each of its replies once.
FramesCrossWhole == [][conn' = "open" => [Whole!WholeNext]_(Whole!wholeVars)]_vars

\* The turn is out of reach of the running threads: its owner is astray; or it
\* sleeps on the condition and main has given its only signal; or it is done,
\* and the receiver, whose counter was set back, waits for one turn more.
LostTurn ==
  \E t \in Threads :
     /\ task = Turn[t]
     /\ \/ pc[t] = "astray"
        \/ pc[t] = "wait" /\ main \in {"joinSend", "joinRecv", "joinMotn"}
        \/ overrun = "counter" /\ pc[t] = "done" /\ pc["recv"] # "done"

\* Under the threads' fairness and a client that answers, the server comes to
\* an end unless the turn gets lost: nothing else can hold it up.
EndsUnlessTurnLost == []<>(process # "running" \/ LostTurn)

\* The comment on struct global_data.task: "thread that has permission to
\* run".  The thread whose letter is out gets to run (or the process is over).
TurnHolderRuns ==
  \A t \in Threads :
     (task = Turn[t] /\ turns[t] < Count) ~> (mutex = t \/ process # "running")

\* The comment in task_recieve: "look to see if there's anything send back /
\* update userMode accordingly".  Once a client has connected, a mode change
\* carries out what that client sent back.
ModeOnlyByRequest ==
  [][conn # "none" /\ userMode' # userMode =>
        up # <<>> /\ userMode' = ModeOf(Head(up))]_vars
===========================================================================
