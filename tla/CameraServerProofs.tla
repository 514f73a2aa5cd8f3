------------------------ MODULE CameraServerProofs ------------------------
(***************************************************************************)
(* The server's safety properties proved for every number of turns, every  *)
(* motion window and every layout CameraServer has for what lies behind    *)
(* msg[4].  The inductive invariant IInv says where the letter, the mutex, *)
(* the loop counters, main and the connection stand relative to each other. *)
(***************************************************************************)
EXTENDS CameraServer, TLAPS

\* The holder of the mutex is inside its turn, and nobody else is.
MutexInv ==
  /\ TurnMutex
  /\ mutex # Nobody => pc[mutex] \in {"work", "pass"}

\* The letter determines how the loop counters of sender and motion task
\* compare; the receiver's follows unless the terminator sets it back.
RoundInv ==
  /\ task = "none" => \A t \in Threads : turns[t] = 0
  /\ task = "a" => turns["send"] = turns["motn"]
  /\ task \in {"b", "c"} => turns["send"] = turns["motn"] + 1
  /\ turns["recv"] <= IF task = "b" THEN turns["motn"] ELSE turns["send"]
  /\ overrun # "counter" =>
       turns["recv"] = IF task = "b" THEN turns["motn"] ELSE turns["send"]
  /\ frameCount = turns["send"] + (IF pc["send"] = "pass" THEN 1 ELSE 0)

\* Set back by each reply, the receiver's counter does not get beyond one.
CounterInv ==
  overrun = "counter" /\ conn = "open" =>
    /\ turns["recv"] <= 1
    /\ pc["recv"] = "pass" => turns["recv"] = 0

\* A thread has turns left until it is done.
LoopInv ==
  \A t \in Threads :
     /\ pc[t] \in {"new", "lock", "wait", "woken", "work", "pass"} => turns[t] < Count
     /\ pc[t] = "done" => turns[t] = Count

\* main creates each thread once, sets the letter before the receiver exists,
\* and joins them in order.
MainInv ==
  /\ main \in {"createSend", "startTask"} <=> task = "none"
  /\ main = "createSend" => pc["send"] = "new"
  /\ main \in {"createSend", "startTask", "createRecv"} => pc["recv"] = "new"
  /\ main \in {"createSend", "startTask", "createRecv", "createMotn"} => pc["motn"] = "new"
  /\ main \in {"joinRecv", "joinMotn", "close", "returned"} => pc["send"] = "done"
  /\ main \in {"joinMotn", "close", "returned"} => pc["recv"] = "done"
  /\ main \in {"close", "returned"} => pc["motn"] = "done"
  /\ process = "finished" => main = "returned"

\* At most one message is in flight, and it belongs to the last exchange.
WireInv ==
  \/ down = <<>> /\ up = <<>>
  \/ /\ conn = "open" /\ up = <<>>
     /\ \E f \in Frames : /\ down = <<f>>
                          /\ f.flag = "have" <=> asked = "A" /\ InMotion(f.nr - 1)
  \/ conn # "none" /\ down = <<>> /\ up = <<asked>>

\* Between the taking of a mode and the next frame nothing is in flight.
Settled ==
  \/ task \in {"none", "a"} /\ pc["send"] # "pass"
  \/ task = "b" /\ pc["recv"] = "pass"
  \/ task = "c"

SettledInv ==
  Settled => /\ down = <<>> /\ up = <<>>
             /\ conn = "open" => userMode = ModeOf(asked)

\* The sender finds the motion flag of the current frame count.
MotionInv ==
  \/ task \in {"none", "a"} /\ pc["send"] # "pass"
  \/ task = "c" /\ pc["motn"] = "pass"
  => motion = InMotion(frameCount)

IInv == /\ TypeOK /\ MutexInv /\ RoundInv /\ LoopInv /\ MainInv
        /\ WireInv /\ SettledInv /\ MotionInv /\ CounterInv
---------------------------------------------------------------------------
\* A signal moves at most one thread, from "wait" to "woken".
LEMMA SignalOneEffect ==
  ASSUME NEW p \in [Threads -> ThreadSteps], SignalOne(p)
  PROVE  /\ pc' \in [Threads -> ThreadSteps]
         /\ \A t \in Threads : pc'[t] = p[t] \/ (p[t] = "wait" /\ pc'[t] = "woken")
  BY DEF SignalOne, ThreadSteps

\* The initial states satisfy the invariant.
LEMMA InitIInv == Init => IInv
<1> SUFFICES ASSUME Init PROVE IInv
  OBVIOUS
<1> USE CountAssumption, WindowAssumption DEF Init
<1>1. TypeOK
  <2>1. down \in Seq(Frames) /\ up \in Seq(Letters)
    OBVIOUS
  <2>2. motion \in BOOLEAN
    OBVIOUS
  <2>3. turns \in [Threads -> 0..Count] /\ frameCount \in 0..Count
    OBVIOUS
  <2> QED
    BY <2>1, <2>2, <2>3 DEF TypeOK, MainSteps, ThreadSteps, Threads, Nobody, Turns, Modes, AUTO,
       MsgBytes, Letters
<1>2. MutexInv /\ RoundInv /\ LoopInv /\ MainInv /\ CounterInv
  BY DEF MutexInv, TurnMutex, RoundInv, LoopInv, MainInv, CounterInv, Threads, Nobody
<1>3. WireInv /\ SettledInv
  BY DEF WireInv, SettledInv, ModeOf
<1>4. MotionInv
  <2>1. InMotion(frameCount) = FALSE
    BY DEF InMotion
  <2> QED
    BY <2>1, Zenon DEF MotionInv
<1> QED
  BY <1>1, <1>2, <1>3, <1>4 DEF IInv

\* Every step that main takes preserves the invariant.
LEMMA MainIInv == IInv /\ Main => IInv'
<1> SUFFICES ASSUME IInv, Main PROVE IInv'
  OBVIOUS
<1> USE DEF IInv, TypeOK, MainSteps, ThreadSteps, Threads, Nobody, vars, threadVars, dataVars,
    wireVars
<1>1. ASSUME NEW t \in Threads, NEW here, NEW next, Create(t, here, next),
             <<t, here, next>> \in {<<"send", "createSend", "startTask">>,
                <<"recv", "createRecv", "createMotn">>, <<"motn", "createMotn", "signal">>}
      PROVE  IInv'
  <2>1. TypeOK'
    BY <1>1 DEF Create
  <2>2. MutexInv' /\ RoundInv' /\ LoopInv'
    BY <1>1, CountAssumption DEF Create, MutexInv, TurnMutex, RoundInv, LoopInv, MainInv
  <2>3. MainInv'
    BY <1>1 DEF Create, MainInv
  <2>4. WireInv' /\ SettledInv' /\ MotionInv' /\ CounterInv'
    BY <1>1 DEF Create, MainInv, WireInv, SettledInv, Settled, MotionInv, CounterInv
  <2> QED
    BY <2>1, <2>2, <2>3, <2>4
<1>2. ASSUME CreateFails PROVE IInv'
  BY <1>2 DEF CreateFails, MutexInv, TurnMutex, RoundInv, LoopInv, MainInv, WireInv,
              SettledInv, Settled, MotionInv, CounterInv
<1>3. ASSUME StartFirstTask PROVE IInv'
  <2>1. TypeOK'
    BY <1>3 DEF StartFirstTask, Turns
  <2>2. MutexInv' /\ RoundInv' /\ LoopInv' /\ MainInv'
    BY <1>3 DEF StartFirstTask, MutexInv, TurnMutex, RoundInv, LoopInv, MainInv, Turn
  <2>3. WireInv' /\ SettledInv' /\ MotionInv' /\ CounterInv'
    BY <1>3 DEF StartFirstTask, MainInv, WireInv, SettledInv, Settled, MotionInv, CounterInv
  <2> QED
    BY <2>1, <2>2, <2>3
<1>4. ASSUME MainSignal PROVE IInv'
  <2>1. /\ pc' \in [Threads -> ThreadSteps]
        /\ \A t \in Threads : pc'[t] = pc[t] \/ (pc[t] = "wait" /\ pc'[t] = "woken")
    BY <1>4, SignalOneEffect DEF MainSignal
  <2>2. TypeOK'
    BY <1>4, <2>1 DEF MainSignal
  <2>3. MutexInv' /\ RoundInv' /\ LoopInv' /\ MainInv'
    BY <1>4, <2>1 DEF MainSignal, MutexInv, TurnMutex, RoundInv, LoopInv, MainInv
  <2>4. WireInv' /\ SettledInv' /\ MotionInv' /\ CounterInv'
    BY <1>4, <2>1 DEF MainSignal, WireInv, SettledInv, Settled, MotionInv, CounterInv
  <2> QED
    BY <2>2, <2>3, <2>4
<1>5. ASSUME NEW t \in Threads, NEW here, NEW next, Join(t, here, next),
             <<t, here, next>> \in {<<"send", "joinSend", "joinRecv">>,
                <<"recv", "joinRecv", "joinMotn">>, <<"motn", "joinMotn", "close">>}
      PROVE  IInv'
  <2>1. TypeOK'
    BY <1>5 DEF Join
  <2>2. MutexInv' /\ RoundInv' /\ LoopInv' /\ MainInv'
    BY <1>5 DEF Join, MutexInv, TurnMutex, RoundInv, LoopInv, MainInv
  <2>3. WireInv' /\ SettledInv' /\ MotionInv' /\ CounterInv'
    BY <1>5 DEF Join, WireInv, SettledInv, Settled, MotionInv, CounterInv
  <2> QED
    BY <2>1, <2>2, <2>3
<1>6. ASSUME Finish PROVE IInv'
  <2>1. TypeOK'
    BY <1>6 DEF Finish
  <2>2. MutexInv' /\ RoundInv' /\ LoopInv' /\ MainInv'
    BY <1>6 DEF Finish, MutexInv, TurnMutex, RoundInv, LoopInv, MainInv
  <2>3. Settled
    BY <1>6 DEF Finish, MainInv, RoundInv, LoopInv, Settled, Turns
  <2>4. WireInv' /\ SettledInv' /\ MotionInv' /\ CounterInv'
    BY <1>6, <2>3 DEF Finish, WireInv, SettledInv, Settled, MotionInv, CounterInv
  <2> QED
    BY <2>1, <2>2, <2>4
<1> QED
  BY <1>1, <1>2, <1>3, <1>4, <1>5, <1>6 DEF Main

\* Taking the turn, waiting for it, waking up and passing it on preserve the
\* invariant.
LEMMA TurnProtocolIInv ==
  ASSUME IInv, NEW t \in Threads, Enter(t) \/ SpuriousWakeup(t) \/ PassTurn(t)
  PROVE  IInv'
<1> USE DEF IInv, TypeOK, MainSteps, ThreadSteps, Threads, Nobody, vars, threadVars, dataVars,
    wireVars
<1>1. CASE Enter(t)
  <2>1. TypeOK'
    BY <1>1 DEF Enter
  <2>2. MutexInv' /\ RoundInv' /\ LoopInv' /\ MainInv'
    BY <1>1 DEF Enter, MutexInv, TurnMutex, RoundInv, LoopInv, MainInv, Turn
  <2>3. WireInv' /\ SettledInv' /\ MotionInv' /\ CounterInv'
    BY <1>1 DEF Enter, WireInv, SettledInv, Settled, MotionInv, CounterInv
  <2> QED
    BY <2>1, <2>2, <2>3
<1>2. CASE SpuriousWakeup(t)
  <2>1. TypeOK'
    BY <1>2 DEF SpuriousWakeup
  <2>2. MutexInv' /\ RoundInv' /\ LoopInv' /\ MainInv'
    BY <1>2 DEF SpuriousWakeup, MutexInv, TurnMutex, RoundInv, LoopInv, MainInv
  <2>3. WireInv' /\ SettledInv' /\ MotionInv' /\ CounterInv'
    BY <1>2 DEF SpuriousWakeup, WireInv, SettledInv, Settled, MotionInv, CounterInv
  <2> QED
    BY <2>1, <2>2, <2>3
<1>3. CASE PassTurn(t)
  <2> DEFINE after == IF MoreTurns(turns[t] + 1) THEN "lock" ELSE "done"
  <2>1. /\ pc[t] = "pass" /\ mutex = t /\ task = Turn[t]
        /\ \A u \in Threads \ {t} : pc[u] \notin {"work", "pass"}
    BY <1>3 DEF PassTurn, MutexInv, TurnMutex
  <2>2. /\ pc' \in [Threads -> ThreadSteps]
        /\ pc'[t] = after
        /\ \A u \in Threads \ {t} : pc'[u] = pc[u] \/ (pc[u] = "wait" /\ pc'[u] = "woken")
    <3> DEFINE p == [pc EXCEPT ![t] = after]
    <3>1. p \in [Threads -> ThreadSteps] /\ p[t] = after
          /\ \A u \in Threads \ {t} : p[u] = pc[u]
      OBVIOUS
    <3>2. SignalOne(p)
      BY <1>3 DEF PassTurn
    <3> HIDE DEF p, after
    <3>3. /\ pc' \in [Threads -> ThreadSteps]
          /\ \A u \in Threads : pc'[u] = p[u] \/ (p[u] = "wait" /\ pc'[u] = "woken")
      BY ONLY <3>1, <3>2, SignalOneEffect
    <3>4. p[t] # "wait"
      BY <3>1 DEF after
    <3> QED
      BY <3>1, <3>3, <3>4
  <2>3. turns[t] < Count /\ turns' = [turns EXCEPT ![t] = turns[t] + 1]
    BY <1>3, <2>1 DEF PassTurn, LoopInv
  <2>4. TypeOK'
    BY <1>3, <2>2, <2>3, CountAssumption DEF PassTurn, Successor, Turns
  <2>5. MutexInv'
    BY <1>3, <2>1, <2>2 DEF PassTurn, MutexInv, TurnMutex
  <2>6. RoundInv'
    BY <1>3, <2>1, <2>2, <2>3 DEF PassTurn, RoundInv, Successor, Turn
  <2>7. LoopInv'
    <3>1. \/ pc'[t] = "lock" /\ turns'[t] < Count
          \/ pc'[t] = "done" /\ turns'[t] = Count
      <4>1. turns[t] \in Nat /\ turns'[t] = turns[t] + 1
        BY <2>3, CountAssumption
      <4>2. CASE turns[t] + 1 < Count
        BY <2>2, <4>1, <4>2 DEF MoreTurns
      <4>3. CASE turns[t] + 1 = Count
        BY <2>2, <4>1, <4>3, CountAssumption DEF MoreTurns
      <4> QED
        BY <2>3, <4>1, <4>2, <4>3, CountAssumption
    <3>2. \A u \in Threads \ {t} : turns'[u] = turns[u]
      BY <2>3
    <3> QED
      BY <2>2, <3>1, <3>2 DEF LoopInv
  <2>8. MainInv'
    BY <1>3, <2>1, <2>2 DEF PassTurn, MainInv, Successor, Turn
  <2>9. WireInv' /\ SettledInv' /\ MotionInv' /\ CounterInv'
    BY <1>3, <2>1, <2>2
    DEF PassTurn, WireInv, SettledInv, Settled, MotionInv, CounterInv, Successor, Turn
  <2> QED
    BY <2>4, <2>5, <2>6, <2>7, <2>8, <2>9
<1> QED
  BY <1>1, <1>2, <1>3

\* Sending a frame preserves the invariant, and so does dying in the attempt.
LEMMA SendIInv ==
  ASSUME IInv, SendFrame \/ SendDies
  PROVE  IInv'
<1> USE DEF IInv, TypeOK, MainSteps, ThreadSteps, Threads, Nobody, vars, threadVars, dataVars,
    wireVars
<1>1. CASE SendFrame
  <2>1. /\ pc["send"] = "work" /\ mutex = "send" /\ task = "a"
        /\ pc["recv"] \notin {"work", "pass"} /\ pc["motn"] \notin {"work", "pass"}
    BY <1>1 DEF SendFrame, MutexInv, TurnMutex, Turn
  <2>2. /\ frameCount = turns["send"] /\ turns["send"] < Count
        /\ frameCount' = frameCount + 1
    BY <1>1, <2>1 DEF SendFrame, RoundInv, LoopInv
  <2>3. delay' \in {125, 250} /\ sentFlag' \in {"have", "stil"}
    BY <1>1 DEF SendFrame, Pace, Flag
  <2>4. Settled /\ down = <<>> /\ up = <<>> /\ (conn = "open" => userMode = ModeOf(asked))
    BY <2>1 DEF SettledInv, Settled
  <2>5. sentFlag' = "have" <=> userMode = AUTO /\ motion
    BY <1>1 DEF SendFrame, Flag
  <2>6. motion = InMotion(frameCount)
    BY <2>1 DEF MotionInv
  <2> DEFINE f == [nr |-> frameCount + 1, flag |-> sentFlag']
  <2>7. f \in Frames
    BY <2>2, <2>3, CountAssumption DEF Frames
  <2>8. ASSUME conn = "open" PROVE WireInv' /\ down' \in Seq(Frames)
    <3>1. down' = <<f>>
      BY <1>1, <2>4, <2>8 DEF SendFrame
    <3>2. userMode = AUTO <=> asked = "A"
      BY <2>4, <2>8 DEF ModeOf, IDLE, AUTO, MOVIE, Letters
    <3>3. (f.nr - 1) = frameCount
      BY <2>2, CountAssumption
    <3>4. f.flag = "have" <=> asked' = "A" /\ InMotion(f.nr - 1)
      BY <1>1, <2>5, <2>6, <3>2, <3>3 DEF SendFrame
    <3>5. WireInv'
      BY <1>1, <2>4, <2>7, <2>8, <3>1, <3>4 DEF SendFrame, WireInv
    <3>6. down' \in Seq(Frames)
      BY <2>7, <3>1
    <3> QED
      BY <3>5, <3>6
  <2>9. ASSUME conn # "open" PROVE WireInv' /\ down' \in Seq(Frames)
    BY <1>1, <2>4, <2>9 DEF SendFrame, WireInv
  <2>10. WireInv' /\ down' \in Seq(Frames)
    BY <2>8, <2>9
  <2>11. TypeOK'
    BY <1>1, <2>2, <2>3, <2>10, CountAssumption DEF SendFrame
  <2>12. MutexInv' /\ LoopInv' /\ MainInv'
    BY <1>1, <2>1 DEF SendFrame, MutexInv, TurnMutex, LoopInv, MainInv
  <2>13. RoundInv'
    BY <1>1, <2>1, <2>2 DEF SendFrame, RoundInv
  <2>14. SettledInv' /\ MotionInv' /\ CounterInv'
    BY <1>1, <2>1 DEF SendFrame, SettledInv, Settled, MotionInv, CounterInv
  <2> QED
    BY <2>10, <2>11, <2>12, <2>13, <2>14
<1>2. CASE SendDies
  BY <1>2 DEF SendDies, MutexInv, TurnMutex, RoundInv, LoopInv, MainInv, WireInv,
              SettledInv, Settled, MotionInv, CounterInv
<1> QED
  BY <1>1, <1>2

\* What the receive turn may rely on.
LEMMA ReceiverFacts ==
  ASSUME IInv, pc["recv"] = "work"
  PROVE  /\ mutex = "recv" /\ task = "b"
         /\ pc["send"] \notin {"work", "pass"} /\ pc["motn"] \notin {"work", "pass"}
         /\ up # <<>> => up = <<asked>> /\ down = <<>> /\ Head(up) = asked /\ Tail(up) = <<>>
         /\ conn # "open" => down = <<>>
<1> USE DEF IInv, TypeOK, Threads
<1>1. /\ mutex = "recv" /\ task = "b"
      /\ pc["send"] \notin {"work", "pass"} /\ pc["motn"] \notin {"work", "pass"}
  BY DEF MutexInv, TurnMutex, Turn
<1>2. up # <<>> => up = <<asked>> /\ down = <<>> /\ Head(up) = asked /\ Tail(up) = <<>>
  <2>1. up # <<>> => up = <<asked>> /\ down = <<>>
    BY DEF WireInv
  <2>2. Head(<<asked>>) = asked /\ Tail(<<asked>>) = <<>>
    OBVIOUS
  <2> QED
    BY <2>1, <2>2
<1>3. conn # "open" => down = <<>>
  BY DEF WireInv
<1> QED
  BY <1>1, <1>2, <1>3

\* The counter with its lowest byte cleared is no greater, and none is left of
\* a small one.
LEMMA ClearedByte ==
  ASSUME NEW i \in Nat
  PROVE  LowByteCleared(i) \in 0..i /\ (i <= 1 => LowByteCleared(i) = 0)
BY DEF LowByteCleared

\* The receive turn preserves the invariant, whatever read() returns.
LEMMA ReceiveIInv ==
  ASSUME IInv, ReadLetter \/ ReadEndOfFile \/ ReadFails
  PROVE  IInv'
<1> USE DEF IInv, TypeOK, MainSteps, ThreadSteps, Threads, Nobody, vars, threadVars, dataVars,
    wireVars
<1>0. /\ pc["recv"] = "work" /\ mutex = "recv" /\ task = "b"
      /\ pc["send"] \notin {"work", "pass"} /\ pc["motn"] \notin {"work", "pass"}
      /\ up # <<>> => up = <<asked>> /\ down = <<>> /\ Head(up) = asked /\ Tail(up) = <<>>
      /\ conn # "open" => down = <<>>
  BY ReceiverFacts DEF ReadLetter, ReadEndOfFile, ReadFails
<1> HIDE DEF IInv
<1>r. turns["recv"] \in 0..Count /\ "recv" \in Threads
  BY DEF IInv
<1>1. ASSUME TakeMode, msg' \in MsgBytes, down' = <<>>, up' = <<>>,
             UNCHANGED <<motion, frameCount, delay, sentFlag, conn, asked>>,
             conn = "open" => msg' = asked,
             overrun' \in Overruns \cup {"spoilt"},
             overrun' = "counter" <=> overrun = "counter",
             \/ turns' = turns /\ (overrun = "counter" => conn # "open")
             \/ /\ overrun = "counter"
                /\ turns' = [turns EXCEPT !["recv"] = LowByteCleared(turns["recv"])]
      PROVE  IInv'
  <2> USE DEF IInv
  <2>1. userMode' \in Modes
    BY <1>1 DEF TakeMode, ModeOf, Modes
  <2>2. /\ turns' \in [Threads -> 0..Count]
        /\ turns'["send"] = turns["send"] /\ turns'["motn"] = turns["motn"]
        /\ turns'["recv"] <= turns["recv"]
        /\ overrun # "counter" => turns'["recv"] = turns["recv"]
        /\ overrun = "counter" /\ conn = "open" => turns'["recv"] = 0
    <3>1. /\ LowByteCleared(turns["recv"]) \in 0..turns["recv"]
          /\ turns["recv"] <= 1 => LowByteCleared(turns["recv"]) = 0
      BY <1>r, ClearedByte, CountAssumption
    <3>2. overrun = "counter" /\ conn = "open" => turns["recv"] <= 1
      BY DEF CounterInv
    <3> QED
      BY <1>1, <1>r, <3>1, <3>2, CountAssumption
  <2>3. TypeOK'
    <3>1. down' \in Seq(Frames) /\ up' \in Seq(Letters)
      BY <1>1
    <3> QED
      BY <1>1, <2>1, <2>2, <3>1 DEF TakeMode
  <2>4. pc'["recv"] = "pass" /\ \A u \in Threads \ {"recv"} : pc'[u] = pc[u]
    BY <1>1 DEF TakeMode
  <2>5. MutexInv' /\ MainInv'
    BY <1>0, <1>1 DEF TakeMode, MutexInv, TurnMutex, MainInv
  <2>6. RoundInv'
    BY <1>0, <1>1, <1>r, <2>2, <2>4, CountAssumption DEF TakeMode, RoundInv
  <2>7. LoopInv'
    BY <1>0, <1>r, <2>2, <2>4, CountAssumption DEF LoopInv
  <2>8. WireInv' /\ MotionInv'
    BY <1>0, <1>1 DEF TakeMode, WireInv, MotionInv
  <2>9. SettledInv'
    BY <1>0, <1>1 DEF TakeMode, SettledInv, ModeOf
  <2>10. CounterInv'
    BY <1>1, <2>2 DEF CounterInv
  <2> QED
    BY <2>3, <2>5, <2>6, <2>7, <2>8, <2>9, <2>10
<1>2. ASSUME ReadLetter, TakeMode,
             \/ UNCHANGED turns /\ overrun # "counter"
             \/ /\ overrun = "counter"
                /\ turns' = [turns EXCEPT !["recv"] = LowByteCleared(turns["recv"])]
      PROVE  IInv'
  <2>1. msg' = asked /\ up' = <<>> /\ down' = <<>>
    BY <1>0, <1>2 DEF ReadLetter
  <2>2. overrun' \in Overruns \cup {"spoilt"} /\ (overrun' = "counter" <=> overrun = "counter")
    BY <1>2 DEF ReadLetter, IInv
  <2> QED
    BY <1>1, <1>2, <2>1, <2>2 DEF ReadLetter, MsgBytes, IInv
<1>3. ASSUME ReadLetter, GoAstray PROVE IInv'
  <2> DEFINE p == [pc EXCEPT !["recv"] = "astray"]
  <2>1. /\ p \in [Threads -> ThreadSteps] /\ p["recv"] = "astray"
        /\ \A u \in Threads \ {"recv"} : p[u] = pc[u]
    BY DEF IInv
  <2>2. SignalOne(p)
    BY <1>3 DEF GoAstray
  <2> HIDE DEF p
  <2>3. /\ pc' \in [Threads -> ThreadSteps]
        /\ \A u \in Threads : pc'[u] = p[u] \/ (p[u] = "wait" /\ pc'[u] = "woken")
    BY ONLY <2>1, <2>2, SignalOneEffect
  <2>4. /\ pc'["recv"] = "astray"
        /\ \A u \in Threads \ {"recv"} : pc'[u] = pc[u] \/ (pc[u] = "wait" /\ pc'[u] = "woken")
    BY <2>1, <2>3
  <2>5. msg' \in MsgBytes /\ up' = <<>> /\ down' = <<>>
    BY <1>0, <1>3 DEF ReadLetter, MsgBytes, IInv
  <2> USE DEF IInv
  <2>6. TypeOK'
    <3>1. down' \in Seq(Frames) /\ up' \in Seq(Letters)
      BY <2>5
    <3> QED
      BY <1>3, <2>3, <2>5, <3>1 DEF ReadLetter, GoAstray
  <2>7. MutexInv' /\ RoundInv' /\ LoopInv' /\ MainInv'
    BY <1>0, <1>3, <2>4 DEF ReadLetter, GoAstray, MutexInv, TurnMutex, RoundInv, LoopInv, MainInv
  <2>8. WireInv' /\ SettledInv' /\ MotionInv' /\ CounterInv'
    BY <1>0, <1>3, <2>4, <2>5
    DEF ReadLetter, GoAstray, WireInv, SettledInv, Settled, MotionInv, CounterInv
  <2> QED
    BY <2>6, <2>7, <2>8
<1>4. ASSUME ReadLetter, process' = "gone", UNCHANGED <<threadVars, userMode>> PROVE IInv'
  <2> USE DEF IInv
  <2>1. msg' \in MsgBytes /\ up' = <<>> /\ down' = <<>>
    BY <1>0, <1>4 DEF ReadLetter, MsgBytes
  <2>2. TypeOK'
    <3>1. down' \in Seq(Frames) /\ up' \in Seq(Letters)
      BY <2>1
    <3> QED
      BY <1>4, <2>1, <3>1 DEF ReadLetter
  <2>3. MutexInv' /\ RoundInv' /\ LoopInv' /\ MainInv'
    BY <1>4 DEF ReadLetter, MutexInv, TurnMutex, RoundInv, LoopInv, MainInv
  <2>4. WireInv' /\ SettledInv' /\ MotionInv' /\ CounterInv'
    BY <1>0, <1>4, <2>1 DEF ReadLetter, WireInv, SettledInv, Settled, MotionInv, CounterInv
  <2> QED
    BY <2>2, <2>3, <2>4
<1>5. ASSUME ReadEndOfFile PROVE IInv'
  <2>1. overrun' \in Overruns \cup {"spoilt"} /\ overrun' = overrun /\ conn # "open"
    BY <1>5 DEF ReadEndOfFile, IInv
  <2> QED
    BY <1>0, <1>1, <1>5, <2>1 DEF ReadEndOfFile, MsgBytes
<1>6. ASSUME ReadFails PROVE IInv'
  <2>1. overrun' \in Overruns \cup {"spoilt"} /\ overrun' = overrun /\ conn # "open"
        /\ msg' \in MsgBytes
    BY <1>6 DEF ReadFails, IInv
  <2> QED
    BY <1>0, <1>1, <1>6, <2>1 DEF ReadFails
<1> QED
  <2>1. ASSUME ReadLetter PROVE IInv'
    <3>0. ReadLetter
      BY <2>1
    <3>1. \/ overrun \in {"padding", "caller", "spoilt"} /\ TakeMode /\ UNCHANGED turns
          \/ /\ overrun = "counter"
             /\ TakeMode
             /\ turns' = [turns EXCEPT !["recv"] = LowByteCleared(turns["recv"])]
          \/ GoAstray
          \/ process' = "gone" /\ UNCHANGED <<threadVars, userMode>>
      BY <2>1 DEF ReadLetter, Terminate
    <3> QED
      BY <1>2, <1>3, <1>4, <3>0, <3>1
  <2> QED
    BY <1>5, <1>6, <2>1

\* The motion turn preserves the invariant.
LEMMA DetectIInv ==
  ASSUME IInv, Detect
  PROVE  IInv'
<1> USE DEF IInv, TypeOK, MainSteps, ThreadSteps, Threads, Nobody, vars, threadVars, dataVars,
    wireVars
<1>1. /\ pc["motn"] = "work" /\ mutex = "motn" /\ task = "c"
      /\ pc["send"] \notin {"work", "pass"} /\ pc["recv"] \notin {"work", "pass"}
  BY DEF Detect, MutexInv, TurnMutex, Turn
<1>2. motion' \in BOOLEAN /\ motion' = InMotion(frameCount')
  BY DEF Detect, InMotion
<1>3. TypeOK'
  BY <1>2 DEF Detect
<1>4. MutexInv' /\ RoundInv' /\ LoopInv' /\ MainInv'
  BY <1>1 DEF Detect, MutexInv, TurnMutex, RoundInv, LoopInv, MainInv
<1>5. WireInv' /\ SettledInv' /\ CounterInv'
  BY <1>1 DEF Detect, WireInv, SettledInv, Settled, CounterInv
<1>6. MotionInv'
  BY <1>2 DEF MotionInv
<1> QED
  BY <1>3, <1>4, <1>5, <1>6

\* The client's reply or departure preserves the invariant.
LEMMA ClientIInv ==
  ASSUME IInv, ClientReplies \/ ClientCloses
  PROVE  IInv'
<1> USE DEF IInv, TypeOK, MainSteps, ThreadSteps, Threads, Nobody, vars, threadVars, dataVars,
    wireVars
<1>1. CASE ClientReplies
  <2>1. /\ up = <<>> /\ Tail(down) = <<>> /\ ~ Settled
    BY <1>1 DEF ClientReplies, WireInv, SettledInv
  <2>2. down' = <<>> /\ asked' \in Letters /\ up' = <<asked'>>
    BY <1>1, <2>1 DEF ClientReplies
  <2>3. TypeOK'
    <3>1. down' \in Seq(Frames) /\ up' \in Seq(Letters)
      BY <2>2
    <3> QED
      BY <1>1, <2>2, <3>1 DEF ClientReplies
  <2>4. MutexInv' /\ RoundInv' /\ LoopInv' /\ MainInv'
    BY <1>1 DEF ClientReplies, MutexInv, TurnMutex, RoundInv, LoopInv, MainInv
  <2>5. WireInv' /\ SettledInv' /\ MotionInv' /\ CounterInv'
    BY <1>1, <2>1, <2>2 DEF ClientReplies, WireInv, SettledInv, Settled, MotionInv, CounterInv
  <2> QED
    BY <2>3, <2>4, <2>5
<1>2. CASE ClientCloses
  <2>1. TypeOK'
    <3>1. down' \in Seq(Frames)
      BY <1>2 DEF ClientCloses
    <3> QED
      BY <1>2, <3>1 DEF ClientCloses
  <2>2. MutexInv' /\ RoundInv' /\ LoopInv' /\ MainInv'
    BY <1>2 DEF ClientCloses, MutexInv, TurnMutex, RoundInv, LoopInv, MainInv
  <2>3. WireInv' /\ SettledInv' /\ MotionInv' /\ CounterInv'
    BY <1>2 DEF ClientCloses, WireInv, SettledInv, Settled, MotionInv, CounterInv
  <2> QED
    BY <2>1, <2>2, <2>3
<1> QED
  BY <1>1, <1>2

\* Every step of the server and its client preserves the invariant.
LEMMA NextIInv == IInv /\ [Next]_vars => IInv'
<1> SUFFICES ASSUME IInv, [Next]_vars PROVE IInv'
  OBVIOUS
<1>1. CASE Main
  BY <1>1, MainIInv
<1>2. ASSUME NEW t \in Threads, Thread(t) \/ Spurious(t) PROVE IInv'
  <2>1. CASE Enter(t) \/ SpuriousWakeup(t) \/ PassTurn(t)
    BY <2>1, TurnProtocolIInv
  <2>2. CASE Work(t)
    BY <2>2, SendIInv, ReceiveIInv, DetectIInv DEF Work
  <2> QED
    BY <1>2, <2>1, <2>2 DEF Thread, Spurious
<1>3. CASE ClientReplies \/ ClientCloses
  BY <1>3, ClientIInv
<1>5. CASE ReturnDies
  BY <1>5 DEF ReturnDies, IInv, TypeOK, MutexInv, TurnMutex, RoundInv, LoopInv, MainInv, WireInv,
              SettledInv, Settled, MotionInv, CounterInv, threadVars, dataVars, wireVars
<1>4. CASE UNCHANGED vars
  BY <1>4 DEF IInv, TypeOK, MutexInv, TurnMutex, RoundInv, LoopInv, MainInv, WireInv,
              SettledInv, Settled, MotionInv, CounterInv, vars, threadVars, dataVars, wireVars
<1> QED
  BY <1>1, <1>2, <1>3, <1>4, <1>5 DEF Next

\* The strengthened invariant holds in every reachable state.
THEOREM Invariance == Spec => []IInv
<1>1. Init => IInv
  BY InitIInv
<1>2. IInv /\ [Next]_vars => IInv'
  BY NextIInv
<1> QED
  BY <1>1, <1>2, PTL DEF Spec

\* Type correctness for every Count and motion window.
THEOREM TypeCorrect == Spec => []TypeOK
<1>1. IInv => TypeOK
  BY DEF IInv
<1> QED
  BY <1>1, Invariance, PTL

\* Only the thread whose letter is out is ever inside a turn.
THEOREM TurnExclusion == Spec => []TurnMutex
<1>1. IInv => TurnMutex
  BY DEF IInv, MutexInv
<1> QED
  BY <1>1, Invariance, PTL

\* Lost, stray and spurious wakeups never give a task a turn out of order, and
\* the terminator can only set the receiver's counter back.
THEOREM TurnOrder == Spec => []TurnsInOrder
<1>1. IInv => TurnsInOrder
  <2> SUFFICES ASSUME IInv PROVE TurnsInOrder
    OBVIOUS
  <2>1. \A t \in {"send", "recv", "motn"} : turns[t] \in 0..Count
    BY DEF IInv, TypeOK, Threads
  <2>2. task \in {"none", "a", "b", "c"}
    BY DEF IInv, TypeOK, Turns
  <2>3. task = "none" => turns["send"] = 0 /\ turns["recv"] = 0 /\ turns["motn"] = 0
    BY DEF IInv, RoundInv, Threads
  <2> QED
    BY <2>1, <2>2, <2>3, CountAssumption DEF IInv, RoundInv, TurnsInOrder
<1> QED
  BY <1>1, Invariance, PTL

\* Where the terminator hits the loop counter, a client that stays connected
\* keeps the receiver in its loop and main from closing, for any Count above one.
THEOREM NeverClosesOnClient == Spec => []StaysWhileConnected
<1>1. IInv => StaysWhileConnected
  <2> SUFFICES ASSUME IInv, overrun = "counter", conn = "open", Count > 1
               PROVE  pc["recv"] # "done" /\ main \notin {"joinMotn", "close", "returned"}
    BY DEF StaysWhileConnected
  <2>1. turns["recv"] <= 1 /\ turns["recv"] \in 0..Count
    BY DEF IInv, TypeOK, CounterInv, Threads
  <2>2. pc["recv"] # "done"
    BY <2>1, CountAssumption DEF IInv, LoopInv, Threads
  <2> QED
    BY <2>2 DEF IInv, MainInv
<1> QED
  BY <1>1, Invariance, PTL

\* The exchange leaves no room for a second message.
LEMMA InFlight == IInv => Lockstep
<1>1. ASSUME IInv PROVE Lockstep
  <2>1. Len(down) + Len(up) <= 1
    <3>1. CASE down = <<>> /\ up = <<>>
      BY <3>1
    <3>2. ASSUME NEW f \in Frames, down = <<f>>, up = <<>> PROVE Len(down) + Len(up) <= 1
      BY <3>2
    <3>3. CASE down = <<>> /\ up = <<asked>>
      BY <3>3
    <3> QED
      BY <1>1, <3>1, <3>2, <3>3 DEF IInv, WireInv
  <2>2. pc["send"] = "work" => Settled
    BY <1>1 DEF IInv, MutexInv, TurnMutex, Settled, Turn, Threads
  <2> QED
    BY <1>1, <2>1, <2>2 DEF IInv, SettledInv, Lockstep
<1> QED BY <1>1

\* At most one message is in flight between server and client.
THEOREM OneMessageInFlight == Spec => []Lockstep
BY InFlight, Invariance, PTL

\* The mode in force when the sender may run is the one asked for last.
THEOREM CurrentMode == Spec => []ModeIsCurrent
<1>1. IInv => ModeIsCurrent
  BY DEF IInv, SettledInv, Settled, ModeIsCurrent
<1> QED
  BY <1>1, Invariance, PTL

\* The motion word of a frame on its way is the one its client asked for.
THEOREM FrameFlag == Spec => []FrameReflectsReply
<1>1. IInv => FrameReflectsReply
  BY DEF IInv, WireInv, FrameReflectsReply
<1> QED
  BY <1>1, Invariance, PTL

\* main returns only after every task took all its turns.
THEOREM OrderlyEnd == Spec => []ClosedAfterAllTurns
<1>1. ASSUME IInv PROVE ClosedAfterAllTurns
  BY <1>1, CountAssumption DEF IInv, TypeOK, MainInv, LoopInv, RoundInv, MutexInv,
     ClosedAfterAllTurns, Threads, Nobody
<1> QED
  BY <1>1, Invariance, PTL

\* The turn of the cycle, under the refinement mapping of CameraServer!Cycle.
cycleTurn == IF mutex \in Threads /\ pc[mutex] = "pass" THEN Successor(mutex)
             ELSE IF task = "none" THEN "a" ELSE task

\* What the cycle sees of the server's state.
cycleState == <<cycleTurn, frameCount, userMode, motion, delay, sentFlag>>

\* The holder of the mutex does not move when other threads are created,
\* signalled or woken, and the cycle's turn does not either.
LEMMA OthersMove ==
  ASSUME IInv, UNCHANGED <<mutex, task>>,
         \A t \in Threads : pc'[t] = pc[t] \/ pc[t] \notin {"work", "pass"}
  PROVE  cycleTurn' = cycleTurn
<1>1. mutex \in Threads => pc'[mutex] = pc[mutex]
  BY DEF IInv, MutexInv, Threads, Nobody
<1> QED
  BY <1>1 DEF cycleTurn

\* main's steps are none of the cycle's: even the letter written late is its
\* first turn.
LEMMA MainStutters ==
  ASSUME IInv, Main
  PROVE  UNCHANGED cycleState
<1> USE DEF cycleState, vars, threadVars, dataVars, wireVars
<1>1. UNCHANGED <<frameCount, userMode, motion, delay, sentFlag, mutex>>
  BY DEF Main, Create, CreateFails, StartFirstTask, MainSignal, Join, Finish
<1>2. ASSUME NEW t \in Threads, NEW here, NEW next, Create(t, here, next), pc[t] = "new"
      PROVE  cycleTurn' = cycleTurn
  <2>1. \A u \in Threads : pc'[u] = pc[u] \/ pc[u] \notin {"work", "pass"}
    BY <1>2 DEF Create, IInv, TypeOK
  <2> QED
    BY <1>2, <2>1, OthersMove DEF Create
<1>3. ASSUME MainSignal PROVE cycleTurn' = cycleTurn
  <2>1. \A u \in Threads : pc'[u] = pc[u] \/ (pc[u] = "wait" /\ pc'[u] = "woken")
    BY <1>3, SignalOneEffect DEF MainSignal, IInv, TypeOK
  <2> QED
    BY <1>3, <2>1, OthersMove DEF MainSignal
<1>4. ASSUME StartFirstTask PROVE cycleTurn' = cycleTurn
  BY <1>4 DEF StartFirstTask, IInv, MainInv, cycleTurn
<1>5. ASSUME UNCHANGED <<pc, mutex, task>> PROVE cycleTurn' = cycleTurn
  BY <1>5 DEF cycleTurn
<1>6. cycleTurn' = cycleTurn
  BY <1>2, <1>3, <1>4, <1>5
  DEF Main, Create, CreateFails, Join, Finish, IInv, MainInv, Threads
<1> QED
  BY <1>1, <1>6

\* Nor are the steps of the turn protocol: the cycle's turn moves with the
\* work, before the letter is passed.
LEMMA ProtocolStutters ==
  ASSUME IInv, NEW t \in Threads, Enter(t) \/ SpuriousWakeup(t) \/ PassTurn(t)
  PROVE  UNCHANGED cycleState
<1> USE DEF cycleState, vars, threadVars, dataVars, wireVars
<1>1. UNCHANGED <<frameCount, userMode, motion, delay, sentFlag>>
  BY DEF Enter, SpuriousWakeup, PassTurn
<1>2. CASE Enter(t)
  <2>1. mutex = Nobody /\ mutex \notin Threads /\ task' = task
    BY <1>2 DEF Enter, Nobody, Threads
  <2>2. mutex' \notin Threads \/ pc'[mutex'] = "work"
    BY <1>2, <2>1 DEF Enter, IInv, TypeOK
  <2> QED
    BY <1>1, <2>1, <2>2 DEF cycleTurn
<1>3. CASE SpuriousWakeup(t)
  <2>1. \A u \in Threads : pc'[u] = pc[u] \/ pc[u] \notin {"work", "pass"}
    BY <1>3 DEF SpuriousWakeup, IInv, TypeOK
  <2> QED
    BY <1>1, <1>3, <2>1, OthersMove DEF SpuriousWakeup
<1>4. CASE PassTurn(t)
  <2>1. mutex = t /\ pc[t] = "pass"
    BY <1>4 DEF PassTurn, IInv, MutexInv, TurnMutex
  <2>2. mutex' = Nobody /\ mutex' \notin Threads /\ task' = Successor(t) /\ task' # "none"
    BY <1>4 DEF PassTurn, Successor, Nobody, Threads
  <2> QED
    BY <1>1, <2>1, <2>2 DEF cycleTurn
<1> QED
  BY <1>2, <1>3, <1>4

\* A turn's work is one step of the cycle, unless the process or the receiving
\* thread is lost in it.
LEMMA WorkIsCycle ==
  ASSUME IInv, NEW t \in Threads, Work(t)
  PROVE  Cycle!CycleNext \/ UNCHANGED cycleState
<1> USE DEF cycleState, vars, threadVars, dataVars, wireVars
<1>1. CASE SendFrame
  <2>1. /\ pc["send"] = "work" /\ mutex = "send" /\ mutex' = "send" /\ task = "a"
        /\ pc'["send"] = "pass"
    BY <1>1 DEF SendFrame, IInv, TypeOK, MutexInv, TurnMutex, Turn, Threads
  <2>2. cycleTurn = "a" /\ cycleTurn' = "b"
    BY <2>1 DEF cycleTurn, Successor, Threads
  <2>3. frameCount < Count
    BY <2>1, CountAssumption DEF IInv, TypeOK, RoundInv, LoopInv, Threads
  <2>4. /\ delay' = Cycle!Pace(userMode, motion)
        /\ sentFlag' = Cycle!Flag(userMode, motion)
    BY <1>1 DEF SendFrame, Pace, Flag, AUTO, MOVIE,
                Cycle!Pace, Cycle!Flag, Cycle!AUTO, Cycle!MOVIE
  <2>5. Cycle!CycleSend
    BY <1>1, <2>2, <2>3, <2>4 DEF SendFrame, Cycle!CycleSend, cycleTurn
  <2> QED
    BY <2>5 DEF Cycle!CycleNext
<1>2. CASE SendDies
  BY <1>2 DEF SendDies, cycleTurn
<1>3. ASSUME pc["recv"] = "work", TakeMode, msg' \in MsgBytes,
             UNCHANGED <<motion, frameCount, delay, sentFlag>>
      PROVE  Cycle!CycleNext
  <2>1. mutex = "recv" /\ mutex' = "recv" /\ task = "b" /\ pc'["recv"] = "pass"
    BY <1>3 DEF TakeMode, IInv, TypeOK, MutexInv, TurnMutex, Turn, Threads
  <2>2. cycleTurn = "b" /\ cycleTurn' = "c"
    BY <1>3, <2>1 DEF cycleTurn, Successor, Threads
  <2>3. userMode' \in Modes
    BY <1>3 DEF TakeMode, ModeOf, Modes
  <2>4. Cycle!CycleReceive
    BY <1>3, <2>2, <2>3 DEF Cycle!CycleReceive, cycleTurn, Modes, IDLE, AUTO, MOVIE,
                          Cycle!Modes, Cycle!IDLE, Cycle!AUTO, Cycle!MOVIE
  <2> QED
    BY <2>4 DEF Cycle!CycleNext
<1>4. ASSUME ReadLetter PROVE Cycle!CycleNext \/ UNCHANGED cycleState
  <2>1. pc["recv"] = "work" /\ UNCHANGED <<motion, frameCount, delay, sentFlag>>
    BY <1>4 DEF ReadLetter
  <2>2. msg' \in MsgBytes
    BY <1>4, <2>1, ReceiverFacts DEF ReadLetter, IInv, TypeOK, MsgBytes
  <2>3. ASSUME GoAstray PROVE UNCHANGED cycleState
    BY <2>1, <2>3, ReceiverFacts DEF GoAstray, cycleTurn, Nobody, Threads
  <2>4. ASSUME UNCHANGED <<threadVars, userMode>> PROVE UNCHANGED cycleState
    BY <2>1, <2>4 DEF cycleTurn
  <2>5. TakeMode \/ GoAstray \/ UNCHANGED <<threadVars, userMode>>
    BY <1>4 DEF ReadLetter, Terminate
  <2> QED
    BY <1>3, <2>1, <2>2, <2>3, <2>4, <2>5
<1>5. CASE ReadEndOfFile \/ ReadFails
  BY <1>3, <1>5 DEF ReadEndOfFile, ReadFails, IInv, TypeOK, MsgBytes
<1>6. CASE Detect
  <2>1. /\ mutex = "motn" /\ mutex' = "motn" /\ task = "c"
        /\ pc["motn"] = "work" /\ pc'["motn"] = "pass"
    BY <1>6 DEF Detect, IInv, TypeOK, MutexInv, TurnMutex, Turn, Threads
  <2>2. cycleTurn = "c" /\ cycleTurn' = "a"
    BY <2>1 DEF cycleTurn, Successor, Threads
  <2>3. Cycle!CycleDetect
    BY <1>6, <2>2 DEF Detect, Cycle!CycleDetect, cycleTurn, Cycle!InMotion, InMotion
  <2> QED
    BY <2>3 DEF Cycle!CycleNext
<1> QED
  BY <1>1, <1>2, <1>4, <1>5, <1>6 DEF Work

\* The threads, with any client and any loss of process or thread, implement
\* the round-robin cycle.
THEOREM Implementation == Spec => ImplementsCycle
<1>1. Init => Cycle!CycleInit
  BY DEF Init, Cycle!CycleInit, Nobody, Threads, AUTO, Cycle!AUTO
<1>2. IInv /\ [Next]_vars => [Cycle!CycleNext]_(Cycle!cycleVars)
  <2> SUFFICES ASSUME IInv, [Next]_vars
               PROVE  Cycle!CycleNext \/ UNCHANGED cycleState
    BY DEF Cycle!cycleVars, cycleState, cycleTurn
  <2>1. CASE Main
    BY <2>1, MainStutters
  <2>2. ASSUME NEW t \in Threads, Thread(t) \/ Spurious(t)
        PROVE  Cycle!CycleNext \/ UNCHANGED cycleState
    BY <2>2, ProtocolStutters, WorkIsCycle DEF Thread, Spurious
  <2>3. CASE ClientReplies \/ ClientCloses \/ UNCHANGED vars
    BY <2>3 DEF ClientReplies, ClientCloses, cycleState, cycleTurn,
                vars, threadVars, dataVars, wireVars
  <2>4. CASE ReturnDies
    BY <2>4 DEF ReturnDies, cycleState, cycleTurn, threadVars, dataVars
  <2> QED
    BY <2>1, <2>2, <2>3, <2>4 DEF Next
<1> QED
  BY <1>1, <1>2, Invariance, PTL DEF Spec, ImplementsCycle, Cycle!CycleSpec
---------------------------------------------------------------------------
(* What keeps the server going.  Liveness itself is left to TLC; proved are   *)
(* the two facts it rests on: somebody can always go on unless the turn is    *)
(* lost, and no step but a spurious wakeup leads back.                        *)

\* While the receive turn is due, a connected client's frame or its answer to
\* it is under way.
OwedInv ==
  process = "running" /\ conn = "open" =>
    \/ down # <<>> \/ up # <<>>
    \/ pc["send"] # "pass" /\ (task = "b" => pc["recv"] \in {"pass", "astray"})

\* The guards of the steps that fairness is asked of.
CanGoOn ==
  \/ main \in {"createSend", "startTask", "createRecv", "createMotn", "close"}
  \/ main = "signal" /\ mutex = Nobody
  \/ main = "joinSend" /\ pc["send"] = "done"
  \/ main = "joinRecv" /\ pc["recv"] = "done"
  \/ main = "joinMotn" /\ pc["motn"] = "done"
  \/ \E t \in Threads : pc[t] \in {"lock", "woken"} /\ mutex = Nobody
  \/ \E t \in Threads : pc[t] = "pass"
  \/ pc["send"] = "work" \/ pc["motn"] = "work"
  \/ pc["recv"] = "work" /\ (conn = "open" => up # <<>>)
  \/ conn = "open" /\ down # <<>>

LEMMA OwedInitially == Init => OwedInv
BY DEF Init, OwedInv, Threads

LEMMA OwedKept == IInv /\ OwedInv /\ [Next]_vars => OwedInv'
<1> SUFFICES ASSUME IInv, OwedInv, [Next]_vars PROVE OwedInv'
  OBVIOUS
<1> USE DEF IInv, TypeOK, Threads, Nobody, threadVars, dataVars, wireVars
<1>1. CASE Main
  <2>1. UNCHANGED <<down, up>> /\ (conn' = "open" => conn = "open")
    BY <1>1 DEF Main, Create, StartFirstTask, CreateFails, MainSignal, Join, Finish
  <2>2. process' = "running" => process = "running"
    BY <1>1 DEF Main
  <2>3. task' = "b" => task = "b"
    BY <1>1 DEF Main, Create, StartFirstTask, CreateFails, MainSignal, Join, Finish
  <2>4. /\ pc'["send"] = "pass" => pc["send"] = "pass"
        /\ pc["recv"] \in {"pass", "astray"} => pc'["recv"] = pc["recv"] \/ pc'["recv"] = "lock"
    BY <1>1 DEF Main, Create, StartFirstTask, CreateFails, MainSignal, SignalOne, Join, Finish
  <2>5. pc["recv"] \in {"pass", "astray"} => pc'["recv"] = pc["recv"]
    BY <1>1 DEF Main, Create, StartFirstTask, CreateFails, MainSignal, SignalOne, Join, Finish,
       MainInv
  <2> QED BY <2>1, <2>2, <2>3, <2>4, <2>5 DEF OwedInv
<1>2. ASSUME NEW t \in Threads, Enter(t) \/ SpuriousWakeup(t) PROVE OwedInv'
  BY <1>2 DEF Enter, SpuriousWakeup, OwedInv
<1>3. ASSUME NEW t \in Threads, PassTurn(t) PROVE OwedInv'
  <2>1. pc[t] = "pass" /\ mutex = t /\ task = Turn[t] /\ (t # "send" => pc["send"] # "pass")
    BY <1>3 DEF PassTurn, MutexInv, TurnMutex
  <2>2. task' = "b" => t = "send"
    BY <1>3 DEF PassTurn, Successor
  <2>3. pc'["send"] # "pass"
    BY <1>3, <2>1 DEF PassTurn, SignalOne
  <2>4. UNCHANGED <<down, up, conn, process>>
    BY <1>3 DEF PassTurn
  <2> QED BY <2>1, <2>2, <2>3, <2>4 DEF OwedInv
<1>4. CASE SendFrame
  <2>1. conn = "open" => down' # <<>>
    BY <1>4 DEF SendFrame
  <2>2. conn' = conn
    BY <1>4 DEF SendFrame
  <2> QED BY <2>1, <2>2 DEF OwedInv
<1>5. CASE SendDies
  BY <1>5 DEF SendDies, OwedInv
<1>6. CASE ReadLetter \/ ReadEndOfFile \/ ReadFails
  <2>1. pc["send"] # "pass"
    BY <1>6, ReceiverFacts DEF ReadLetter, ReadEndOfFile, ReadFails
  <2>2. process' = "running" => pc'["recv"] \in {"pass", "astray"} /\ pc'["send"] # "pass"
    <3>1. process' = "running" => TakeMode \/ GoAstray
      BY <1>6 DEF ReadLetter, Terminate, ReadEndOfFile, ReadFails
    <3>2. TakeMode => pc'["recv"] = "pass" /\ pc'["send"] = pc["send"]
      BY DEF TakeMode
    <3>3. GoAstray => pc'["recv"] = "astray" /\ pc'["send"] \in {pc["send"], "woken"}
      BY DEF GoAstray, SignalOne
    <3> QED BY <2>1, <3>1, <3>2, <3>3
  <2> QED BY <2>2 DEF OwedInv
<1>7. CASE Detect
  BY <1>7 DEF Detect, OwedInv
<1>8. CASE ClientReplies
  <2>1. up' # <<>>
    <3>1. PICK c \in Letters : up' = Append(up, c)
      BY <1>8 DEF ClientReplies
    <3>2. up \in Seq(Letters)
      OBVIOUS
    <3> QED BY ONLY <3>1, <3>2
  <2> QED BY <2>1 DEF OwedInv
<1>9. CASE ClientCloses \/ ReturnDies \/ UNCHANGED vars
  BY <1>9 DEF ClientCloses, ReturnDies, OwedInv, vars
<1> QED
  BY <1>1, <1>2, <1>3, <1>4, <1>5, <1>6, <1>7, <1>8, <1>9
  DEF Next, Thread, Spurious, Work

\* When main has returned the process is over; a thread is new until main
\* creates it; and only the receiver can go astray, in its turn.
PlaceInv ==
  /\ main = "returned" => process # "running"
  /\ pc["send"] = "new" => main = "createSend"
  /\ pc["recv"] = "new" => main \in {"createSend", "startTask", "createRecv"}
  /\ pc["motn"] = "new" => main \in {"createSend", "startTask", "createRecv", "createMotn"}
  /\ \A t \in Threads : pc[t] = "astray" => t = "recv" /\ task = "b"

LEMMA PlacesInitially == Init => PlaceInv
BY DEF Init, PlaceInv, Threads

LEMMA PlacesKept == IInv /\ PlaceInv /\ [Next]_vars => PlaceInv'
<1> SUFFICES ASSUME IInv, PlaceInv, [Next]_vars PROVE PlaceInv'
  OBVIOUS
<1>0. pc \in [Threads -> ThreadSteps] /\ {"send", "recv", "motn"} = Threads
  BY DEF IInv, TypeOK, Threads
<1>1. CASE Main
  <2>1. ASSUME NEW t \in Threads, NEW here, NEW next, Create(t, here, next),
               <<t, here, next>> \in {<<"send", "createSend", "startTask">>,
                  <<"recv", "createRecv", "createMotn">>, <<"motn", "createMotn", "signal">>}
        PROVE  PlaceInv'
    BY <1>0, <2>1 DEF Create, PlaceInv
  <2>2. CASE MainSignal
    <3>1. \A t \in Threads : pc'[t] = pc[t] \/ (pc[t] = "wait" /\ pc'[t] = "woken")
      BY <1>0, <2>2, SignalOneEffect DEF MainSignal
    <3> QED BY <1>0, <2>2, <3>1 DEF MainSignal, PlaceInv
  <2>3. CASE StartFirstTask
    <3>1. task = "none"
      BY <2>3 DEF StartFirstTask, IInv, MainInv
    <3> QED BY <1>0, <2>3, <3>1 DEF StartFirstTask, PlaceInv
  <2>4. CASE CreateFails
    BY <2>4 DEF CreateFails, PlaceInv, threadVars
  <2>5. ASSUME NEW t \in Threads, NEW here, NEW next, Join(t, here, next),
               <<here, next>> \in {<<"joinSend", "joinRecv">>,
                  <<"joinRecv", "joinMotn">>, <<"joinMotn", "close">>}
        PROVE  PlaceInv'
    BY <1>0, <2>5 DEF Join, PlaceInv
  <2>6. CASE Finish
    BY <1>0, <2>6 DEF Finish, PlaceInv
  <2> QED BY <1>0, <1>1, <2>1, <2>2, <2>3, <2>4, <2>5, <2>6 DEF Main
<1>2. ASSUME NEW t \in Threads, Enter(t) \/ SpuriousWakeup(t) PROVE PlaceInv'
  BY <1>0, <1>2 DEF Enter, SpuriousWakeup, PlaceInv
<1>3. ASSUME NEW t \in Threads, PassTurn(t) PROVE PlaceInv'
  <2>1. task = Turn[t] /\ pc[t] = "pass"
    BY <1>0, <1>3 DEF PassTurn, IInv, MutexInv, TurnMutex
  <2>2. \A u \in Threads : pc[u] # "astray"
    BY <1>0, <2>1 DEF PlaceInv, Turn
  <2>3. \A u \in Threads : pc'[u] \in {pc[u], "woken", "lock", "done"}
    BY <1>0, <1>3 DEF PassTurn, SignalOne
  <2>4. UNCHANGED <<main, process>>
    BY <1>3 DEF PassTurn
  <2> QED BY <1>0, <2>2, <2>3, <2>4 DEF PlaceInv
<1>4. CASE SendFrame \/ SendDies \/ Detect
  BY <1>0, <1>4 DEF SendFrame, SendDies, Detect, PlaceInv, threadVars
<1>5. CASE ReadLetter \/ ReadEndOfFile \/ ReadFails
  <2>1. task = "b"
    BY <1>5, ReceiverFacts DEF ReadLetter, ReadEndOfFile, ReadFails
  <2>2. /\ main' = main /\ task' = task /\ (process' = process \/ process' = "gone")
        /\ \A u \in Threads : pc'[u] \in {pc[u], "woken", "pass", "astray"}
        /\ \A u \in Threads \ {"recv"} : pc'[u] \in {pc[u], "woken", "pass"}
    BY <1>0, <1>5 DEF ReadLetter, Terminate, ReadEndOfFile, ReadFails, TakeMode, GoAstray,
       SignalOne, threadVars
  <2> QED BY <1>0, <2>1, <2>2 DEF PlaceInv
<1>6. CASE ClientReplies \/ ClientCloses \/ ReturnDies \/ UNCHANGED vars
  BY <1>6 DEF ClientReplies, ClientCloses, ReturnDies, PlaceInv, vars, threadVars
<1> QED
  BY <1>1, <1>2, <1>3, <1>4, <1>5, <1>6 DEF Next, Thread, Spurious, Work

\* As long as the server runs, the turn is lost or somebody can go on: a
\* thread, main, or a connected client that owes an answer.
THEOREM OnlyLostTurnsStop == Spec => [](process = "running" => LostTurn \/ CanGoOn)
<1>1. IInv /\ OwedInv /\ PlaceInv => (process = "running" => LostTurn \/ CanGoOn)
  <2> SUFFICES ASSUME IInv, OwedInv, PlaceInv, process = "running", ~ CanGoOn PROVE LostTurn
    OBVIOUS
  <2>1. /\ main \in MainSteps /\ task \in Turns \cup {"none"} /\ mutex \in Threads \cup {Nobody}
        /\ \A t \in Threads : pc[t] \in ThreadSteps /\ turns[t] \in 0..Count
    BY DEF IInv, TypeOK
  <2>2. /\ \A t \in Threads : pc[t] # "pass"
        /\ pc["send"] # "work" /\ pc["motn"] # "work"
        /\ pc["recv"] = "work" => conn = "open" /\ up = <<>>
        /\ conn = "open" => down = <<>>
    BY DEF CanGoOn
  <2>3. mutex = Nobody
    <3>1. mutex \in Threads => mutex = "recv" /\ pc["recv"] = "work"
      BY <2>1, <2>2 DEF IInv, MutexInv, Threads, Nobody
    <3>2. pc["recv"] # "work"
      <4>1. "recv" \in Threads /\ "send" \in Threads
        BY DEF Threads
      <4>2. pc["recv"] = "work" => task = "b"
        BY <4>1 DEF IInv, MutexInv, TurnMutex, Turn
      <4> QED BY <2>2, <4>1, <4>2 DEF OwedInv
    <3> QED BY <2>1, <3>1, <3>2
  <2>4. \A t \in Threads : pc[t] \in {"new", "wait", "done", "astray"}
    <3>1. \A t \in Threads : pc[t] \notin {"lock", "woken"}
      BY <2>3 DEF CanGoOn
    <3>2. pc["recv"] # "work"
      BY <2>3, "recv" \in Threads DEF IInv, MutexInv, TurnMutex, Threads, Nobody
    <3> QED BY <2>1, <2>2, <3>1, <3>2 DEF ThreadSteps, Threads
  <2>5. /\ main \in {"joinSend", "joinRecv", "joinMotn"}
        /\ main = "joinSend" => pc["send"] # "done"
        /\ main = "joinRecv" => pc["recv"] # "done"
        /\ main = "joinMotn" => pc["motn"] # "done"
    BY <2>1, <2>3 DEF CanGoOn, PlaceInv, MainSteps
  <2>6. task \in Turns
    BY <2>1, <2>5 DEF IInv, MainInv
  <2>7. {"send", "recv", "motn"} \subseteq Threads
    BY DEF Threads
  <2>8. CASE task = "a"
    <3>1. CASE pc["send"] = "done"
      <4>1. turns["motn"] = Count
        BY <2>7, <2>8, <3>1 DEF IInv, LoopInv, RoundInv
      <4>2. pc["motn"] = "done"
        BY <2>4, <2>5, <2>7, <2>8, <4>1, CountAssumption DEF IInv, LoopInv, PlaceInv
      <4>3. pc["recv"] # "done"
        BY <2>5, <3>1, <4>2
      <4>4. overrun = "counter"
        <5> SUFFICES ASSUME overrun # "counter" PROVE FALSE
          OBVIOUS
        <5>1. turns["recv"] = Count
          BY <2>7, <2>8, <3>1 DEF IInv, LoopInv, RoundInv
        <5> QED
          BY <2>4, <2>5, <2>7, <2>8, <4>3, <5>1, CountAssumption DEF IInv, LoopInv, PlaceInv
      <4> QED
        BY <2>7, <2>8, <3>1, <4>3, <4>4 DEF LostTurn, Turn
    <3>2. CASE pc["send"] # "done"
      <4>1. pc["send"] = "wait"
        BY <2>4, <2>5, <2>7, <2>8, <3>2 DEF PlaceInv
      <4> QED BY <2>5, <2>7, <2>8, <4>1 DEF LostTurn, Turn
    <3> QED BY <3>1, <3>2
  <2>9. CASE task = "b"
    <3>1. turns["recv"] < Count
      BY <2>1, <2>7, <2>9, CountAssumption DEF IInv, RoundInv
    <3>2. pc["recv"] \in {"wait", "astray"}
      BY <2>4, <2>5, <2>7, <3>1, CountAssumption DEF IInv, LoopInv, PlaceInv
    <3> QED BY <2>5, <2>7, <2>9, <3>2 DEF LostTurn, Turn
  <2>10. CASE task = "c"
    <3>1. turns["motn"] < Count
      BY <2>1, <2>7, <2>10, CountAssumption DEF IInv, RoundInv
    <3>2. pc["motn"] = "wait"
      BY <2>4, <2>5, <2>7, <2>10, <3>1, CountAssumption DEF IInv, LoopInv, PlaceInv
    <3> QED BY <2>5, <2>7, <2>10, <3>2 DEF LostTurn, Turn
  <2> QED
    BY <2>6, <2>8, <2>9, <2>10 DEF Turns
<1>2. Spec => []OwedInv
  BY OwedInitially, OwedKept, Invariance, PTL DEF Spec
<1>3. Spec => []PlaceInv
  BY PlacesInitially, PlacesKept, Invariance, PTL DEF Spec
<1> QED BY <1>1, <1>2, <1>3, Invariance, PTL

\* How far the threads and main still are from their ends, at most: a turn
\* counts more than any thread it can wake.  The turns left follow from the
\* sender's and the motion task's counters and the letter, not from the
\* receiver's counter, which the terminator may set back.
Ahead == [new |-> 0, lock |-> 7, woken |-> 7, work |-> 6, pass |-> 4, wait |-> 3,
          done |-> 0, astray |-> 0]
MainAhead ==
  [createSend |-> 9, startTask |-> 8, createRecv |-> 7, createMotn |-> 6, signal |-> 5,
   joinSend |-> 4, joinRecv |-> 3, joinMotn |-> 2, close |-> 1, returned |-> 0]
ProcessAhead == [running |-> 1, finished |-> 0, gone |-> 0]
ThreadsAhead(p) == Ahead[p["send"]] + Ahead[p["recv"]] + Ahead[p["motn"]]
TurnsLeft ==
  3 * Count - (2 * turns["send"] + turns["motn"]) + (IF task = "b" THEN 1 ELSE 0)
Unread == Len(down)
StepsLeft ==
  10 * TurnsLeft + 10 * MainAhead[main] + ThreadsAhead(pc) + Unread + ProcessAhead[process]

LEMMA AheadIs ==
  /\ \A s \in ThreadSteps : Ahead[s] \in 0..7
  /\ \A s \in MainSteps : MainAhead[s] \in 0..9
  /\ ProcessAhead["running"] = 1 /\ ProcessAhead["finished"] = 0 /\ ProcessAhead["gone"] = 0
BY DEF Ahead, MainAhead, ProcessAhead, ThreadSteps, MainSteps

\* A signal wakes one thread at most.
LEMMA SignalAhead ==
  ASSUME NEW p \in [Threads -> ThreadSteps], SignalOne(p)
  PROVE  /\ pc' \in [Threads -> ThreadSteps]
         /\ ThreadsAhead(pc') \in Nat /\ ThreadsAhead(p) \in Nat
         /\ ThreadsAhead(pc') <= ThreadsAhead(p) + 4
<1> USE DEF Threads
<1>1. CASE pc' = p
  BY <1>1, AheadIs DEF ThreadsAhead
<1>2. ASSUME NEW t \in Threads, p[t] = "wait", pc' = [p EXCEPT ![t] = "woken"]
      PROVE  /\ pc' \in [Threads -> ThreadSteps]
             /\ ThreadsAhead(pc') \in Nat /\ ThreadsAhead(p) \in Nat
             /\ ThreadsAhead(pc') <= ThreadsAhead(p) + 4
  <2>1. pc' \in [Threads -> ThreadSteps]
    BY <1>2 DEF ThreadSteps
  <2>2. Ahead[pc'[t]] = 7 /\ Ahead[p[t]] = 3
    BY <1>2 DEF Ahead
  <2>3. \A u \in Threads \ {t} : pc'[u] = p[u]
    BY <1>2
  <2>4. \A u \in Threads : Ahead[p[u]] \in Nat /\ Ahead[pc'[u]] \in Nat
    BY <2>1, AheadIs
  <2> QED BY <2>1, <2>2, <2>3, <2>4 DEF ThreadsAhead
<1> QED BY <1>1, <1>2 DEF SignalOne

\* Two states of the threads that differ in one place are as far apart as its
\* two steps.
LEMMA OnePlaceApart ==
  ASSUME NEW p \in [Threads -> ThreadSteps], NEW q \in [Threads -> ThreadSteps],
         NEW t \in Threads, \A u \in Threads \ {t} : q[u] = p[u]
  PROVE  /\ ThreadsAhead(q) = ThreadsAhead(p) - Ahead[p[t]] + Ahead[q[t]]
         /\ ThreadsAhead(p) \in Nat
<1> USE DEF Threads
<1>1. \A u \in Threads : Ahead[p[u]] \in Nat /\ Ahead[q[u]] \in Nat
  BY AheadIs
<1> QED BY <1>1 DEF ThreadsAhead

\* A thread goes from one place to another, and nothing else.
LEMMA MovesAhead ==
  ASSUME NEW p \in [Threads -> ThreadSteps], NEW t \in Threads, NEW s \in ThreadSteps,
         NEW q, q = [p EXCEPT ![t] = s]
  PROVE  /\ q \in [Threads -> ThreadSteps]
         /\ ThreadsAhead(q) = ThreadsAhead(p) - Ahead[p[t]] + Ahead[s]
         /\ ThreadsAhead(p) \in Nat /\ Ahead[s] \in 0..7 /\ Ahead[p[t]] \in 0..7
<1>1. q \in [Threads -> ThreadSteps] /\ q[t] = s /\ \A u \in Threads \ {t} : q[u] = p[u]
  OBVIOUS
<1>2. Ahead[s] \in 0..7 /\ Ahead[p[t]] \in 0..7
  BY AheadIs
<1>3. ThreadsAhead(q) = ThreadsAhead(p) - Ahead[p[t]] + Ahead[q[t]] /\ ThreadsAhead(p) \in Nat
  BY <1>1, OnePlaceApart
<1> QED BY <1>1, <1>2, <1>3

\* The bound is a number, each step by which someone goes on lowers it, and a
\* client that closes does not raise it: only a spurious wakeup leads back.  So
\* between two of those the server takes finitely many steps, in any build and
\* for any Count.
THEOREM EachStepLeadsOn ==
  Spec => [][/\ StepsLeft \in Nat
             /\ Main \/ (\E t \in Threads : Thread(t)) \/ ReturnDies \/ ClientReplies
                  => StepsLeft' < StepsLeft
             /\ ClientCloses => StepsLeft' <= StepsLeft]_vars
<1>1. IInv => /\ StepsLeft \in Nat /\ TurnsLeft \in Nat /\ MainAhead[main] \in 0..9
              /\ Unread \in Nat /\ ThreadsAhead(pc) \in Nat
  <2> SUFFICES ASSUME IInv
               PROVE  /\ StepsLeft \in Nat /\ TurnsLeft \in Nat /\ MainAhead[main] \in 0..9
                      /\ Unread \in Nat /\ ThreadsAhead(pc) \in Nat
    OBVIOUS
  <2>0. /\ main \in MainSteps /\ pc \in [Threads -> ThreadSteps]
        /\ turns \in [Threads -> 0..Count] /\ down \in Seq(Frames)
        /\ process \in {"running", "finished", "gone"}
    BY DEF IInv, TypeOK
  <2>1. TurnsLeft \in Nat
    <3>1. turns["send"] \in 0..Count /\ turns["motn"] \in 0..Count
      BY <2>0 DEF Threads
    <3> QED BY <3>1, CountAssumption DEF TurnsLeft
  <2>2. MainAhead[main] \in 0..9
    BY <2>0, AheadIs
  <2>3. ThreadsAhead(pc) \in Nat
    <3>1. /\ Ahead[pc["send"]] \in 0..7 /\ Ahead[pc["recv"]] \in 0..7
          /\ Ahead[pc["motn"]] \in 0..7
      BY <2>0, AheadIs DEF Threads
    <3> QED BY <3>1 DEF ThreadsAhead
  <2>4. Unread \in Nat
    BY <2>0 DEF Unread
  <2>5. ProcessAhead[process] \in Nat
    BY <2>0, AheadIs
  <2> QED BY <2>1, <2>2, <2>3, <2>4, <2>5 DEF StepsLeft
<1>2. ASSUME IInv, Main \/ (\E t \in Threads : Thread(t)) \/ ReturnDies \/ ClientReplies
      PROVE  StepsLeft' < StepsLeft
  <2>0. /\ TurnsLeft \in Nat /\ MainAhead[main] \in 0..9 /\ ThreadsAhead(pc) \in Nat
        /\ Unread \in Nat /\ ProcessAhead[process] \in 0..1
    BY <1>1, <1>2, AheadIs DEF IInv, TypeOK
  <2>p. pc \in [Threads -> ThreadSteps] /\ down \in Seq(Frames)
    BY <1>2 DEF IInv, TypeOK
  <2>1. CASE Main
    <3>0. (task # "b" /\ task' # "b") \/ task' = task
      BY <1>2, <2>1 DEF Main, Create, StartFirstTask, CreateFails, MainSignal, Join, Finish,
         threadVars, IInv, MainInv
    <3>1. process = "running" /\ TurnsLeft' = TurnsLeft /\ Unread' = Unread
      BY <2>1, <3>0 DEF Main, Create, StartFirstTask, CreateFails, MainSignal, Join, Finish,
         TurnsLeft, Unread, threadVars, wireVars
    <3>2. CASE CreateFails
      <4>1. UNCHANGED <<main, pc, Unread>> /\ process' = "gone"
        BY <3>1, <3>2 DEF CreateFails, threadVars, Unread
      <4>2. ProcessAhead[process] = 1 /\ ProcessAhead[process'] = 0
        BY <3>1, <4>1, AheadIs
      <4> QED BY <2>0, <3>1, <4>1, <4>2 DEF StepsLeft
    <3>3. CASE ~ CreateFails
      <4>1. MainAhead[main'] = MainAhead[main] - 1 /\ MainAhead[main] \in 1..9
        BY <2>1, <3>3 DEF Main, Create, StartFirstTask, MainSignal, Join, Finish, MainAhead
      <4>2. ThreadsAhead(pc') \in Nat /\ ThreadsAhead(pc') <= ThreadsAhead(pc) + 7
        <5>1. ASSUME NEW t \in Threads,
                     \E here \in MainSteps, next \in MainSteps : Create(t, here, next)
              PROVE  ThreadsAhead(pc') \in Nat /\ ThreadsAhead(pc') <= ThreadsAhead(pc) + 7
          <6>1. pc' = [pc EXCEPT ![t] = "lock"] /\ "lock" \in ThreadSteps
            BY <2>p, <5>1 DEF Create, ThreadSteps
          <6>2. Ahead["lock"] = 7
            BY DEF Ahead
          <6>3. /\ ThreadsAhead(pc') = ThreadsAhead(pc) - Ahead[pc[t]] + Ahead["lock"]
                /\ Ahead[pc[t]] \in 0..7
            BY <2>p, <6>1, MovesAhead
          <6> QED BY <2>0, <6>2, <6>3
        <5>2. CASE MainSignal
          BY <2>p, <5>2, SignalAhead DEF MainSignal
        <5>3. CASE UNCHANGED pc
          BY <2>0, <5>3
        <5>4. \/ \E t \in Threads, here \in MainSteps, next \in MainSteps : Create(t, here, next)
              \/ MainSignal
              \/ UNCHANGED pc
          BY <2>1, <3>3 DEF Main, StartFirstTask, Join, Finish, Threads, MainSteps
        <5> QED BY <5>1, <5>2, <5>3, <5>4
      <4>3. ProcessAhead[process'] \in 0..1
        BY <2>1, <3>1, <3>3, AheadIs DEF Main, Create, StartFirstTask, MainSignal, Join, Finish
      <4> QED BY <2>0, <3>1, <4>1, <4>2, <4>3 DEF StepsLeft
    <3> QED BY <3>2, <3>3
  <2>2. ASSUME NEW t \in Threads, Enter(t) PROVE StepsLeft' < StepsLeft
    <3>1. UNCHANGED <<TurnsLeft, main, Unread, process>>
      BY <2>2 DEF Enter, TurnsLeft, Unread, wireVars
    <3>2. PICK s \in {"work", "wait"} : pc' = [pc EXCEPT ![t] = s]
      BY <2>2 DEF Enter
    <3>s. s \in ThreadSteps
      BY DEF ThreadSteps
    <3>3. Ahead[pc[t]] = 7 /\ Ahead[s] <= 6
      BY <2>2, <3>2 DEF Enter, Ahead, ThreadSteps
    <3>4. /\ ThreadsAhead(pc') = ThreadsAhead(pc) - Ahead[pc[t]] + Ahead[s]
          /\ Ahead[s] \in 0..7
      BY <2>p, <3>2, <3>s, MovesAhead
    <3> QED BY <2>0, <3>1, <3>3, <3>4 DEF StepsLeft
  <2>3. ASSUME NEW t \in Threads, PassTurn(t) PROVE StepsLeft' < StepsLeft
    <3> DEFINE s == IF MoreTurns(turns[t] + 1) THEN "lock" ELSE "done"
               p == [pc EXCEPT ![t] = s]
    <3>1. UNCHANGED <<main, Unread, process>>
      BY <2>3 DEF PassTurn, Unread, wireVars
    <3>2. TurnsLeft' = TurnsLeft - 1
      <4>1. /\ turns \in [Threads -> 0..Count]
            /\ turns' = [turns EXCEPT ![t] = turns[t] + 1]
            /\ task = Turn[t] /\ task' = Successor(t)
        BY <1>2, <2>3 DEF IInv, TypeOK, PassTurn, MutexInv, TurnMutex
      <4>2. /\ turns["send"] \in 0..Count /\ turns["motn"] \in 0..Count
            /\ \A u \in {"send", "motn"} :
                 turns'[u] = IF u = t THEN turns[u] + 1 ELSE turns[u]
            /\ t \in {"send", "recv", "motn"}
        BY <2>3, <4>1 DEF Threads
      <4>3. CASE t = "send"
        BY <4>1, <4>2, <4>3, CountAssumption DEF TurnsLeft, Turn, Successor
      <4>4. CASE t = "recv"
        BY <4>1, <4>2, <4>4, CountAssumption DEF TurnsLeft, Turn, Successor
      <4>5. CASE t = "motn"
        BY <4>1, <4>2, <4>5, CountAssumption DEF TurnsLeft, Turn, Successor
      <4> QED BY <4>2, <4>3, <4>4, <4>5
    <3>s. s \in ThreadSteps
      BY DEF ThreadSteps
    <3>3. Ahead[s] \in 0..7 /\ Ahead[pc[t]] = 4
      BY <2>3 DEF PassTurn, Ahead
    <3>4. SignalOne(p)
      BY <2>3 DEF PassTurn
    <3> HIDE DEF s
    <3>5. /\ p \in [Threads -> ThreadSteps]
          /\ ThreadsAhead(p) = ThreadsAhead(pc) - Ahead[pc[t]] + Ahead[s]
      BY <2>p, <3>s, MovesAhead
    <3> HIDE DEF p
    <3>6. ThreadsAhead(pc') \in Nat /\ ThreadsAhead(pc') <= ThreadsAhead(p) + 4
          /\ ThreadsAhead(p) \in Nat
      BY <3>4, <3>5, SignalAhead
    <3> QED BY <2>0, <3>1, <3>2, <3>3, <3>5, <3>6 DEF StepsLeft
  <2>4. CASE /\ process = "running"
             /\ SendDies \/ ReturnDies \/ (ReadLetter /\ process' = "gone")
    <3>1. /\ process' = "gone" /\ UNCHANGED <<TurnsLeft, main, Unread, pc>>
      BY <2>4 DEF SendDies, ReturnDies, ReadLetter, Terminate, TakeMode, GoAstray, threadVars,
         wireVars, TurnsLeft, Unread
    <3>2. ProcessAhead[process] = 1 /\ ProcessAhead[process'] = 0
      BY <2>4, <3>1, AheadIs
    <3> QED BY <2>0, <3>1, <3>2 DEF StepsLeft
  <2>5. CASE SendFrame
    <3>1. UNCHANGED <<TurnsLeft, main, process>>
      BY <2>5 DEF SendFrame, TurnsLeft
    <3>2. Unread' \in Nat /\ Unread' <= Unread + 1
      BY <2>p, <2>5 DEF SendFrame, Unread
    <3>3. PICK t \in Threads : pc[t] = "work" /\ pc' = [pc EXCEPT ![t] = "pass"]
      BY <2>5 DEF SendFrame, Threads
    <3>4. Ahead["work"] = 6 /\ Ahead["pass"] = 4 /\ "pass" \in ThreadSteps
      BY DEF Ahead, ThreadSteps
    <3>5. ThreadsAhead(pc') = ThreadsAhead(pc) - Ahead[pc[t]] + Ahead["pass"]
      BY <2>p, <3>3, <3>4, MovesAhead
    <3> QED BY <2>0, <3>1, <3>2, <3>3, <3>4, <3>5 DEF StepsLeft
  <2>6. CASE /\ process = "running" /\ UNCHANGED process
             /\ ReadLetter \/ ReadEndOfFile \/ ReadFails \/ Detect
    <3>0. /\ turns'["send"] = turns["send"] /\ turns'["motn"] = turns["motn"]
          /\ task' = task
      <4>1. /\ task' = task
            /\ \/ turns' = turns
               \/ turns' = [turns EXCEPT !["recv"] = LowByteCleared(turns["recv"])]
        BY <2>6 DEF ReadLetter, Terminate, ReadEndOfFile, ReadFails, Detect, TakeMode, GoAstray,
           threadVars
      <4>2. turns \in [Threads -> 0..Count]
        BY <1>2 DEF IInv, TypeOK
      <4> QED BY <4>1, <4>2 DEF Threads
    <3>1. UNCHANGED <<TurnsLeft, main, Unread, process>>
      BY <2>6, <3>0 DEF ReadLetter, Terminate, ReadEndOfFile, ReadFails, Detect, TakeMode,
         GoAstray, TurnsLeft, Unread, wireVars, threadVars
    <3>2. CASE \E t \in Threads : pc[t] = "work" /\ pc' = [pc EXCEPT ![t] = "pass"]
      <4>1. PICK t \in Threads : pc[t] = "work" /\ pc' = [pc EXCEPT ![t] = "pass"]
        BY <3>2
      <4>2. Ahead["work"] = 6 /\ Ahead["pass"] = 4
        BY DEF Ahead
      <4>3. "pass" \in ThreadSteps
        BY DEF ThreadSteps
      <4>4. ThreadsAhead(pc') = ThreadsAhead(pc) - Ahead[pc[t]] + Ahead["pass"]
        BY <2>p, <4>1, <4>3, MovesAhead
      <4> QED BY <2>0, <3>1, <4>1, <4>2, <4>4 DEF StepsLeft
    <3>3. CASE ReadLetter /\ GoAstray
      <4>0. PICK t \in Threads : t = "recv"
        BY DEF Threads
      <4> DEFINE p == [pc EXCEPT ![t] = "astray"]
      <4>1. Ahead["work"] = 6 /\ Ahead["astray"] = 0 /\ pc[t] = "work" /\ SignalOne(p)
        BY <3>3, <4>0 DEF Ahead, ReadLetter, Terminate, GoAstray
      <4>2. "astray" \in ThreadSteps
        BY DEF ThreadSteps
      <4>3. /\ p \in [Threads -> ThreadSteps]
            /\ ThreadsAhead(p) = ThreadsAhead(pc) - Ahead[pc[t]] + Ahead["astray"]
        BY <2>p, <4>2, MovesAhead
      <4> HIDE DEF p
      <4>4. ThreadsAhead(pc') \in Nat /\ ThreadsAhead(pc') <= ThreadsAhead(p) + 4
            /\ ThreadsAhead(p) \in Nat
        BY <4>1, <4>3, SignalAhead
      <4> QED BY <2>0, <3>1, <4>1, <4>3, <4>4 DEF StepsLeft
    <3>4. \/ \E t \in Threads : pc[t] = "work" /\ pc' = [pc EXCEPT ![t] = "pass"]
          \/ ReadLetter /\ GoAstray
      <4>1. CASE ReadLetter
        BY <2>6, <4>1 DEF ReadLetter, Terminate, TakeMode, Threads
      <4>2. CASE ReadEndOfFile \/ ReadFails \/ Detect
        BY <4>2 DEF ReadEndOfFile, ReadFails, Detect, TakeMode, Threads
      <4> QED BY <2>6, <4>1, <4>2
    <3> QED BY <3>2, <3>3, <3>4
  <2>7. CASE ClientReplies
    <3>1. UNCHANGED <<TurnsLeft, main, pc, process>>
      BY <2>7 DEF ClientReplies, TurnsLeft, threadVars
    <3>2. Unread' = Unread - 1
      BY <2>p, <2>7 DEF ClientReplies, Unread
    <3> QED BY <2>0, <3>1, <3>2 DEF StepsLeft
  <2>8. ASSUME NEW t \in Threads, Thread(t), Work(t) PROVE StepsLeft' < StepsLeft
    <3>1. process = "running"
      BY <2>8 DEF Thread
    <3>2. CASE SendFrame \/ SendDies
      BY <2>4, <2>5, <3>1, <3>2
    <3>3. CASE ReadLetter \/ ReadEndOfFile \/ ReadFails \/ Detect
      <4>1. UNCHANGED process \/ (ReadLetter /\ process' = "gone")
        BY <3>3 DEF ReadLetter, Terminate, ReadEndOfFile, ReadFails, Detect, TakeMode, GoAstray
      <4> QED BY <2>4, <2>6, <3>1, <3>3, <4>1
    <3> QED BY <2>8, <3>2, <3>3 DEF Work
  <2>9. CASE ReturnDies
    BY <2>4, <2>9 DEF ReturnDies
  <2> QED
    BY <1>2, <2>1, <2>2, <2>3, <2>7, <2>8, <2>9 DEF Thread
<1>3. ASSUME IInv, ClientCloses PROVE StepsLeft' <= StepsLeft
  <2>1. /\ TurnsLeft \in Nat /\ MainAhead[main] \in 0..9 /\ ThreadsAhead(pc) \in Nat
        /\ Unread \in Nat /\ ProcessAhead[process] \in 0..1
    BY <1>1, <1>3, AheadIs DEF IInv, TypeOK
  <2>2. UNCHANGED <<TurnsLeft, main, pc, process>>
    BY <1>3 DEF ClientCloses, TurnsLeft, threadVars
  <2>3. Unread' = 0
    BY <1>3 DEF ClientCloses, Unread
  <2> QED BY <2>1, <2>2, <2>3 DEF StepsLeft
<1>4. IInv /\ [Next]_vars =>
        [/\ StepsLeft \in Nat
         /\ Main \/ (\E t \in Threads : Thread(t)) \/ ReturnDies \/ ClientReplies
              => StepsLeft' < StepsLeft
         /\ ClientCloses => StepsLeft' <= StepsLeft]_vars
  BY <1>1, <1>2, <1>3
<1> QED BY <1>4, Invariance, PTL DEF Spec

\* The frame under way, if one is, by its number.
Numbered == [i \in 1..Len(down) |-> down[i].nr]

\* A frame under way is the one sent last.
LastInv == down # <<>> => down[1].nr = frameCount

LEMMA LastKept == IInv /\ LastInv /\ [Next]_vars => LastInv'
<1> SUFFICES ASSUME IInv, LastInv, [Next]_vars PROVE LastInv'
  OBVIOUS
<1>0. frameCount \in Nat /\ Lockstep
  BY InFlight, CountAssumption DEF IInv, TypeOK
<1>1. CASE SendFrame
  <2>1. down = <<>>
    BY <1>0, <1>1 DEF SendFrame, Lockstep
  <2> QED BY <1>0, <1>1, <2>1 DEF SendFrame, LastInv
<1>2. CASE ClientReplies \/ ClientCloses
  <2>1. down' = <<>>
    BY <1>2 DEF IInv, WireInv, ClientReplies, ClientCloses
  <2> QED BY <2>1 DEF LastInv
<1>3. CASE ~ SendFrame /\ ~ ClientReplies /\ ~ ClientCloses
  <2>1. UNCHANGED <<down, frameCount>>
    BY <1>3
    DEF Next, Main, Create, CreateFails, StartFirstTask, MainSignal, Join, Finish, Thread, Enter,
        Work, SendDies, ReadLetter, Terminate, ReadEndOfFile, ReadFails, Detect, TakeMode, GoAstray,
        PassTurn, ReturnDies, Spurious, SpuriousWakeup, vars, threadVars, dataVars, wireVars
  <2> QED BY <2>1 DEF LastInv
<1> QED BY <1>1, <1>2, <1>3

\* One frame at most is under way, and it is the one sent last.
OneNumbered ==
  \/ down = <<>> /\ Numbered = <<>> /\ Len(down) = 0
  \/ /\ down # <<>> /\ up = <<>> /\ Tail(down) = <<>> /\ Len(down) = 1
     /\ Numbered = <<frameCount>>

LEMMA NumberedIs == IInv /\ LastInv => OneNumbered
<1> SUFFICES ASSUME IInv, LastInv PROVE OneNumbered
  OBVIOUS
<1>1. CASE down = <<>>
  BY <1>1 DEF Numbered, OneNumbered
<1>2. ASSUME NEW f \in Frames, down = <<f>>, up = <<>>
      PROVE  /\ Tail(down) = <<>> /\ Len(down) = 1
             /\ Numbered = <<frameCount>>
  <2>1. f.nr = frameCount
    BY <1>2 DEF LastInv
  <2> QED BY <1>2, <2>1 DEF Numbered
<1> QED BY <1>1, <1>2 DEF IInv, WireInv, OneNumbered

\* While the client is connected, the turns of the three threads keep to the
\* exchange that the bytes carry (module FrameWire): a frame is sent when the
\* client has answered the one before, and each answer is taken once.
THEOREM TurnsCarryFrames == Spec => FramesCrossWhole
<1>1. Init => LastInv
  BY DEF Init, LastInv
<1>2. Spec => [](LastInv /\ OneNumbered)
  BY <1>1, LastKept, NumberedIs, Invariance, PTL DEF Spec
<1>3. IInv /\ OneNumbered /\ OneNumbered' /\ [Next]_vars =>
        [conn' = "open" => [Whole!WholeNext]_(Whole!wholeVars)]_vars
  <2> SUFFICES ASSUME IInv, OneNumbered, OneNumbered', Next, conn' = "open"
               PROVE  Whole!WholeNext \/ UNCHANGED Whole!wholeVars
    OBVIOUS
  <2>0. /\ frameCount \in Nat /\ Lockstep /\ up \in Seq(Letters) /\ down \in Seq(Frames)
        /\ Len(<<>>) = 0
    BY InFlight, CountAssumption DEF IInv, TypeOK
  <2>1. CASE SendFrame
    <3>1. down = <<>> /\ up = <<>> /\ up' = up /\ down' # <<>> /\ frameCount' = frameCount + 1
      BY <2>0, <2>1 DEF SendFrame, Lockstep
    <3>2. /\ Numbered = <<>> /\ Numbered' = <<frameCount'>>
          /\ Len(down) = 0 /\ Len(down)' = 1
      BY <3>1 DEF OneNumbered
    <3>3. Len(up) = 0 /\ Len(up)' = 0
      BY <3>1
    <3> QED BY <2>0, <3>1, <3>2, <3>3 DEF Whole!WholeNext, Whole!SendWhole, Numbered
  <2>2. CASE ClientReplies
    <3>1. /\ down # <<>> /\ down' = Tail(down) /\ frameCount' = frameCount
          /\ \E c \in Letters : up' = Append(up, c)
      BY <2>2 DEF ClientReplies, dataVars
    <3>2. /\ Numbered = <<frameCount>> /\ Len(down) = 1 /\ up = <<>> /\ down' = <<>>
      BY <3>1 DEF OneNumbered
    <3>3. Numbered' = <<>> /\ Len(down)' = 0
      BY <3>2 DEF OneNumbered
    <3>4. Len(up) = 0 /\ Len(up)' = 1
      BY <3>1, <3>2
    <3> QED BY <2>0, <3>1, <3>2, <3>3, <3>4 DEF Whole!WholeNext, Whole!AddWhole, Numbered
  <2>3. CASE UNCHANGED <<down, frameCount>> /\ up # <<>> /\ up' = Tail(up)
    <3>1. Len(up) = 1 /\ Len(up)' = 0
      BY <2>3 DEF IInv, WireInv
    <3>2. UNCHANGED <<Numbered, frameCount - Len(down)>>
      BY <2>3 DEF Numbered
    <3> QED BY <2>3, <3>1, <3>2 DEF Whole!WholeNext, Whole!TakeWhole, Numbered
  <2>4. CASE UNCHANGED <<down, frameCount, up>>
    BY <2>4 DEF Whole!wholeVars
  <2>5. CASE ClientCloses
    BY <2>5 DEF ClientCloses
  <2>6. CASE ~ SendFrame /\ ~ ClientReplies /\ ~ ClientCloses
    <3>1. \/ UNCHANGED <<down, frameCount, up>>
          \/ UNCHANGED <<down, frameCount>> /\ up # <<>> /\ up' = Tail(up)
      BY <2>6
      DEF Next, Main, Create, CreateFails, StartFirstTask, MainSignal, Join, Finish, Thread,
          Enter, Work, SendDies, ReadLetter, Terminate, ReadEndOfFile, ReadFails, Detect, TakeMode,
          GoAstray, PassTurn, ReturnDies, Spurious, SpuriousWakeup, vars, threadVars, dataVars,
          wireVars
    <3> QED BY <2>3, <2>4, <3>1
  <2> QED BY <2>1, <2>2, <2>5, <2>6
<1> QED BY <1>2, <1>3, Invariance, PTL DEF Spec, FramesCrossWhole
===========================================================================
