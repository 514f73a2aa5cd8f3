------------------------- MODULE MotionClientProofs -------------------------
(***************************************************************************)
(* The polling client proved for any number of descriptors and events:     *)
(* what the handler of Ctrl-C can and cannot do to the descriptors under   *)
(* the program, and that polls are only queries.                           *)
(***************************************************************************)
EXTENDS MotionClient, FiniteSetTheorems, SequenceTheorems, TLAPS

USE LimitAssumption, EventsAssumption DEF Numbers, Streams

\* What motionfd and the descriptor of a call can be at each place.
DescriptorInv ==
  /\ {1, 2} \subseteq open
  /\ motionfd \notin {1, 2} /\ fdArg \notin {1, 2}
  /\ pc = "assign" => fdArg # 0
  /\ pc = "close" => fdArg # 0
  /\ pc \in {"connect", "write", "read", "closeTest", "close"} /\ motionfd = 0 => ~ running
  /\ pc \in {"socket", "assign"} /\ ~ running => motionfd = 0
  /\ pc = "close" /\ fdArg \in Sockets => fdArg = motionfd
  /\ pc = "close" /\ running => fdArg = motionfd
  /\ pc \in {"write", "read", "closeTest", "close"} /\ running => motionfd \in Sockets

\* The descriptor the program is to look after at each place.
Held == IF pc = "assign" THEN fdArg ELSE motionfd
Holding == pc \in {"assign", "connect", "write", "read", "closeTest", "close"} /\ Held \in Sockets

\* The sockets in use, counted against the failed connects.
LeakInv ==
  LET inUse == Cardinality(Sockets)
  IN  /\ leaked <= inUse + 2 /\ inUse <= leaked + 1
      /\ motionfd \in Sockets => leaked <= inUse + 1
      /\ Holding => leaked <= inUse
      /\ pc = "socket" => inUse <= leaked /\ leaked <= inUse + 1
      /\ running => inUse = leaked + IF Holding THEN 1 ELSE 0

Inv ==
  /\ TypeOK
  /\ DescriptorInv
  /\ LeakInv
  /\ NoPollWithoutStdin

Places == {"test", "socket", "assign", "connect", "write", "read", "closeTest", "close",
           "clear", "sleep", "ended"}

LEMMA BeyondStreams ==
  IsFiniteSet(3..(Limit - 1)) /\ Cardinality(3..(Limit - 1)) = Limit - 3
BY FS_Interval

LEMMA SocketFacts ==
  ASSUME open \subseteq Numbers
  PROVE  IsFiniteSet(Sockets) /\ Cardinality(Sockets) \in 0..(Limit - 3)
<1>1. Sockets \subseteq 3..(Limit - 1)
  BY DEF Sockets
<1>2. IsFiniteSet(Sockets) /\ Cardinality(Sockets) <= Limit - 3
  <2>1. IsFiniteSet(3..(Limit - 1)) /\ Cardinality(3..(Limit - 1)) = Limit - 3
    BY BeyondStreams
  <2>2. IsFiniteSet(Sockets) /\ Cardinality(Sockets) <= Cardinality(3..(Limit - 1))
    BY ONLY <1>1, <2>1, FS_Subset
  <2> QED
    BY <2>1, <2>2
<1>3. Cardinality(Sockets) \in Nat
  BY <1>2, FS_CardinalityType
<1> QED
  BY <1>2, <1>3

\* A new descriptor beyond the streams is one more socket.
LEMMA OneMore ==
  ASSUME open \subseteq Numbers, NEW fd \in Numbers, fd \notin open, fd \notin Streams,
         open' = open \cup {fd}
  PROVE  Sockets' = Sockets \cup {fd} /\ Cardinality(Sockets') = Cardinality(Sockets) + 1
<1>1. Sockets' = Sockets \cup {fd} /\ fd \notin Sockets
  BY DEF Sockets
<1> QED
  BY <1>1, SocketFacts, FS_AddElement

\* Closing a descriptor is one socket less, if it was one.
LEMMA OneLess ==
  ASSUME open \subseteq Numbers, NEW fd, open' = open \ {fd}
  PROVE  /\ Sockets' = Sockets \ {fd}
         /\ Cardinality(Sockets') = Cardinality(Sockets) - IF fd \in Sockets THEN 1 ELSE 0
<1>1. Sockets' = Sockets \ {fd}
  BY DEF Sockets
<1>2. Cardinality(Sockets) \in Nat
  BY SocketFacts
<1>3. CASE fd \in Sockets
  BY <1>1, <1>2, <1>3, SocketFacts, FS_RemoveElement
<1>4. CASE fd \notin Sockets
  BY <1>1, <1>2, <1>4, SocketFacts
<1> QED
  BY <1>1, <1>3, <1>4

LEMMA InitInv == ASSUME Init PROVE Inv
<1> USE DEF Init
<1>1. Sockets = {} /\ Cardinality(Sockets) = 0
  BY FS_EmptySet DEF Sockets
<1>2. CountsWhatWasSent /\ writer \in {"idle", "loop"}
  <2>1. Len(Message) = 3
    BY RequestAssumption
  <2> QED
    BY <2>1 DEF WriteInit, CountsWhatWasSent
<1>3. sent \in Seq({"GET ", "/motion.txt", " "})
  BY DEF WriteInit
<1>4. TypeOK
  <2>1. open \subseteq Numbers /\ motionfd \in Numbers \cup {-1} /\ fdArg \in Numbers \cup {-1}
    OBVIOUS
  <2>2. t_remote \in 0..MaxEvents /\ events \in 0..MaxEvents /\ leaked \in 0..Limit
    OBVIOUS
  <2> QED
    BY <1>2, <1>3, <2>1, <2>2 DEF TypeOK
<1>5. DescriptorInv /\ NoPollWithoutStdin
  BY DEF DescriptorInv, NoPollWithoutStdin
<1>6. LeakInv
  BY <1>1 DEF LeakInv, Holding, Held
<1> QED
  BY <1>4, <1>5, <1>6 DEF Inv

\* write_n counts the bytes the socket took.
LEMMA WriteInv ==
  ASSUME Inv, WriteBegins \/ SendSome \/ SendFails \/ WriteEnds \/ UNCHANGED writeVars
  PROVE  /\ writer' \in {"idle", "loop"}
         /\ sent' \in Seq({"GET ", "/motion.txt", " "})
         /\ CountsWhatWasSent'
<1> DEFINE Bytes == {"GET ", "/motion.txt", " "}
<1>1. /\ writer \in {"idle", "loop"} /\ sent \in Seq(Bytes) /\ written = Len(sent)
      /\ written <= Len(Message) /\ result \in {-1, 0, Len(Message)}
  BY DEF Inv, TypeOK, CountsWhatWasSent
<1>2. Message \in Seq(Bytes) /\ Len(Message) = 3
  <2>1. <<"GET ", "/motion.txt", " ">> \in Seq(Bytes) /\ Len(<<"GET ", "/motion.txt", " ">>) = 3
    OBVIOUS
  <2> QED
    BY <2>1, RequestAssumption
<1> SUFFICES writer' \in {"idle", "loop"} /\ sent' \in Seq(Bytes) /\ CountsWhatWasSent'
  OBVIOUS
<1> HIDE DEF Bytes
<1>3. CASE SendSome
  <2>1. PICK k \in 1..(Len(Message) - written) :
           sent' = sent \o SubSeq(Message, 1, k) /\ written' = written + k
    BY <1>3 DEF SendSome
  <2>2. k \in 1..Len(Message)
    BY <1>1, <1>2, <2>1
  <2>3. SubSeq(Message, 1, k) \in Seq(Bytes) /\ Len(SubSeq(Message, 1, k)) = k
    <3>1. \A i \in 1..k : Message[i] \in Bytes
      <4> SUFFICES ASSUME NEW i \in 1..k PROVE Message[i] \in Bytes
        OBVIOUS
      <4>1. i \in 1..Len(Message)
        BY <1>2, <2>2
      <4> QED
        BY <1>2, <4>1, ElementOfSeq
    <3> QED
      <4>1. k \in Int /\ 1 \in Int /\ 1 <= k /\ k - 1 + 1 = k
        BY <2>2
      <4> HIDE <1>1, <1>2, <2>1
      <4>2. SubSeq(Message, 1, k) \in Seq(Bytes)
        BY <3>1, <4>1, SubSeqProperties
      <4>3. Len(SubSeq(Message, 1, k)) = IF 1 <= k THEN k - 1 + 1 ELSE 0
        BY <3>1, <4>1, SubSeqProperties
      <4> QED
        BY <4>1, <4>2, <4>3
  <2>4. sent' \in Seq(Bytes) /\ Len(sent') = Len(sent) + k
    BY <1>1, <2>1, <2>3, ConcatProperties
  <2> QED
    BY <1>1, <1>2, <1>3, <2>1, <2>4 DEF SendSome, CountsWhatWasSent
<1>4. CASE WriteBegins
  BY <1>1, <1>2, <1>4 DEF WriteBegins, CountsWhatWasSent
<1>5. CASE SendFails
  BY <1>1, <1>5 DEF SendFails, CountsWhatWasSent
<1>6. CASE WriteEnds
  BY <1>1, <1>2, <1>6 DEF WriteEnds, CountsWhatWasSent
<1>7. CASE UNCHANGED writeVars
  BY <1>1, <1>7 DEF writeVars, CountsWhatWasSent
<1> QED
  BY <1>3, <1>4, <1>5, <1>6, <1>7

\* A step keeps the invariant if it keeps its parts: the bound on failed
\* connects follows from the sockets they left.
LEMMA PartsMakeInv ==
  ASSUME Inv,
         WriteBegins \/ SendSome \/ SendFails \/ WriteEnds \/ UNCHANGED writeVars,
         pc' \in Places, running' \in BOOLEAN, up' \in BOOLEAN, port' = port,
         motionfd' \in Numbers \cup {-1}, fdArg' \in Numbers \cup {-1}, open' \subseteq Numbers,
         leaked' \in Nat, t_remote' \in 0..MaxEvents, events' \in 0..MaxEvents,
         DescriptorInv', LeakInv', NoPollWithoutStdin'
  PROVE  Inv'
<1>1. Cardinality(Sockets') \in 0..(Limit - 3)
  <2>1. Sockets' \subseteq 3..(Limit - 1)
    BY DEF Sockets
  <2>2. IsFiniteSet(3..(Limit - 1)) /\ Cardinality(3..(Limit - 1)) = Limit - 3
    BY BeyondStreams
  <2>3. IsFiniteSet(Sockets') /\ Cardinality(Sockets') <= Cardinality(3..(Limit - 1))
    BY ONLY <2>1, <2>2, FS_Subset
  <2>4. Cardinality(Sockets') \in Nat
    BY <2>3, FS_CardinalityType
  <2> QED
    BY <2>2, <2>3, <2>4
<1>2. leaked' \in 0..Limit
  <2>1. leaked' <= Cardinality(Sockets') + 2
    BY DEF LeakInv
  <2> QED
    BY <1>1, <2>1
<1>3. TypeOK'
  BY <1>2, WriteInv DEF TypeOK, Places, Inv
<1> QED
  BY <1>3 DEF Inv

LEMMA InvFacts ==
  ASSUME Inv
  PROVE  /\ pc \in Places /\ running \in BOOLEAN /\ up \in BOOLEAN
         /\ motionfd \in Numbers \cup {-1} /\ fdArg \in Numbers \cup {-1} /\ open \subseteq Numbers
         /\ leaked \in Nat /\ t_remote \in 0..MaxEvents /\ events \in 0..MaxEvents
         /\ DescriptorInv /\ LeakInv /\ NoPollWithoutStdin
         /\ Cardinality(Sockets) \in Nat
<1>1. TypeOK /\ DescriptorInv /\ LeakInv /\ NoPollWithoutStdin
  BY DEF Inv
<1>2. leaked \in Nat /\ t_remote \in 0..MaxEvents /\ events \in 0..MaxEvents
  <2>1. leaked \in 0..Limit /\ t_remote \in 0..MaxEvents /\ events \in 0..MaxEvents
    BY <1>1, Zenon DEF TypeOK
  <2> QED
    BY <2>1
<1>3. Cardinality(Sockets) \in Nat
  <2>1. open \subseteq Numbers
    BY <1>1, Zenon DEF TypeOK
  <2> QED
    BY <2>1, SocketFacts
<1> QED
  BY <1>1, <1>2, <1>3 DEF TypeOK, Places

\* motion_get up to the answer.
LEMMA PollInv ==
  ASSUME Inv, Poll
  PROVE  Inv'
<1> USE InvFacts DEF Places, Step, clientVars, serverVars
<1>1. CASE TestRunning
  <2>1. DescriptorInv' /\ NoPollWithoutStdin'
    BY <1>1 DEF TestRunning, DescriptorInv, NoPollWithoutStdin, Sockets
  <2>2. LeakInv'
    BY <1>1 DEF TestRunning, LeakInv, Holding, Held, Sockets
  <2> QED
    BY <1>1, <2>1, <2>2, PartsMakeInv DEF TestRunning
<1>2. CASE MakeSocket
  <2>1. PICK fd \in Numbers \cup {-1} :
           /\ Allocates(open, fd) /\ fdArg' = fd
           /\ open' = open \cup ({fd} \ {-1})
    BY <1>2 DEF MakeSocket
  <2>2. {0, 1, 2} \subseteq open
    BY <1>2 DEF MakeSocket, NoPollWithoutStdin, DescriptorInv
  <2>3. fd = -1 \/ (fd \in Numbers \ open /\ fd \notin Streams)
    BY <2>1, <2>2 DEF Allocates
  <2>4. DescriptorInv' /\ NoPollWithoutStdin'
    BY <1>2, <2>1, <2>2, <2>3 DEF MakeSocket, DescriptorInv, NoPollWithoutStdin,
       Sockets
  <2>5. LeakInv'
    <3>1. CASE fd = -1
      <4>1. Sockets' = Sockets /\ fd \notin Sockets
        BY <2>1, <3>1 DEF Sockets
      <4> QED
        BY <1>2, <2>1, <3>1, <4>1 DEF MakeSocket, LeakInv, Holding, Held
    <3>2. CASE fd \in Numbers \ open /\ fd \notin Streams
      <4>1. Cardinality(Sockets') = Cardinality(Sockets) + 1 /\ Sockets' = Sockets \cup {fd}
        BY <2>1, <3>2, OneMore
      <4> QED
        BY <1>2, <2>1, <4>1 DEF MakeSocket, LeakInv, Holding, Held
    <3> QED
      BY <2>3, <3>1, <3>2
  <2> QED
    BY <1>2, <2>1, <2>4, <2>5, PartsMakeInv DEF MakeSocket
<1>3. CASE AssignSocket
  <2>1. DescriptorInv' /\ NoPollWithoutStdin'
    BY <1>3 DEF AssignSocket, DescriptorInv, NoPollWithoutStdin, Sockets
  <2>2. LeakInv'
    <3>1. Sockets' = Sockets
      BY <1>3 DEF AssignSocket, Sockets
    <3> QED
      BY <1>3, <3>1 DEF AssignSocket, LeakInv, Holding, Held
  <2> QED
    BY <1>3, <2>1, <2>2, PartsMakeInv DEF AssignSocket
<1>4. CASE Connect
  <2>1. DescriptorInv' /\ NoPollWithoutStdin'
    BY <1>4 DEF Connect, DescriptorInv, NoPollWithoutStdin, Sockets
  <2>2. LeakInv'
    <3>1. Sockets' = Sockets
      BY <1>4 DEF Connect, Sockets
    <3> QED
      BY <1>4, <3>1 DEF Connect, LeakInv, Holding, Held
  <2> QED
    BY <1>4, <2>1, <2>2, PartsMakeInv DEF Connect
<1>5. CASE ConnectFails
  <2>1. DescriptorInv' /\ NoPollWithoutStdin'
    BY <1>5 DEF ConnectFails, DescriptorInv, NoPollWithoutStdin, Sockets
  <2>2. LeakInv'
    <3>1. Sockets' = Sockets
      BY <1>5 DEF ConnectFails, Sockets
    <3> QED
      BY <1>5, <3>1 DEF ConnectFails, LeakInv, Holding, Held
  <2>3. leaked' \in Nat
    BY <1>5 DEF ConnectFails
  <2> QED
    BY <1>5, <2>1, <2>2, <2>3, PartsMakeInv DEF ConnectFails
<1>6. CASE WriteSome \/ WriteFails \/ WriteDone \/ ReadFails
  <2>1. /\ UNCHANGED <<running, motionfd, open, leaked, port, serverVars>>
        /\ pc \in {"write", "read"} /\ pc' \in {"write", "read", "closeTest"}
        /\ fdArg' \in {fdArg, motionfd}
        /\ SendSome \/ SendFails \/ WriteEnds \/ UNCHANGED writeVars
    BY <1>6 DEF WriteSome, WriteFails, WriteDone, ReadFails
  <2>2. DescriptorInv' /\ NoPollWithoutStdin'
    BY <2>1 DEF DescriptorInv, NoPollWithoutStdin, Sockets
  <2>3. LeakInv'
    <3>1. Sockets' = Sockets
      BY <2>1 DEF Sockets
    <3> QED
      BY <2>1, <3>1 DEF LeakInv, Holding, Held
  <2> QED
    BY <2>1, <2>2, <2>3, PartsMakeInv
<1>7. CASE TestSocket
  <2>1. DescriptorInv' /\ NoPollWithoutStdin'
    BY <1>7 DEF TestSocket, DescriptorInv, NoPollWithoutStdin, Sockets
  <2>2. LeakInv'
    <3>1. Sockets' = Sockets
      BY <1>7 DEF TestSocket, Sockets
    <3>2. motionfd = 0 => ~ running /\ motionfd \notin Sockets
      BY <1>7 DEF TestSocket, DescriptorInv, Sockets
    <3> QED
      BY <1>7, <3>1, <3>2 DEF TestSocket, LeakInv, Holding, Held
  <2> QED
    BY <1>7, <2>1, <2>2, PartsMakeInv DEF TestSocket
<1>8. CASE CloseSocket
  <2>1. PICK fd \in {fdArg, motionfd} : open' = open \ {fd}
    BY <1>8 DEF CloseSocket
  <2>2. DescriptorInv' /\ NoPollWithoutStdin'
    BY <1>8, <2>1 DEF CloseSocket, DescriptorInv, NoPollWithoutStdin, Sockets
  <2>3. LeakInv'
    <3>1. /\ Sockets' = Sockets \ {fd}
          /\ Cardinality(Sockets') = Cardinality(Sockets) - IF fd \in Sockets THEN 1 ELSE 0
      BY <2>1, OneLess
    <3>2. /\ fd \in Sockets => fd = motionfd
          /\ running => fd = motionfd /\ motionfd \in Sockets
      BY <1>8 DEF CloseSocket, DescriptorInv
    <3> QED
      BY <1>8, <3>1, <3>2 DEF CloseSocket, LeakInv, Holding, Held
  <2> QED
    BY <1>8, <2>1, <2>2, <2>3, PartsMakeInv DEF CloseSocket
<1>9. CASE ClearSocket \/ Sleep
  <2>1. /\ UNCHANGED <<running, open, fdArg, leaked, port, serverVars, writeVars>>
        /\ motionfd' \in {0, motionfd}
        /\ pc \in {"clear", "sleep"} /\ pc' \in {"sleep", "test"}
    BY <1>9 DEF ClearSocket, Sleep
  <2>2. DescriptorInv' /\ NoPollWithoutStdin'
    BY <2>1 DEF DescriptorInv, NoPollWithoutStdin, Sockets
  <2>3. LeakInv'
    <3>1. Sockets' = Sockets /\ 0 \notin Sockets
      BY <2>1 DEF Sockets
    <3> QED
      BY <2>1, <3>1 DEF LeakInv, Holding, Held
  <2> QED
    BY <2>1, <2>2, <2>3, PartsMakeInv
<1> QED
  BY <1>1, <1>2, <1>3, <1>4, <1>5, <1>6, <1>7, <1>8, <1>9 DEF Poll

\* The server's answers and the camera's notifications.
LEMMA ServerInv ==
  ASSUME Inv, Answered \/ ReadTerminal \/ CameraNotifies \/ ServerComesOrGoes \/ UNCHANGED vars
  PROVE  Inv'
<1> USE InvFacts DEF Places, Step, clientVars, serverVars
<1>1. /\ UNCHANGED <<running, motionfd, open, fdArg, leaked, port, writeVars>>
      /\ pc' = pc \/ (pc = "read" /\ pc' = "closeTest")
      /\ up' \in BOOLEAN
  BY DEF Answered, ReadTerminal, CameraNotifies, ServerComesOrGoes, vars
<1>2. /\ t_remote' \in 0..MaxEvents /\ events' \in 0..MaxEvents
  BY DEF Answered, ReadTerminal, CameraNotifies, ServerComesOrGoes, vars
<1>3. Sockets' = Sockets
  BY <1>1 DEF Sockets
<1>4. DescriptorInv' /\ NoPollWithoutStdin'
  BY <1>1, <1>3 DEF DescriptorInv, NoPollWithoutStdin
<1>5. LeakInv'
  BY <1>1, <1>3 DEF LeakInv, Holding, Held
<1> QED
  BY <1>1, <1>2, <1>4, <1>5, PartsMakeInv

\* The handler, wherever the program is.
LEMMA CleanupInv ==
  ASSUME Inv, Cleanup
  PROVE  Inv'
<1> USE InvFacts DEF Places, serverVars
<1>1. /\ running' = FALSE /\ motionfd' = 0
      /\ UNCHANGED <<pc, fdArg, leaked, port, serverVars, writeVars>>
  BY DEF Cleanup
<1>2. /\ open' \subseteq open
      /\ Sockets' = Sockets \ {motionfd} /\ 0 \notin Sockets
      /\ Cardinality(Sockets') = Cardinality(Sockets) - IF motionfd \in Sockets THEN 1 ELSE 0
  <2>1. CASE motionfd = 0
    <3>1. Sockets' = Sockets /\ 0 \notin Sockets /\ open' = open
      BY <2>1 DEF Cleanup, Sockets
    <3> QED
      BY <2>1, <3>1
  <2>2. CASE motionfd # 0
    <3>1. open' = open \ {motionfd} /\ 0 \notin Sockets
      BY <2>2 DEF Cleanup, Sockets
    <3> QED
      BY <3>1, OneLess
  <2> QED
    BY <2>1, <2>2
<1>3. 0 \notin open' => 0 \notin open
  BY DEF Cleanup
<1>4. DescriptorInv'
  <2>1. {1, 2} \subseteq open'
    BY DEF Cleanup, DescriptorInv
  <2> QED
    BY <1>1, <1>2, <2>1 DEF DescriptorInv
<1>5. NoPollWithoutStdin'
  BY <1>1, <1>3 DEF NoPollWithoutStdin
<1>6. LeakInv'
  <2>1. Holding' => Holding /\ (motionfd \notin Sockets \/ running)
    <3>1. CASE pc = "assign"
      BY <1>1, <1>2, <3>1 DEF Holding, Held, DescriptorInv
    <3>2. CASE pc # "assign"
      BY <1>1, <1>2, <3>2 DEF Holding, Held
    <3> QED
      BY <3>1, <3>2
  <2>2. pc = "socket" /\ ~ running => motionfd = 0
    BY DEF DescriptorInv
  <2>3. ~ (pc = "socket" /\ Holding)
    BY DEF Holding
  <2>4. /\ leaked <= Cardinality(Sockets') + 2 /\ Cardinality(Sockets') <= leaked + 1
        /\ Holding' => leaked <= Cardinality(Sockets')
        /\ pc = "socket" =>
             Cardinality(Sockets') <= leaked /\ leaked <= Cardinality(Sockets') + 1
    <3>1. CASE motionfd \in Sockets
      BY <1>2, <2>1, <2>2, <2>3, <3>1 DEF LeakInv
    <3>2. CASE motionfd \notin Sockets
      BY <1>2, <2>1, <3>2 DEF LeakInv
    <3> QED
      BY <3>1, <3>2
  <2> QED
    BY <1>1, <1>2, <2>4 DEF LeakInv
<1>7. /\ pc' \in Places /\ motionfd' \in Numbers \cup {-1} /\ fdArg' \in Numbers \cup {-1}
      /\ running' \in BOOLEAN /\ up' \in BOOLEAN /\ leaked' \in Nat
      /\ t_remote' \in 0..MaxEvents /\ events' \in 0..MaxEvents
  <2>1. pc' \in Places /\ motionfd' \in Numbers \cup {-1} /\ fdArg' \in Numbers \cup {-1}
    BY <1>1
  <2>2. running' \in BOOLEAN /\ up' \in BOOLEAN
    BY <1>1, Zenon
  <2>3. leaked' \in Nat /\ t_remote' \in 0..MaxEvents /\ events' \in 0..MaxEvents
    BY <1>1
  <2> QED
    BY <2>1, <2>2, <2>3
<1>8. open' \subseteq Numbers
  BY <1>2
<1>9. UNCHANGED writeVars /\ port' = port
  BY <1>1
<1> QED
  BY <1>4, <1>5, <1>6, <1>7, <1>8, <1>9, PartsMakeInv

\* The invariant holds in every state of the client, whenever its handler runs.
THEOREM ClientInvariance == Spec => []Inv
<1>1. Inv /\ [Next]_vars => Inv'
  BY PollInv, ServerInv, CleanupInv DEF Next
<1> QED
  BY InitInv, <1>1, PTL DEF Spec

\* Type correctness, with write_n's count of the bytes the socket took.
THEOREM ClientTypes == Spec => []TypeOK
<1>1. Inv => TypeOK
  BY DEF Inv
<1> QED
  BY <1>1, ClientInvariance, PTL

\* Only a failed connect leaves a socket behind.
THEOREM LeaksCounted == Spec => []OnlyFailedConnectsLeak
<1>1. Inv => OnlyFailedConnectsLeak
  BY InvFacts DEF LeakInv, Holding, OnlyFailedConnectsLeak
<1> QED
  BY <1>1, ClientInvariance, PTL

\* No poll is made once descriptor 0 was closed.
THEOREM StdinWhilePolling == Spec => []NoPollWithoutStdin
<1>1. Inv => NoPollWithoutStdin
  BY DEF Inv
<1> QED
  BY <1>1, ClientInvariance, PTL

---------------------------------------------------------------------------
(* Going on *)

\* write_n runs where motion_get calls it, and nowhere else.
WriterInv == writer = "loop" <=> pc = "write"

\* The guards of Poll, the part of Next that waits for no one.
PollCanGo ==
  \/ pc \in {"test", "socket", "assign", "closeTest", "close", "clear", "sleep"}
  \/ pc = "connect" /\ writer = "idle"
  \/ pc = "write" /\ writer = "loop"
  \/ pc = "read" /\ fdArg \notin Sockets \cup {0}

LEMMA WriterKept == WriterInv /\ [Next]_vars => WriterInv'
<1> SUFFICES ASSUME WriterInv, [Next]_vars PROVE WriterInv'
  OBVIOUS
<1>1. CASE TestRunning \/ MakeSocket \/ AssignSocket \/ ConnectFails \/ ReadFails \/ TestSocket
           \/ CloseSocket \/ ClearSocket \/ Sleep \/ Answered \/ ReadTerminal
  BY <1>1
  DEF TestRunning, MakeSocket, AssignSocket, ConnectFails, ReadFails, TestSocket, CloseSocket,
      ClearSocket, Sleep, Answered, ReadTerminal, Step, writeVars, WriterInv
<1>2. CASE Connect \/ WriteSome \/ WriteFails \/ WriteDone
  BY <1>2
  DEF Connect, WriteSome, WriteFails, WriteDone, WriteBegins, SendSome, SendFails, WriteEnds,
      Step, WriterInv
<1>3. CASE Cleanup \/ CameraNotifies \/ ServerComesOrGoes \/ UNCHANGED vars
  BY <1>3 DEF Cleanup, CameraNotifies, ServerComesOrGoes, vars, writeVars, WriterInv
<1> QED BY <1>1, <1>2, <1>3 DEF Next, Poll

\* The client waits for nobody but the one it reads from, a server that took
\* its connection or the terminal: in every other place, whatever the handler
\* has done to motionfd and whether the server is there, it can go on.
THEOREM WaitsOnlyToRead ==
  Spec => [](pc = "ended" \/ (pc = "read" /\ fdArg \in Sockets \cup {0}) \/ PollCanGo)
<1>1. Init => WriterInv
  BY DEF Init, WriteInit, WriterInv
<1>2. TypeOK /\ WriterInv =>
        pc = "ended" \/ (pc = "read" /\ fdArg \in Sockets \cup {0}) \/ PollCanGo
  BY DEF TypeOK, WriterInv, PollCanGo
<1> QED BY <1>1, <1>2, WriterKept, ClientTypes, PTL DEF Spec

\* Steps to the end of the poll, at most, from a place and with a count.
PcRank ==
  [socket |-> 11, assign |-> 10, connect |-> 9, write |-> 8, read |-> 6, closeTest |-> 5,
   close |-> 4, clear |-> 3, sleep |-> 2, test |-> 1, ended |-> 0]
Ahead(place, count) ==
  PcRank[place] + (IF place = "write" THEN Len(Message) - count
                   ELSE IF place \in {"socket", "assign", "connect"} THEN Len(Message) ELSE 0)
StepsLeft == Ahead(pc, written)

LEMMA AheadIs ==
  ASSUME NEW n \in 0..3
  PROVE  /\ Ahead("socket", n) = 14 /\ Ahead("assign", n) = 13 /\ Ahead("connect", n) = 12
         /\ Ahead("write", n) = 11 - n /\ Ahead("read", n) = 6 /\ Ahead("closeTest", n) = 5
         /\ Ahead("close", n) = 4 /\ Ahead("clear", n) = 3 /\ Ahead("sleep", n) = 2
         /\ Ahead("test", n) = 1 /\ Ahead("ended", n) = 0
<1>1. Len(Message) = 3
  BY RequestAssumption
<1>2. /\ PcRank["socket"] = 11 /\ PcRank["assign"] = 10 /\ PcRank["connect"] = 9
      /\ PcRank["write"] = 8 /\ PcRank["read"] = 6 /\ PcRank["closeTest"] = 5
      /\ PcRank["close"] = 4 /\ PcRank["clear"] = 3 /\ PcRank["sleep"] = 2
      /\ PcRank["test"] = 1 /\ PcRank["ended"] = 0
  BY DEF PcRank
<1> QED BY <1>1, <1>2 DEF Ahead

\* Each step of a poll brings its end nearer, and what others do between, the
\* handler among them, does not move it away: a poll has finitely many steps,
\* and after Ctrl-C, which nothing takes back, there is no other.
THEOREM EachPollEnds ==
  Spec => [][/\ StepsLeft \in Nat
             /\ ~ running => ~ running'
             /\ Poll \/ Answered \/ ReadTerminal =>
                  StepsLeft' < StepsLeft \/ (running /\ pc = "test")
             /\ Cleanup \/ CameraNotifies \/ ServerComesOrGoes => StepsLeft' = StepsLeft]_vars
<1> DEFINE LeadsOn ==
      /\ StepsLeft \in Nat
      /\ ~ running => ~ running'
      /\ Poll \/ Answered \/ ReadTerminal =>
           StepsLeft' < StepsLeft \/ (running /\ pc = "test")
      /\ Cleanup \/ CameraNotifies \/ ServerComesOrGoes => StepsLeft' = StepsLeft
<1>1. ASSUME TypeOK, TypeOK', Next PROVE LeadsOn
  <2>0. /\ written \in 0..3 /\ written' \in 0..3
        /\ pc \in Places /\ pc' \in Places
    <3>1. Len(Message) = 3
      BY RequestAssumption
    <3>2. /\ pc \in Places /\ sent \in Seq({"GET ", "/motion.txt", " "})
          /\ written = Len(sent) /\ written <= Len(Message)
      BY <1>1 DEF TypeOK, CountsWhatWasSent, Places
    <3>3. /\ pc' \in Places /\ sent' \in Seq({"GET ", "/motion.txt", " "})
          /\ written' = Len(sent') /\ written' <= Len(Message)
      BY <1>1 DEF TypeOK, CountsWhatWasSent, Places
    <3>4. Len(sent) \in Nat
      BY <3>2, LenProperties
    <3>5. Len(sent') \in Nat
      BY <3>3, LenProperties
    <3>6. \A k, m \in Nat : m = 3 /\ k <= m => k \in 0..3
      OBVIOUS
    <3>7. written \in 0..3
      BY <3>1, <3>2, <3>4, <3>6
    <3>8. written' \in 0..3
      BY <3>1, <3>3, <3>5, <3>6
    <3> QED BY <3>2, <3>3, <3>7, <3>8
  <2>1. StepsLeft \in Nat
    BY <2>0, AheadIs DEF StepsLeft, Places
  <2>2. ~ running => ~ running'
    BY <1>1
    DEF Next, Poll, TestRunning, MakeSocket, AssignSocket, Connect, ConnectFails, WriteSome,
        WriteFails, WriteDone, Answered, ReadFails, ReadTerminal, TestSocket, CloseSocket,
        ClearSocket, Sleep, Cleanup, CameraNotifies, ServerComesOrGoes, clientVars
  <2> DEFINE Nearer == StepsLeft' < StepsLeft \/ (running /\ pc = "test")
  <2>3. ASSUME TestRunning PROVE Nearer
    <3>1. \/ running /\ pc = "test"
          \/ pc = "test" /\ pc' = "ended"
      BY <2>3 DEF TestRunning
    <3> QED BY <2>0, <3>1, AheadIs DEF StepsLeft
  <2>4. ASSUME MakeSocket \/ AssignSocket \/ ConnectFails \/ ReadFails \/ TestSocket
               \/ CloseSocket \/ ClearSocket \/ Sleep \/ Answered \/ ReadTerminal
        PROVE  Nearer
    <3>1. <<pc, pc'>> \in {<<"socket", "assign">>, <<"assign", "connect">>,
                           <<"connect", "sleep">>, <<"read", "closeTest">>,
                           <<"closeTest", "close">>, <<"closeTest", "clear">>,
                           <<"close", "clear">>, <<"clear", "sleep">>, <<"sleep", "test">>}
      BY <2>4
      DEF MakeSocket, AssignSocket, ConnectFails, ReadFails, TestSocket, CloseSocket,
          ClearSocket, Sleep, Answered, ReadTerminal, Step
    <3> QED BY <2>0, <3>1, AheadIs DEF StepsLeft
  <2>5. ASSUME Connect PROVE Nearer
    <3>1. pc = "connect" /\ pc' = "write"
      BY <2>5 DEF Connect, Step
    <3> QED BY <2>0, <3>1, AheadIs DEF StepsLeft
  <2>6. ASSUME WriteSome PROVE Nearer
    <3>1. pc = "write" /\ pc' = "write" /\ written' > written
      BY <2>0, <2>6 DEF WriteSome, SendSome
    <3> QED BY <2>0, <3>1, AheadIs DEF StepsLeft
  <2>7. ASSUME WriteFails \/ WriteDone PROVE Nearer
    <3>1. pc = "write" /\ pc' \in {"closeTest", "read"}
      BY <2>7 DEF WriteFails, WriteDone, Step
    <3> QED BY <2>0, <3>1, AheadIs DEF StepsLeft
  <2>8. ASSUME Cleanup \/ CameraNotifies \/ ServerComesOrGoes PROVE StepsLeft' = StepsLeft
    <3>1. UNCHANGED <<pc, written>>
      BY <2>8 DEF Cleanup, CameraNotifies, ServerComesOrGoes, writeVars
    <3> QED BY <3>1 DEF StepsLeft
  <2> QED BY <2>1, <2>2, <2>3, <2>4, <2>5, <2>6, <2>7, <2>8 DEF Poll
<1>2. TypeOK /\ TypeOK' /\ [Next]_vars => [LeadsOn]_vars
  BY <1>1
<1> QED BY <1>2, ClientTypes, PTL DEF Spec
=============================================================================
