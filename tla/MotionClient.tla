---------------------------- MODULE MotionClient ----------------------------
(***************************************************************************)
(* motion_client.c polling the motion server: one socket per poll, closed  *)
(* when the answer is there, and by the Ctrl-C handler, which runs between *)
(* any two steps of the program and shares motionfd with it.  0 in         *)
(* motionfd means that there is no socket, although 0 is a descriptor.     *)
(*                                                                         *)
(* Of the server only what a poll can do to it is modelled: on the port    *)
(* for clients a request is answered with the last event, on the port for  *)
(* cameras (motion_client's default) it is registered as one.              *)
(***************************************************************************)
EXTENDS Descriptors, WriteAll, FiniteSets

CONSTANT MaxEvents   \* bound on the events the camera notifies

ASSUME EventsAssumption == MaxEvents \in Nat

\* What the server's parsers look at in "GET /motion.txt \n".
ASSUME RequestAssumption == Message = <<"GET ", "/motion.txt", " ">>

VARIABLES
  pc,         \* where the program is
  running, motionfd,
  open,       \* descriptors in use
  fdArg,      \* the descriptor a call in progress was given
  port,       \* "clients" (9091) or "cameras" (9090, the default)
  up,         \* the server is reachable
  t_remote,   \* the server's time stamp of the last event
  events,     \* history: number of the camera's last event
  leaked      \* history: polls whose connect failed on a new socket

clientVars == <<running, motionfd, open, fdArg, leaked>>
serverVars == <<up, t_remote, events>>
vars == <<pc, clientVars, port, serverVars, writeVars>>

Init ==
  /\ pc = "test"
  /\ running = TRUE
  /\ motionfd = -1
  /\ open = Streams
  /\ fdArg = -1
  /\ port \in {"clients", "cameras"}
  /\ up \in BOOLEAN
  /\ t_remote = 0 /\ events = 0
  /\ leaked = 0
  /\ WriteInit

Sockets == open \ Streams

Step(here, next) == pc = here /\ pc' = next
---------------------------------------------------------------------------
(* poll_motion and motion_get *)

\* Mutant: the loop runs for ever.
TestNothing ==
  /\ Step("test", "socket")
  /\ UNCHANGED <<clientVars, port, serverVars, writeVars>>

TestRunning ==
  /\ pc = "test"
  /\ pc' = IF running THEN "socket" ELSE "ended"
  /\ UNCHANGED <<clientVars, port, serverVars, writeVars>>

\* motionfd = socket(...), in two steps because the handler may come between.
MakeSocket ==
  /\ Step("socket", "assign")
  /\ \E fd \in Numbers \cup {-1} :
        /\ Allocates(open, fd)
        /\ fdArg' = fd
        /\ open' = open \cup ({fd} \ {-1})
  /\ UNCHANGED <<running, motionfd, leaked, port, serverVars, writeVars>>

AssignSocket ==
  /\ Step("assign", "connect")
  /\ motionfd' = fdArg
  /\ UNCHANGED <<running, open, fdArg, leaked, port, serverVars, writeVars>>

\* connect on what motionfd is by now, which need not be a socket.
Connect ==
  /\ Step("connect", "write")
  /\ motionfd \in Sockets /\ up
  /\ fdArg' = motionfd
  /\ WriteBegins
  /\ UNCHANGED <<running, motionfd, open, leaked, port, serverVars>>

\* The socket is not closed when connect fails.
ConnectFails ==
  /\ Step("connect", "sleep")
  /\ motionfd \notin Sockets \/ ~ up
  /\ leaked' = leaked + (IF motionfd \in Sockets THEN 1 ELSE 0)
  /\ UNCHANGED <<running, motionfd, open, fdArg, port, serverVars, writeVars>>

\* write_string keeps its own copy of the descriptor.
WriteSome ==
  /\ pc = "write"
  /\ fdArg \in Sockets /\ SendSome
  /\ UNCHANGED <<pc, clientVars, port, serverVars>>

\* Mutant: motion_get returns from the error without closing the socket.
WriteFailsReturning ==
  /\ Step("write", "sleep")
  /\ fdArg \notin Sockets \/ ~ up
  /\ SendFails
  /\ UNCHANGED <<clientVars, port, serverVars>>

\* The handler closed the socket, or the server went away.
WriteFails ==
  /\ Step("write", "closeTest")
  /\ fdArg \notin Sockets \/ ~ up
  /\ SendFails
  /\ UNCHANGED <<clientVars, port, serverVars>>

\* The request is out; read is given motionfd as it is now.
WriteDone ==
  /\ Step("write", "read")
  /\ WriteEnds
  /\ fdArg' = motionfd
  /\ UNCHANGED <<running, motionfd, open, leaked, port, serverVars>>

\* parse_motion_request: anything under /motion is an event, and one without
\* Message parameter has the time stamp 0.
AcceptedAsEvent(request) ==
  Len(request) >= 2 /\ request[1] = "GET " /\ request[2] = "/motion.txt"

\* The server reads the request, registers it if it came to the cameras' port,
\* and answers.
Answered ==
  /\ Step("read", "closeTest")
  /\ fdArg \in Sockets /\ up
  /\ \E n \in 1..Len(sent) :
        t_remote' = IF port = "cameras" /\ AcceptedAsEvent(SubSeq(sent, 1, n))
                    THEN 0 ELSE t_remote
  /\ UNCHANGED <<clientVars, port, up, events, writeVars>>

\* read fails or finds the end of the connection.
ReadFails ==
  /\ Step("read", "closeTest")
  /\ fdArg # 0 /\ (fdArg \notin Sockets \/ ~ up)
  /\ UNCHANGED <<clientVars, port, serverVars, writeVars>>

\* The handler had closed the socket before read was called: motionfd is 0,
\* and read waits for a line from the terminal.
ReadTerminal ==
  /\ Step("read", "closeTest")
  /\ fdArg = 0
  /\ UNCHANGED <<clientVars, port, serverVars, writeVars>>

\* socket_close: if (motionfd) close(motionfd); motionfd = 0.  Whether the
\* second mention reads the variable again is up to the compiler.
TestSocket ==
  /\ pc = "closeTest"
  /\ pc' = IF motionfd # 0 THEN "close" ELSE "clear"
  /\ fdArg' = motionfd
  /\ UNCHANGED <<running, motionfd, open, leaked, port, serverVars, writeVars>>

CloseSocket ==
  /\ Step("close", "clear")
  /\ \E fd \in {fdArg, motionfd} : open' = open \ {fd}
  /\ UNCHANGED <<running, motionfd, fdArg, leaked, port, serverVars, writeVars>>

ClearSocket ==
  /\ Step("clear", "sleep")
  /\ motionfd' = 0
  /\ UNCHANGED <<running, open, fdArg, leaked, port, serverVars, writeVars>>

Sleep ==
  /\ Step("sleep", "test")
  /\ UNCHANGED <<clientVars, port, serverVars, writeVars>>

Poll ==
  \/ TestRunning \/ MakeSocket \/ AssignSocket \/ Connect \/ ConnectFails
  \/ WriteSome \/ WriteFails \/ WriteDone \/ ReadFails
  \/ TestSocket \/ CloseSocket \/ ClearSocket \/ Sleep
---------------------------------------------------------------------------
(* The rest of the world *)

\* Mutant: the handler only cleans up.
CleanupOnly ==
  /\ pc # "ended"
  /\ open' = IF motionfd # 0 THEN open \ {motionfd} ELSE open
  /\ motionfd' = 0
  /\ UNCHANGED <<pc, running, fdArg, leaked, port, serverVars, writeVars>>

\* Ctrl-C: running = 0 and socket_close, on top of whatever is interrupted.
Cleanup ==
  /\ pc # "ended"
  /\ running' = FALSE
  /\ open' = IF motionfd # 0 THEN open \ {motionfd} ELSE open
  /\ motionfd' = 0
  /\ UNCHANGED <<pc, fdArg, leaked, port, serverVars, writeVars>>

CameraNotifies ==
  /\ up /\ events < MaxEvents
  /\ events' = events + 1
  /\ t_remote' = events + 1
  /\ UNCHANGED <<pc, clientVars, port, up, writeVars>>

ServerComesOrGoes ==
  /\ up' = ~ up
  /\ UNCHANGED <<pc, clientVars, port, t_remote, events, writeVars>>

Next ==
  \/ Poll \/ Answered \/ ReadTerminal \/ Cleanup
  \/ CameraNotifies \/ ServerComesOrGoes

\* The program goes on where it does not wait for others: nobody has to type,
\* and a server that accepted the connection need not answer.
Spec == Init /\ [][Next]_vars
FairSpec == Spec /\ WF_vars(Poll)
---------------------------------------------------------------------------
(* Properties *)

\* Type invariant, with the one of write_n.
TypeOK ==
  /\ pc \in {"test", "socket", "assign", "connect", "write", "read", "closeTest",
             "close", "clear", "sleep", "ended"}
  /\ running \in BOOLEAN
  /\ motionfd \in Numbers \cup {-1} /\ fdArg \in Numbers \cup {-1}
  /\ open \subseteq Numbers
  /\ port \in {"clients", "cameras"}
  /\ up \in BOOLEAN
  /\ t_remote \in 0..MaxEvents /\ events \in 0..MaxEvents
  /\ leaked \in 0..Limit
  /\ writer \in {"idle", "loop"}
  /\ sent \in Seq({"GET ", "/motion.txt", " "})
  /\ CountsWhatWasSent

\* Between polls the descriptors held beyond the standard streams are those of
\* the polls whose connect failed: every other way out of motion_get, at any
\* moment of the handler, gives its socket back or loses none.
OnlyFailedConnectsLeak ==
  /\ running /\ pc \in {"test", "sleep"} => Cardinality(Sockets) = leaked
  /\ Cardinality(Sockets) <= leaked + 1

\* The handler can make socket_close close descriptor 0 under the program, and
\* a socket that got this number would pass for none in all later tests; but by
\* then no further poll is made.
NoPollWithoutStdin ==
  0 \notin open => ~ running /\ pc \in {"clear", "sleep", "test", "ended"}

\* After Ctrl-C the program ends, unless it reads: from the terminal, where the
\* handler left 0 for the socket, or from a server that keeps silent, where
\* motionfd was not yet set when the handler looked.
EndsUnlessReading ==
  ~ running ~> (pc = "ended" \/ (pc = "read" /\ fdArg \in Sockets \cup {0}))
=============================================================================
