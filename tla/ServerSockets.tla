---------------------------- MODULE ServerSockets ----------------------------
(***************************************************************************)
(* server.c: how the camera server comes to its client socket, and what it *)
(* is left with when a call fails.  main does not look at the results:     *)
(* after a failed set-up it goes on with descriptor 1 for the listening    *)
(* socket and -1 for the client's.                                         *)
(***************************************************************************)
EXTENDS Descriptors

VARIABLES
  step,      \* where the process is: main, then the turns, then main again
  open,      \* descriptors in use
  fd,        \* data.fd
  clientfd   \* data.clientfd

socketVars == <<open, fd, clientfd>>

SocketsInit ==
  /\ step = "create"
  /\ open = Streams
  /\ fd = -1 /\ clientfd = -1

Goes(here, next) == step = here /\ step' = next

\* create_server_socket: the port is out of range or no descriptor is left; or
\* there is a socket, which stays open when setsockopt, bind or listen fails.
\* getConnection1 turns the error into 1.
GetConnection1 ==
  /\ Goes("create", "accept")
  /\ \/ fd' = 1 /\ UNCHANGED open
     \/ \E n \in Numbers :
           /\ Allocates(open, n)
           /\ open' = open \cup {n}
           /\ fd' \in {n, 1}
  /\ UNCHANGED clientfd

\* Mutant: the listening socket is returned in place of the connection.
GetConnection2Listening ==
  /\ Goes("accept", "openCamera")
  /\ \/ fd # 1 /\ clientfd' = fd /\ UNCHANGED open
     \/ clientfd' = -1 /\ UNCHANGED open
  /\ UNCHANGED fd

\* accept, which fails on descriptor 1, the terminal.
GetConnection2 ==
  /\ Goes("accept", "openCamera")
  /\ \/ \E n \in Numbers :
           /\ fd # 1
           /\ Allocates(open, n)
           /\ open' = open \cup {n}
           /\ clientfd' = n
     \/ clientfd' = -1 /\ UNCHANGED open
  /\ UNCHANGED fd

CloseConnection ==
  /\ Goes("join", "ended")
  /\ open' = open \ {clientfd}
  /\ UNCHANGED <<fd, clientfd>>
==============================================================================
