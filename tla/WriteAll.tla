------------------------------ MODULE WriteAll ------------------------------
(***************************************************************************)
(* server_common.c: write_n, which write_string calls with the length of   *)
(* the string.  It repeats send until as many bytes were sent as the       *)
(* buffer holds; buf itself is not advanced, so that each send starts at   *)
(* the front of the buffer again.                                          *)
(***************************************************************************)
EXTENDS Integers, Sequences

CONSTANT Message   \* the n bytes at buf

ASSUME MessageIsSequence == Message \in Seq(STRING)

VARIABLES
  writer,    \* "loop" inside write_n, otherwise "idle"
  written,   \* write_n's count
  sent,      \* history: what the socket has taken of this call, in order
  result     \* what the last call returned

writeVars == <<writer, written, sent, result>>

WriteInit == writer = "idle" /\ written = 0 /\ sent = <<>> /\ result = 0

WriteBegins ==
  /\ writer = "idle"
  /\ writer' = "loop"
  /\ written' = 0
  /\ sent' = <<>>
  /\ UNCHANGED result

\* Mutant: each send offers the whole buffer, not what is left to count.
SendWhole ==
  /\ writer = "loop" /\ written < Len(Message)
  /\ \E k \in 1..Len(Message) :
        /\ sent' = sent \o SubSeq(Message, 1, k)
        /\ written' = written + k
  /\ UNCHANGED <<writer, result>>

\* send(fd, buf, n - written) takes some of the bytes.
SendSome ==
  /\ writer = "loop" /\ written < Len(Message)
  /\ \E k \in 1..(Len(Message) - written) :
        /\ sent' = sent \o SubSeq(Message, 1, k)
        /\ written' = written + k
  /\ UNCHANGED <<writer, result>>

SendFails ==
  /\ writer = "loop" /\ written < Len(Message)
  /\ writer' = "idle"
  /\ result' = -1
  /\ UNCHANGED <<written, sent>>

WriteEnds ==
  /\ writer = "loop" /\ written >= Len(Message)
  /\ writer' = "idle"
  /\ result' = written
  /\ UNCHANGED <<written, sent>>

WriteNext == WriteBegins \/ SendSome \/ SendFails \/ WriteEnds

WriteSpec == WriteInit /\ [][WriteNext]_writeVars
---------------------------------------------------------------------------
(* Properties *)

\* "Returns number of bytes written" (server_common.h:18): whatever portions
\* the socket takes, the count is that of the bytes it took and never exceeds
\* n, so that no send reaches past the end of the buffer.
CountsWhatWasSent ==
  /\ written = Len(sent)
  /\ written <= Len(Message)
  /\ result \in {-1, 0, Len(Message)}

\* "Writes n bytes starting at buf to fd.  Does multiple write calls if
\* needed" (server_common.h:16-17): after a call that returned n, the socket
\* has taken the n bytes of the buffer.
WritesTheBuffer ==
  writer = "idle" /\ result = Len(Message) => sent = Message
=============================================================================
