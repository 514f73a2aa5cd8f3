---------------------------- MODULE Descriptors ----------------------------
(* File descriptors of one process as POSIX hands them out: open, socket     *)
(* and accept return the lowest number that is not in use, or fail (-1) when *)
(* the process holds as many as it may.                                      *)
EXTENDS Integers

CONSTANT Limit   \* descriptors a process may hold (RLIMIT_NOFILE)

ASSUME LimitAssumption == Limit \in Nat /\ Limit > 2

Numbers == 0..(Limit - 1)
Streams == {0, 1, 2}       \* the standard streams

\* fd is what a process that holds the descriptors in open is given next.
Allocates(open, fd) ==
  \/ fd = -1 /\ Numbers \subseteq open
  \/ fd \in Numbers \ open /\ \A n \in Numbers \ open : fd <= n
============================================================================
