--------------------------- MODULE MCConnections ---------------------------
(* Instances of Connections, run by its threads, for TLC. *)
EXTENDS EventLoops

CONSTANTS c1, c2, c3, f1, f2

\* accept may return any free descriptor.
AnyFd == [c \in Conns |-> Fds]
=============================================================================
