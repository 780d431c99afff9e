-------------------------- MODULE MCSocketTransport --------------------------
(* Small instances of SocketTransport for TLC. *)
EXTENDS SocketTransport, TLC

\* Calls only differ by name, and so do connections.
Symmetry == Permutations(Calls) \cup Permutations(Conns)
===============================================================================
