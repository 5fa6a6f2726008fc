----------------------------- MODULE MCSockets -----------------------------
(* Instance of Sockets for TLC.  Connections of a kind differ only in      *)
(* their identity, addresses too; descriptors are numbers.                 *)
EXTENDS Sockets, TLC

Symmetry == Permutations(TcpClients) \cup Permutations(WebClients)
=============================================================================
