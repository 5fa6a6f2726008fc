------------------------------ MODULE MCRooms ------------------------------
(* Instance of Rooms for TLC.  Connections of one kind differ only in      *)
(* their identity.                                                         *)
EXTENDS Rooms, TLC

Symmetry == Permutations(WebConns) \cup Permutations(Conns \ WebConns)

\* A stray pointer only turns steps into crashes that leave the tables alone.
Readable == ~ stray

\* For the properties that speak of conduct only: it never returns from
\* "tangled", where they hold by definition.
StillSettled == conduct # "tangled" /\ Readable
=============================================================================
