---------------------------- MODULE Membership ----------------------------
(***************************************************************************)
(* What the tables of Rooms promise to clients: places in rooms, handed    *)
(* out once each and in order of arrival, and kept until the client        *)
(* leaves.  No uids, no Players, no pids: Rooms implements this by three   *)
(* tables that refer to each other.                                        *)
(*                                                                         *)
(* The promise ends (Scatter) when somebody quits a waiting room, leaves   *)
(* while a finished round is swept or enters a second room, when both      *)
(* network threads have found one slot or one seat, and when a connection  *)
(* that was cut without notice is used again.                              *)
(***************************************************************************)
EXTENDS Integers

CONSTANTS Clients, Rooms, PlaceNum

VARIABLES
  settled,  \* the promise still holds
  inRoom,   \* clients who have been told that they joined a room
  placeOf,  \* the places a client has, one or none
  taken     \* places that were handed out

vars == <<settled, inRoom, placeOf, taken>>

Places  == 0 .. PlaceNum - 1
Full(g) == \A i \in Places : <<g, i>> \in taken

\* The first place never handed out before.
Arrive(c) ==
  /\ c \notin inRoom /\ inRoom' = inRoom \cup {c}
  /\ \E g \in Rooms, i \in Places :
       /\ <<g, i>> \notin taken
       /\ \A j \in Places : j < i => <<g, j>> \in taken
       /\ placeOf' = [placeOf EXCEPT ![c] = {<<g, i>>}]
       /\ taken' = taken \cup {<<g, i>>}

\* A full room: the client is told that he joined, and has no place.
Refuse(c) ==
  /\ c \notin inRoom /\ inRoom' = inRoom \cup {c}
  /\ \E g \in Rooms : Full(g)
  /\ UNCHANGED <<placeOf, taken>>

Depart(c) ==
  /\ c \in inRoom /\ inRoom' = inRoom \ {c}
  /\ placeOf' = [placeOf EXCEPT ![c] = {}]
  /\ UNCHANGED taken

\* A client d whom a full room refused departs, and another one loses his
\* place there.
Displace(c, d) ==
  /\ d \in inRoom /\ inRoom' = inRoom \ {d}
  /\ placeOf[d] = {}
  /\ \E g \in Rooms : Full(g) /\ \E i \in Places : placeOf[c] = {<<g, i>>}
  /\ placeOf' = [placeOf EXCEPT ![c] = {}]
  /\ UNCHANGED taken

Scatter == /\ settled' = FALSE
           /\ inRoom' = {} /\ taken' = {}
           /\ placeOf' = [c \in Clients |-> {}]

Init == /\ settled = TRUE
        /\ inRoom = {} /\ taken = {}
        /\ placeOf = [c \in Clients |-> {}]

Next == /\ settled
        /\ \/ \E c \in Clients : Arrive(c) /\ UNCHANGED settled
           \/ \E c \in Clients : Refuse(c) /\ UNCHANGED settled
           \/ \E c \in Clients : Depart(c) /\ UNCHANGED settled
           \/ \E c, d \in Clients : Displace(c, d) /\ UNCHANGED settled
           \/ Scatter

Spec == Init /\ [][Next]_vars
=============================================================================
