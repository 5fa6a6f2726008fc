----------------------------- MODULE CutProofs -----------------------------
(* Proofs about Sockets, continued from SocketsProofs: when the idle scan  *)
(* closes a connection, and how many Players nobody deletes are left of    *)
(* the ones closed behind GameHandler's back, for any number of slots,     *)
(* clients and descriptors and any length of the scan.                     *)
EXTENDS SocketsProofs, FiniteSetTheorems

USE DEF vars, tables, history, Threads, Tcp, Web

-----------------------------------------------------------------------------
(* The idle scan.  checkpos moves round the slots ScanLength at a time: a  *)
(* slot it spares is at least ScanLength ahead of it, and comes nearer by  *)
(* ScanLength with every pass, as silent grows by one.                     *)

Distance(s) == IF checkpos <= s THEN s - checkpos ELSE s - checkpos + MAX_EVENTS

SilenceInv == \A s \in Slots : Active(s) /\ g_events[s].silent > 0 =>
                /\ g_events[s].old
                /\ (g_events[s].silent - 1) * ScanLength + Distance(s) < MAX_EVENTS

LEMMA ModLarge ==
  ASSUME NEW a \in Nat, NEW n \in Nat \ {0}, n <= a, a < 2 * n
  PROVE  a % n = a - n
OBVIOUS

LEMMA ModSmall ==
  ASSUME NEW a \in Nat, NEW n \in Nat \ {0}, a < n
  PROVE  a % n = a
OBVIOUS

LEMMA DistanceType ==
  ASSUME checkpos \in 0 .. MAX_EVENTS, NEW s \in Slots
  PROVE  Distance(s) \in Nat /\ Distance(s) < MAX_EVENTS
BY SocketsAssumption DEF Distance, Slots

\* The scan visits the slots less than ScanLength ahead.
LEMMA NearIsVisited ==
  ASSUME checkpos \in 0 .. MAX_EVENTS, NEW s \in Slots, Distance(s) < ScanLength
  PROVE  s \in Visited
<1>1. Distance(s) \in 0 .. ScanLength - 1
  BY DistanceType, SocketsAssumption
<1>2. (checkpos + Distance(s)) % MAX_EVENTS = s
  <2> DEFINE a == checkpos + Distance(s)
  <2>1. a = s \/ a = s + MAX_EVENTS
    BY SocketsAssumption DEF Distance, Slots
  <2>2. s \in Nat /\ s < MAX_EVENTS /\ MAX_EVENTS \in Nat \ {0}
    BY SocketsAssumption DEF Slots
  <2> HIDE DEF a
  <2>3. CASE a = s
    BY <2>2, <2>3, ModSmall DEF a
  <2>4. CASE a = s + MAX_EVENTS
    <3>1. a \in Nat /\ MAX_EVENTS <= a /\ a < 2 * MAX_EVENTS /\ a - MAX_EVENTS = s
      BY <2>2, <2>4
    <3>2. a % MAX_EVENTS = a - MAX_EVENTS
      BY <2>2, <3>1, ModLarge
    <3> QED
      BY <3>1, <3>2 DEF a
  <2> QED
    BY <2>1, <2>3, <2>4
<1> QED
  BY <1>1, <1>2 DEF Visited

\* The slots further ahead come nearer.
LEMMA FarComesNearer ==
  ASSUME checkpos \in 0 .. MAX_EVENTS, NEW s \in Slots, Distance(s) >= ScanLength,
         checkpos' = NextCheckpos
  PROVE  Distance(s)' = Distance(s) - ScanLength
<1>1. /\ checkpos \in Nat /\ checkpos <= MAX_EVENTS
      /\ s \in Nat /\ s < MAX_EVENTS
      /\ MAX_EVENTS \in Nat \ {0} /\ ScanLength \in Nat \ {0}
  BY SocketsAssumption DEF Slots
<1>2. ScanLength < MAX_EVENTS
  BY <1>1, DistanceType
<1> DEFINE a == checkpos + ScanLength - 1
<1>3. a \in Nat /\ a < 2 * MAX_EVENTS
  BY <1>1, <1>2
<1>4. CASE a < MAX_EVENTS
  <2>1. checkpos' = checkpos + ScanLength
    BY <1>1, <1>3, <1>4, ModSmall DEF NextCheckpos
  <2>2. CASE checkpos <= s
    <3>1. checkpos' <= s
      BY <1>1, <2>1, <2>2 DEF Distance
    <3> QED
      BY <1>1, <2>1, <2>2, <3>1 DEF Distance
  <2>3. CASE checkpos > s
    BY <1>1, <2>1, <2>3 DEF Distance
  <2> QED
    BY <1>1, <2>2, <2>3
<1>5. CASE a >= MAX_EVENTS
  <2>1. checkpos' = a + 1 - MAX_EVENTS
    <3>1. checkpos' = 1 + (a % MAX_EVENTS)
      BY DEF NextCheckpos
    <3> HIDE DEF a
    <3>2. a % MAX_EVENTS = a - MAX_EVENTS
      BY <1>1, <1>3, <1>5, ModLarge
    <3> QED
      BY <1>1, <1>3, <3>1, <3>2
  <2> QED
    BY <1>1, <1>5, <2>1 DEF Distance
<1> QED
  BY <1>3, <1>4, <1>5, <1>1

\* So the sum that SilenceInv bounds stays the same.
LEMMA OnePass ==
  ASSUME NEW silent \in Nat \ {0}, NEW d \in Nat, NEW l \in Nat, l <= d, NEW n \in Nat,
         (silent - 1) * l + d < n,
         NEW next, next = silent + 1, NEW e, e = d - l
  PROVE  (next - 1) * l + e < n
OBVIOUS

LEMMA IdleScanSilence ==
  ASSUME TypeOK, SilenceInv, IdleScan
  PROVE  SilenceInv'
<1> SUFFICES ASSUME NEW s \in Slots, Active(s)', g_events'[s].silent > 0
             PROVE  /\ g_events'[s].old
                    /\ (g_events'[s].silent - 1) * ScanLength + Distance(s)' < MAX_EVENTS
  BY DEF SilenceInv
<1> DEFINE due == {t \in Visited : Active(t) /\ g_events[t].old}
<1>1. /\ g_events[s] \in Event /\ g_events[s].silent \in Nat
      /\ checkpos \in 0 .. MAX_EVENTS
  BY DEF TypeOK, Event
<1>2. g_events'[s] = IF s \in due THEN [g_events[s] EXCEPT !.status = 0]
                     ELSE IF Active(s) /\ g_events[s].silent > 0
                     THEN [g_events[s] EXCEPT !.silent = @ + 1]
                     ELSE g_events[s]
  BY DEF IdleScan
<1>3. s \notin due
  BY <1>1, <1>2 DEF Active, Event
<1>4. /\ Active(s) /\ g_events[s].silent > 0
      /\ g_events'[s].silent = g_events[s].silent + 1
      /\ g_events'[s].old = g_events[s].old
  <2>1. CASE Active(s) /\ g_events[s].silent > 0
    <3>1. g_events'[s] = [g_events[s] EXCEPT !.silent = @ + 1]
      BY <1>2, <1>3, <2>1
    <3> QED
      BY <1>1, <2>1, <3>1 DEF Event
  <2>2. CASE ~ (Active(s) /\ g_events[s].silent > 0)
    <3>1. g_events'[s] = g_events[s]
      BY <1>2, <1>3, <2>2
    <3> QED
      BY <2>2, <3>1 DEF Active
  <2> QED
    BY <2>1, <2>2
<1>5. /\ g_events[s].old
      /\ (g_events[s].silent - 1) * ScanLength + Distance(s) < MAX_EVENTS
  BY <1>4 DEF SilenceInv
<1>6. Distance(s) \in Nat /\ Distance(s) >= ScanLength
  BY <1>1, <1>3, <1>4, <1>5, DistanceType, NearIsVisited, SocketsAssumption
<1>7. Distance(s)' = Distance(s) - ScanLength
  BY <1>1, <1>6, FarComesNearer DEF IdleScan
<1> DEFINE passes == g_events[s].silent
           next   == g_events'[s].silent
           d      == Distance(s)
           e      == Distance(s)'
<1>8. /\ passes \in Nat \ {0} /\ d \in Nat /\ ScanLength \in Nat /\ MAX_EVENTS \in Nat
      /\ ScanLength <= d
      /\ (passes - 1) * ScanLength + d < MAX_EVENTS
      /\ next = passes + 1 /\ e = d - ScanLength
  BY <1>1, <1>4, <1>5, <1>6, <1>7, SocketsAssumption
<1> HIDE DEF passes, next, d, e
<1>9. (next - 1) * ScanLength + e < MAX_EVENTS
  BY <1>8, OnePass
<1> QED
  BY <1>4, <1>5, <1>9 DEF next, e

\* Every other step leaves checkpos alone, and a slot as it was, given up,
\* still heard or, silent, not yet spared.
LEMMA OthersSilence ==
  ASSUME TypeOK, SilenceInv, UNCHANGED checkpos,
         \A s \in Slots : Active(s)' =>
           \/ Active(s) /\ /\ g_events'[s].silent = g_events[s].silent
                           /\ g_events[s].old => g_events'[s].old
           \/ g_events'[s].silent = 0
           \/ g_events'[s].silent = 1 /\ g_events'[s].old
  PROVE  SilenceInv'
<1> SUFFICES ASSUME NEW s \in Slots, Active(s)', g_events'[s].silent > 0
             PROVE  /\ g_events'[s].old
                    /\ (g_events'[s].silent - 1) * ScanLength + Distance(s)' < MAX_EVENTS
  BY DEF SilenceInv
<1>1. Distance(s)' = Distance(s) /\ Distance(s) \in Nat /\ Distance(s) < MAX_EVENTS
  BY DistanceType DEF Distance, TypeOK
<1>2. CASE /\ Active(s) /\ g_events'[s].silent = g_events[s].silent
           /\ g_events[s].old => g_events'[s].old
  <2>1. g_events[s].silent > 0
    BY <1>2
  <2>2. /\ g_events[s].old
        /\ (g_events[s].silent - 1) * ScanLength + Distance(s) < MAX_EVENTS
    BY <1>2, <2>1 DEF SilenceInv
  <2> QED
    BY <1>1, <1>2, <2>2
<1>3. CASE g_events'[s].silent = 1 /\ g_events'[s].old
  <2>1. g_events'[s].silent - 1 = 0
    BY <1>3
  <2>2. 0 * ScanLength = 0
    BY SocketsAssumption
  <2> QED
    BY <1>1, <1>3, <2>1, <2>2
<1>4. CASE g_events'[s].silent = 0
  BY <1>4
<1> QED
  BY <1>2, <1>3, <1>4

LEMMA NextSilence == TypeOK /\ SilenceInv /\ [Next]_vars => SilenceInv'
<1> SUFFICES ASSUME TypeOK, SilenceInv, [Next]_vars
             PROVE  SilenceInv'
  OBVIOUS
<1>0. \A s \in Slots : g_events[s] \in Event
  BY DEF TypeOK
<1>1. ASSUME UNCHANGED <<checkpos, g_events>>
      PROVE  SilenceInv'
  BY <1>1, OthersSilence DEF Active
<1>2. ASSUME NEW t \in Slots, NEW new, UNCHANGED checkpos,
             g_events' = [g_events EXCEPT ![t] = new],
             new.status = 1 =>
               \/ Active(t) /\ /\ new.silent = g_events[t].silent
                               /\ g_events[t].old => new.old
               \/ new.silent = 0
               \/ new.silent = 1 /\ new.old
      PROVE  SilenceInv'
  <2>1. g_events'[t] = new /\ \A s \in Slots \ {t} : g_events'[s] = g_events[s]
    BY <1>2 DEF TypeOK
  <2> QED
    BY <1>2, <2>1, OthersSilence DEF Active
<1>3. ASSUME NEW c \in TcpClients, Accept(c)
      PROVE  SilenceInv'
  <2>1. CASE UNCHANGED <<checkpos, g_events>>
    BY <1>1, <2>1
  <2>2. ASSUME NEW t \in Slots, NEW fd \in Fds, UNCHANGED checkpos,
               g_events' = [g_events EXCEPT
                              ![t] = [fd |-> fd, status |-> 1, old |-> FALSE, silent |-> 0]]
        PROVE  SilenceInv'
    BY <1>2, <2>2
  <2> QED
    BY <1>3, <2>1, <2>2 DEF Accept
<1>4. ASSUME NEW t \in Slots, g_events' = EventDel(t), UNCHANGED checkpos
      PROVE  SilenceInv'
  <2>1. [g_events[t] EXCEPT !.status = 0].status # 1
    BY <1>0 DEF Event
  <2> QED
    BY <1>2, <1>4, <2>1 DEF EventDel
<1>5. ASSUME NEW t \in Slots, GrowOld(t) \/ FallSilent(t)
      PROVE  SilenceInv'
  <2>1. CASE GrowOld(t)
    <3> DEFINE new == [g_events[t] EXCEPT !.old = TRUE]
    <3>1. g_events' = [g_events EXCEPT ![t] = new] /\ UNCHANGED checkpos /\ Active(t)
      BY <2>1 DEF GrowOld
    <3>2. new.silent = g_events[t].silent /\ new.old
      BY <1>0 DEF Event
    <3> HIDE DEF new
    <3> QED
      BY <1>2, <3>1, <3>2
  <2>2. CASE FallSilent(t)
    <3> DEFINE new == [g_events[t] EXCEPT !.silent = 1]
    <3>1. /\ g_events' = [g_events EXCEPT ![t] = new] /\ UNCHANGED checkpos
          /\ g_events[t].old
      BY <2>2 DEF FallSilent
    <3>2. new.silent = 1 /\ new.old
      BY <1>0, <3>1 DEF Event
    <3> HIDE DEF new
    <3> QED
      BY <1>2, <3>1, <3>2
  <2> QED
    BY <1>5, <2>1, <2>2
<1>6. ASSUME NEW c \in TcpClients, TcpStep(c)
      PROVE  SilenceInv'
  <2>1. CASE ReceiveEnd(c) \/ ReceiveError(c)
    BY <1>4, <2>1 DEF ReceiveEnd, ReceiveError
  <2>2. CASE ReceiveStumbles(c)
    BY <1>1, <2>2 DEF ReceiveStumbles, Crash
  <2>3. CASE ReceiveData(c)
    <3>1. PICK t \in Slots : /\ g_events' = [g_events EXCEPT ![t].silent = 0]
                             /\ UNCHANGED checkpos
      BY <2>3 DEF ReceiveData
    <3> DEFINE new == [g_events[t] EXCEPT !.silent = 0]
    <3>2. g_events' = [g_events EXCEPT ![t] = new]
      BY <3>1
    <3>3. new.silent = 0
      BY <1>0 DEF Event
    <3> HIDE DEF new
    <3> QED
      BY <1>2, <3>1, <3>2, <3>3
  <2> QED
    BY <1>3, <1>6, <2>1, <2>2, <2>3 DEF TcpStep
<1>7. ASSUME NEW c \in WebClients, WebStep(c)
      PROVE  UNCHANGED <<checkpos, g_events>>
  BY <1>7 DEF WebStep, Handshake, FrameStumbles, CloseWeb, Crash
<1>8. ASSUME NEW thread \in Threads, FillSlot(thread)
      PROVE  UNCHANGED <<checkpos, g_events>>
  BY <1>8 DEF FillSlot
<1> QED
  BY <1>1, <1>5, <1>6, <1>7, <1>8, IdleScanSilence DEF Next

\* A client from which nothing has come for 900 seconds is closed before the
\* passes of the scan that spared it could have gone once round the slots,
\* whatever the lengths of table and scan are, whether or not one divides the
\* other.
THEOREM SilentOnesAreClosed == Spec => []SilentIsClosed
<1>1. Init => SilenceInv
  BY DEF Init, SilenceInv, Active
<1>2. TypeOK /\ SilenceInv => SilentIsClosed
  <2> SUFFICES ASSUME TypeOK, SilenceInv, NEW s \in Slots, Active(s), g_events[s].silent > 0
               PROVE  (g_events[s].silent - 1) * ScanLength < MAX_EVENTS
    BY DEF SilentIsClosed
  <2> DEFINE passed == (g_events[s].silent - 1) * ScanLength
  <2>1. passed + Distance(s) < MAX_EVENTS
    BY DEF SilenceInv
  <2>2. passed \in Int
    <3>1. g_events[s].silent \in Nat /\ ScanLength \in Nat
      BY SocketsAssumption DEF TypeOK, Event
    <3> QED
      BY <3>1
  <2>3. Distance(s) \in Nat
    BY DistanceType DEF TypeOK
  <2> HIDE DEF passed
  <2>4. passed < MAX_EVENTS
    BY <2>1, <2>2, <2>3, SocketsAssumption
  <2> QED
    BY <2>4 DEF passed
<1> QED
  BY <1>1, <1>2, NextSilence, TypeCorrect, PTL DEF Spec

-----------------------------------------------------------------------------
(* Orphans.  A descriptor can have many Players: its own and those of cut  *)
(* connections before.  closeConnection deletes the first, which need not  *)
(* be its own; the count is right all the same, because a connection has   *)
(* one Player only, so that at most one Player of a descriptor is none of  *)
(* the orphans, and it becomes one when a Player of a closed connection    *)
(* is spared.                                                              *)

\* A connection has one Player, made or about to be made.
OnePlayer ==
  /\ \A u, v \in Uids : Live(u) /\ Live(v) /\ playerArray[u].of = playerArray[v].of => u = v
  /\ \A thread \in Threads, u \in Uids : pending[thread] # NULL /\ Live(u) =>
       playerArray[u].of # pending[thread].player.of

\* The epoll thread makes a Player before it closes anything.
PendingOpen == pending[Tcp] # NULL =>
  socket[pending[Tcp].player.fid] = pending[Tcp].player.of

OrphanInv == OnePlayer /\ PendingOpen /\ OrphansWereCut

LEMMA OrphanCount ==
  ASSUME NEW T \in SUBSET Uids
  PROVE  /\ Cardinality(T) \in Nat
         /\ \A S \in SUBSET T : Cardinality(S) <= Cardinality(T)
         /\ \A x : \A S \in SUBSET (T \cup {x}) :
              /\ Cardinality(S) <= Cardinality(T) + 1
              /\ \A d \in S : Cardinality(S \ {d}) <= Cardinality(T)
<1>1. IsFiniteSet(T)
  <2>1. IsFiniteSet(Uids)
    BY FS_Interval, SocketsAssumption DEF Uids
  <2> QED
    BY <2>1, FS_Subset
<1>2. Cardinality(T) \in Nat
  BY <1>1, FS_CardinalityType
<1>3. ASSUME NEW S \in SUBSET T
      PROVE  Cardinality(S) <= Cardinality(T)
  BY <1>1, FS_Subset
<1>4. ASSUME NEW x, NEW S \in SUBSET (T \cup {x})
      PROVE  /\ Cardinality(S) <= Cardinality(T) + 1
             /\ \A d \in S : Cardinality(S \ {d}) <= Cardinality(T)
  <2>1. IsFiniteSet(T \cup {x}) /\ Cardinality(T \cup {x}) <= Cardinality(T) + 1
    <3>1. /\ IsFiniteSet(T \cup {x})
          /\ Cardinality(T \cup {x}) = IF x \in T THEN Cardinality(T) ELSE Cardinality(T) + 1
      BY <1>1, FS_AddElement
    <3>2. Cardinality(T) <= Cardinality(T) + 1
      BY <1>2
    <3>3. CASE x \in T
      BY <3>1, <3>2, <3>3, Zenon
    <3>4. CASE x \notin T
      <4>1. Cardinality(T \cup {x}) = Cardinality(T) + 1
        BY <3>1, <3>4, Zenon
      <4>2. Cardinality(T) + 1 <= Cardinality(T) + 1
        BY <1>2
      <4> QED
        BY <3>1, <4>1, <4>2, Zenon
    <3> QED
      BY <3>3, <3>4
  <2>2. Cardinality(T \cup {x}) \in Nat
    BY <2>1, FS_CardinalityType
  <2>3. /\ IsFiniteSet(S)
        /\ Cardinality(S) <= Cardinality(T \cup {x})
    BY <2>1, FS_Subset
  <2>4. Cardinality(S) \in Nat
    BY <2>3, FS_CardinalityType
  <2>5. Cardinality(S) <= Cardinality(T) + 1
    BY <1>2, <2>1, <2>2, <2>3, <2>4
  <2>6. ASSUME NEW d \in S
        PROVE  Cardinality(S \ {d}) <= Cardinality(T)
    <3>1. Cardinality(S \ {d}) = Cardinality(S) - 1
      BY <2>3, FS_RemoveElement
    <3> QED
      BY <1>2, <2>4, <2>5, <3>1
  <2> QED
    BY <2>5, <2>6
<1> QED
  BY <1>2, <1>3, <1>4

\* The Players a descriptor has.
HeldAt(fd) == {uid \in Uids : Held(uid, fd, Tcp)}

LEMMA AllButOne ==
  ASSUME IInv, OnePlayer, NEW fd \in Fds
  PROVE  /\ OrphansAt(fd) \in SUBSET Uids
         /\ \E x : HeldAt(fd) \in SUBSET (OrphansAt(fd) \cup {x})
<1>1. CASE \E x \in HeldAt(fd) : playerArray[x].of = socket[fd]
  <2>1. PICK x \in HeldAt(fd) : playerArray[x].of = socket[fd]
    BY <1>1
  <2>2. \A u \in HeldAt(fd) : u # x => u \in OrphansAt(fd)
    BY <2>1 DEF HeldAt, OrphansAt, OnePlayer, Held, Is
  <2> QED
    BY <2>2 DEF OrphansAt
<1>2. CASE ~ \E x \in HeldAt(fd) : playerArray[x].of = socket[fd]
  <2>1. HeldAt(fd) \subseteq OrphansAt(fd)
    BY <1>2 DEF HeldAt, OrphansAt, Held, Is
  <2> QED
    BY <2>1 DEF OrphansAt
<1> QED
  BY <1>1, <1>2

\* A step that makes no orphans.
LEMMA NoneOrphaned ==
  ASSUME IInv, OrphansWereCut, UNCHANGED cut, up' => up,
         \A fd \in Fds : OrphansAt(fd)' \subseteq OrphansAt(fd)
  PROVE  OrphansWereCut'
<1> SUFFICES ASSUME up', NEW fd \in Fds
             PROVE  Cardinality(OrphansAt(fd)') <= cut[fd]
  BY DEF OrphansWereCut
<1>1. OrphansAt(fd) \in SUBSET Uids
  BY DEF OrphansAt
<1>2. Cardinality(OrphansAt(fd)') <= Cardinality(OrphansAt(fd))
  BY <1>1, OrphanCount
<1>3. Cardinality(OrphansAt(fd)) <= cut[fd]
  BY DEF OrphansWereCut
<1>4. /\ Cardinality(OrphansAt(fd)) \in Nat /\ cut[fd] \in Nat
      /\ Cardinality(OrphansAt(fd)') \in Nat
  <2>1. OrphansAt(fd)' \in SUBSET Uids
    BY <1>1
  <2> QED
    BY <1>1, <2>1, OrphanCount DEF IInv, TypeInv, TypeOK
<1> QED
  BY <1>2, <1>3, <1>4

\* Players that go leave the others what they were.
LEMMA OnePlayerLeft ==
  ASSUME OnePlayer, UNCHANGED pending,
         \A uid \in Uids : playerArray'[uid] \in {playerArray[uid], NULL}
  PROVE  OnePlayer'
BY DEF OnePlayer, Live

\* The connections at some descriptors are closed behind GameHandler's back.
LEMMA CutOrphans ==
  ASSUME IInv, OrphanInv, Idle(Tcp), UNCHANGED <<up, playerArray, pending>>,
         \A fd \in Fds : \/ socket'[fd] = socket[fd] /\ cut'[fd] = cut[fd]
                         \/ cut'[fd] = cut[fd] + 1
  PROVE  OrphanInv'
<1>1. OnePlayer' /\ PendingOpen'
  BY OnePlayerLeft DEF OrphanInv, PendingOpen, Idle
<1>2. ASSUME up, NEW fd \in Fds
      PROVE  Cardinality(OrphansAt(fd)') <= cut'[fd]
  <2>1. Cardinality(OrphansAt(fd)) <= cut[fd]
    BY <1>2 DEF OrphanInv, OrphansWereCut
  <2>2. CASE socket'[fd] = socket[fd] /\ cut'[fd] = cut[fd]
    <3>1. OrphansAt(fd)' = OrphansAt(fd)
      BY <2>2 DEF OrphansAt, Live
    <3> QED
      BY <2>1, <2>2, <3>1
  <2>3. CASE cut'[fd] = cut[fd] + 1
    <3>1. PICK x : /\ OrphansAt(fd) \in SUBSET Uids
                   /\ HeldAt(fd) \in SUBSET (OrphansAt(fd) \cup {x})
      BY AllButOne DEF OrphanInv
    <3>2. OrphansAt(fd)' \subseteq HeldAt(fd) /\ HeldAt(fd) \subseteq Uids
      BY DEF OrphansAt, HeldAt, Held, Is, Live
    <3>3. Cardinality(OrphansAt(fd)') <= Cardinality(OrphansAt(fd)) + 1
      BY <3>1, <3>2, OrphanCount
    <3>4. /\ Cardinality(OrphansAt(fd)) \in Nat /\ cut[fd] \in Nat
          /\ Cardinality(OrphansAt(fd)') \in Nat
      BY <3>1, <3>2, OrphanCount DEF IInv, TypeInv, TypeOK
    <3> QED
      BY <2>1, <2>3, <3>3, <3>4
  <2> QED
    BY <2>2, <2>3
<1> QED
  BY <1>1, <1>2 DEF OrphanInv, OrphansWereCut

LEMMA ReceiveErrorOrphans ==
  ASSUME IInv, OrphanInv, NEW c \in TcpClients, ReceiveError(c)
  PROVE  OrphanInv'
<1>1. PICK s \in Slots :
        /\ Idle(Tcp) /\ ReadyOn(c, s)
        /\ socket' = [socket EXCEPT ![g_events[s].fd] = NULL]
        /\ cut' = [cut EXCEPT ![g_events[s].fd] = @ + 1]
        /\ UNCHANGED <<up, playerArray, pending>>
  BY DEF ReceiveError
<1>2. \A fd \in Fds : \/ socket'[fd] = socket[fd] /\ cut'[fd] = cut[fd]
                      \/ cut'[fd] = cut[fd] + 1
  BY <1>1 DEF IInv, TypeInv, TypeOK
<1> QED
  BY <1>1, <1>2, CutOrphans

LEMMA IdleScanOrphans ==
  ASSUME IInv, OrphanInv, IdleScan
  PROVE  OrphanInv'
<1>1. PICK shut :
        /\ socket' = [fd \in Fds |-> IF fd \in shut THEN NULL ELSE socket[fd]]
        /\ cut' = [fd \in Fds |-> IF fd \in shut THEN cut[fd] + 1 ELSE cut[fd]]
  BY DEF IdleScan
<1>2. \A fd \in Fds : \/ socket'[fd] = socket[fd] /\ cut'[fd] = cut[fd]
                      \/ cut'[fd] = cut[fd] + 1
  BY <1>1
<1> QED
  BY <1>2, CutOrphans DEF IdleScan

LEMMA ReceiveEndOrphans ==
  ASSUME IInv, OrphanInv, NEW c \in TcpClients, ReceiveEnd(c)
  PROVE  OrphanInv'
<1>1. PICK s \in Slots :
        /\ Idle(Tcp) /\ ReadyOn(c, s)
        /\ socket' = [socket EXCEPT ![g_events[s].fd] = NULL]
        /\ CloseConnection(g_events[s].fd, Tcp)
        /\ UNCHANGED <<pending, cut>>
  BY DEF ReceiveEnd
<1>2. PICK fd \in Fds : fd = g_events[s].fd
  BY <1>1, ReadyFd DEF ReadyOn, IInv, TypeInv
<1>3. \A e \in Fds \ {fd} : socket'[e] = socket[e]
  BY <1>1, <1>2 DEF IInv, TypeInv, TypeOK
<1>4. \/ \E uid \in HeldAt(fd) :
           /\ playerArray' = [playerArray EXCEPT ![uid] = NULL]
           /\ UNCHANGED up
      \/ HeldAt(fd) = {} /\ UNCHANGED <<up, playerArray>>
      \/ up' = FALSE /\ UNCHANGED playerArray
  BY <1>1, <1>2, CloseEffect DEF HeldAt, Held
<1>5. \A uid \in Uids : playerArray'[uid] \in {playerArray[uid], NULL}
  BY <1>4 DEF IInv, TypeInv, TypeOK
<1>6. OnePlayer' /\ PendingOpen'
  BY <1>1, <1>5, OnePlayerLeft DEF OrphanInv, PendingOpen, Idle
<1>7. ASSUME up', NEW e \in Fds
      PROVE  Cardinality(OrphansAt(e)') <= cut[e]
  <2>0. up
    BY <1>1 DEF Idle
  <2>1. Cardinality(OrphansAt(e)) <= cut[e]
    BY <2>0 DEF OrphanInv, OrphansWereCut
  <2>2. PICK x : /\ OrphansAt(e) \in SUBSET Uids
                 /\ HeldAt(e) \in SUBSET (OrphansAt(e) \cup {x})
    BY AllButOne DEF OrphanInv
  <2>3. Cardinality(OrphansAt(e)') <= Cardinality(OrphansAt(e))
    <3>1. CASE e # fd
      <4>1. OrphansAt(e)' \subseteq OrphansAt(e)
        BY <1>3, <1>5, <3>1 DEF OrphansAt, Live
      <4> QED
        BY <2>2, <4>1, OrphanCount
    <3>2. CASE e = fd /\ \E uid \in HeldAt(fd) :
                           playerArray' = [playerArray EXCEPT ![uid] = NULL]
      <4>1. PICK uid \in HeldAt(e) : playerArray' = [playerArray EXCEPT ![uid] = NULL]
        BY <3>2
      <4>2. OrphansAt(e)' \subseteq HeldAt(e) \ {uid}
        BY <1>5, <4>1 DEF OrphansAt, HeldAt, Held, Is, Live, IInv, TypeInv, TypeOK
      <4>3. Cardinality(HeldAt(e) \ {uid}) <= Cardinality(OrphansAt(e))
        BY <2>2, OrphanCount
      <4>4. HeldAt(e) \ {uid} \in SUBSET Uids
        BY DEF HeldAt
      <4>5. Cardinality(OrphansAt(e)') <= Cardinality(HeldAt(e) \ {uid})
        BY <4>2, <4>4, OrphanCount
      <4>6. /\ Cardinality(OrphansAt(e)') \in Nat /\ Cardinality(OrphansAt(e)) \in Nat
            /\ Cardinality(HeldAt(e) \ {uid}) \in Nat
        <5>1. OrphansAt(e)' \in SUBSET Uids
          BY <4>2, <4>4
        <5> QED
          BY <2>2, <4>4, <5>1, OrphanCount
      <4> QED
        BY <4>3, <4>5, <4>6
    <3>3. CASE e = fd /\ HeldAt(fd) = {} /\ UNCHANGED playerArray
      <4>1. OrphansAt(e)' \subseteq OrphansAt(e)
        BY <3>3 DEF OrphansAt, HeldAt, Held, Is, Live
      <4> QED
        BY <2>2, <4>1, OrphanCount
    <3> QED
      BY <1>4, <1>7, <3>1, <3>2, <3>3
  <2>4. /\ Cardinality(OrphansAt(e)) \in Nat /\ cut[e] \in Nat
        /\ Cardinality(OrphansAt(e)') \in Nat
    <3>1. OrphansAt(e)' \in SUBSET Uids
      BY DEF OrphansAt
    <3> QED
      BY <2>2, <3>1, OrphanCount DEF IInv, TypeInv, TypeOK
  <2> QED
    BY <2>1, <2>3, <2>4
<1> QED
  BY <1>1, <1>6, <1>7 DEF OrphanInv, OrphansWereCut

LEMMA CloseWebOrphans ==
  ASSUME IInv, OrphanInv, NEW c \in WebClients, CloseWeb(c)
  PROVE  OrphanInv'
<1>1. /\ UNCHANGED <<socket, pending, cut>>
      /\ up
      /\ \A uid \in Uids : playerArray'[uid] \in {playerArray[uid], NULL}
  <2>1. PICK p \in Ptrs :
          /\ Idle(Web)
          /\ \/ \E i \in Indices : CloseConnection(i, Web)
             \/ UNCHANGED <<up, playerArray>>
          /\ UNCHANGED <<socket, pending, history>>
    BY DEF CloseWeb
  <2>2. ASSUME NEW i \in Indices, CloseConnection(i, Web)
        PROVE  \A uid \in Uids : playerArray'[uid] \in {playerArray[uid], NULL}
    BY <2>2, CloseEffect DEF IInv, TypeInv, TypeOK
  <2> QED
    BY <2>1, <2>2 DEF Idle
<1>2. OnePlayer' /\ PendingOpen'
  BY <1>1, OnePlayerLeft DEF OrphanInv, PendingOpen
<1>3. \A fd \in Fds : OrphansAt(fd)' \subseteq OrphansAt(fd)
  BY <1>1 DEF OrphansAt, Live
<1> QED
  BY <1>1, <1>2, <1>3, NoneOrphaned DEF OrphanInv

\* A new connection, and perhaps the search for its Player's slot.
LEMMA ConnectOrphans ==
  ASSUME IInv, OrphanInv, NEW thread \in Threads, NEW c \in Clients, c \notin met,
         UNCHANGED <<up, cut, playerArray>>,
         \A fd \in Fds : socket'[fd] = socket[fd] \/ socket[fd] = NULL,
         \/ UNCHANGED pending
         \/ \E uid \in Uids, fid \in Fds \cup Indices :
              /\ pending' = [pending EXCEPT ![thread] =
                   [uid |-> uid,
                    player |-> [fid |-> fid, connectionType |-> thread, of |-> c]]]
              /\ thread = Tcp => socket'[fid] = c,
         IF thread = Tcp THEN pending[Tcp] = NULL ELSE UNCHANGED socket
  PROVE  OrphanInv'
<1>1. Sane
  BY SaneLemma DEF IInv
<1>2. OnePlayer'
  <2>1. \A u \in Uids : Live(u) => playerArray[u].of # c
    BY DEF IInv, TypeInv, Known
  <2>2. \A t \in Threads : \/ pending'[t] = pending[t]
                           \/ pending'[t].player.of = c
    BY DEF IInv, TypeInv, TypeOK
  <2> QED
    BY <2>1, <2>2 DEF OrphanInv, OnePlayer, Live
<1>3. PendingOpen'
  <2>1. CASE thread = Web
    <3>1. pending'[Tcp] = pending[Tcp] /\ UNCHANGED socket
      BY <2>1 DEF IInv, TypeInv, TypeOK
    <3> QED
      BY <3>1 DEF OrphanInv, PendingOpen
  <2>2. CASE thread = Tcp /\ UNCHANGED pending
    BY <2>2 DEF PendingOpen
  <2>3. CASE thread = Tcp /\ ~ UNCHANGED pending
    <3>1. PICK uid \in Uids, fid \in Fds \cup Indices :
            /\ pending' = [pending EXCEPT ![Tcp] =
                 [uid |-> uid, player |-> [fid |-> fid, connectionType |-> Tcp, of |-> c]]]
            /\ socket'[fid] = c
      BY <2>3
    <3>2. pending'[Tcp].player.fid = fid /\ pending'[Tcp].player.of = c
      BY <3>1 DEF IInv, TypeInv, TypeOK
    <3> QED
      BY <3>1, <3>2 DEF PendingOpen
  <2> QED
    BY <2>1, <2>2, <2>3
<1>4. \A fd \in Fds : OrphansAt(fd)' \subseteq OrphansAt(fd)
  BY <1>1 DEF OrphansAt, Live, Sane, Player
<1> QED
  BY <1>2, <1>3, <1>4, NoneOrphaned DEF OrphanInv

LEMMA AcceptOrphans ==
  ASSUME IInv, OrphanInv, NEW c \in TcpClients, Accept(c)
  PROVE  OrphanInv'
<1>1. PICK fd \in Fds :
        /\ Idle(Tcp) /\ c \notin met
        /\ socket[fd] = NULL /\ socket' = [socket EXCEPT ![fd] = c]
        /\ FindUnused(Tcp, fd, c) \/ UNCHANGED pending
        /\ UNCHANGED <<up, cut, playerArray>>
  BY DEF Accept
<1>2. \/ UNCHANGED pending
      \/ \E uid \in Uids :
           pending' = [pending EXCEPT ![Tcp] =
             [uid |-> uid, player |-> [fid |-> fd, connectionType |-> Tcp, of |-> c]]]
  BY <1>1, FindEffect
<1>3. /\ socket'[fd] = c
      /\ \A e \in Fds : socket'[e] = socket[e] \/ socket[e] = NULL
  BY <1>1 DEF IInv, TypeInv, TypeOK
<1>4. c \in Clients /\ pending[Tcp] = NULL
  BY <1>1 DEF Clients, Idle
<1> QED
  BY <1>1, <1>2, <1>3, <1>4, ConnectOrphans

LEMMA HandshakeOrphans ==
  ASSUME IInv, OrphanInv, NEW c \in WebClients, Handshake(c)
  PROVE  OrphanInv'
<1>1. /\ c \notin met
      /\ (\E i \in Indices : FindUnused(Web, i, c)) \/ UNCHANGED pending
      /\ UNCHANGED <<up, cut, playerArray, socket>>
  BY DEF Handshake
<1>2. \/ UNCHANGED pending
      \/ \E uid \in Uids, fid \in Fds \cup Indices :
           pending' = [pending EXCEPT ![Web] =
             [uid |-> uid, player |-> [fid |-> fid, connectionType |-> Web, of |-> c]]]
  BY <1>1, FindEffect
<1>3. c \in Clients
  BY DEF Clients
<1> QED
  BY <1>1, <1>2, <1>3, ConnectOrphans

\* The two pendings are of different kinds, so of different connections; and
\* the Player of a TCP connection is filled in while that is open.
LEMMA FillSlotOrphans ==
  ASSUME IInv, OrphanInv, NEW thread \in Threads, FillSlot(thread)
  PROVE  OrphanInv'
<1>1. Sane
  BY SaneLemma DEF IInv
<1> DEFINE player == pending[thread].player
<1>2. PICK uid \in Uids :
        /\ pending[thread] # NULL
        /\ playerArray' = [playerArray EXCEPT ![uid] = player]
        /\ pending' = [pending EXCEPT ![thread] = NULL]
        /\ UNCHANGED <<up, socket, cut>>
  BY <1>1 DEF FillSlot, Sane, Search
<1>3. /\ player \in Player /\ player # NULL
      /\ player.connectionType = thread /\ Sits(player)
  BY <1>1, <1>2 DEF Sane, Search, IInv, TypeInv, Known, Placed
<1>4. \A u \in Uids : playerArray'[u] = IF u = uid THEN player ELSE playerArray[u]
  BY <1>2 DEF IInv, TypeInv, TypeOK
<1>5. pending'[thread] = NULL /\ \A t \in Threads \ {thread} : pending'[t] = pending[t]
  BY <1>2 DEF IInv, TypeInv, TypeOK
<1>6. ASSUME NEW t \in Threads \ {thread}, pending[t] # NULL
      PROVE  pending[t].player.of # player.of
  <2>1. Sits(pending[t].player) /\ pending[t].player.connectionType = t
    BY <1>6 DEF IInv, TypeInv, Known, Placed
  <2> QED
    BY <1>1, <1>3, <2>1 DEF Sits, Sane
<1>7. player.connectionType = Tcp => socket[player.fid] = player.of
  BY <1>2, <1>3 DEF OrphanInv, PendingOpen
<1>8. \A u \in Uids : Live(u) => playerArray[u].of # player.of
  BY <1>2 DEF OrphanInv, OnePlayer
<1> HIDE DEF player
<1>9. OnePlayer'
  <2>1. ASSUME NEW u \in Uids, NEW v \in Uids, Live(u)', Live(v)',
               playerArray'[u].of = playerArray'[v].of
        PROVE  u = v
    BY <1>4, <1>8, <2>1 DEF OrphanInv, OnePlayer, Live
  <2>2. ASSUME NEW t \in Threads, NEW u \in Uids, pending'[t] # NULL, Live(u)'
        PROVE  playerArray'[u].of # pending'[t].player.of
    BY <1>4, <1>5, <1>6, <2>2 DEF OrphanInv, OnePlayer, Live
  <2> QED
    BY <2>1, <2>2 DEF OnePlayer
<1>10. PendingOpen'
  BY <1>2, <1>5 DEF OrphanInv, PendingOpen
<1>11. \A fd \in Fds : OrphansAt(fd)' \subseteq OrphansAt(fd)
  BY <1>2, <1>4, <1>7 DEF OrphansAt, Live
<1> QED
  BY <1>2, <1>9, <1>10, <1>11, NoneOrphaned DEF OrphanInv

LEMMA NextOrphans == IInv /\ OrphanInv /\ [Next]_vars => OrphanInv'
<1> SUFFICES ASSUME IInv, OrphanInv, [Next]_vars
             PROVE  OrphanInv'
  OBVIOUS
<1>1. ASSUME UNCHANGED <<socket, cut, playerArray, pending>>, up' => up
      PROVE  OrphanInv'
  <2>1. \A fd \in Fds : OrphansAt(fd)' \subseteq OrphansAt(fd)
    BY <1>1 DEF OrphansAt, Live
  <2>2. OnePlayer' /\ PendingOpen'
    BY <1>1 DEF OrphanInv, OnePlayer, PendingOpen, Live
  <2> QED
    BY <1>1, <2>1, <2>2, NoneOrphaned DEF OrphanInv
<1>2. ASSUME NEW c \in TcpClients, TcpStep(c)
      PROVE  OrphanInv'
  <2>1. CASE ReceiveStumbles(c)
    BY <1>1, <2>1 DEF ReceiveStumbles, Crash
  <2>2. CASE ReceiveData(c)
    BY <1>1, <2>2 DEF ReceiveData
  <2> QED
    BY <1>2, <2>1, <2>2, AcceptOrphans, ReceiveEndOrphans, ReceiveErrorOrphans DEF TcpStep
<1>3. ASSUME NEW c \in WebClients, WebStep(c)
      PROVE  OrphanInv'
  <2>1. CASE FrameStumbles(c)
    BY <1>1, <2>1 DEF FrameStumbles, Crash
  <2> QED
    BY <1>3, <2>1, HandshakeOrphans, CloseWebOrphans DEF WebStep
<1>4. ASSUME NEW s \in Slots, GrowOld(s) \/ FallSilent(s)
      PROVE  OrphanInv'
  BY <1>1, <1>4 DEF GrowOld, FallSilent
<1>5. CASE UNCHANGED vars
  BY <1>1, <1>5
<1> QED
  BY <1>2, <1>3, <1>4, <1>5, IdleScanOrphans, FillSlotOrphans DEF Next

\* A descriptor has at most as many Players of connections that are gone as
\* connections at it were closed by the idle scan or after an error, although
\* closeConnection may delete the wrong one of a descriptor's Players.
THEOREM OrphansAreCut == Spec => []OrphansWereCut
<1>1. Init => OrphanInv
  <2> SUFFICES ASSUME Init
               PROVE  OrphanInv
    OBVIOUS
  <2>1. \A fd \in Fds : OrphansAt(fd) = {}
    BY DEF Init, OrphansAt, Live
  <2>2. \A fd \in Fds : Cardinality(OrphansAt(fd)) <= cut[fd]
    <3>1. Cardinality({}) = 0
      BY FS_EmptySet
    <3>2. \A fd \in Fds : cut[fd] = 0
      BY DEF Init
    <3> QED
      BY <2>1, <3>1, <3>2
  <2> QED
    BY <2>2 DEF Init, OrphanInv, OnePlayer, PendingOpen, OrphansWereCut, Live
<1>2. OrphanInv => OrphansWereCut
  BY DEF OrphanInv
<1> QED
  BY <1>1, <1>2, NextOrphans, Invariance, PTL DEF Spec
=============================================================================
