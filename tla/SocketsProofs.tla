---------------------------- MODULE SocketsProofs ----------------------------
(* Proofs about Sockets, for any number of clients, descriptors, slots     *)
(* and Players: types, the agreement of the event slots with the kernel,   *)
(* who is heard as whom, and who is served.                                *)
EXTENDS Sockets, TLAPS

USE DEF vars, tables, history, Threads, Tcp, Web

-----------------------------------------------------------------------------
(* Types.                                                                  *)

LEMMA Sizes ==
  /\ 0 \in Slots
  /\ checkpos \in 0 .. MAX_EVENTS => NextCheckpos \in 0 .. MAX_EVENTS
  /\ Slots \subseteq Nat /\ Fds \subseteq Nat
  /\ NULL \notin Fds /\ NULL \notin Ptrs /\ NULL \notin Clients
  /\ NULL \notin Player /\ NULL \notin Search
BY SocketsAssumption DEF Slots, NextCheckpos

\* closeConnection deletes one Player that matches, finds none, or dies.
LEMMA CloseEffect ==
  ASSUME NEW fid, NEW type, CloseConnection(fid, type)
  PROVE  \/ \E uid \in Uids :
              /\ Live(uid) /\ Is(fid, type, playerArray[uid])
              /\ playerArray' = [playerArray EXCEPT ![uid] = NULL]
              /\ UNCHANGED up
         \/ /\ \A uid \in Uids : ~ (Live(uid) /\ Is(fid, type, playerArray[uid]))
            /\ UNCHANGED <<up, playerArray>>
         \/ up' = FALSE /\ UNCHANGED playerArray
BY DEF CloseConnection, Finds, Misses, Stumbles, Reaches

LEMMA CloseTypes ==
  ASSUME TypeOK, NEW fid, NEW type, CloseConnection(fid, type)
  PROVE  /\ playerArray' \in [Uids -> Player \cup {NULL}]
         /\ up' \in BOOLEAN
BY CloseEffect DEF TypeOK

LEMMA FindTypes ==
  ASSUME TypeOK, NEW thread \in Threads, NEW fid \in Fds \cup Indices, NEW c \in Clients,
         FindUnused(thread, fid, c)
  PROVE  /\ pending' \in [Threads -> Search \cup {NULL}]
         /\ refused' \subseteq refused \cup {c}
<1> DEFINE player == [fid |-> fid, connectionType |-> thread, of |-> c]
<1>1. player \in Player
  BY DEF Player
<1>2. \A uid \in Uids : [uid |-> uid, player |-> player] \in Search
  BY <1>1 DEF Search
<1>3. QED
  BY <1>2 DEF FindUnused, TypeOK

\* TypeOK is not inductive: that a connection whose slot was lost had been
\* made before is known of the Player in the slot.
Known ==
  /\ \A fd \in Fds : socket[fd] \in met \cup {NULL}
  /\ \A p \in Ptrs : mg[p] \in met \cup {NULL}
  /\ \A uid \in Uids : Live(uid) => playerArray[uid].of \in met
  /\ \A thread \in Threads : pending[thread] # NULL =>
        /\ pending[thread].player.of \in met
        /\ pending[thread].player.connectionType = thread

TypeInv == TypeOK /\ Known

LEMMA InitTypes == Init => TypeInv
<1> SUFFICES ASSUME Init
             PROVE  TypeInv
  OBVIOUS
<1>1. [fd |-> NULL, status |-> 0, old |-> FALSE, silent |-> 0] \in Event
  BY DEF Event
<1>2. TypeOK
  <2>1. g_events \in [Slots -> Event] /\ cut \in [Fds -> Nat]
    BY <1>1 DEF Init
  <2>2. /\ socket \in [Fds -> TcpClients \cup {NULL}]
        /\ mg \in [Ptrs -> WebClients \cup {NULL}]
        /\ fid_ptr_mappint \in [Indices -> Ptrs \cup {NULL}]
        /\ playerArray \in [Uids -> Player \cup {NULL}]
        /\ pending \in [Threads -> Search \cup {NULL}]
    BY DEF Init
  <2>3. checkpos \in 0 .. MAX_EVENTS
    BY SocketsAssumption DEF Init
  <2>4. QED
    BY <2>1, <2>2, <2>3 DEF Init, TypeOK
<1>3. Known
  BY DEF Init, Known, Live
<1>4. QED
  BY <1>2, <1>3 DEF TypeInv

LEMMA AcceptTypes ==
  ASSUME TypeOK, NEW c \in TcpClients, Accept(c)
  PROVE  TypeOK'
<1>1. PICK fd \in Fds :
        /\ socket' = [socket EXCEPT ![fd] = c]
        /\ \/ \E s \in Slots :
                /\ g_events' = [g_events EXCEPT
                                  ![s] = [fd |-> fd, status |-> 1, old |-> FALSE, silent |-> 0]]
                /\ FindUnused(Tcp, fd, c)
           \/ /\ refused' = refused \cup {c}
              /\ UNCHANGED <<g_events, pending>>
  BY DEF Accept
<1>2. c \in Clients /\ met' = met \cup {c}
  BY DEF Accept, Clients
<1>3. socket' \in [Fds -> TcpClients \cup {NULL}]
  BY <1>1 DEF TypeOK
<1>4. /\ g_events' \in [Slots -> Event] /\ refused' \subseteq refused \cup {c}
      /\ pending' \in [Threads -> Search \cup {NULL}]
  <2>1. CASE refused' = refused \cup {c} /\ UNCHANGED <<g_events, pending>>
    BY <2>1 DEF TypeOK
  <2>2. CASE \E s \in Slots :
               /\ g_events' = [g_events EXCEPT
                                 ![s] = [fd |-> fd, status |-> 1, old |-> FALSE, silent |-> 0]]
               /\ FindUnused(Tcp, fd, c)
    <3>1. [fd |-> fd, status |-> 1, old |-> FALSE, silent |-> 0] \in Event
      BY DEF Event
    <3>2. g_events' \in [Slots -> Event]
      BY <2>2, <3>1 DEF TypeOK
    <3>3. QED
      BY <1>2, <2>2, <3>2, FindTypes
  <2>3. QED
    BY <1>1, <2>1, <2>2
<1>5. QED
  BY <1>2, <1>3, <1>4 DEF Accept, TypeOK

\* A slot that is given up keeps its type.
LEMMA EventDelTypes ==
  ASSUME TypeOK, NEW s \in Slots
  PROVE  EventDel(s) \in [Slots -> Event]
BY DEF TypeOK, EventDel, Event

LEMMA ReadyFd ==
  ASSUME TypeOK, NEW s \in Slots, Active(s), g_events[s].fd # NULL
  PROVE  g_events[s].fd \in Fds
BY DEF TypeOK, Event

LEMMA ReceiveTypes ==
  ASSUME TypeOK, NEW c \in TcpClients,
         ReceiveEnd(c) \/ ReceiveError(c) \/ ReceiveData(c) \/ ReceiveStumbles(c)
  PROVE  TypeOK'
<1>1. CASE ReceiveEnd(c)
  <2>1. PICK s \in Slots :
          /\ ReadyOn(c, s)
          /\ socket' = [socket EXCEPT ![g_events[s].fd] = NULL]
          /\ g_events' = EventDel(s)
          /\ CloseConnection(g_events[s].fd, Tcp)
          /\ UNCHANGED <<checkpos, mg, fid_ptr_mappint, pending, history>>
    BY <1>1 DEF ReceiveEnd
  <2>2. socket' \in [Fds -> TcpClients \cup {NULL}]
    BY <2>1 DEF TypeOK
  <2>3. QED
    BY <2>1, <2>2, CloseTypes, EventDelTypes DEF TypeOK
<1>2. CASE ReceiveError(c)
  <2>1. PICK s \in Slots :
          /\ ReadyOn(c, s)
          /\ socket' = [socket EXCEPT ![g_events[s].fd] = NULL]
          /\ g_events' = EventDel(s)
          /\ cut' = [cut EXCEPT ![g_events[s].fd] = @ + 1]
          /\ UNCHANGED <<up, checkpos, mg, fid_ptr_mappint, playerArray, pending, met,
                         refused, raced>>
    BY <1>2 DEF ReceiveError
  <2>2. socket' \in [Fds -> TcpClients \cup {NULL}]
    BY <2>1 DEF TypeOK
  <2>3. cut' \in [Fds -> Nat]
    <3>1. \A fd \in Fds : cut[fd] + 1 \in Nat
      BY DEF TypeOK
    <3>2. QED
      BY <2>1, <3>1 DEF TypeOK
  <2>4. QED
    BY <2>1, <2>2, <2>3, EventDelTypes DEF TypeOK
<1>3. CASE ReceiveStumbles(c)
  BY <1>3 DEF ReceiveStumbles, Crash, TypeOK
<1>4. CASE ReceiveData(c)
  BY <1>4 DEF ReceiveData, TypeOK, Event
<1>5. QED
  BY <1>1, <1>2, <1>3, <1>4

LEMMA ScanTypes ==
  ASSUME TypeOK, IdleScan \/ \E s \in Slots : GrowOld(s) \/ FallSilent(s)
  PROVE  TypeOK'
<1>1. CASE IdleScan
  <2> DEFINE due  == {s \in Visited : Active(s) /\ g_events[s].old}
             shut == {g_events[s].fd : s \in due}
  <2>1. /\ socket' = [fd \in Fds |-> IF fd \in shut THEN NULL ELSE socket[fd]]
        /\ g_events' = [s \in Slots |->
                          IF s \in due THEN [g_events[s] EXCEPT !.status = 0]
                          ELSE IF Active(s) /\ g_events[s].silent > 0
                          THEN [g_events[s] EXCEPT !.silent = @ + 1]
                          ELSE g_events[s]]
        /\ cut' = [fd \in Fds |-> IF fd \in shut THEN cut[fd] + 1 ELSE cut[fd]]
        /\ checkpos' = NextCheckpos
        /\ UNCHANGED <<up, mg, fid_ptr_mappint, playerArray, pending, met, refused, raced>>
    BY <1>1 DEF IdleScan
  <2> HIDE DEF due, shut
  <2>2. g_events' \in [Slots -> Event]
    BY <2>1 DEF TypeOK, Event
  <2>3. socket' \in [Fds -> TcpClients \cup {NULL}]
    BY <2>1 DEF TypeOK
  <2>6. cut' \in [Fds -> Nat]
    BY <2>1 DEF TypeOK
  <2>4. checkpos' \in 0 .. MAX_EVENTS
    <3>1. checkpos \in 0 .. MAX_EVENTS
      BY DEF TypeOK
    <3>2. QED
      BY <2>1, <3>1, Sizes
  <2>5. QED
    BY <2>1, <2>2, <2>3, <2>4, <2>6 DEF TypeOK
<1>2. ASSUME NEW s \in Slots, GrowOld(s) \/ FallSilent(s)
      PROVE  TypeOK'
  <2>1. CASE GrowOld(s)
    BY <2>1 DEF GrowOld, TypeOK, Event
  <2>2. CASE FallSilent(s)
    BY <2>2 DEF FallSilent, TypeOK, Event
  <2>3. QED
    BY <1>2, <2>1, <2>2
<1>3. QED
  BY <1>1, <1>2

LEMMA WebTypes ==
  ASSUME TypeOK, NEW c \in WebClients, WebStep(c)
  PROVE  TypeOK'
<1>0. c \in Clients
  BY DEF Clients
<1>1. CASE Handshake(c)
  <2>1. PICK p \in Ptrs :
          /\ mg' = [mg EXCEPT ![p] = c]
          /\ \/ \E i \in Indices :
                  /\ fid_ptr_mappint' = [fid_ptr_mappint EXCEPT ![i] = p]
                  /\ FindUnused(Web, i, c)
             \/ /\ refused' = refused \cup {c}
                /\ UNCHANGED <<fid_ptr_mappint, pending>>
    BY <1>1 DEF Handshake
  <2>2. mg' \in [Ptrs -> WebClients \cup {NULL}]
    BY <2>1 DEF TypeOK
  <2>3. /\ fid_ptr_mappint' \in [Indices -> Ptrs \cup {NULL}]
        /\ refused' \subseteq refused \cup {c}
        /\ pending' \in [Threads -> Search \cup {NULL}]
    <3>1. CASE refused' = refused \cup {c} /\ UNCHANGED <<fid_ptr_mappint, pending>>
      BY <3>1 DEF TypeOK
    <3>2. ASSUME NEW i \in Indices,
                 fid_ptr_mappint' = [fid_ptr_mappint EXCEPT ![i] = p],
                 FindUnused(Web, i, c)
          PROVE  /\ fid_ptr_mappint' \in [Indices -> Ptrs \cup {NULL}]
                 /\ refused' \subseteq refused \cup {c}
                 /\ pending' \in [Threads -> Search \cup {NULL}]
      BY <1>0, <3>2, FindTypes DEF TypeOK
    <3>3. QED
      BY <2>1, <3>1, <3>2
  <2>4. QED
    BY <1>0, <1>1, <2>2, <2>3 DEF Handshake, TypeOK
<1>2. CASE FrameStumbles(c)
  BY <1>2 DEF FrameStumbles, Crash, TypeOK
<1>3. CASE CloseWeb(c)
  <2>1. PICK p \in Ptrs :
          /\ mg' = [mg EXCEPT ![p] = NULL]
          /\ \/ \E i \in Indices : IndexOf(p, i) /\ CloseConnection(i, Web)
             \/ UNCHANGED <<up, playerArray>>
          /\ UNCHANGED <<socket, g_events, checkpos, fid_ptr_mappint, pending, history>>
    BY <1>3 DEF CloseWeb
  <2>2. mg' \in [Ptrs -> WebClients \cup {NULL}]
    BY <2>1 DEF TypeOK
  <2>3. playerArray' \in [Uids -> Player \cup {NULL}] /\ up' \in BOOLEAN
    BY <2>1, CloseTypes DEF TypeOK
  <2>4. QED
    BY <2>1, <2>2, <2>3 DEF TypeOK
<1>4. QED
  BY <1>1, <1>2, <1>3 DEF WebStep

LEMMA FillTypes ==
  ASSUME TypeInv, NEW thread \in Threads, FillSlot(thread)
  PROVE  TypeOK'
<1> USE DEF TypeInv
<1>1. pending[thread] \in Search
  BY DEF TypeOK, FillSlot
<1>2. playerArray' \in [Uids -> Player \cup {NULL}] /\ pending[thread].uid \in Uids
  BY <1>1 DEF TypeOK, FillSlot, Search
<1>3. raced' \subseteq met
  BY <1>2 DEF TypeOK, FillSlot, Known
<1>4. pending' \in [Threads -> Search \cup {NULL}]
  BY DEF TypeOK, FillSlot
<1>5. QED
  BY <1>2, <1>3, <1>4 DEF FillSlot, TypeOK

LEMMA NextTypes == TypeInv /\ [Next]_vars => TypeOK'
<1> SUFFICES ASSUME TypeInv, [Next]_vars
             PROVE  TypeOK'
  OBVIOUS
<1>1. TypeOK
  BY DEF TypeInv
<1>2. CASE UNCHANGED vars
  BY <1>1, <1>2 DEF TypeOK
<1>3. QED
  BY <1>1, <1>2, AcceptTypes, ReceiveTypes, ScanTypes, WebTypes, FillTypes DEF Next, TcpStep

-----------------------------------------------------------------------------
(* The invariant.  A number stands for one connection: Kept says that the  *)
(* Players found under a number belong to the connection it stands for.    *)
(* For a descriptor that holds as long as no connection at it was cut; for *)
(* a web index, if it is the first at which its address is noted.          *)

Held(uid, fid, type) == Live(uid) /\ Is(fid, type, playerArray[uid])
Sought(type, fid) == pending[type] # NULL /\ pending[type].player.fid = fid

Kept(fid, type, c) ==
  /\ \A uid \in Uids : Held(uid, fid, type) =>
        playerArray[uid].of = c \/ (~ up /\ c = NULL)
  /\ \A u, v \in Uids : Held(u, fid, type) /\ Held(v, fid, type) => u = v
  /\ Sought(type, fid) => /\ pending[type].player.of = c
                          /\ \A uid \in Uids : ~ Held(uid, fid, type)

TcpKept == \A fd \in Fds : cut[fd] = 0 => Kept(fd, Tcp, socket[fd])

WebKept ==
  /\ \A p \in Ptrs, i \in Indices : IndexOf(p, i) => Kept(i, Web, mg[p])
  /\ \A i \in Indices : fid_ptr_mappint[i] = NULL =>
        ~ Sought(Web, i) /\ \A uid \in Uids : ~ Held(uid, i, Web)

\* A Player has the number of the connection it was made for, as long as
\* that is open.
Sits(p) ==
  \/ /\ p.connectionType = Tcp /\ p.of \in TcpClients
     /\ \A fd \in Fds : socket[fd] = p.of => p.fid = fd
  \/ /\ p.connectionType = Web /\ p.of \in WebClients /\ p.fid \in Indices
     /\ \A q \in Ptrs : mg[q] = p.of => fid_ptr_mappint[p.fid] = q

Placed ==
  /\ \A fd, e \in Fds : socket[fd] = socket[e] /\ socket[fd] # NULL => fd = e
  /\ \A p, q \in Ptrs : mg[p] = mg[q] /\ mg[p] # NULL => p = q
  /\ \A uid \in Uids : Live(uid) => Sits(playerArray[uid])
  /\ \A thread \in Threads : pending[thread] # NULL => Sits(pending[thread].player)

IInv == /\ TypeInv /\ SlotsMatchDescriptors
        /\ TcpKept /\ WebKept /\ Placed /\ ServedUnlessRaced

\* What the types say of clients and Players.
Sane ==
  /\ met \subseteq Clients /\ NULL \notin met /\ NULL \notin Clients
  /\ TcpClients \cap WebClients = {} /\ Clients = TcpClients \cup WebClients
  /\ \A fd \in Fds : socket[fd] \in TcpClients \cup {NULL}
  /\ \A p \in Ptrs : mg[p] \in WebClients \cup {NULL}
  /\ \A uid \in Uids : Live(uid) => playerArray[uid] \in Player
  /\ \A thread \in Threads : pending[thread] # NULL => pending[thread] \in Search
  /\ \A s \in Slots : g_events[s] \in Event
  /\ NULL \notin Fds /\ NULL \notin Ptrs /\ NULL \notin Player /\ NULL \notin Search
  /\ NULL \notin TcpClients /\ NULL \notin WebClients

LEMMA SaneLemma == TypeInv => Sane
BY SocketsAssumption DEF TypeInv, TypeOK, Sane, Live, Clients

LEMMA InitInv == Init => IInv
<1> SUFFICES ASSUME Init
             PROVE  IInv
  OBVIOUS
<1>1. TypeInv
  BY InitTypes
<1>2. SlotsMatchDescriptors
  BY Sizes DEF Init, SlotsMatchDescriptors, Active
<1>3. \A uid \in Uids : ~ Live(uid)
  BY DEF Init, Live
<1>4. \A thread \in Threads : pending[thread] = NULL
  BY DEF Init
<1>5. TcpKept /\ WebKept
  BY <1>3, <1>4 DEF TcpKept, WebKept, Kept, Held, Sought
<1>6. Placed
  BY <1>3, <1>4 DEF Init, Placed
<1>7. ServedUnlessRaced
  BY Sizes DEF Init, ServedUnlessRaced, Connected
<1>8. QED
  BY <1>1, <1>2, <1>5, <1>6, <1>7 DEF IInv

\* Steps that leave numbers, Players and slots alone.
LEMMA StutterInv ==
  ASSUME IInv,
         UNCHANGED <<socket, mg, fid_ptr_mappint, playerArray, pending, history>>,
         \A s \in Slots : /\ g_events'[s].status = g_events[s].status
                          /\ g_events'[s].fd = g_events[s].fd,
         up' = up \/ up' = FALSE
  PROVE  Known' /\ SlotsMatchDescriptors' /\ TcpKept' /\ WebKept' /\ Placed'
         /\ ServedUnlessRaced'
<1>1. Known'
  BY DEF IInv, TypeInv, Known, Live
<1>2. SlotsMatchDescriptors'
  BY DEF IInv, SlotsMatchDescriptors, Active
<1>3. TcpKept'
  BY DEF IInv, TcpKept, Kept, Held, Sought, Live
<1>4. WebKept'
  BY DEF IInv, WebKept, Kept, Held, Sought, Live, IndexOf
<1>5. Placed'
  BY DEF IInv, Placed, Sits, Live
<1>6. ServedUnlessRaced'
  BY DEF IInv, ServedUnlessRaced, Connected, Live
<1>7. QED
  BY <1>1, <1>2, <1>3, <1>4, <1>5, <1>6

\* What accept does, without the search.
LEMMA FindEffect ==
  ASSUME NEW thread \in Threads, NEW fid, NEW c, FindUnused(thread, fid, c)
  PROVE  \/ /\ \E uid \in Uids :
                 pending' = [pending EXCEPT ![thread] =
                   [uid |-> uid,
                    player |-> [fid |-> fid, connectionType |-> thread, of |-> c]]]
            /\ UNCHANGED refused
         \/ UNCHANGED pending /\ refused' = refused \cup {c}
BY DEF FindUnused

\* A new connection: nothing that is known of the others changes.
LEMMA SitsOn ==
  ASSUME TypeInv, NEW p, Sits(p), p.of \in met,
         \A fd \in Fds : socket'[fd] = socket[fd] \/ socket'[fd] \notin met,
         \A q \in Ptrs : mg'[q] = mg[q] \/ mg'[q] \notin met,
         \A i \in Indices : \/ fid_ptr_mappint'[i] = fid_ptr_mappint[i]
                            \/ fid_ptr_mappint[i] = NULL
  PROVE  Sits(p)'
<1>1. NULL \notin Ptrs
  BY Sizes
<1>2. QED
  BY <1>1 DEF Sits

LEMMA AcceptInv ==
  ASSUME IInv, NEW c \in TcpClients, Accept(c)
  PROVE  Known' /\ SlotsMatchDescriptors' /\ TcpKept' /\ WebKept' /\ Placed'
         /\ ServedUnlessRaced'
<1> USE DEF IInv
<1>1. Sane
  BY SaneLemma
<1>2. PICK fd \in Fds :
        /\ socket[fd] = NULL /\ socket' = [socket EXCEPT ![fd] = c]
        /\ \/ /\ \E s \in Slots :
                   /\ ~ Active(s)
                   /\ g_events' = [g_events EXCEPT
                                     ![s] = [fd |-> fd, status |-> 1, old |-> FALSE, silent |-> 0]]
              /\ \/ /\ \E uid \in Uids :
                         pending' = [pending EXCEPT ![Tcp] =
                           [uid |-> uid,
                            player |-> [fid |-> fd, connectionType |-> Tcp, of |-> c]]]
                    /\ UNCHANGED refused
                 \/ UNCHANGED pending /\ refused' = refused \cup {c}
           \/ UNCHANGED <<g_events, pending>> /\ refused' = refused \cup {c}
  BY FindEffect DEF Accept
<1>3. /\ up = TRUE /\ up' = up /\ pending[Tcp] = NULL /\ c \notin met /\ met' = met \cup {c}
      /\ UNCHANGED <<mg, fid_ptr_mappint, playerArray, cut, raced>>
  BY DEF Accept, Idle, TypeInv, TypeOK
<1>4. /\ pending'[Web] = pending[Web]
      /\ \/ pending'[Tcp] = NULL
         \/ pending'[Tcp].player = [fid |-> fd, connectionType |-> Tcp, of |-> c]
      /\ pending'[Tcp] # NULL \/ c \in refused'
      /\ refused \subseteq refused'
  <2> DEFINE player == [fid |-> fd, connectionType |-> Tcp, of |-> c]
  <2>1. \A uid \in Uids : /\ [uid |-> uid, player |-> player] \in Search
                          /\ [uid |-> uid, player |-> player] # NULL
    BY <1>1 DEF Sane, Search, Player
  <2>2. CASE UNCHANGED pending /\ refused' = refused \cup {c}
    BY <1>3, <2>2
  <2>3. ASSUME NEW uid \in Uids, UNCHANGED refused,
               pending' = [pending EXCEPT ![Tcp] = [uid |-> uid, player |-> player]]
        PROVE  /\ pending'[Web] = pending[Web]
               /\ pending'[Tcp] = [uid |-> uid, player |-> player]
    BY <2>3 DEF TypeInv, TypeOK
  <2>4. CASE /\ \E uid \in Uids : pending' = [pending EXCEPT ![Tcp] =
                                       [uid |-> uid, player |-> player]]
             /\ UNCHANGED refused
    <3>1. PICK uid \in Uids : pending' = [pending EXCEPT ![Tcp] =
                                       [uid |-> uid, player |-> player]]
      BY <2>4
    <3>2. /\ pending'[Web] = pending[Web]
          /\ pending'[Tcp] = [uid |-> uid, player |-> player]
      BY <2>3, <2>4, <3>1
    <3>3. QED
      BY <2>1, <2>4, <3>2
  <2>5. QED
    BY <1>2, <2>2, <2>4
<1>5. /\ socket'[fd] = c /\ \A e \in Fds \ {fd} : socket'[e] = socket[e]
      /\ c \notin TcpClients \cap {NULL}
  BY <1>1, <1>2 DEF TypeInv, TypeOK, Sane
<1>6. Known'
  BY <1>3, <1>4, <1>5 DEF TypeInv, Known, Live
<1>7. SlotsMatchDescriptors'
  <2>1. CASE UNCHANGED g_events /\ c \in refused'
    BY <1>1, <1>2, <1>4, <1>5, <2>1 DEF SlotsMatchDescriptors, Active, Sane, Clients
  <2>2. ASSUME NEW s \in Slots, ~ Active(s),
               g_events' = [g_events EXCEPT ![s] = [fd |-> fd, status |-> 1, old |-> FALSE, silent |-> 0]]
        PROVE  SlotsMatchDescriptors'
    <3>1. /\ g_events'[s] = [fd |-> fd, status |-> 1, old |-> FALSE, silent |-> 0]
          /\ \A t \in Slots \ {s} : g_events'[t] = g_events[t]
      BY <2>2 DEF TypeInv, TypeOK
    <3>2. \A t \in Slots : Active(t) => g_events[t].fd # fd /\ t # s
      BY <1>2, <2>2 DEF SlotsMatchDescriptors
    <3>3. \A t \in Slots : Active(t)' <=> (t = s \/ Active(t))
      BY <3>1 DEF Active
    <3>4. \A t \in Slots : Active(t) => g_events'[t].fd = g_events[t].fd
      BY <3>1, <3>2
    <3>5. \A t \in Slots : Active(t) => g_events[t].fd \in Fds
      BY <1>1 DEF Sane, Event, SlotsMatchDescriptors
    <3>6. \A t \in Slots : Active(t)' => g_events'[t].fd # NULL /\ socket'[g_events'[t].fd] # NULL
      BY <1>1, <1>5, <3>1, <3>2, <3>3, <3>4, <3>5 DEF Sane, SlotsMatchDescriptors
    <3>7. \A t, u \in Slots : Active(t)' /\ Active(u)' /\ t # u
                                => g_events'[t].fd # g_events'[u].fd
      BY <3>1, <3>2, <3>3, <3>4 DEF SlotsMatchDescriptors
    <3>8. \A e \in Fds : socket'[e] \in Clients \ refused'
                           => \E t \in Slots : Active(t)' /\ g_events'[t].fd = e
      BY <1>4, <1>5, <3>1, <3>3, <3>4 DEF SlotsMatchDescriptors
    <3>9. QED
      BY <3>6, <3>7, <3>8 DEF SlotsMatchDescriptors
  <2>3. QED
    BY <1>2, <2>1, <2>2
<1>8. \A uid \in Uids : ~ Held(uid, fd, Tcp) \/ cut[fd] # 0
  BY <1>1, <1>2, <1>3 DEF TcpKept, Kept, TypeInv, Known, Sane, Held
<1>9. TcpKept'
  BY <1>3, <1>4, <1>5, <1>8 DEF TcpKept, Kept, Held, Sought, Live
<1>10. WebKept'
  BY <1>3, <1>4 DEF WebKept, Kept, Held, Sought, Live, IndexOf
<1>11. Placed'
  <2>1. \A e, f \in Fds : socket'[e] = socket'[f] /\ socket'[e] # NULL => e = f
    BY <1>3, <1>5 DEF Placed, TypeInv, Known
  <2>2. \A uid \in Uids : Live(uid)' => Sits(playerArray[uid])'
    BY <1>3, <1>5, SitsOn DEF Placed, TypeInv, Known, Live
  <2>3. ASSUME NEW thread \in Threads, pending'[thread] # NULL
        PROVE  Sits(pending[thread].player)'
    <3>1. CASE thread = Web
      BY <1>3, <1>4, <1>5, <2>3, <3>1, SitsOn DEF Placed, TypeInv, Known
    <3>2. CASE thread = Tcp
      <4>1. pending'[Tcp].player = [fid |-> fd, connectionType |-> Tcp, of |-> c]
        BY <1>4, <2>3, <3>2
      <4>2. \A e \in Fds : socket'[e] = c => e = fd
        BY <1>3, <1>5 DEF TypeInv, Known, Sane
      <4>3. QED
        BY <3>2, <4>1, <4>2 DEF Sits
    <3>3. QED
      BY <3>1, <3>2
  <2>4. QED
    BY <1>3, <2>1, <2>2, <2>3 DEF Placed
<1>12. ServedUnlessRaced'
  <2>1. \A d \in Clients : d \in Connected' => d = c \/ d \in Connected
    BY <1>3, <1>5 DEF Connected
  <2>2. pending'[Tcp] # NULL => pending'[Tcp].player.of = c
    BY <1>4
  <2>3. ASSUME NEW d \in Connected', d \notin refused', d \notin raced'
        PROVE  \/ \E uid \in Uids : Live(uid)' /\ playerArray'[uid].of = d
               \/ \E thread \in Threads : /\ pending'[thread] # NULL
                                          /\ pending'[thread].player.of = d
    <3>1. d \in Clients
      BY DEF Connected
    <3>2. CASE d = c
      BY <1>4, <2>2, <2>3, <3>2
    <3>3. CASE d # c
      <4>1. d \in Connected \ (refused \cup raced)
        BY <1>3, <1>4, <2>1, <2>3, <3>1, <3>3
      <4>2. \/ \E uid \in Uids : Live(uid) /\ playerArray[uid].of = d
            \/ pending[Web] # NULL /\ pending[Web].player.of = d
        BY <1>3, <4>1 DEF ServedUnlessRaced
      <4>3. QED
        BY <1>3, <1>4, <4>2 DEF Live
    <3>4. QED
      BY <3>2, <3>3
  <2>4. QED
    BY <2>3 DEF ServedUnlessRaced
<1>13. QED
  BY <1>6, <1>7, <1>9, <1>10, <1>11, <1>12

\* Slots are given up together with their descriptors.
LEMMA SlotsClosed ==
  ASSUME IInv, UNCHANGED refused, NEW D \in SUBSET Slots,
         \A s \in D : Active(s),
         \A s \in Slots : /\ g_events'[s].fd = g_events[s].fd
                          /\ g_events'[s].status = IF s \in D THEN 0 ELSE g_events[s].status,
         \A fd \in Fds : socket'[fd] = IF \E s \in D : g_events[s].fd = fd THEN NULL
                                       ELSE socket[fd]
  PROVE  SlotsMatchDescriptors'
<1> USE DEF IInv
<1>1. Sane
  BY SaneLemma
<1>2. \A s \in Slots : Active(s)' <=> Active(s) /\ s \notin D
  BY DEF Active
<1>3. \A s \in Slots : Active(s) => g_events[s].fd \in Fds
  BY <1>1 DEF Sane, Event, SlotsMatchDescriptors
<1>4. \A s \in Slots : Active(s)' => socket'[g_events[s].fd] = socket[g_events[s].fd]
  BY <1>2, <1>3 DEF SlotsMatchDescriptors
<1>5. \A s \in Slots : Active(s)' => g_events'[s].fd # NULL /\ socket'[g_events'[s].fd] # NULL
  BY <1>2, <1>4 DEF SlotsMatchDescriptors
<1>6. \A s, t \in Slots : Active(s)' /\ Active(t)' /\ s # t => g_events'[s].fd # g_events'[t].fd
  BY <1>2 DEF SlotsMatchDescriptors
<1>7. ASSUME NEW fd \in Fds, socket'[fd] \in Clients \ refused'
      PROVE  \E s \in Slots : Active(s)' /\ g_events'[s].fd = fd
  <2>1. socket'[fd] = socket[fd] /\ \A s \in D : g_events[s].fd # fd
    BY <1>1, <1>7 DEF Sane
  <2>2. PICK s \in Slots : Active(s) /\ g_events[s].fd = fd
    BY <1>7, <2>1 DEF SlotsMatchDescriptors
  <2>3. QED
    BY <1>2, <2>1, <2>2
<1>8. QED
  BY <1>5, <1>6, <1>7 DEF SlotsMatchDescriptors

\* Connections are closed and their Players, but for one, stay.
LEMMA GoneInv ==
  ASSUME IInv, UNCHANGED <<met, pending, fid_ptr_mappint, refused, raced>>,
         \A fd \in Fds : socket'[fd] = socket[fd] \/ socket'[fd] = NULL,
         \A p \in Ptrs : mg'[p] = mg[p] \/ mg'[p] = NULL,
         \A uid \in Uids : \/ playerArray'[uid] = playerArray[uid]
                           \/ /\ playerArray'[uid] = NULL /\ Live(uid)
                              /\ playerArray[uid].of \notin Connected'
  PROVE  Known' /\ Placed' /\ ServedUnlessRaced'
<1> USE DEF IInv
<1>1. Sane
  BY SaneLemma
<1>2. Known'
  BY DEF TypeInv, Known, Live
<1>3. Placed'
  <2>1. \A fd, e \in Fds : socket'[fd] = socket'[e] /\ socket'[fd] # NULL => fd = e
    BY DEF Placed
  <2>2. \A p, q \in Ptrs : mg'[p] = mg'[q] /\ mg'[p] # NULL => p = q
    BY DEF Placed
  <2>3. ASSUME NEW p, Sits(p), p.of \in met
        PROVE  Sits(p)'
    BY <1>1, <2>3, SitsOn DEF Sane
  <2>4. \A uid \in Uids : Live(uid)' => Sits(playerArray[uid])'
    <3>1. ASSUME NEW uid \in Uids, Live(uid)'
          PROVE  Sits(playerArray[uid])'
      <4>1. PICK p : p = playerArray[uid] /\ p = playerArray'[uid]
        BY <3>1 DEF Live
      <4>2. Sits(p) /\ p.of \in met
        BY <3>1, <4>1 DEF Placed, TypeInv, Known, Live
      <4>3. Sits(p)'
        BY <2>3, <4>2
      <4>4. QED
        BY <4>1, <4>3
    <3>2. QED
      BY <3>1
  <2>5. \A thread \in Threads : pending'[thread] # NULL => Sits(pending[thread].player)'
    <3>1. ASSUME NEW thread \in Threads, pending'[thread] # NULL
          PROVE  Sits(pending[thread].player)'
      <4>1. PICK p : p = pending[thread].player /\ p = pending'[thread].player
        OBVIOUS
      <4>2. Sits(p) /\ p.of \in met
        BY <3>1, <4>1 DEF Placed, TypeInv, Known
      <4>3. Sits(p)'
        BY <2>3, <4>2
      <4>4. QED
        BY <4>1, <4>3
    <3>2. QED
      BY <3>1
  <2>6. QED
    BY <2>1, <2>2, <2>4, <2>5 DEF Placed
<1>4. ServedUnlessRaced'
  <2>1. Connected' \subseteq Connected
    BY <1>1 DEF Connected, Sane
  <2>2. ASSUME NEW d \in Connected', d \notin refused', d \notin raced'
        PROVE  \/ \E uid \in Uids : Live(uid)' /\ playerArray'[uid].of = d
               \/ \E thread \in Threads : /\ pending'[thread] # NULL
                                          /\ pending'[thread].player.of = d
    <3>1. d \in Connected \ (refused \cup raced)
      BY <2>1, <2>2
    <3>2. QED
      BY <2>2, <3>1 DEF ServedUnlessRaced, Live
  <2>3. QED
    BY <2>2 DEF ServedUnlessRaced
<1>5. QED
  BY <1>2, <1>3, <1>4

LEMMA ReceiveErrorInv ==
  ASSUME IInv, NEW c \in TcpClients, ReceiveError(c)
  PROVE  Known' /\ SlotsMatchDescriptors' /\ TcpKept' /\ WebKept' /\ Placed'
         /\ ServedUnlessRaced'
<1> USE DEF IInv
<1>1. PICK s \in Slots :
        /\ ReadyOn(c, s) /\ pending[Tcp] = NULL
        /\ socket' = [socket EXCEPT ![g_events[s].fd] = NULL]
        /\ g_events' = EventDel(s)
        /\ cut' = [cut EXCEPT ![g_events[s].fd] = @ + 1]
        /\ UNCHANGED <<up, checkpos, mg, fid_ptr_mappint, playerArray, pending, met,
                       refused, raced>>
  BY DEF ReceiveError, Idle
<1>2. PICK fd \in Fds : fd = g_events[s].fd
  BY <1>1, ReadyFd DEF ReadyOn, TypeInv
<1>3. /\ socket'[fd] = NULL /\ \A e \in Fds \ {fd} : socket'[e] = socket[e]
      /\ cut'[fd] # 0 /\ \A e \in Fds \ {fd} : cut'[e] = cut[e]
  <2>1. cut[fd] \in Nat /\ cut \in [Fds -> Nat] /\ socket \in [Fds -> TcpClients \cup {NULL}]
    BY DEF TypeInv, TypeOK
  <2>2. QED
    BY <1>1, <1>2, <2>1
<1>4. \A t \in Slots : /\ g_events'[t].fd = g_events[t].fd
                       /\ g_events'[t].status = IF t \in {s} THEN 0 ELSE g_events[t].status
  BY <1>1 DEF EventDel, TypeInv, TypeOK, Event
<1>5. SlotsMatchDescriptors'
  <2>1. \A t \in {s} : Active(t)
    BY <1>1 DEF ReadyOn
  <2>2. \A e \in Fds : socket'[e] = IF \E t \in {s} : g_events[t].fd = e THEN NULL
                                    ELSE socket[e]
    BY <1>2, <1>3
  <2>3. {s} \in SUBSET Slots /\ UNCHANGED refused
    BY <1>1
  <2>4. QED
    BY <1>4, <2>1, <2>2, <2>3, SlotsClosed
<1>6. Known' /\ Placed' /\ ServedUnlessRaced'
  BY <1>1, <1>3, GoneInv
<1>7. TcpKept'
  BY <1>1, <1>3 DEF TcpKept, Kept, Held, Sought, Live
<1>8. WebKept'
  BY <1>1 DEF WebKept, Kept, Held, Sought, Live, IndexOf
<1>9. QED
  BY <1>5, <1>6, <1>7, <1>8

LEMMA ReceiveEndInv ==
  ASSUME IInv, NEW c \in TcpClients, ReceiveEnd(c)
  PROVE  Known' /\ SlotsMatchDescriptors' /\ TcpKept' /\ WebKept' /\ Placed'
         /\ ServedUnlessRaced'
<1> USE DEF IInv
<1>0. Sane
  BY SaneLemma
<1>1. PICK s \in Slots :
        /\ ReadyOn(c, s) /\ pending[Tcp] = NULL
        /\ socket' = [socket EXCEPT ![g_events[s].fd] = NULL]
        /\ g_events' = EventDel(s)
        /\ CloseConnection(g_events[s].fd, Tcp)
        /\ UNCHANGED <<checkpos, mg, fid_ptr_mappint, pending, history>>
  BY DEF ReceiveEnd, Idle
<1>2. PICK fd \in Fds : fd = g_events[s].fd
  BY <1>1, ReadyFd DEF ReadyOn, TypeInv
<1>3. socket'[fd] = NULL /\ \A e \in Fds \ {fd} : socket'[e] = socket[e]
  BY <1>1, <1>2 DEF TypeInv, TypeOK
<1>4. \A t \in Slots : /\ g_events'[t].fd = g_events[t].fd
                       /\ g_events'[t].status = IF t \in {s} THEN 0 ELSE g_events[t].status
  BY <1>1 DEF EventDel, TypeInv, TypeOK, Event
<1>5. SlotsMatchDescriptors'
  <2>1. \A t \in {s} : Active(t)
    BY <1>1 DEF ReadyOn
  <2>2. \A e \in Fds : socket'[e] = IF \E t \in {s} : g_events[t].fd = e THEN NULL
                                    ELSE socket[e]
    BY <1>2, <1>3
  <2>3. {s} \in SUBSET Slots /\ UNCHANGED refused
    BY <1>1
  <2>4. QED
    BY <1>4, <2>1, <2>2, <2>3, SlotsClosed
<1>6. CASE \E uid \in Uids :
             /\ Held(uid, fd, Tcp)
             /\ playerArray' = [playerArray EXCEPT ![uid] = NULL]
             /\ UNCHANGED up
  <2>1. PICK uid \in Uids : /\ Held(uid, fd, Tcp)
                            /\ playerArray' = [playerArray EXCEPT ![uid] = NULL]
    BY <1>6
  <2>2. /\ playerArray'[uid] = NULL
        /\ \A v \in Uids \ {uid} : playerArray'[v] = playerArray[v]
    BY <2>1 DEF TypeInv, TypeOK
  <2>3. playerArray[uid].of \notin Connected'
    <3>1. /\ playerArray[uid].connectionType = Tcp /\ playerArray[uid].fid = fd
          /\ Sits(playerArray[uid]) /\ Live(uid)
      BY <2>1 DEF Held, Is, Placed
    <3>2. /\ playerArray[uid].of \in TcpClients
          /\ \A e \in Fds : socket[e] = playerArray[uid].of => e = fd
      BY <3>1 DEF Sits
    <3>3. \A e \in Fds : socket'[e] # playerArray[uid].of
      BY <1>0, <1>3, <3>2 DEF Sane
    <3>4. \A p \in Ptrs : mg'[p] # playerArray[uid].of
      BY <1>0, <1>1, <3>2 DEF Sane
    <3>5. QED
      BY <3>3, <3>4 DEF Connected
  <2>4. Known' /\ Placed' /\ ServedUnlessRaced'
    BY <1>1, <1>3, <2>1, <2>2, <2>3, GoneInv DEF Held
  <2>5. \A f, type : \A v \in Uids : Held(v, f, type)' => Held(v, f, type) /\ v # uid
    BY <2>2 DEF Held, Live
  <2>6. TcpKept'
    <3>1. \A v \in Uids : cut[fd] = 0 => ~ Held(v, fd, Tcp)'
      BY <2>1, <2>5 DEF TcpKept, Kept
    <3>2. QED
      BY <1>1, <1>3, <1>6, <2>2, <2>5, <3>1 DEF TcpKept, Kept, Sought
  <2>7. WebKept'
    BY <1>1, <1>6, <2>2, <2>5 DEF WebKept, Kept, Sought, IndexOf
  <2>8. QED
    BY <1>5, <2>4, <2>6, <2>7
<1>7. CASE /\ \A uid \in Uids : ~ Held(uid, fd, Tcp)
           /\ UNCHANGED <<up, playerArray>>
  <2>1. Known' /\ Placed' /\ ServedUnlessRaced'
    BY <1>1, <1>3, <1>7, GoneInv
  <2>2. TcpKept'
    BY <1>1, <1>3, <1>7 DEF TcpKept, Kept, Held, Sought, Live
  <2>3. WebKept'
    BY <1>1, <1>7 DEF WebKept, Kept, Held, Sought, Live, IndexOf
  <2>4. QED
    BY <1>5, <2>1, <2>2, <2>3
<1>8. CASE up' = FALSE /\ UNCHANGED playerArray
  <2>1. Known' /\ Placed' /\ ServedUnlessRaced'
    BY <1>1, <1>3, <1>8, GoneInv
  <2>2. TcpKept'
    BY <1>1, <1>3, <1>8 DEF TcpKept, Kept, Held, Sought, Live
  <2>3. WebKept'
    BY <1>1, <1>8 DEF WebKept, Kept, Held, Sought, Live, IndexOf
  <2>4. QED
    BY <1>5, <2>1, <2>2, <2>3
<1>9. QED
  BY <1>1, <1>2, <1>6, <1>7, <1>8, CloseEffect DEF Held

LEMMA VisitedSlots == TypeOK => Visited \subseteq Slots
BY SocketsAssumption DEF TypeOK, Visited, Slots

LEMMA IdleScanInv ==
  ASSUME IInv, IdleScan
  PROVE  Known' /\ SlotsMatchDescriptors' /\ TcpKept' /\ WebKept' /\ Placed'
         /\ ServedUnlessRaced'
<1> USE DEF IInv
<1> DEFINE due  == {s \in Visited : Active(s) /\ g_events[s].old}
           shut == {g_events[s].fd : s \in due}
<1>1. /\ socket' = [fd \in Fds |-> IF fd \in shut THEN NULL ELSE socket[fd]]
      /\ g_events' = [s \in Slots |->
                        IF s \in due THEN [g_events[s] EXCEPT !.status = 0]
                        ELSE IF Active(s) /\ g_events[s].silent > 0
                        THEN [g_events[s] EXCEPT !.silent = @ + 1]
                        ELSE g_events[s]]
      /\ cut' = [fd \in Fds |-> IF fd \in shut THEN cut[fd] + 1 ELSE cut[fd]]
      /\ UNCHANGED <<up, mg, fid_ptr_mappint, playerArray, pending, met, refused, raced>>
  BY DEF IdleScan
<1>2. due \in SUBSET Slots /\ \A s \in due : Active(s)
  BY VisitedSlots DEF TypeInv
<1>3. \A fd \in Fds : fd \in shut <=> \E s \in due : g_events[s].fd = fd
  OBVIOUS
<1>4. PICK D \in SUBSET Slots : D = due
  BY <1>2
<1> HIDE DEF due, shut
<1>5. \A s \in Slots : /\ g_events'[s].fd = g_events[s].fd
                       /\ g_events'[s].status = IF s \in D THEN 0 ELSE g_events[s].status
  BY <1>1, <1>4 DEF TypeInv, TypeOK, Event
<1>6. \A fd \in Fds : socket'[fd] = IF \E s \in D : g_events[s].fd = fd THEN NULL
                                    ELSE socket[fd]
  BY <1>1, <1>3, <1>4
<1>7. SlotsMatchDescriptors'
  BY <1>1, <1>2, <1>4, <1>5, <1>6, SlotsClosed
<1>8. Known' /\ Placed' /\ ServedUnlessRaced'
  BY <1>1, <1>6, GoneInv
<1>9. \A fd \in Fds : cut'[fd] = 0 => cut[fd] = 0 /\ socket'[fd] = socket[fd]
  <2>1. \A fd \in Fds : cut[fd] \in Nat
    BY DEF TypeInv, TypeOK
  <2>2. QED
    BY <1>1, <2>1
<1>10. TcpKept'
  BY <1>1, <1>9 DEF TcpKept, Kept, Held, Sought, Live
<1>11. WebKept'
  BY <1>1 DEF WebKept, Kept, Held, Sought, Live, IndexOf
<1>12. QED
  BY <1>7, <1>8, <1>10, <1>11

\* The assignment may replace a Player, who counts as raced.
LEMMA FillSlotInv ==
  ASSUME IInv, NEW thread \in Threads, FillSlot(thread)
  PROVE  Known' /\ SlotsMatchDescriptors' /\ TcpKept' /\ WebKept' /\ Placed'
         /\ ServedUnlessRaced'
<1> USE DEF IInv
<1>1. Sane
  BY SaneLemma
<1>2. PICK uid, new : /\ pending[thread].uid = uid /\ pending[thread].player = new
  OBVIOUS
<1>3. /\ uid \in Uids /\ new \in Player /\ new # NULL /\ pending[thread] # NULL
      /\ new.of \in met /\ new.connectionType = thread /\ Sits(new)
  BY <1>1, <1>2 DEF FillSlot, Sane, Search, TypeInv, Known, Placed
<1>4. /\ playerArray'[uid] = new
      /\ \A v \in Uids \ {uid} : playerArray'[v] = playerArray[v]
      /\ pending'[thread] = NULL
      /\ \A other \in Threads \ {thread} : pending'[other] = pending[other]
      /\ up = TRUE
  BY <1>2, <1>3 DEF FillSlot, TypeInv, TypeOK
<1>5. /\ raced' = IF Live(uid) THEN raced \cup {playerArray[uid].of} ELSE raced
      /\ UNCHANGED <<up, socket, g_events, checkpos, mg, fid_ptr_mappint, met, cut, refused>>
  BY <1>2 DEF FillSlot
<1>6. Known'
  BY <1>3, <1>4, <1>5 DEF TypeInv, Known, Live
<1>7. SlotsMatchDescriptors'
  BY <1>5 DEF SlotsMatchDescriptors, Active
<1>8. ASSUME NEW fid, NEW type \in Threads, NEW c, Kept(fid, type, c)
      PROVE  /\ \A v \in Uids : Held(v, fid, type)' =>
                   playerArray'[v].of = c \/ (~ up' /\ c = NULL)
             /\ \A u, v \in Uids : Held(u, fid, type)' /\ Held(v, fid, type)' => u = v
             /\ Sought(type, fid)' => /\ pending'[type].player.of = c
                                      /\ \A v \in Uids : ~ Held(v, fid, type)'
  <2>1. \A v \in Uids \ {uid} : Held(v, fid, type)' <=> Held(v, fid, type)
    BY <1>4 DEF Held, Live
  <2>2. Held(uid, fid, type)' => Sought(type, fid) /\ type = thread /\ new.fid = fid
    BY <1>2, <1>3, <1>4 DEF Held, Is, Sought
  <2>3. Sought(type, fid)' => Sought(type, fid) /\ type # thread
    BY <1>4 DEF Sought
  <2>4. CASE Held(uid, fid, type)'
    <3>1. new.of = c /\ \A v \in Uids : ~ Held(v, fid, type)
      BY <1>2, <1>8, <2>2, <2>4 DEF Kept
    <3>2. QED
      BY <1>4, <2>1, <2>2, <2>3, <2>4, <3>1
  <2>5. CASE ~ Held(uid, fid, type)'
    BY <1>4, <1>5, <1>8, <2>1, <2>3, <2>5 DEF Kept
  <2>6. QED
    BY <2>4, <2>5
<1>9. TcpKept'
  <2>1. ASSUME NEW fd \in Fds, cut'[fd] = 0
        PROVE  Kept(fd, Tcp, socket[fd])'
    <3>1. PICK c : c = socket[fd] /\ c = socket'[fd]
      BY <1>5
    <3>2. Kept(fd, Tcp, c)
      BY <1>5, <2>1, <3>1 DEF TcpKept
    <3>3. QED
      BY <1>8, <3>1, <3>2 DEF Kept
  <2>2. QED
    BY <2>1 DEF TcpKept
<1>10. WebKept'
  <2>1. ASSUME NEW p \in Ptrs, NEW i \in Indices, IndexOf(p, i)'
        PROVE  Kept(i, Web, mg[p])'
    <3>1. PICK c : c = mg[p] /\ c = mg'[p]
      BY <1>5
    <3>2. Kept(i, Web, c)
      BY <1>5, <2>1, <3>1 DEF WebKept, IndexOf
    <3>3. QED
      BY <1>8, <3>1, <3>2 DEF Kept
  <2>2. ASSUME NEW i \in Indices, fid_ptr_mappint'[i] = NULL
        PROVE  ~ Sought(Web, i)' /\ \A v \in Uids : ~ Held(v, i, Web)'
    <3>1. ~ Sought(Web, i) /\ \A v \in Uids : ~ Held(v, i, Web)
      BY <1>5, <2>2 DEF WebKept
    <3>2. ~ (thread = Web /\ new.fid = i)
      BY <1>2, <1>3, <3>1 DEF Sought
    <3>3. QED
      BY <1>3, <1>4, <3>1, <3>2 DEF Sought, Held, Live, Is
  <2>3. QED
    BY <2>1, <2>2 DEF WebKept
<1>11. Placed'
  <2>2. \A v \in Uids : Live(v)' => Sits(playerArray[v])'
    <3>1. ASSUME NEW v \in Uids, Live(v)'
          PROVE  Sits(playerArray[v])'
      BY <1>3, <1>4, <1>5, <3>1 DEF Live, Placed, Sits
    <3>2. QED
      BY <3>1
  <2>3. \A other \in Threads : pending'[other] # NULL => Sits(pending[other].player)'
    BY <1>4, <1>5 DEF Placed, Sits
  <2>4. QED
    BY <1>5, <2>2, <2>3 DEF Placed
<1>12. ServedUnlessRaced'
  <2>1. ASSUME NEW d \in Connected', d \notin refused', d \notin raced'
        PROVE  \/ \E v \in Uids : Live(v)' /\ playerArray'[v].of = d
               \/ \E other \in Threads : /\ pending'[other] # NULL
                                         /\ pending'[other].player.of = d
    <3>1. d \in Connected \ (refused \cup raced)
      BY <1>5, <2>1 DEF Connected
    <3>2. CASE \E v \in Uids : Live(v) /\ playerArray[v].of = d
      BY <1>4, <1>5, <2>1, <3>2 DEF Live
    <3>3. CASE \E other \in Threads : pending[other] # NULL /\ pending[other].player.of = d
      BY <1>2, <1>3, <1>4, <3>3 DEF Live
    <3>4. QED
      BY <3>1, <3>2, <3>3 DEF ServedUnlessRaced
  <2>2. QED
    BY <2>1 DEF ServedUnlessRaced
<1>13. QED
  BY <1>6, <1>7, <1>9, <1>10, <1>11, <1>12

LEMMA HandshakeInv ==
  ASSUME IInv, NEW c \in WebClients, Handshake(c)
  PROVE  Known' /\ SlotsMatchDescriptors' /\ TcpKept' /\ WebKept' /\ Placed'
         /\ ServedUnlessRaced'
<1> USE DEF IInv
<1>1. Sane
  BY SaneLemma
<1>2. PICK p \in Ptrs :
        /\ mg[p] = NULL /\ mg' = [mg EXCEPT ![p] = c]
        /\ \/ /\ \E i \in Indices :
                   /\ IndexOf(NULL, i)
                   /\ fid_ptr_mappint' = [fid_ptr_mappint EXCEPT ![i] = p]
                   /\ \/ /\ \E uid \in Uids :
                              pending' = [pending EXCEPT ![Web] =
                                [uid |-> uid,
                                 player |-> [fid |-> i, connectionType |-> Web, of |-> c]]]
                         /\ UNCHANGED refused
                      \/ UNCHANGED pending /\ refused' = refused \cup {c}
           \/ UNCHANGED <<fid_ptr_mappint, pending>> /\ refused' = refused \cup {c}
  BY FindEffect DEF Handshake
<1>3. /\ up = TRUE /\ up' = up /\ pending[Web] = NULL /\ c \notin met /\ met' = met \cup {c}
      /\ UNCHANGED <<socket, g_events, playerArray, cut, raced>>
  BY DEF Handshake, Idle, TypeInv, TypeOK
<1>4. mg'[p] = c /\ \A q \in Ptrs \ {p} : mg'[q] = mg[q]
  BY <1>2 DEF TypeInv, TypeOK
\* Either an index is noted, and perhaps a slot is found, or the connection
\* is turned away.
<1>5. CASE UNCHANGED <<fid_ptr_mappint, pending>> /\ refused' = refused \cup {c}
  <2>1. Known'
    BY <1>3, <1>4, <1>5 DEF TypeInv, Known, Live
  <2>2. SlotsMatchDescriptors'
    BY <1>3, <1>5 DEF SlotsMatchDescriptors, Active
  <2>3. TcpKept'
    BY <1>3, <1>5 DEF TcpKept, Kept, Held, Sought, Live
  <2>4. \A i \in Indices, uid \in Uids : IndexOf(p, i) => ~ Held(uid, i, Web)
    BY <1>1, <1>2, <1>3 DEF WebKept, Kept, TypeInv, Known, Sane, Held
  <2>5. WebKept'
    BY <1>3, <1>4, <1>5, <2>4 DEF WebKept, Kept, Held, Sought, Live, IndexOf
  <2>6. Placed'
    <3>1. \A q, r \in Ptrs : mg'[q] = mg'[r] /\ mg'[q] # NULL => q = r
      BY <1>3, <1>4 DEF Placed, TypeInv, Known
    <3>2. \A uid \in Uids : Live(uid)' => Sits(playerArray[uid])'
      BY <1>3, <1>4, <1>5, SitsOn DEF Placed, TypeInv, Known, Live
    <3>3. \A thread \in Threads : pending'[thread] # NULL => Sits(pending[thread].player)'
      BY <1>3, <1>4, <1>5, SitsOn DEF Placed, TypeInv, Known
    <3>4. QED
      BY <1>3, <3>1, <3>2, <3>3 DEF Placed
  <2>7. ServedUnlessRaced'
    <3>1. \A d \in Clients : d \in Connected' => d = c \/ d \in Connected
      BY <1>3, <1>4 DEF Connected
    <3>2. QED
      BY <1>3, <1>5, <3>1 DEF ServedUnlessRaced, Live, Connected
  <2>8. QED
    BY <2>1, <2>2, <2>3, <2>5, <2>6, <2>7
<1>6. ASSUME NEW i \in Indices, IndexOf(NULL, i),
             fid_ptr_mappint' = [fid_ptr_mappint EXCEPT ![i] = p],
             /\ \/ pending'[Web] = NULL /\ refused' = refused \cup {c}
                \/ /\ pending'[Web] # NULL
                   /\ pending'[Web].player = [fid |-> i, connectionType |-> Web, of |-> c]
                   /\ UNCHANGED refused
             /\ pending'[Tcp] = pending[Tcp]
      PROVE  Known' /\ SlotsMatchDescriptors' /\ TcpKept' /\ WebKept' /\ Placed'
             /\ ServedUnlessRaced'
  <2>1. fid_ptr_mappint[i] = NULL /\ fid_ptr_mappint'[i] = p
        /\ \A j \in Indices \ {i} : fid_ptr_mappint'[j] = fid_ptr_mappint[j]
    BY <1>6 DEF IndexOf, TypeInv, TypeOK
  <2>2. Known'
    BY <1>3, <1>4, <1>6 DEF TypeInv, Known, Live
  <2>3. SlotsMatchDescriptors'
    BY <1>3, <1>6 DEF SlotsMatchDescriptors, Active
  <2>4. TcpKept'
    BY <1>3, <1>6 DEF TcpKept, Kept, Held, Sought, Live
  <2>5. \A uid \in Uids : ~ Held(uid, i, Web)
    BY <2>1 DEF WebKept
  <2>6. \A j \in Indices, uid \in Uids : IndexOf(p, j) => ~ Held(uid, j, Web)
    BY <1>1, <1>2, <1>3 DEF WebKept, Kept, TypeInv, Known, Sane, Held
  <2>7. \A uid \in Uids, j \in Indices : Held(uid, j, Web)' <=> Held(uid, j, Web)
    BY <1>3 DEF Held, Live
  <2>8. \A j \in Indices : Sought(Web, j)' => j = i /\ pending'[Web].player.of = c
    BY <1>6 DEF Sought
  <2>9. ASSUME NEW q \in Ptrs, NEW j \in Indices, IndexOf(q, j)'
        PROVE  Kept(j, Web, mg[q])'
    <3>1. CASE j = i
      <4>1. q = p
        BY <2>1, <2>9, <3>1 DEF IndexOf
      <4>2. QED
        BY <1>4, <2>5, <2>7, <2>8, <3>1, <4>1 DEF Kept
    <3>2. CASE j # i
      <4>1. IndexOf(q, j)
        BY <1>1, <2>1, <2>9, <3>2 DEF IndexOf, Sane
      <4>2. ~ Sought(Web, j)'
        BY <2>8, <3>2
      <4>3. CASE q = p
        BY <2>6, <2>7, <4>1, <4>2, <4>3 DEF Kept
      <4>4. CASE q # p
        BY <1>3, <1>4, <2>7, <4>1, <4>2, <4>4 DEF WebKept, Kept
      <4>5. QED
        BY <4>3, <4>4
    <3>3. QED
      BY <3>1, <3>2
  <2>10. ASSUME NEW j \in Indices, fid_ptr_mappint'[j] = NULL
         PROVE  ~ Sought(Web, j)' /\ \A uid \in Uids : ~ Held(uid, j, Web)'
    <3>1. j # i
      BY <1>1, <2>1, <2>10 DEF Sane
    <3>2. QED
      BY <2>1, <2>7, <2>8, <2>10, <3>1 DEF WebKept
  <2>11. WebKept'
    BY <2>9, <2>10 DEF WebKept
  <2>12. Placed'
    <3>1. \A q, r \in Ptrs : mg'[q] = mg'[r] /\ mg'[q] # NULL => q = r
      BY <1>3, <1>4 DEF Placed, TypeInv, Known
    <3>2. \A uid \in Uids : Live(uid)' => Sits(playerArray[uid])'
      BY <1>3, <1>4, <2>1, SitsOn DEF Placed, TypeInv, Known, Live
    <3>3. ASSUME NEW thread \in Threads, pending'[thread] # NULL
          PROVE  Sits(pending[thread].player)'
      <4>1. CASE thread = Tcp
        BY <1>3, <1>4, <1>6, <2>1, <3>3, <4>1, SitsOn DEF Placed, TypeInv, Known
      <4>2. CASE thread = Web
        <5>1. pending'[Web].player = [fid |-> i, connectionType |-> Web, of |-> c]
          BY <1>6, <3>3, <4>2
        <5>2. \A q \in Ptrs : mg'[q] = c => fid_ptr_mappint'[i] = q
          BY <1>1, <1>3, <1>4, <2>1 DEF TypeInv, Known, Sane
        <5>3. QED
          BY <4>2, <5>1, <5>2 DEF Sits
      <4>3. QED
        BY <4>1, <4>2
    <3>4. QED
      BY <1>3, <3>1, <3>2, <3>3 DEF Placed
  <2>13. ServedUnlessRaced'
    <3>1. ASSUME NEW d \in Connected', d \notin refused', d \notin raced'
          PROVE  \/ \E uid \in Uids : Live(uid)' /\ playerArray'[uid].of = d
                 \/ \E thread \in Threads : /\ pending'[thread] # NULL
                                            /\ pending'[thread].player.of = d
      <4>1. CASE d = c
        BY <1>6, <3>1, <4>1
      <4>2. CASE d # c
        <5>1. d \in Connected \ (refused \cup raced)
          BY <1>3, <1>4, <1>6, <3>1, <4>2 DEF Connected
        <5>2. \/ \E uid \in Uids : Live(uid) /\ playerArray[uid].of = d
              \/ pending[Tcp] # NULL /\ pending[Tcp].player.of = d
          BY <1>3, <5>1 DEF ServedUnlessRaced
        <5>3. QED
          BY <1>3, <1>6, <5>2 DEF Live
      <4>3. QED
        BY <4>1, <4>2
    <3>2. QED
      BY <3>1 DEF ServedUnlessRaced
  <2>14. QED
    BY <2>2, <2>3, <2>4, <2>11, <2>12, <2>13
<1>7. ASSUME NEW i \in Indices,
             \/ /\ \E uid \in Uids :
                     pending' = [pending EXCEPT ![Web] =
                       [uid |-> uid,
                        player |-> [fid |-> i, connectionType |-> Web, of |-> c]]]
                /\ UNCHANGED refused
             \/ UNCHANGED pending /\ refused' = refused \cup {c}
      PROVE  /\ \/ pending'[Web] = NULL /\ refused' = refused \cup {c}
                \/ /\ pending'[Web] # NULL
                   /\ pending'[Web].player = [fid |-> i, connectionType |-> Web, of |-> c]
                   /\ UNCHANGED refused
             /\ pending'[Tcp] = pending[Tcp]
  <2> DEFINE player == [fid |-> i, connectionType |-> Web, of |-> c]
  <2>1. \A uid \in Uids : [uid |-> uid, player |-> player] # NULL
    BY <1>1 DEF Sane, Search, Player
  <2>2. CASE UNCHANGED pending /\ refused' = refused \cup {c}
    BY <1>3, <2>2
  <2>3. CASE /\ \E uid \in Uids :
                  pending' = [pending EXCEPT ![Web] = [uid |-> uid, player |-> player]]
             /\ UNCHANGED refused
    <3>1. PICK uid \in Uids :
            pending' = [pending EXCEPT ![Web] = [uid |-> uid, player |-> player]]
      BY <2>3
    <3>2. /\ pending'[Tcp] = pending[Tcp]
          /\ pending'[Web] = [uid |-> uid, player |-> player]
      BY <3>1 DEF TypeInv, TypeOK
    <3>3. QED
      BY <2>1, <2>3, <3>2
  <2>4. QED
    BY <1>7, <2>2, <2>3
<1>8. QED
  BY <1>2, <1>5, <1>6, <1>7

LEMMA CloseWebInv ==
  ASSUME IInv, NEW c \in WebClients, CloseWeb(c)
  PROVE  Known' /\ SlotsMatchDescriptors' /\ TcpKept' /\ WebKept' /\ Placed'
         /\ ServedUnlessRaced'
<1> USE DEF IInv
<1>1. Sane
  BY SaneLemma
<1>2. PICK p \in Ptrs :
        /\ mg[p] = c /\ mg' = [mg EXCEPT ![p] = NULL] /\ pending[Web] = NULL
        /\ \/ \E i \in Indices : IndexOf(p, i) /\ CloseConnection(i, Web)
           \/ /\ \A i \in Indices : fid_ptr_mappint[i] # p
              /\ UNCHANGED <<up, playerArray>>
        /\ UNCHANGED <<socket, g_events, checkpos, fid_ptr_mappint, pending, history>>
  BY DEF CloseWeb, Idle
<1>3. mg'[p] = NULL /\ \A q \in Ptrs \ {p} : mg'[q] = mg[q]
  BY <1>2 DEF TypeInv, TypeOK
<1>4. SlotsMatchDescriptors'
  BY <1>2 DEF SlotsMatchDescriptors, Active
<1>5. ASSUME UNCHANGED playerArray, up' = up \/ up' = FALSE,
             \/ up' = FALSE
             \/ \A i \in Indices, uid \in Uids : IndexOf(p, i) => ~ Held(uid, i, Web)
      PROVE  Known' /\ TcpKept' /\ WebKept' /\ Placed' /\ ServedUnlessRaced'
  <2>1. Known' /\ Placed' /\ ServedUnlessRaced'
    BY <1>2, <1>3, <1>5, GoneInv
  <2>2. TcpKept'
    BY <1>2, <1>5 DEF TcpKept, Kept, Held, Sought, Live
  <2>3. WebKept'
    BY <1>2, <1>3, <1>5 DEF WebKept, Kept, Held, Sought, Live, IndexOf
  <2>4. QED
    BY <2>1, <2>2, <2>3
<1>6. ASSUME NEW i \in Indices, IndexOf(p, i), NEW uid \in Uids, Held(uid, i, Web),
             playerArray' = [playerArray EXCEPT ![uid] = NULL], UNCHANGED up
      PROVE  Known' /\ TcpKept' /\ WebKept' /\ Placed' /\ ServedUnlessRaced'
  <2>1. /\ playerArray'[uid] = NULL
        /\ \A v \in Uids \ {uid} : playerArray'[v] = playerArray[v]
    BY <1>6 DEF TypeInv, TypeOK
  <2>2. playerArray[uid].of \notin Connected'
    <3>1. /\ playerArray[uid].connectionType = Web /\ playerArray[uid].fid = i
          /\ Sits(playerArray[uid])
      BY <1>6 DEF Held, Is, Placed
    <3>2. /\ playerArray[uid].of \in WebClients
          /\ \A q \in Ptrs : mg[q] = playerArray[uid].of => q = p
      BY <1>6, <3>1 DEF Sits, IndexOf
    <3>3. \A q \in Ptrs : mg'[q] # playerArray[uid].of
      BY <1>1, <1>3, <3>2 DEF Sane
    <3>4. \A e \in Fds : socket'[e] # playerArray[uid].of
      BY <1>1, <1>2, <3>2 DEF Sane
    <3>5. QED
      BY <3>3, <3>4 DEF Connected
  <2>3. Known' /\ Placed' /\ ServedUnlessRaced'
    BY <1>2, <1>3, <1>6, <2>1, <2>2, GoneInv DEF Held
  <2>4. \A f, type : \A v \in Uids : Held(v, f, type)' => Held(v, f, type) /\ v # uid
    BY <2>1 DEF Held, Live
  <2>5. TcpKept'
    <3>1. \A fd \in Fds, v \in Uids : Held(v, fd, Tcp)' => Held(v, fd, Tcp) /\ v # uid
      BY <2>4
    <3>2. UNCHANGED <<cut, socket, pending>>
      BY <1>2
    <3>3. \A v \in Uids : v # uid => playerArray'[v] = playerArray[v]
      BY <2>1
    <3>4. QED
      BY <1>6, <3>1, <3>2, <3>3 DEF TcpKept, Kept, Sought
  <2>6. \A v \in Uids : ~ Held(v, i, Web)'
    BY <1>6, <2>4 DEF WebKept, Kept
  <2>7. ASSUME NEW q \in Ptrs, NEW j \in Indices, IndexOf(q, j)'
        PROVE  Kept(j, Web, mg[q])'
    <3>1. IndexOf(q, j) /\ ~ Sought(Web, j)'
      BY <1>2, <2>7 DEF IndexOf, Sought
    <3>2. CASE q = p
      <4>1. j = i
        BY <1>6, <3>1, <3>2 DEF IndexOf, Indices
      <4>2. QED
        BY <2>6, <3>1, <4>1 DEF Kept
    <3>3. CASE q # p
      BY <1>3, <1>6, <2>1, <2>4, <3>1, <3>3 DEF WebKept, Kept
    <3>4. QED
      BY <3>2, <3>3
  <2>8. WebKept'
    BY <1>2, <2>4, <2>7 DEF WebKept, Sought
  <2>9. QED
    BY <2>3, <2>5, <2>8
<1>7. CASE /\ \A i \in Indices : fid_ptr_mappint[i] # p
           /\ UNCHANGED <<up, playerArray>>
  BY <1>4, <1>5, <1>7 DEF IndexOf
<1>8. ASSUME NEW i \in Indices, IndexOf(p, i), CloseConnection(i, Web)
      PROVE  Known' /\ TcpKept' /\ WebKept' /\ Placed' /\ ServedUnlessRaced'
  <2>1. CASE \E uid \in Uids :
               /\ Held(uid, i, Web)
               /\ playerArray' = [playerArray EXCEPT ![uid] = NULL]
               /\ UNCHANGED up
    BY <1>6, <1>8, <2>1
  <2>2. CASE /\ \A uid \in Uids : ~ Held(uid, i, Web)
             /\ UNCHANGED <<up, playerArray>>
    <3>1. \A j \in Indices : IndexOf(p, j) => j = i
      BY <1>8 DEF IndexOf, Indices
    <3>2. QED
      BY <1>5, <2>2, <3>1
  <2>3. CASE up' = FALSE /\ UNCHANGED playerArray
    BY <1>5, <2>3
  <2>4. QED
    BY <1>8, <2>1, <2>2, <2>3, CloseEffect DEF Held
<1>9. QED
  BY <1>2, <1>4, <1>7, <1>8

LEMMA NextInv == IInv /\ [Next]_vars => IInv'
<1> SUFFICES ASSUME IInv, [Next]_vars
             PROVE  IInv'
  OBVIOUS
<1>1. TypeOK'
  BY NextTypes DEF IInv
<1>2. ASSUME NEW c \in TcpClients, TcpStep(c)
      PROVE  IInv'
  <2>1. CASE ReceiveStumbles(c)
    BY <1>1, <2>1, StutterInv DEF ReceiveStumbles, Crash, IInv, TypeInv
  <2>2. CASE ReceiveData(c)
    <3>1. \A t \in Slots : /\ g_events'[t].status = g_events[t].status
                           /\ g_events'[t].fd = g_events[t].fd
      BY <2>2 DEF ReceiveData, IInv, TypeInv, TypeOK, Event
    <3>2. QED
      BY <1>1, <2>2, <3>1, StutterInv DEF ReceiveData, IInv, TypeInv
  <2>3. QED
    BY <1>1, <1>2, <2>1, <2>2, AcceptInv, ReceiveEndInv, ReceiveErrorInv DEF TcpStep, IInv, TypeInv
<1>3. ASSUME NEW c \in WebClients, WebStep(c)
      PROVE  IInv'
  <2>1. CASE FrameStumbles(c)
    BY <1>1, <2>1, StutterInv DEF FrameStumbles, Crash, IInv, TypeInv
  <2>2. QED
    BY <1>1, <1>3, <2>1, HandshakeInv, CloseWebInv DEF WebStep, IInv, TypeInv
<1>4. ASSUME NEW s \in Slots, GrowOld(s) \/ FallSilent(s)
      PROVE  IInv'
  <2>1. \A t \in Slots : /\ g_events'[t].status = g_events[t].status
                         /\ g_events'[t].fd = g_events[t].fd
    BY <1>4 DEF GrowOld, FallSilent, IInv, TypeInv, TypeOK, Event
  <2>2. QED
    BY <1>1, <1>4, <2>1, StutterInv DEF GrowOld, FallSilent, IInv, TypeInv
<1>5. CASE IdleScan
  BY <1>1, <1>5, IdleScanInv DEF IInv, TypeInv
<1>6. ASSUME NEW thread \in Threads, FillSlot(thread)
      PROVE  IInv'
  BY <1>1, <1>6, FillSlotInv DEF IInv, TypeInv
<1>7. CASE UNCHANGED vars
  BY <1>1, <1>7, StutterInv DEF IInv, TypeInv
<1>8. QED
  BY <1>2, <1>3, <1>4, <1>5, <1>6, <1>7 DEF Next

LEMMA Invariance == Spec => []IInv
BY InitInv, NextInv, PTL DEF Spec

-----------------------------------------------------------------------------

\* The tables keep their types, and checkpos stays inside g_events.
THEOREM TypeCorrect == Spec => []TypeOK
<1>1. IInv => TypeOK
  BY DEF IInv, TypeInv
<1>2. QED
  BY <1>1, Invariance, PTL

\* The event slots and the kernel's descriptors agree, however connections
\* end: also after an error or the idle scan no slot is left active.
THEOREM SlotsAgree == Spec => []SlotsMatchDescriptors
<1>1. IInv => SlotsMatchDescriptors
  BY DEF IInv
<1>2. QED
  BY <1>1, Invariance, PTL

\* A TCP client is heard as itself, unless its descriptor was once closed
\* behind GameHandler's back or is the index of a web socket.
THEOREM TcpHeardRight == Spec => []HeardAsItself
<1>1. IInv => HeardAsItself
  <2> SUFFICES ASSUME IInv, NEW s \in Slots, NEW uid \in Uids, Active(s),
                      Hears(g_events[s].fd, uid), cut[g_events[s].fd] = 0,
                      playerArray[uid].connectionType # Web
               PROVE  playerArray[uid].of = socket[g_events[s].fd]
    <3>1. IInv => \A fd \in Fds : cut[fd] \in Nat
      BY DEF IInv, TypeInv, TypeOK
    <3>2. IInv => \A s \in Slots : Active(s) => g_events[s].fd \in Fds
      BY DEF IInv, TypeInv, TypeOK, SlotsMatchDescriptors, Event
    <3>3. QED
      BY <3>1, <3>2 DEF HeardAsItself
  <2>1. PICK fd \in Fds : fd = g_events[s].fd /\ socket[fd] # NULL
    BY DEF IInv, TypeInv, TypeOK, SlotsMatchDescriptors, Event
  <2>2. Live(uid) /\ playerArray[uid].fid = fd
    BY <2>1 DEF Hears, Finds
  <2>3. playerArray[uid].connectionType \in Threads
    BY <2>2, SaneLemma DEF IInv, Sane, Player
  <2>4. Held(uid, fd, Tcp)
    BY <2>2, <2>3 DEF Held, Is
  <2>5. QED
    BY <2>1, <2>4 DEF IInv, TcpKept, Kept
<1>2. QED
  BY <1>1, Invariance, PTL

\* A web client is heard as itself or not at all, although indices are never
\* cleared and an old one may be found for a new connection.
THEOREM WebHeardRight == Spec => []WebHeardAsItself
<1>1. IInv => WebHeardAsItself
  <2> SUFFICES ASSUME IInv, NEW p \in Ptrs, NEW uid \in Uids, mg[p] # NULL,
                      HearsFrame(p, uid)
               PROVE  playerArray[uid].of = mg[p]
    BY DEF WebHeardAsItself
  <2>1. PICK i \in Indices : IndexOf(p, i) /\ Held(uid, i, Web)
    BY DEF HearsFrame, Finds, Held
  <2>2. QED
    BY <2>1 DEF IInv, WebKept, Kept
<1>2. QED
  BY <1>1, Invariance, PTL

\* Nobody who is connected loses his Player to the departure of another: who
\* has none was turned away at a full table or overwritten in a race.
THEOREM EverybodyServed == Spec => []ServedUnlessRaced
<1>1. IInv => ServedUnlessRaced
  BY DEF IInv
<1>2. QED
  BY <1>1, Invariance, PTL
=============================================================================
