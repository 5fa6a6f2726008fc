------------------------------ MODULE Sockets ------------------------------
(***************************************************************************)
(* Connections on both network threads: the event slots of SocketHandler,  *)
(* the descriptors the kernel gives out again once they are closed, the    *)
(* index table of WebServer, and the Players GameHandler keeps for them.   *)
(*                                                                         *)
(* A Player stands for the connection it was made for (field of, which the *)
(* code does not have); the code finds it by number: a descriptor for TCP, *)
(* an index of fid_ptr_mappint for a web socket.  What a command does      *)
(* once its Player is found is the business of Rooms and Day.              *)
(*                                                                         *)
(* Atomicity.  A handler is one step, except that newConnection looks for  *)
(* a free slot in one step and fills it in another: the epoll thread and   *)
(* the web server's thread both run it, without a lock.  Each thread       *)
(* finishes one handler before it begins the next.  The arrays start       *)
(* zeroed, as the pages of a fresh process are.                            *)
(***************************************************************************)
EXTENDS Integers, FiniteSets

CONSTANTS
  TcpClients,    \* TCP connections that clients make, each once
  WebClients,    \* web socket connections, each made once
  Fds,           \* descriptors the kernel may choose from
  Ptrs,          \* addresses at which mongoose may put a connection
  MAX_EVENTS,    \* slots of g_events (without the listening socket's)
  MAX_PLAYERS,
  MAX_CONNECTION_WEBSOCKET,
  ScanLength,    \* slots the idle scan visits in one pass of the event loop
  NULL

VARIABLES
  up,               \* the process has not crashed
  met,              \* connections made so far
  socket,           \* the kernel: which connection a descriptor stands for
  g_events,         \* SocketHandler::g_events
  checkpos,         \* where the next idle scan begins
  mg,               \* mongoose: which connection is at an address
  fid_ptr_mappint,  \* WebServer::fid_ptr_mappint
  playerArray,      \* GameHandler::playerArray
  pending,          \* newConnection, between its search and its assignment
  cut,              \* history: how often a descriptor was closed without closeConnection
  refused,          \* history: found a full table
  raced             \* history: lost its slot to the other thread

tables   == <<socket, g_events, checkpos, mg, fid_ptr_mappint, playerArray, pending>>
history  == <<met, cut, refused, raced>>
vars     == <<up, tables, history>>

Clients == TcpClients \cup WebClients
Slots   == 0 .. MAX_EVENTS - 1
Uids    == 0 .. MAX_PLAYERS - 1
Indices == 0 .. MAX_CONNECTION_WEBSOCKET - 1
Tcp == 1
Web == 2
Threads == {Tcp, Web}

\* old: 900 seconds have passed since last_active was set.  silent is history:
\* 0, or 1 and the number of passes of the scan, once nothing has been received
\* for 900 seconds.
Event  == [fd : Fds \cup {NULL}, status : {0, 1}, old : BOOLEAN, silent : Nat]
Player == [fid : Fds \cup Indices, connectionType : Threads, of : Clients]
Search == [uid : Uids, player : Player]

ASSUME SocketsAssumption ==
  /\ TcpClients \cap WebClients = {}
  /\ Fds \subseteq Nat
  /\ MAX_EVENTS \in Nat \ {0}
  /\ MAX_PLAYERS \in Nat \ {0}
  /\ MAX_CONNECTION_WEBSOCKET \in Nat \ {0}
  /\ ScanLength \in Nat \ {0}
  /\ NULL \notin Fds \cup Ptrs \cup Clients \cup Player \cup Search

Live(uid) == playerArray[uid] # NULL

\* A search of the table stops at the first Player that Matches(_), and
\* dies of an empty slot before it.
Reaches(Matches(_), uid) ==
  \A v \in Uids : v < uid => Live(v) /\ ~ Matches(playerArray[v])
Finds(Matches(_), uid) == Reaches(Matches, uid) /\ Live(uid) /\ Matches(playerArray[uid])
Stumbles(Matches(_))   == \E uid \in Uids : Reaches(Matches, uid) /\ ~ Live(uid)
Misses(Matches(_))     == \A uid \in Uids : Live(uid) /\ ~ Matches(playerArray[uid])

Crash == up' = FALSE /\ UNCHANGED <<tables, history>>

-----------------------------------------------------------------------------
(* GameHandler::newConnection and closeConnection, called by both threads. *)

\* Each thread runs one handler at a time.
Idle(thread) == up /\ pending[thread] = NULL

\* The search for a free slot.  With none, the connection has no Player.
FindUnused(thread, fid, c) ==
  LET player == [fid |-> fid, connectionType |-> thread, of |-> c] IN
  \/ \E uid \in Uids :
       /\ ~ Live(uid)
       /\ \A v \in Uids : v < uid => Live(v)
       /\ pending' = [pending EXCEPT ![thread] = [uid |-> uid, player |-> player]]
       /\ UNCHANGED refused
  \/ /\ \A uid \in Uids : Live(uid)
     /\ refused' = refused \cup {c}
     /\ UNCHANGED pending

\* The slot is filled, whatever it holds by now.
FillSlot(thread) ==
  /\ up /\ pending[thread] # NULL
  /\ LET uid == pending[thread].uid IN
     /\ playerArray' = [playerArray EXCEPT ![uid] = pending[thread].player]
     /\ raced' = IF Live(uid) THEN raced \cup {playerArray[uid].of} ELSE raced
  /\ pending' = [pending EXCEPT ![thread] = NULL]
  /\ UNCHANGED <<up, socket, g_events, checkpos, mg, fid_ptr_mappint, met, cut, refused>>

\* Mutant: the kind of connection is not compared.
IsFidOnly(fid, type, p) == p.fid = fid

Is(fid, type, p) == p.fid = fid /\ p.connectionType = type

\* Mutant: the Player stays.
CloseNothing(fid, type) == UNCHANGED <<up, playerArray>>

CloseConnection(fid, type) ==
  LET Matches(p) == Is(fid, type, p) IN
  \/ \E uid \in Uids :
       /\ Finds(Matches, uid)
       /\ playerArray' = [playerArray EXCEPT ![uid] = NULL]
       /\ UNCHANGED up
  \/ Misses(Matches)   /\ UNCHANGED <<up, playerArray>>
  \/ Stumbles(Matches) /\ up' = FALSE /\ UNCHANGED playerArray

-----------------------------------------------------------------------------
(* The epoll thread: SocketHandler.                                        *)

Active(s) == g_events[s].status = 1
ReadyOn(c, s) == Active(s) /\ g_events[s].fd # NULL /\ socket[g_events[s].fd] = c

\* acceptconn takes the first slot that is not active.  With none, the
\* connection is neither watched nor closed.
Accept(c) ==
  /\ Idle(Tcp) /\ c \notin met
  /\ met' = met \cup {c}
  /\ \E fd \in Fds :
       /\ socket[fd] = NULL
       /\ socket' = [socket EXCEPT ![fd] = c]
       /\ \/ \E s \in Slots :
               /\ ~ Active(s)
               /\ \A t \in Slots : t < s => Active(t)
               /\ g_events' = [g_events EXCEPT
                                 ![s] = [fd |-> fd, status |-> 1, old |-> FALSE, silent |-> 0]]
               /\ FindUnused(Tcp, fd, c)
          \/ /\ \A s \in Slots : Active(s)
             /\ refused' = refused \cup {c}
             /\ UNCHANGED <<g_events, pending>>
  /\ UNCHANGED <<up, checkpos, mg, fid_ptr_mappint, playerArray, cut, raced>>

\* Mutant: the slot is not given up.
KeepSlot(s) == g_events

\* eventdel.  The entry keeps its descriptor.
EventDel(s) == [g_events EXCEPT ![s].status = 0]

\* recvdata, the client has closed.
ReceiveEnd(c) ==
  \E s \in Slots :
    /\ Idle(Tcp) /\ ReadyOn(c, s)
    /\ socket' = [socket EXCEPT ![g_events[s].fd] = NULL]
    /\ g_events' = EventDel(s)
    /\ CloseConnection(g_events[s].fd, Tcp)
    /\ UNCHANGED <<checkpos, mg, fid_ptr_mappint, pending, history>>

\* recvdata, an error: GameHandler is not told.
ReceiveError(c) ==
  \E s \in Slots :
    /\ Idle(Tcp) /\ ReadyOn(c, s)
    /\ socket' = [socket EXCEPT ![g_events[s].fd] = NULL]
    /\ g_events' = EventDel(s)
    /\ cut' = [cut EXCEPT ![g_events[s].fd] = @ + 1]
    /\ UNCHANGED <<up, checkpos, mg, fid_ptr_mappint, playerArray, pending, met, refused, raced>>

\* recvSocket looks for the descriptor and not for the kind of connection.
Hears(fd, uid) == LET Matches(p) == p.fid = fd IN Finds(Matches, uid)

\* recvdata with data: last_active stays as it is.
ReceiveData(c) ==
  \E s \in Slots :
    LET Matches(p) == p.fid = g_events[s].fd IN
    /\ Idle(Tcp) /\ ReadyOn(c, s)
    /\ ~ Stumbles(Matches)
    /\ g_events' = [g_events EXCEPT ![s].silent = 0]
    /\ UNCHANGED <<up, socket, checkpos, mg, fid_ptr_mappint, playerArray, pending, history>>

\* The same, when the search for the sender meets an empty slot.
ReceiveStumbles(c) ==
  \E s \in Slots :
    LET Matches(p) == p.fid = g_events[s].fd IN
    /\ Idle(Tcp) /\ ReadyOn(c, s)
    /\ Stumbles(Matches)
    /\ Crash

\* The clock: last_active, which only accepting sets, is 900 seconds ago; and
\* nothing has been received for that long.
GrowOld(s) ==
  /\ up /\ Active(s) /\ ~ g_events[s].old
  /\ g_events' = [g_events EXCEPT ![s].old = TRUE]
  /\ UNCHANGED <<up, socket, checkpos, mg, fid_ptr_mappint, playerArray, pending, history>>

FallSilent(s) ==
  /\ up /\ Active(s) /\ g_events[s].old /\ g_events[s].silent = 0
  /\ g_events' = [g_events EXCEPT ![s].silent = 1]
  /\ UNCHANGED <<up, socket, checkpos, mg, fid_ptr_mappint, playerArray, pending, history>>

Visited == {(checkpos + k) % MAX_EVENTS : k \in 0 .. ScanLength - 1}

\* Mutants: every pass begins at slot 0; checkpos wraps one slot too late.
FromStart   == 0
WrapTooLate == 1 + ((checkpos + ScanLength - 1) % (MAX_EVENTS + 1))

\* checkpos is set back to 0 before it is used: between two passes it may be
\* MAX_EVENTS.
NextCheckpos == 1 + ((checkpos + ScanLength - 1) % MAX_EVENTS)

\* The idle scan of one pass of the event loop.  GameHandler is not told.
IdleScan ==
  LET due  == {s \in Visited : Active(s) /\ g_events[s].old}
      shut == {g_events[s].fd : s \in due} IN
  /\ Idle(Tcp)
  /\ socket' = [fd \in Fds |-> IF fd \in shut THEN NULL ELSE socket[fd]]
  /\ g_events' = [s \in Slots |->
                    IF s \in due THEN [g_events[s] EXCEPT !.status = 0]
                    ELSE IF Active(s) /\ g_events[s].silent > 0
                    THEN [g_events[s] EXCEPT !.silent = @ + 1]
                    ELSE g_events[s]]
  /\ cut' = [fd \in Fds |-> IF fd \in shut THEN cut[fd] + 1 ELSE cut[fd]]
  /\ checkpos' = NextCheckpos
  /\ UNCHANGED <<up, mg, fid_ptr_mappint, playerArray, pending, met, refused, raced>>

-----------------------------------------------------------------------------
(* The web server's thread: WebServer::ev_handler_func_ws.                 *)

\* The first index at which the address is noted.
IndexOf(p, i) == /\ fid_ptr_mappint[i] = p
                 /\ \A j \in Indices : j < i => fid_ptr_mappint[j] # p

\* Without a free index the connection is open and has no Player.
Handshake(c) ==
  /\ Idle(Web) /\ c \notin met
  /\ met' = met \cup {c}
  /\ \E p \in Ptrs :
       /\ mg[p] = NULL
       /\ mg' = [mg EXCEPT ![p] = c]
       /\ \/ \E i \in Indices :
               /\ IndexOf(NULL, i)
               /\ fid_ptr_mappint' = [fid_ptr_mappint EXCEPT ![i] = p]
               /\ FindUnused(Web, i, c)
          \/ /\ \A i \in Indices : fid_ptr_mappint[i] # NULL
             /\ refused' = refused \cup {c}
             /\ UNCHANGED <<fid_ptr_mappint, pending>>
  /\ UNCHANGED <<up, socket, g_events, checkpos, playerArray, cut, raced>>

\* Whose Player a frame from address p is attributed to.
HearsFrame(p, uid) ==
  \E i \in Indices : /\ IndexOf(p, i)
                     /\ LET Matches(q) == Is(i, Web, q) IN Finds(Matches, uid)

\* A frame whose sender has no Player.  The search meets an empty slot or,
\* since it goes on to MAX_CONNECTION_WEBSOCKET, leaves the table.  (Behind
\* the table the frame may also be dropped; then nothing happens.)
FrameStumbles(c) ==
  \E p \in Ptrs, i \in Indices :
    LET Matches(q) == Is(i, Web, q) IN
    /\ Idle(Web) /\ mg[p] = c /\ IndexOf(p, i)
    /\ Stumbles(Matches) \/ Misses(Matches)
    /\ Crash

\* MG_EV_CLOSE.  The index stays taken; mongoose frees the address.
CloseWeb(c) ==
  \E p \in Ptrs :
    /\ Idle(Web) /\ mg[p] = c
    /\ mg' = [mg EXCEPT ![p] = NULL]
    /\ \/ \E i \in Indices : IndexOf(p, i) /\ CloseConnection(i, Web)
       \/ /\ \A i \in Indices : fid_ptr_mappint[i] # p
          /\ UNCHANGED <<up, playerArray>>
    /\ UNCHANGED <<socket, g_events, checkpos, fid_ptr_mappint, pending, history>>

-----------------------------------------------------------------------------

Init ==
  /\ up = TRUE
  /\ met = {} /\ cut = [fd \in Fds |-> 0] /\ refused = {} /\ raced = {}
  /\ socket = [fd \in Fds |-> NULL]
  /\ g_events = [s \in Slots |-> [fd |-> NULL, status |-> 0, old |-> FALSE, silent |-> 0]]
  /\ checkpos = 0
  /\ mg = [p \in Ptrs |-> NULL]
  /\ fid_ptr_mappint = [i \in Indices |-> NULL]
  /\ playerArray = [uid \in Uids |-> NULL]
  /\ pending = [thread \in Threads |-> NULL]

TcpStep(c) == Accept(c) \/ ReceiveEnd(c) \/ ReceiveError(c) \/ ReceiveData(c)
              \/ ReceiveStumbles(c)
WebStep(c) == Handshake(c) \/ FrameStumbles(c) \/ CloseWeb(c)

Next == \/ \E c \in TcpClients : TcpStep(c)
        \/ \E c \in WebClients : WebStep(c)
        \/ \E s \in Slots : GrowOld(s) \/ FallSilent(s)
        \/ IdleScan
        \/ \E thread \in Threads : FillSlot(thread)

Spec == Init /\ [][Next]_vars

-----------------------------------------------------------------------------
(* Properties.                                                             *)

\* Every variable keeps its type; checkpos and the slots searches find stay
\* inside their arrays.
TypeOK ==
  /\ up \in BOOLEAN
  /\ met \subseteq Clients /\ cut \in [Fds -> Nat] /\ refused \subseteq met /\ raced \subseteq met
  /\ socket \in [Fds -> TcpClients \cup {NULL}]
  /\ g_events \in [Slots -> Event]
  /\ checkpos \in 0 .. MAX_EVENTS
  /\ mg \in [Ptrs -> WebClients \cup {NULL}]
  /\ fid_ptr_mappint \in [Indices -> Ptrs \cup {NULL}]
  /\ playerArray \in [Uids -> Player \cup {NULL}]
  /\ pending \in [Threads -> Search \cup {NULL}]

\* The event loop and the kernel agree: an active slot has a descriptor that
\* is open, no descriptor has two slots, and an open one without a slot was
\* accepted when all were taken.  Descriptors come back at once, so a slot
\* left active after a close would take the next client's events.
SlotsMatchDescriptors ==
  /\ \A s \in Slots : Active(s) => g_events[s].fd # NULL /\ socket[g_events[s].fd] # NULL
  /\ \A s, t \in Slots : Active(s) /\ Active(t) /\ s # t => g_events[s].fd # g_events[t].fd
  /\ \A fd \in Fds : socket[fd] \in Clients \ refused
                       => \E s \in Slots : Active(s) /\ g_events[s].fd = fd

\* What a TCP client sends is attributed to its own Player, except in two
\* cases: its descriptor was once closed by the idle scan or after an error,
\* so that a Player nobody deleted may still answer to it, or a web socket's
\* index is the same number.  Nothing else goes wrong, in particular no race.
HeardAsItself ==
  \A s \in Slots, uid \in Uids :
    Active(s) /\ Hears(g_events[s].fd, uid) =>
      \/ playerArray[uid].of = socket[g_events[s].fd]
      \/ cut[g_events[s].fd] > 0
      \/ playerArray[uid].connectionType = Web

\* What a web client sends is attributed to its own Player or to none, even
\* when its connection has the address of an earlier one, whose index was
\* never cleared and is found first.
WebHeardAsItself ==
  \A p \in Ptrs, uid \in Uids :
    mg[p] # NULL /\ HearsFrame(p, uid) => playerArray[uid].of = mg[p]

\* Players of TCP connections that are gone, and keep their slot for ever:
\* for each descriptor at most one for each time it was closed behind
\* GameHandler's back, although closeConnection, looking for the descriptor,
\* may delete an older Player instead of the right one.
OrphansAt(fd) == {uid \in Uids : /\ Live(uid)
                                 /\ playerArray[uid].connectionType = Tcp
                                 /\ playerArray[uid].fid = fd
                                 /\ playerArray[uid].of # socket[fd]}
OrphansWereCut ==
  up => \A fd \in Fds : Cardinality(OrphansAt(fd)) <= cut[fd]

\* A connection that is open and was not turned away at a full table has a
\* Player (or is about to get one), unless the other thread took its slot:
\* nobody else's departure, of whatever kind, takes it away.
Connected == {c \in Clients : \/ \E fd \in Fds : socket[fd] = c
                              \/ \E p \in Ptrs : mg[p] = c}
ServedUnlessRaced ==
  \A c \in Connected \ (refused \cup raced) :
    \/ \E uid \in Uids : Live(uid) /\ playerArray[uid].of = c
    \/ \E thread \in Threads : pending[thread] # NULL /\ pending[thread].player.of = c

\* A client from which nothing has come for 900 seconds is closed before the
\* passes of the scan that spared it could have gone once round the slots,
\* although a pass may end in the middle of the table and checkpos stays there.
\* (The comment at SocketHandler.cpp:215 says 60 seconds.  It also says that
\* the others stay open; the code counts from the accept and closes them too.)
SilentIsClosed ==
  \A s \in Slots : Active(s) /\ g_events[s].silent > 0
                   => (g_events[s].silent - 1) * ScanLength < MAX_EVENTS

-----------------------------------------------------------------------------
(* What comments of the code promise and the code breaks.                  *)

\* botc.cpp:23: SocketHandler obtains the uid of the sender of the data.
SenderIsFound ==
  \A s \in Slots, uid \in Uids :
    Active(s) /\ Hears(g_events[s].fd, uid)
      => playerArray[uid].of = socket[g_events[s].fd]

=============================================================================
