-------------------------- MODULE MembershipProofs --------------------------
(* Proofs about Rooms, continued from RoomsProofs: that seats and Players  *)
(* agree as long as the tables are not tangled, that the server survives   *)
(* while nobody leaves, and that Rooms implements Membership, for every    *)
(* number of connections, players, rooms and seats.                        *)
EXTENDS RoomsProofs, FiniteSetTheorems

-----------------------------------------------------------------------------
(* The invariant.  The two properties need each other: closeConnection     *)
(* wipes the seat that a Player's pid names, whoever sits there, and       *)
(* playerJoin takes the first empty seat, whatever playerNum says.  The    *)
(* sweep after a round starts without a gap, because findPlayerByCharacter *)
(* has just dereferenced every pid, and leaving while it runs tangles the  *)
(* tables.  What a network thread has found is still true when it writes,  *)
(* but for a seat or a slot taken meanwhile, which also tangles them.      *)

\* SeatHolderIsMember for one room.
HoldersJoined(g) ==
  \A i \in Pids : gameArray[g].playerArray[i] \in Uids =>
    /\ Seated(g, i)
    /\ playerArray[gameArray[g].playerArray[i]].joinedGame = g
    /\ playerArray[gameArray[g].playerArray[i]].pid = i

NobodyGone(g) == \A i \in Pids : gameArray[g].playerArray[i] # Gone

RoomInv(g) == /\ gameArray[g].playerNum \in Nat
              /\ gameArray[g].playerNum <= MAX_PLAYERS_PER_GAME
              /\ OccupiedPrefix(g)
              /\ HoldersJoined(g)
              /\ thread[g] = "ending" => NobodyGone(g)

\* No seat holds uid u.
Unseated(u) ==
  \A g \in GameIds, i \in Pids : Room(g) => gameArray[g].playerArray[i] # u

\* A connection stands for one Player.
OneFid == \A u, v \in Uids :
            Live(u) /\ Live(v) /\ playerArray[u].fid = playerArray[v].fid => u = v

\* The sender of a command is the Player it was when his handler searched.
Founded(task) ==
  /\ task.op # "shift"
  /\ task.op = "connect" => ~ Known(task.conn)
  /\ task.op # "connect" => /\ Live(task.uid)
                            /\ playerArray[task.uid].fid = task.conn
                            /\ playerArray[task.uid].joinedGame = task.room
  /\ task.op = "join" =>
       /\ Unseated(task.uid)
       /\ \A j \in Pids : j < task.seat => gameArray[task.room].playerArray[j] # NoOne
  /\ task.op = "mark" =>
       /\ playerArray[task.uid].pid = task.seat
       /\ gameArray[task.room].playerArray[task.seat] \in {task.uid, Gone}

Agree == /\ \A g \in GameIds : Room(g) => RoomInv(g)
         /\ \A u \in Uids : Live(u) /\ ~ Joining(u) => MemberHasSeat(u)
         /\ OneFid
         /\ \A t \in Threads : pending[t] # NULL => Founded(pending[t])

MemberInv == Settled => Agree

-----------------------------------------------------------------------------
(* What a step is, as far as membership goes, while the tables are not     *)
(* tangled.                                                                *)

RoomsKept ==
  /\ \A g \in GameIds : Room(g)' <=> Room(g)
  /\ \A g \in GameIds : Room(g) =>
       /\ gameArray'[g].playerArray = gameArray[g].playerArray
       /\ gameArray'[g].playerNum = gameArray[g].playerNum

TaskKept(t) == pending'[t] = pending[t]

\* Only tasks of operation op end, and none begins.
TasksDone(op) ==
  \A t \in Threads : \/ TaskKept(t)
                     \/ pending[t] # NULL /\ pending[t].op = op /\ pending'[t] = NULL

\* The tasks that are left concern other Players than uid, and so do all but
\* the ones that end.
TasksOfOthers(uid) ==
  \A t \in Threads :
    /\ pending'[t] # NULL /\ pending'[t].op # "connect" => pending'[t].uid # uid
    /\ pending[t] # NULL /\ pending[t].uid # uid => TaskKept(t)

\* Players and rooms stay as they are; a search may end.
NobodyMoved ==
  /\ \A u \in Uids : Live(u)' <=> Live(u)
  /\ \A u \in Uids : Live(u) =>
       /\ playerArray'[u].fid = playerArray[u].fid
       /\ playerArray'[u].joinedGame = playerArray[u].joinedGame
       /\ playerArray'[u].pid = playerArray[u].pid
  /\ RoomsKept
  /\ \A g \in GameIds : Room(g) /\ thread'[g] = "ending" =>
       thread[g] = "ending" \/ NobodyGone(g)
  /\ \A t \in Threads : \/ TaskKept(t)
                        \/ /\ pending[t] = NULL /\ pending'[t].op # "join"
                           /\ Founded(pending'[t])

\* Connection c gets the free slot uid.
Connected(uid, c) ==
  /\ ~ Live(uid) /\ Live(uid)'
  /\ playerArray'[uid].fid = c /\ playerArray'[uid].joinedGame = NoOne
  /\ ~ Known(c)
  /\ \A u \in Uids \ {uid} : playerArray'[u] = playerArray[u]
  /\ TasksDone("connect")
  /\ \A t \in Threads : pending'[t] # NULL => pending'[t].conn # c
  /\ UNCHANGED <<gameArray, thread>>

\* Player uid leaves room g or the server, and seat i of g, if that is a
\* seat, is marked Gone: his own, or one of a full room.
Left(uid, g, i) ==
  /\ Live(uid) /\ ~ Joining(uid)
  /\ \A h \in GameIds, j \in Pids :
       Room(h) /\ gameArray[h].playerArray[j] = uid => h = g /\ j = i
  /\ i # NoOne => /\ Room(g)
                  /\ thread[g] # "ending"
                  /\ playerArray[uid].joinedGame # NoOne
                  /\ \/ gameArray[g].playerNum = MAX_PLAYERS_PER_GAME
                     \/ gameArray[g].playerArray[i] = uid
  /\ \/ ~ Live(uid)'
     \/ /\ Live(uid)'
        /\ playerArray'[uid].fid = playerArray[uid].fid
        /\ playerArray'[uid].joinedGame = NoOne
  /\ \A u \in Uids \ {uid} : playerArray'[u] = playerArray[u]
  /\ \A h \in GameIds : Room(h)' <=> Room(h)
  /\ \A h \in GameIds : Room(h) => gameArray'[h].playerNum = gameArray[h].playerNum
  /\ \A h \in GameIds, j \in Seats : Room(h) =>
       gameArray'[h].playerArray[j] =
         IF h = g /\ j = i THEN Gone ELSE gameArray[h].playerArray[j]
  /\ TasksDone("mark") /\ TasksOfOthers(uid)
  /\ UNCHANGED thread

\* Player uid, in no room, is told that he joined room g: a seat has been
\* found for him, or the room is full.
SeatFound(t, uid, g) ==
  /\ pending[t] = NULL
  /\ pending'[t] # NULL
  /\ pending'[t].op = "join" /\ pending'[t].uid = uid /\ pending'[t].room = g
  /\ pending'[t].conn = playerArray[uid].fid
  /\ \A j \in Pids : j < pending'[t].seat => gameArray[g].playerArray[j] # NoOne

Joined(uid, g) ==
  /\ Live(uid) /\ playerArray[uid].joinedGame = NoOne
  /\ Room(g)
  /\ \A u \in Uids : Live(u)' <=> Live(u)
  /\ \A u \in Uids \ {uid} : playerArray'[u] = playerArray[u]
  /\ playerArray'[uid].joinedGame = g
  /\ playerArray'[uid].fid = playerArray[uid].fid
  /\ UNCHANGED <<gameArray, thread>>
  /\ \/ /\ \A t \in Threads : TaskKept(t) \/ SeatFound(t, uid, g)
        /\ Joining(uid)'
     \/ /\ \A t \in Threads : TaskKept(t)
        /\ gameArray[g].playerNum = MAX_PLAYERS_PER_GAME

\* Player uid, who has no seat, takes seat i of room g: a new one, or one
\* that stands.
RoomEntered(g) == IF Room(g) THEN gameArray[g] ELSE NewRoom

Entered(uid, g, i) ==
  /\ Live(uid) /\ Unseated(uid)
  /\ playerArray[uid].joinedGame = NoOne \/ Joining(uid)
  /\ RoomEntered(g).playerArray[i] = NoOne
  /\ \A j \in Pids : j < i => RoomEntered(g).playerArray[j] # NoOne
  /\ \A u \in Uids : Live(u)' <=> Live(u)
  /\ \A u \in Uids \ {uid} : playerArray'[u] = playerArray[u]
  /\ playerArray'[uid].joinedGame = g
  /\ playerArray'[uid].pid = i
  /\ playerArray'[uid].fid = playerArray[uid].fid
  /\ Room(g)'
  /\ \A h \in GameIds \ {g} : gameArray'[h] = gameArray[h]
  /\ gameArray'[g].playerNum = RoomEntered(g).playerNum + 1
  /\ \A j \in Seats : gameArray'[g].playerArray[j] =
                        IF j = i THEN uid ELSE RoomEntered(g).playerArray[j]
  /\ thread'[g] = IF Room(g) THEN thread[g] ELSE "starting"
  /\ \A h \in GameIds \ {g} : thread'[h] = thread[h]
  /\ TasksDone("join") /\ TasksOfOthers(uid)

MemberStep ==
  \/ NobodyMoved
  \/ \E uid \in Uids, c \in Conns : Connected(uid, c)
  \/ \E uid \in Uids, g \in GameIds, i \in Pids \cup {NoOne} : Left(uid, g, i)
  \/ \E uid \in Uids, g \in GameIds : Joined(uid, g)
  \/ \E uid \in Uids, g \in GameIds, i \in Pids : Entered(uid, g, i)

-----------------------------------------------------------------------------
(* Lemmas about single states and steps.                                   *)

\* The history variable never goes back.
LEMMA ConductGrows ==
  ASSUME TypeOK, [Next]_vars
  PROVE  /\ Settled' => Settled
         /\ conduct' = "orderly" => conduct = "orderly"
<1>1. Leaving \/ Tangled \/ UNCHANGED conduct
  <2>1. ASSUME NEW c \in Conns, Client(c)
        PROVE  Leaving \/ Tangled \/ UNCHANGED conduct
    BY <2>1 DEF Client, NewConnection, Cut, CloseConnection, CommandStumbles, FrameRunsOn,
       StartGame, JoinGame, JoinNoRoom, Broadcast, SkipStatus, QuitGame, EntryConduct
  <2>2. ASSUME NEW t \in Threads, NetworkThread(t)
        PROVE  Leaving \/ Tangled \/ UNCHANGED conduct
    BY <2>2 DEF NetworkThread, FillSlot, TakeSeat, MoveUp, MarkGone
  <2>3. ASSUME NEW g \in GameIds, GameThread(g)
        PROVE  UNCHANGED conduct
    BY <2>3 DEF GameThread, EnterLobby, WaitFaults, BeginRound, LobbyTimeout,
       NextStatus, EndRound, ClearQuitter, Step
  <2> QED
    BY <2>1, <2>2, <2>3 DEF Next, vars
<1> QED
  BY <1>1 DEF Leaving, Tangled, Settled

\* A player who holds no seat by his own account holds none at all, and
\* nobody holds two.
LEMMA OneSeat ==
  ASSUME TypeInv, Agree, NEW u \in Uids,
         NEW g \in GameIds, NEW i \in Pids, Room(g),
         gameArray[g].playerArray[i] = u
  PROVE  Live(u) /\ playerArray[u].joinedGame = g /\ playerArray[u].pid = i
BY DEF Agree, RoomInv, HoldersJoined, Seated

LEMMA NoRoomNoSeat ==
  ASSUME TypeInv, Agree, NEW u \in Uids, playerArray[u].joinedGame = NoOne
  PROVE  Unseated(u)
BY OneSeat, SeatNumbers DEF Unseated

LEMMA TaskTypes ==
  ASSUME TypeInv, NEW t \in Threads, pending[t] # NULL
  PROVE  /\ pending[t].op \in {"connect", "join", "shift", "mark"}
         /\ pending[t].uid \in Uids
         /\ pending[t].conn \in Conns
         /\ ThreadOf(pending[t].conn) = t
         /\ pending[t].op # "connect" => /\ pending[t].room \in GameIds
                                         /\ pending[t].seat \in Pids
                                         /\ Room(pending[t].room)
<1>1. pending[t] \in Task
  BY DEF TypeInv, TypeOK
<1> QED
  BY <1>1 DEF TypeInv, TaskInv, Task

\* No task of another thread concerns the Player of a connection whose
\* thread is idle, or is at this task.
LEMMA OthersTasks ==
  ASSUME TypeInv, Agree, NEW t \in Threads, NEW uid \in Uids,
         ThreadOf(playerArray[uid].fid) = t,
         NEW r \in Threads, r # t, pending[r] # NULL, pending[r].op # "connect"
  PROVE  pending[r].uid # uid
<1>1. Founded(pending[r]) /\ ThreadOf(pending[r].conn) = r
  BY TaskTypes DEF Agree
<1> QED
  BY <1>1 DEF Founded

LEMMA IdleOwner ==
  ASSUME TypeInv, Agree, NEW c \in Conns, Idle(c), NEW uid \in Uids,
         playerArray[uid].fid = c
  PROVE  /\ \A t \in Threads : pending[t] # NULL /\ pending[t].op # "connect" =>
                                 pending[t].uid # uid
         /\ ~ Joining(uid)
<1>1. ThreadOf(c) \in Threads /\ pending[ThreadOf(c)] = NULL
  BY DEF ThreadOf, Threads, Idle
<1>2. \A t \in Threads : pending[t] # NULL /\ pending[t].op # "connect" =>
                           pending[t].uid # uid
  BY <1>1, OthersTasks
<1> QED
  BY <1>2 DEF Joining

LEMMA BegunTask ==
  ASSUME TypeInv, NEW c \in Conns, Idle(c), NEW task, Begin(c, task)
  PROVE  /\ ThreadOf(c) \in Threads
         /\ pending[ThreadOf(c)] = NULL
         /\ \A t \in Threads : pending'[t] = IF t = ThreadOf(c) THEN task ELSE pending[t]
<1>1. ThreadOf(c) \in Threads
  BY DEF ThreadOf, Threads
<1> QED
  BY <1>1 DEF Idle, Begin, TypeInv, TypeOK

LEMMA DoneTask ==
  ASSUME TypeInv, NEW t \in Threads, Done(t)
  PROVE  \A r \in Threads : pending'[r] = IF r = t THEN NULL ELSE pending[r]
BY DEF Done, TypeInv, TypeOK

\* Where the occupied seats are the ones below playerNum, the scan for the
\* first empty seat fails only in a full room.
LEMMA FirstEmptySeat ==
  ASSUME NEW game \in Game, game.playerNum \in Nat,
         game.playerNum <= MAX_PLAYERS_PER_GAME,
         \A i \in Pids : game.playerArray[i] # NoOne <=> i < game.playerNum,
         NEW uid \in Uids, \A i \in Pids : game.playerArray[i] # uid
  PROVE  \/ \E i \in Pids : TakesSeat(game, uid, i)
         \/ game.playerNum = MAX_PLAYERS_PER_GAME
<1> SUFFICES ASSUME game.playerNum # MAX_PLAYERS_PER_GAME
             PROVE  TakesSeat(game, uid, game.playerNum) /\ game.playerNum \in Pids
  OBVIOUS
<1>1. game.playerNum \in Pids /\ game.playerNum < MAX_PLAYERS_PER_GAME
  BY RoomsAssumption DEF Pids
<1>2. game.playerArray[game.playerNum] = NoOne
  BY <1>1
<1>3. \A j \in Pids : j < game.playerNum => game.playerArray[j] \notin {uid, NoOne}
  OBVIOUS
<1> QED
  BY <1>1, <1>2, <1>3 DEF TakesSeat, StopsAt

\* And an empty seat with none below it is number playerNum.
LEMMA EmptySeatIsNext ==
  ASSUME NEW game \in Game, game.playerNum \in Nat,
         game.playerNum <= MAX_PLAYERS_PER_GAME,
         \A i \in Pids : game.playerArray[i] # NoOne <=> i < game.playerNum,
         NEW i \in Pids, game.playerArray[i] = NoOne,
         \A j \in Pids : j < i => game.playerArray[j] # NoOne
  PROVE  i = game.playerNum /\ game.playerNum < MAX_PLAYERS_PER_GAME
<1>1. ~ (i < game.playerNum)
  OBVIOUS
<1>2. ASSUME game.playerNum < i
      PROVE  FALSE
  <2>1. game.playerNum \in Pids
    BY <1>2, RoomsAssumption DEF Pids
  <2> QED
    BY <1>2, <2>1
<1> QED
  BY <1>1, <1>2, RoomsAssumption DEF Pids


-----------------------------------------------------------------------------
(* Each kind of step keeps Agree.                                          *)

\* A player with a room sits in one that exists.
LEMMA RoomOfMember ==
  ASSUME TypeInv, NEW u \in Uids, Live(u), playerArray[u].joinedGame # NoOne
  PROVE  /\ playerArray[u].joinedGame \in GameIds
         /\ Room(playerArray[u].joinedGame)
BY PlayerFields DEF TypeInv, TypeOK, RoomsStand, Live

LEMMA NobodyMoves ==
  ASSUME TypeInv, TypeInv', Agree, NobodyMoved
  PROVE  Agree'
<1>1. ASSUME NEW g \in GameIds, Room(g)'
      PROVE  RoomInv(g)'
  <2>1. /\ Room(g) /\ RoomInv(g)
        /\ gameArray'[g].playerArray = gameArray[g].playerArray
        /\ gameArray'[g].playerNum = gameArray[g].playerNum
        /\ thread'[g] = "ending" => NobodyGone(g)
    BY <1>1 DEF Agree, NobodyMoved, RoomsKept, RoomInv
  <2>2. HoldersJoined(g)'
    BY <2>1 DEF RoomInv, HoldersJoined, NobodyMoved, Seated, Live
  <2> QED
    BY <2>1, <2>2 DEF RoomInv, OccupiedPrefix, NobodyGone
<1>2. ASSUME NEW u \in Uids, Live(u)', ~ Joining(u)'
      PROVE  MemberHasSeat(u)'
  <2>1. Live(u) /\ ~ Joining(u)
    BY <1>2 DEF NobodyMoved, Joining, TaskKept
  <2>2. MemberHasSeat(u)
    BY <2>1 DEF Agree
  <2>3. /\ playerArray'[u].joinedGame = playerArray[u].joinedGame
        /\ playerArray'[u].pid = playerArray[u].pid
    BY <2>1 DEF NobodyMoved
  <2>4. CASE playerArray[u].joinedGame = NoOne
    BY <2>3, <2>4 DEF MemberHasSeat
  <2>5. CASE playerArray[u].joinedGame # NoOne
    <3>1. /\ playerArray[u].joinedGame \in GameIds
          /\ Room(playerArray[u].joinedGame)
      BY <2>1, <2>5, RoomOfMember
    <3>2. PICK g \in GameIds : g = playerArray[u].joinedGame
      BY <3>1
    <3>3. /\ gameArray'[g].playerArray = gameArray[g].playerArray
          /\ gameArray'[g].playerNum = gameArray[g].playerNum
      BY <3>1, <3>2 DEF NobodyMoved, RoomsKept
    <3> QED
      BY <2>2, <2>3, <3>2, <3>3 DEF MemberHasSeat
  <2> QED
    BY <2>4, <2>5
<1>3. OneFid'
  BY DEF Agree, NobodyMoved, OneFid, Live
<1>4. ASSUME NEW t \in Threads, pending'[t] # NULL
      PROVE  Founded(pending[t])'
  <2>1. PICK task : task = pending'[t]
    OBVIOUS
  <2>2. Founded(task)
    BY <1>4, <2>1 DEF NobodyMoved, TaskKept, Agree
  <2>3. task.op # "connect" => /\ task.uid \in Uids
                               /\ task.room \in GameIds /\ Room(task.room)
                               /\ task.seat \in Pids
    <3>1. task \in Task
      BY <1>4, <2>1 DEF TypeInv, TypeOK
    <3>2. task.op # "connect" => /\ task.room \in GameIds /\ task.seat \in Pids
                                 /\ gameArray'[task.room] # NULL
      BY <1>4, <2>1 DEF TypeInv, TaskInv, Room
    <3> QED
      BY <3>1, <3>2 DEF Task, NobodyMoved, RoomsKept, Room
  <2>4. Known(task.conn)' => Known(task.conn)
    BY DEF Known, NobodyMoved
  <2>5. task.op = "join" => Unseated(task.uid)'
    BY <2>2 DEF Founded, Unseated, NobodyMoved, RoomsKept
  <2>6. task.op # "connect" =>
          /\ Live(task.uid)' /\ playerArray'[task.uid].fid = task.conn
          /\ playerArray'[task.uid].joinedGame = task.room
          /\ playerArray'[task.uid].pid = playerArray[task.uid].pid
    BY <2>2, <2>3 DEF Founded, NobodyMoved
  <2>7. task.op # "connect" =>
          gameArray'[task.room].playerArray = gameArray[task.room].playerArray
    BY <2>3 DEF NobodyMoved, RoomsKept
  <2>8. Founded(task)'
    BY <2>2, <2>3, <2>4, <2>5, <2>6, <2>7 DEF Founded
  <2> QED
    BY <2>1, <2>8
<1> QED
  BY <1>1, <1>2, <1>3, <1>4 DEF Agree

LEMMA SomebodyConnects ==
  ASSUME TypeInv, Agree, NEW uid \in Uids, NEW c \in Conns, Connected(uid, c)
  PROVE  Agree'
<1>1. ASSUME NEW g \in GameIds, Room(g)'
      PROVE  RoomInv(g)'
  <2>1. Room(g) /\ RoomInv(g) /\ gameArray' = gameArray /\ thread' = thread
    BY <1>1 DEF Agree, Connected, Room
  <2>2. HoldersJoined(g)'
    <3> SUFFICES ASSUME NEW i \in Pids, gameArray[g].playerArray[i] \in Uids
                 PROVE  /\ Seated(g, i)'
                        /\ playerArray'[gameArray[g].playerArray[i]].joinedGame = g
                        /\ playerArray'[gameArray[g].playerArray[i]].pid = i
      BY <2>1 DEF HoldersJoined
    <3>1. gameArray[g].playerArray[i] # uid
      BY <2>1 DEF RoomInv, HoldersJoined, Seated, Connected
    <3> QED
      BY <2>1, <3>1 DEF RoomInv, HoldersJoined, Seated, Live, Connected
  <2> QED
    BY <2>1, <2>2 DEF RoomInv, OccupiedPrefix, NobodyGone
<1>2. ASSUME NEW u \in Uids, Live(u)', ~ Joining(u)'
      PROVE  MemberHasSeat(u)'
  <2>1. CASE u = uid
    BY <2>1 DEF MemberHasSeat, Connected
  <2>2. CASE u # uid
    <3>1. Live(u) /\ ~ Joining(u) /\ playerArray'[u] = playerArray[u]
      BY <1>2, <2>2 DEF Connected, TasksDone, TaskKept, Joining, Live
    <3> QED
      BY <3>1 DEF Agree, MemberHasSeat, Connected
  <2> QED
    BY <2>1, <2>2
<1>3. OneFid'
  BY DEF Agree, Connected, OneFid, Live, Known
<1>4. ASSUME NEW t \in Threads, pending'[t] # NULL
      PROVE  Founded(pending[t])'
  <2>1. PICK task : task = pending'[t]
    OBVIOUS
  <2>2. task = pending[t] /\ pending[t] # NULL /\ Founded(task) /\ task.conn # c
    BY <1>4, <2>1 DEF Connected, TasksDone, TaskKept, Agree
  <2>3. task.uid \in Uids
    BY <2>2, TaskTypes
  <2>4. Known(task.conn)' => Known(task.conn)
    BY <2>2 DEF Known, Connected, Live
  <2>5. task.op # "connect" => Live(task.uid)' /\ playerArray'[task.uid] = playerArray[task.uid]
    BY <2>2, <2>3 DEF Founded, Connected, Live
  <2>6. Unseated(task.uid)' <=> Unseated(task.uid)
    BY DEF Unseated, Connected, Room
  <2>7. Founded(task)'
    BY <2>2, <2>4, <2>5, <2>6 DEF Founded, Connected
  <2> QED
    BY <2>1, <2>7
<1> QED
  BY <1>1, <1>2, <1>3, <1>4 DEF Agree

LEMMA SomebodyLeaves ==
  ASSUME TypeInv, Agree, NEW uid \in Uids, NEW g \in GameIds,
         NEW i \in Pids \cup {NoOne}, Left(uid, g, i)
  PROVE  Agree'
<1>1. ASSUME NEW h \in GameIds, NEW j \in Pids, Room(h)
      PROVE  gameArray'[h].playerArray[j] =
               IF h = g /\ j = i THEN Gone ELSE gameArray[h].playerArray[j]
  BY <1>1, SeatNumbers DEF Left
<1>2. ASSUME NEW h \in GameIds, Room(h)'
      PROVE  RoomInv(h)'
  <2>1. /\ Room(h) /\ RoomInv(h)
        /\ thread'[h] = thread[h] /\ gameArray'[h].playerNum = gameArray[h].playerNum
    BY <1>2 DEF Agree, Left
  <2>2. OccupiedPrefix(h)'
    <3> SUFFICES ASSUME NEW j \in Pids
                 PROVE  gameArray'[h].playerArray[j] # NoOne <=> j < gameArray[h].playerNum
      BY <2>1 DEF OccupiedPrefix
    <3>1. CASE h = g /\ j = i
      <4>1. \/ gameArray[h].playerNum = MAX_PLAYERS_PER_GAME
            \/ gameArray[h].playerArray[j] = uid
        BY <3>1, SeatNumbers, RoomsAssumption DEF Left, Pids, NoOne
      <4>2. j < gameArray[h].playerNum
        BY <2>1, <4>1, SeatNumbers, RoomsAssumption DEF RoomInv, OccupiedPrefix, Pids
      <4> QED
        BY <1>1, <2>1, <3>1, <4>2 DEF NoOne, Gone
    <3>2. CASE ~ (h = g /\ j = i)
      BY <1>1, <2>1, <3>2 DEF RoomInv, OccupiedPrefix
    <3> QED
      BY <3>1, <3>2
  <2>3. HoldersJoined(h)'
    <3> SUFFICES ASSUME NEW j \in Pids, NEW v \in Uids, gameArray'[h].playerArray[j] = v
                 PROVE  /\ Live(v)'
                        /\ playerArray'[v].joinedGame = h
                        /\ playerArray'[v].pid = j
      BY DEF HoldersJoined, Seated, Live
    <3>1. ~ (h = g /\ j = i) /\ gameArray[h].playerArray[j] = v
      BY <1>1, <2>1, SeatNumbers
    <3>2. v # uid
      BY <2>1, <3>1 DEF Left
    <3>3. Live(v) /\ playerArray[v].joinedGame = h /\ playerArray[v].pid = j
      BY <2>1, <3>1 DEF RoomInv, HoldersJoined, Seated
    <3> QED
      BY <3>2, <3>3 DEF Left, Live
  <2>4. thread'[h] = "ending" => NobodyGone(h)'
    <3> SUFFICES ASSUME thread[h] = "ending", NEW j \in Pids
                 PROVE  gameArray'[h].playerArray[j] # Gone
      BY <2>1 DEF NobodyGone
    <3>1. ~ (h = g /\ j = i)
      BY SeatNumbers, RoomsAssumption DEF Left, Pids, NoOne
    <3> QED
      BY <1>1, <2>1, <3>1 DEF RoomInv, NobodyGone
  <2> QED
    BY <2>1, <2>2, <2>3, <2>4 DEF RoomInv
<1>3. ASSUME NEW u \in Uids, Live(u)', ~ Joining(u)'
      PROVE  MemberHasSeat(u)'
  <2>1. CASE u = uid
    BY <1>3, <2>1 DEF MemberHasSeat, Left
  <2>2. CASE u # uid
    <3>1. playerArray'[u] = playerArray[u] /\ Live(u)
      BY <1>3, <2>2 DEF Left, Live
    <3>2. ~ Joining(u)
      BY <1>3 DEF Left, TasksDone, TaskKept, Joining
    <3>3. MemberHasSeat(u)
      BY <3>1, <3>2 DEF Agree
    <3>4. CASE playerArray[u].joinedGame = NoOne
      BY <3>1, <3>4 DEF MemberHasSeat
    <3>5. CASE playerArray[u].joinedGame # NoOne
      <4>1. /\ playerArray[u].joinedGame \in GameIds
            /\ Room(playerArray[u].joinedGame)
        BY <3>1, <3>5, RoomOfMember
      <4>2. PICK h \in GameIds : h = playerArray[u].joinedGame
        BY <4>1
      <4>3. gameArray'[h].playerNum = gameArray[h].playerNum
        BY <4>1, <4>2 DEF Left
      <4>4. CASE gameArray[h].playerNum = MAX_PLAYERS_PER_GAME
        BY <3>1, <4>2, <4>3, <4>4 DEF MemberHasSeat
      <4>5. CASE gameArray[h].playerNum # MAX_PLAYERS_PER_GAME
        <5>1. PICK j : j = playerArray[u].pid
          OBVIOUS
        <5>2. j # NoOne /\ gameArray[h].playerArray[j] = u
          BY <3>3, <3>5, <4>2, <4>5, <5>1 DEF MemberHasSeat
        <5>3. j \in Pids
          BY <3>1, <5>1, <5>2, PlayerFields DEF TypeInv, TypeOK, Live
        <5>4. ~ (h = g /\ j = i)
          BY <2>2, <4>5, <5>2 DEF Left
        <5>5. gameArray'[h].playerArray[j] = u
          BY <1>1, <4>1, <4>2, <5>2, <5>3, <5>4
        <5> QED
          BY <3>1, <4>2, <5>1, <5>2, <5>5 DEF MemberHasSeat
      <4> QED
        BY <4>4, <4>5
    <3> QED
      BY <3>4, <3>5
  <2> QED
    BY <2>1, <2>2
<1>4. OneFid'
  <2> SUFFICES ASSUME NEW u \in Uids, NEW v \in Uids, Live(u)', Live(v)',
                      playerArray'[u].fid = playerArray'[v].fid
               PROVE  u = v
    BY DEF OneFid
  <2>1. \A w \in Uids : Live(w)' => Live(w) /\ playerArray'[w].fid = playerArray[w].fid
    BY DEF Left, Live
  <2> QED
    BY <2>1 DEF Agree, OneFid
<1>5. ASSUME NEW t \in Threads, pending'[t] # NULL
      PROVE  Founded(pending[t])'
  <2>1. PICK task : task = pending'[t]
    OBVIOUS
  <2>2. /\ task = pending[t] /\ pending[t] # NULL /\ Founded(task)
        /\ task.op # "connect" => task.uid # uid
    BY <1>5, <2>1 DEF Left, TasksDone, TasksOfOthers, TaskKept, Agree
  <2>3. /\ task.uid \in Uids
        /\ task.op \in {"connect", "join", "shift", "mark"}
        /\ task.op # "connect" => /\ task.room \in GameIds /\ task.seat \in Pids
                                  /\ Room(task.room)
    BY <2>2, TaskTypes
  <2>4. Known(task.conn)' => Known(task.conn)
    BY DEF Known, Left, Live
  <2>5. task.op # "connect" => Live(task.uid)' /\ playerArray'[task.uid] = playerArray[task.uid]
    BY <2>2, <2>3 DEF Founded, Left, Live
  <2>6. Unseated(task.uid) => Unseated(task.uid)'
    BY <1>1, <2>3, SeatNumbers DEF Unseated, Left
  <2>7. task.op # "connect" =>
          \A j \in Pids : \/ gameArray'[task.room].playerArray[j] = Gone
                          \/ gameArray'[task.room].playerArray[j]
                               = gameArray[task.room].playerArray[j]
    BY <1>1, <2>3
  <2>8. NoOne # Gone
    BY DEF NoOne, Gone
  <2>9. Founded(task)'
    BY <2>2, <2>3, <2>4, <2>5, <2>6, <2>7, <2>8 DEF Founded
  <2> QED
    BY <2>1, <2>9
<1> QED
  BY <1>2, <1>3, <1>4, <1>5 DEF Agree

LEMMA SomebodyJoins ==
  ASSUME TypeInv, Agree, NEW uid \in Uids, NEW g \in GameIds, Joined(uid, g)
  PROVE  Agree'
<1>1. Unseated(uid)
  BY NoRoomNoSeat DEF Joined
<1>2. /\ gameArray' = gameArray /\ thread' = thread
      /\ \A h \in GameIds : Room(h)' <=> Room(h)
      /\ \A u \in Uids : Live(u)' <=> Live(u)
      /\ \A u \in Uids : playerArray'[u].fid = playerArray[u].fid
  BY DEF Joined, Room
<1>3. ASSUME NEW h \in GameIds, Room(h)'
      PROVE  RoomInv(h)'
  <2>1. Room(h) /\ RoomInv(h)
    BY <1>2, <1>3 DEF Agree
  <2>2. HoldersJoined(h)'
    <3> SUFFICES ASSUME NEW j \in Pids, NEW v \in Uids, gameArray[h].playerArray[j] = v
                 PROVE  /\ Live(v)'
                        /\ playerArray'[v].joinedGame = h
                        /\ playerArray'[v].pid = j
      BY <1>2 DEF HoldersJoined, Seated, Live
    <3>1. v # uid
      BY <1>1, <2>1 DEF Unseated
    <3>2. Live(v) /\ playerArray[v].joinedGame = h /\ playerArray[v].pid = j
      BY <2>1 DEF RoomInv, HoldersJoined, Seated
    <3> QED
      BY <1>2, <3>1, <3>2 DEF Joined
  <2> QED
    BY <1>2, <2>1, <2>2 DEF RoomInv, OccupiedPrefix, NobodyGone
<1>4. ASSUME NEW u \in Uids, Live(u)', ~ Joining(u)'
      PROVE  MemberHasSeat(u)'
  <2>1. CASE u = uid
    <3>1. playerArray'[u].joinedGame = g /\ gameArray[g].playerNum = MAX_PLAYERS_PER_GAME
      BY <1>4, <2>1 DEF Joined
    <3> QED
      BY <1>2, <3>1 DEF MemberHasSeat
  <2>2. CASE u # uid
    <3>1. Live(u) /\ ~ Joining(u) /\ playerArray'[u] = playerArray[u]
      BY <1>2, <1>4, <2>2 DEF Joined, SeatFound, TaskKept, Joining
    <3> QED
      BY <1>2, <3>1 DEF Agree, MemberHasSeat
  <2> QED
    BY <2>1, <2>2
<1>5. OneFid'
  BY <1>2 DEF Agree, OneFid
<1>6. ASSUME NEW t \in Threads, pending'[t] # NULL
      PROVE  Founded(pending[t])'
  <2>1. PICK task : task = pending'[t]
    OBVIOUS
  <2>2. TaskKept(t) \/ SeatFound(t, uid, g)
    BY DEF Joined
  <2>3. \A u \in Uids : Unseated(u)' <=> Unseated(u)
    BY <1>2 DEF Unseated
  <2>4. CASE TaskKept(t)
    <3>1. task = pending[t] /\ pending[t] # NULL /\ Founded(task)
      BY <1>6, <2>1, <2>4 DEF TaskKept, Agree
    <3>2. /\ task.uid \in Uids
          /\ task.op # "connect" => task.room \in GameIds
      BY <3>1, TaskTypes
    <3>3. task.op # "connect" => task.uid # uid
      BY <3>1, <3>2, SeatNumbers DEF Founded, Joined
    <3>4. Known(task.conn)' => Known(task.conn)
      BY <1>2 DEF Known
    <3>5. task.op # "connect" =>
            Live(task.uid)' /\ playerArray'[task.uid] = playerArray[task.uid]
      BY <1>2, <3>1, <3>2, <3>3 DEF Founded, Joined
    <3>6. Founded(task)'
      BY <1>2, <2>3, <3>1, <3>2, <3>4, <3>5 DEF Founded
    <3> QED
      BY <2>1, <3>6
  <2>5. CASE SeatFound(t, uid, g)
    <3>1. /\ task.op = "join" /\ task.uid = uid /\ task.room = g
          /\ task.conn = playerArray[uid].fid
          /\ \A j \in Pids : j < task.seat => gameArray[g].playerArray[j] # NoOne
      BY <2>1, <2>5 DEF SeatFound
    <3>2. /\ Live(uid)' /\ playerArray'[uid].fid = task.conn
          /\ playerArray'[uid].joinedGame = g /\ Unseated(uid)'
      BY <1>1, <1>2, <2>3, <3>1 DEF Joined
    <3>3. Founded(task)'
      BY <1>2, <3>1, <3>2 DEF Founded
    <3> QED
      BY <2>1, <3>3
  <2> QED
    BY <2>2, <2>4, <2>5
<1> QED
  BY <1>3, <1>4, <1>5, <1>6 DEF Agree

LEMMA EnteredRoomTypes ==
  ASSUME TypeInv, Agree, NEW g \in GameIds
  PROVE  /\ RoomEntered(g) \in Game
         /\ RoomEntered(g).playerNum \in Nat
         /\ RoomEntered(g).playerNum <= MAX_PLAYERS_PER_GAME
         /\ \A i \in Pids : RoomEntered(g).playerArray[i] # NoOne <=>
                              i < RoomEntered(g).playerNum
         /\ ~ Room(g) => \A i \in Seats : RoomEntered(g).playerArray[i] = NoOne
<1>1. CASE Room(g)
  BY <1>1 DEF RoomEntered, TypeInv, TypeOK, Room, Agree, RoomInv, OccupiedPrefix
<1>2. CASE ~ Room(g)
  <2>1. RoomEntered(g) = NewRoom /\ NewRoom \in Game
    BY <1>2, NewRoomType DEF RoomEntered
  <2>2. /\ NewRoom.playerNum = 0
        /\ \A i \in Seats : NewRoom.playerArray[i] = NoOne
    BY DEF NewRoom
  <2> HIDE DEF NewRoom
  <2>3. \A i \in Pids : ~ (i < 0)
    BY RoomsAssumption DEF Pids
  <2> QED
    BY <1>2, <2>1, <2>2, <2>3, SeatNumbers, RoomsAssumption
<1> QED
  BY <1>1, <1>2

LEMMA SomebodyEnters ==
  ASSUME TypeInv, Agree, NEW uid \in Uids, NEW g \in GameIds, NEW i \in Pids,
         Entered(uid, g, i)
  PROVE  Agree'
<1> DEFINE game == RoomEntered(g)
           n    == game.playerNum
<1>1. /\ n \in Nat /\ n < MAX_PLAYERS_PER_GAME /\ i = n
      /\ \A j \in Pids : game.playerArray[j] # NoOne <=> j < n
      /\ ~ Room(g) => \A j \in Pids : game.playerArray[j] = NoOne
      /\ game.playerArray[i] = NoOne
  BY EnteredRoomTypes, EmptySeatIsNext, SeatNumbers DEF Entered
<1>2. Room(g) => game = gameArray[g]
  BY DEF RoomEntered
<1>3. /\ \A j \in Pids : gameArray'[g].playerArray[j] = IF j = i THEN uid ELSE game.playerArray[j]
      /\ gameArray'[g].playerNum = n + 1
      /\ Room(g)'
      /\ \A h \in GameIds \ {g} : /\ gameArray'[h] = gameArray[h]
                                  /\ thread'[h] = thread[h]
                                  /\ Room(h)' <=> Room(h)
      /\ thread'[g] = IF Room(g) THEN thread[g] ELSE "starting"
  BY SeatNumbers DEF Entered, Room
<1>4. /\ \A u \in Uids : Live(u)' <=> Live(u)
      /\ \A u \in Uids \ {uid} : playerArray'[u] = playerArray[u]
      /\ playerArray'[uid].joinedGame = g /\ playerArray'[uid].pid = i
      /\ \A u \in Uids : playerArray'[u].fid = playerArray[u].fid
      /\ Live(uid) /\ Unseated(uid)
  BY DEF Entered
<1> HIDE DEF game, n
<1>5. ASSUME NEW h \in GameIds \ {g}, Room(h)'
      PROVE  RoomInv(h)'
  <2>1. Room(h) /\ RoomInv(h) /\ gameArray'[h] = gameArray[h] /\ thread'[h] = thread[h]
    BY <1>3, <1>5 DEF Agree
  <2>2. HoldersJoined(h)'
    <3> SUFFICES ASSUME NEW j \in Pids, NEW v \in Uids, gameArray[h].playerArray[j] = v
                 PROVE  /\ Live(v)'
                        /\ playerArray'[v].joinedGame = h
                        /\ playerArray'[v].pid = j
      BY <2>1 DEF HoldersJoined, Seated, Live
    <3>1. v # uid
      BY <1>4, <2>1 DEF Unseated
    <3> QED
      BY <1>4, <2>1, <3>1 DEF RoomInv, HoldersJoined, Seated
  <2> QED
    BY <2>1, <2>2 DEF RoomInv, OccupiedPrefix, NobodyGone
<1>6. RoomInv(g)'
  <2>1. gameArray'[g].playerNum \in Nat /\ gameArray'[g].playerNum <= MAX_PLAYERS_PER_GAME
    BY <1>1, <1>3, RoomsAssumption
  <2>2. OccupiedPrefix(g)'
    <3> SUFFICES ASSUME NEW j \in Pids
                 PROVE  gameArray'[g].playerArray[j] # NoOne <=> j < n + 1
      BY <1>3 DEF OccupiedPrefix
    <3>1. j < n + 1 <=> j < n \/ j = i
      BY <1>1 DEF Pids
    <3>2. (IF j = i THEN uid ELSE game.playerArray[j]) # NoOne <=> j < n \/ j = i
      BY <1>1, SeatNumbers
    <3> QED
      BY <1>3, <3>1, <3>2
  <2>3. HoldersJoined(g)'
    <3> SUFFICES ASSUME NEW j \in Pids, NEW v \in Uids, gameArray'[g].playerArray[j] = v
                 PROVE  /\ Live(v)'
                        /\ playerArray'[v].joinedGame = g
                        /\ playerArray'[v].pid = j
      BY DEF HoldersJoined, Seated, Live
    <3>1. CASE j = i
      BY <1>3, <1>4, <3>1
    <3>2. CASE j # i
      <4>1. game.playerArray[j] = v
        BY <1>3, <3>2
      <4>2. Room(g) /\ gameArray[g].playerArray[j] = v /\ v # uid
        BY <1>1, <1>2, <1>4, <4>1, SeatNumbers DEF Unseated
      <4>3. Live(v) /\ playerArray[v].joinedGame = g /\ playerArray[v].pid = j
        BY <4>2, OneSeat
      <4> QED
        BY <1>4, <4>2, <4>3
    <3> QED
      BY <3>1, <3>2
  <2>4. thread'[g] = "ending" => NobodyGone(g)'
    <3> SUFFICES ASSUME thread'[g] = "ending", NEW j \in Pids
                 PROVE  gameArray'[g].playerArray[j] # Gone
      BY DEF NobodyGone
    <3>1. Room(g) /\ thread[g] = "ending"
      BY <1>3
    <3>2. gameArray[g].playerArray[j] # Gone
      BY <3>1 DEF Agree, RoomInv, NobodyGone
    <3> QED
      BY <1>2, <1>3, <3>1, <3>2, SeatNumbers
  <2> QED
    BY <2>1, <2>2, <2>3, <2>4 DEF RoomInv
<1>7. ASSUME NEW u \in Uids, Live(u)', ~ Joining(u)'
      PROVE  MemberHasSeat(u)'
  <2>1. CASE u = uid
    <3>1. gameArray'[g].playerArray[i] = u /\ i # NoOne
      BY <1>3, <2>1 DEF Pids, NoOne
    <3> QED
      BY <1>4, <2>1, <3>1 DEF MemberHasSeat
  <2>2. CASE u # uid
    <3>1. Live(u) /\ playerArray'[u] = playerArray[u]
      BY <1>4, <1>7, <2>2
    <3>2. ~ Joining(u)
      BY <1>7, <2>2 DEF Entered, TasksOfOthers, TaskKept, Joining
    <3>3. MemberHasSeat(u)
      BY <3>1, <3>2 DEF Agree
    <3>4. CASE playerArray[u].joinedGame = NoOne
      BY <3>1, <3>4 DEF MemberHasSeat
    <3>5. CASE playerArray[u].joinedGame # NoOne
      <4>1. /\ playerArray[u].joinedGame \in GameIds
            /\ Room(playerArray[u].joinedGame)
        BY <3>1, <3>5, RoomOfMember
      <4>2. CASE playerArray[u].joinedGame # g
        <5>1. gameArray'[playerArray[u].joinedGame] = gameArray[playerArray[u].joinedGame]
          BY <1>3, <4>1, <4>2
        <5> QED
          BY <3>1, <3>3, <5>1 DEF MemberHasSeat
      <4>3. CASE playerArray[u].joinedGame = g
        <5>1. PICK j : j = playerArray[u].pid
          OBVIOUS
        <5>2. Room(g) /\ n = gameArray[g].playerNum
          BY <1>2, <4>1, <4>3 DEF n
        <5>3. j # NoOne /\ gameArray[g].playerArray[j] = u
          <6>1. gameArray[g].playerNum # MAX_PLAYERS_PER_GAME
            BY <1>1, <5>2, RoomsAssumption
          <6> QED
            BY <3>3, <3>5, <4>3, <5>1, <6>1 DEF MemberHasSeat
        <5>4. j \in Pids
          BY <3>1, <5>1, <5>3, PlayerFields DEF TypeInv, TypeOK, Live
        <5>5. game.playerArray[j] = u /\ j # i
          BY <1>1, <1>2, <5>2, <5>3, SeatNumbers
        <5>6. gameArray'[g].playerArray[j] = u
          BY <1>3, <5>4, <5>5
        <5> QED
          BY <3>1, <4>3, <5>1, <5>3, <5>6 DEF MemberHasSeat
      <4> QED
        BY <4>2, <4>3
    <3> QED
      BY <3>4, <3>5
  <2> QED
    BY <2>1, <2>2
<1>8. OneFid'
  BY <1>4 DEF Agree, OneFid
<1>9. ASSUME NEW t \in Threads, pending'[t] # NULL
      PROVE  Founded(pending[t])'
  <2>1. PICK task : task = pending'[t]
    OBVIOUS
  <2>2. /\ task = pending[t] /\ pending[t] # NULL /\ Founded(task)
        /\ task.op # "connect" => task.uid # uid
    BY <1>9, <2>1 DEF Entered, TasksDone, TasksOfOthers, TaskKept, Agree
  <2>3. /\ task.uid \in Uids
        /\ task.op # "connect" => /\ task.room \in GameIds /\ task.seat \in Pids
                                  /\ Room(task.room)
    BY <2>2, TaskTypes
  <2>4. Known(task.conn)' => Known(task.conn)
    BY <1>4 DEF Known
  <2>5. task.op # "connect" => Live(task.uid)' /\ playerArray'[task.uid] = playerArray[task.uid]
    BY <1>4, <2>2, <2>3 DEF Founded
  <2>6. task.op # "connect" /\ Unseated(task.uid) => Unseated(task.uid)'
    <3> SUFFICES ASSUME task.op # "connect", Unseated(task.uid),
                        NEW h \in GameIds, NEW j \in Pids, Room(h)'
                 PROVE  gameArray'[h].playerArray[j] # task.uid
      BY DEF Unseated
    <3>1. CASE h # g
      BY <1>3, <3>1 DEF Unseated
    <3>2. CASE h = g
      <4>1. game.playerArray[j] # task.uid
        <5>1. CASE Room(g)
          BY <1>2, <5>1 DEF Unseated
        <5>2. CASE ~ Room(g)
          BY <1>1, <2>3, <5>2, SeatNumbers
        <5> QED
          BY <5>1, <5>2
      <4> QED
        BY <1>3, <2>2, <3>2, <4>1
    <3> QED
      BY <3>1, <3>2
  <2>7. task.op # "connect" =>
          \A j \in Pids :
            gameArray'[task.room].playerArray[j] =
              IF task.room = g /\ j = i THEN uid ELSE gameArray[task.room].playerArray[j]
    BY <1>2, <1>3, <2>3
  <2>8. task.op # "connect" => (task.room = g => gameArray[task.room].playerArray[i] = NoOne)
    BY <1>1, <1>2, <2>3
  <2>9. NoOne # Gone /\ uid # NoOne /\ (task.op # "connect" => task.uid # NoOne)
    BY <2>3, SeatNumbers DEF NoOne, Gone
  <2>10. Founded(task)'
    <3>1. task.op = "join" =>
            \A j \in Pids : j < task.seat => gameArray'[task.room].playerArray[j] # NoOne
      BY <2>2, <2>7, <2>9 DEF Founded
    <3>2. task.op = "mark" =>
            gameArray'[task.room].playerArray[task.seat] \in {task.uid, Gone}
      BY <2>2, <2>3, <2>7, <2>8, <2>9 DEF Founded
    <3> QED
      BY <2>2, <2>4, <2>5, <2>6, <3>1, <3>2 DEF Founded
  <2> QED
    BY <2>1, <2>10
<1> QED
  BY <1>5, <1>6, <1>7, <1>8, <1>9 DEF Agree

-----------------------------------------------------------------------------
(* What each handler is, as far as membership goes.                        *)

LEMMA TablesKept ==
  ASSUME TypeInv, UNCHANGED <<playerArray, gameArray, pending>>,
         \A g \in GameIds : Room(g) /\ thread'[g] = "ending" =>
           thread[g] = "ending" \/ NobodyGone(g)
  PROVE  MemberStep
<1>1. /\ \A u \in Uids : Live(u)' <=> Live(u)
      /\ \A g \in GameIds : Room(g)' <=> Room(g)
  BY DEF Live, Room
<1> QED
  BY <1>1 DEF MemberStep, NobodyMoved, RoomsKept, TaskKept

LEMMA CrashKeepsMembers ==
  ASSUME TypeInv, Crash
  PROVE  MemberStep
BY TablesKept DEF Crash

LEMMA NewConnectionMembers ==
  ASSUME TypeInv, Agree, Settled', NEW c \in Conns, NewConnection(c)
  PROVE  MemberStep
<1>1. CASE UNCHANGED pending
  BY <1>1, TablesKept DEF NewConnection
<1>2. ASSUME NEW uid \in Uids, ~ Known(c),
             Begin(c, [op |-> "connect", conn |-> c, uid |-> uid,
                       room |-> NoOne, seat |-> NoOne, status |-> 0])
      PROVE  MemberStep
  <2> DEFINE task == [op |-> "connect", conn |-> c, uid |-> uid,
                      room |-> NoOne, seat |-> NoOne, status |-> 0]
  <2>1. task.op # "join" /\ Founded(task)
    BY <1>2 DEF Founded
  <2>2. Begin(c, task) /\ Idle(c)
    BY <1>2 DEF NewConnection
  <2> HIDE DEF task
  <2>3. \A t \in Threads : \/ TaskKept(t)
                           \/ /\ pending[t] = NULL /\ pending'[t].op # "join"
                              /\ Founded(pending'[t])
    BY <2>1, <2>2, BegunTask DEF TaskKept
  <2>4. /\ UNCHANGED <<playerArray, gameArray, thread>>
        /\ \A u \in Uids : Live(u)' <=> Live(u)
        /\ \A g \in GameIds : Room(g)' <=> Room(g)
    BY DEF NewConnection, Live, Room
  <2> QED
    BY <2>3, <2>4 DEF MemberStep, NobodyMoved, RoomsKept
<1> QED
  BY <1>1, <1>2 DEF NewConnection, Settled, Tangled

LEMMA FillSlotMembers ==
  ASSUME TypeInv, Agree, Settled', NEW t \in Threads, FillSlot(t)
  PROVE  MemberStep
<1>1. /\ pending[t] # NULL /\ pending[t].op = "connect" /\ Founded(pending[t])
      /\ ~ Live(pending[t].uid)
      /\ Done(t)
      /\ UNCHANGED <<gameArray, thread>>
  BY DEF FillSlot, Due, Agree, Settled, Tangled
<1>2. PICK uid \in Uids, c \in Conns :
        pending[t].uid = uid /\ pending[t].conn = c /\ ThreadOf(c) = t
  BY <1>1, TaskTypes
<1>3. PICK skip \in BOOLEAN : playerArray' = [playerArray EXCEPT ![uid] = NewPlayer(c, skip)]
  BY <1>2 DEF FillSlot
<1>4. /\ NewPlayer(c, skip).joinedGame = NoOne /\ NewPlayer(c, skip).fid = c
      /\ NewPlayer(c, skip) # NULL
  BY NewPlayerType, RoomsAssumption DEF NewPlayer
<1>5. \A u \in Uids : playerArray'[u] = IF u = uid THEN NewPlayer(c, skip) ELSE playerArray[u]
  BY <1>3 DEF TypeInv, TypeOK
<1> HIDE DEF NewPlayer
<1>6. \A r \in Threads : pending'[r] = IF r = t THEN NULL ELSE pending[r]
  BY <1>1, DoneTask
<1>7. \A r \in Threads : pending'[r] # NULL => pending'[r].conn # c
  BY <1>2, <1>6, TaskTypes
<1>8. ~ Known(c)
  BY <1>1, <1>2 DEF Founded
<1>9. TasksDone("connect")
  BY <1>1, <1>6 DEF TasksDone, TaskKept
<1>10. Connected(uid, c)
  BY <1>1, <1>2, <1>4, <1>5, <1>7, <1>8, <1>9 DEF Connected, Live
<1> QED
  BY <1>10 DEF MemberStep

LEMMA NoPlaceInRoom == /\ NoOne \in Pids \cup {NoOne}
                       /\ NoOne \notin Seats
                       /\ 0 \in GameIds
BY SeatNumbers, RoomsAssumption DEF NoOne, GameIds

LEMMA CloseConnectionMembers ==
  ASSUME TypeInv, Agree, Settled', NEW c \in Conns, CloseConnection(c)
  PROVE  MemberStep
<1>1. ASSUME NEW uid \in Uids, Finds(c, uid),
             playerArray' = [playerArray EXCEPT ![uid] = NULL],
             IF playerArray[uid].joinedGame = NoOne
             THEN UNCHANGED gameArray
             ELSE /\ gameArray' = Vacate(playerArray[uid].joinedGame, playerArray[uid].pid)
                  /\ thread[playerArray[uid].joinedGame] # "ending",
             UNCHANGED <<pending, thread>>
      PROVE  MemberStep
  <2>0. Idle(c)
    BY DEF CloseConnection
  <2>1. /\ playerArray[uid] \in Player
        /\ Live(uid)
        /\ playerArray[uid].fid = c
    BY <1>1 DEF Finds, Live, TypeInv, TypeOK
  <2>2. /\ ~ Live(uid)'
        /\ \A u \in Uids \ {uid} : playerArray'[u] = playerArray[u]
    BY <1>1 DEF Live, TypeInv, TypeOK
  <2>3. ~ Joining(uid) /\ MemberHasSeat(uid)
    BY <2>0, <2>1, IdleOwner DEF Agree
  <2>4. TasksDone("mark") /\ TasksOfOthers(uid)
    BY <1>1, <2>0, <2>1, IdleOwner DEF TasksDone, TasksOfOthers, TaskKept
  <2>5. CASE playerArray[uid].joinedGame = NoOne
    <3>1. \A h \in GameIds, j \in Pids : Room(h) => gameArray[h].playerArray[j] # uid
      BY <2>5, NoRoomNoSeat DEF Unseated
    <3>2. /\ \A h \in GameIds : Room(h)' <=> Room(h)
          /\ UNCHANGED gameArray
      BY <1>1, <2>5 DEF Room
    <3>3. Left(uid, 0, NoOne)
      BY <1>1, <2>1, <2>2, <2>3, <2>4, <3>1, <3>2, NoPlaceInRoom DEF Left
    <3> QED
      BY <3>3, NoPlaceInRoom DEF MemberStep
  <2>6. CASE playerArray[uid].joinedGame # NoOne
    <3> DEFINE g == playerArray[uid].joinedGame
               i == playerArray[uid].pid
    <3>1. g \in GameIds /\ Room(g) /\ i \in Pids \cup {NoOne}
      BY <2>1, <2>6, PlayerFields DEF TypeInv, RoomsStand
    <3>2. \/ gameArray[g].playerNum = MAX_PLAYERS_PER_GAME
          \/ gameArray[g].playerArray[i] = uid
      BY <2>3, <2>6 DEF MemberHasSeat
    <3>3. \A h \in GameIds, j \in Pids :
            Room(h) /\ gameArray[h].playerArray[j] = uid => h = g /\ j = i
      BY OneSeat
    <3>4. thread[g] # "ending"
      BY <1>1, <2>6
    <3>5. gameArray' = Vacate(g, i)
      BY <1>1, <2>6
    <3> HIDE DEF g, i
    <3>6. /\ \A h \in GameIds : Room(h)' <=> Room(h)
          /\ \A h \in GameIds : Room(h) => gameArray'[h].playerNum = gameArray[h].playerNum
          /\ \A h \in GameIds, j \in Seats : Room(h) =>
               gameArray'[h].playerArray[j] =
                 IF h = g /\ j = i THEN Gone ELSE gameArray[h].playerArray[j]
      BY <3>1, <3>5, VacateTypes
    <3>7. Left(uid, g, i)
      BY <1>1, <2>1, <2>2, <2>3, <2>4, <2>6, <3>1, <3>2, <3>3, <3>4, <3>6 DEF Left
    <3> QED
      BY <3>1, <3>7 DEF MemberStep
  <2> QED
    BY <2>5, <2>6
<1>2. CASE UNCHANGED <<playerArray, gameArray, pending, thread>>
  BY <1>2, TablesKept
<1>3. CASE Crash
  BY <1>3, CrashKeepsMembers
<1> QED
  BY <1>1, <1>2, <1>3 DEF CloseConnection, Tangled, Settled

LEMMA StartGameMembers ==
  ASSUME TypeInv, Agree, Settled', NEW c \in Conns, StartGame(c)
  PROVE  MemberStep
<1>1. PICK uid \in Uids, g \in GameIds, i \in Pids :
        /\ Command(c, uid)
        /\ ~ Room(g)
        /\ TakesSeat(NewRoom, uid, i)
        /\ Sits(g, NewRoom, uid, i,
                [playerArray[uid] EXCEPT !.joinedGame = g, !.pid = i])
        /\ thread' = [thread EXCEPT ![g] = "starting"]
        /\ EntryConduct(uid)
        /\ UNCHANGED <<pending, open>>
  BY DEF StartGame
<1>2. /\ Live(uid) /\ playerArray[uid].fid = c /\ Idle(c)
      /\ playerArray[uid].joinedGame = NoOne
      /\ Unseated(uid)
  BY <1>1, NoRoomNoSeat DEF Command, Finds, EntryConduct, Tangled, Settled
<1> DEFINE player == [playerArray[uid] EXCEPT !.joinedGame = g, !.pid = i]
<1>3. /\ player \in Player /\ player.joinedGame = g /\ player.pid = i
      /\ player.fid = playerArray[uid].fid
  <2>1. playerArray[uid] \in Player
    BY <1>2 DEF Live, TypeInv, TypeOK
  <2> QED
    BY <2>1 DEF Player
<1>4. Sits(g, NewRoom, uid, i, player)
  BY <1>1
<1> HIDE DEF player
<1>5. /\ playerArray'[uid] = player
      /\ Live(uid)'
      /\ \A u \in Uids \ {uid} : playerArray'[u] = playerArray[u]
      /\ Room(g)'
      /\ \A h \in GameIds \ {g} : gameArray'[h] = gameArray[h]
      /\ gameArray'[g].playerNum = NewRoom.playerNum + 1
      /\ \A j \in Seats : gameArray'[g].playerArray[j] =
                            IF j = i THEN uid ELSE NewRoom.playerArray[j]
  BY <1>3, <1>4, SitsFields, NewRoomType
<1>6. /\ thread'[g] = "starting"
      /\ \A h \in GameIds \ {g} : thread'[h] = thread[h]
  BY <1>1 DEF TypeInv, TypeOK
<1>7. RoomEntered(g) = NewRoom
  BY <1>1 DEF RoomEntered
<1>8. /\ NewRoom.playerArray[i] = NoOne
      /\ \A j \in Pids : j < i => NewRoom.playerArray[j] # NoOne
  BY <1>1 DEF TakesSeat, StopsAt
<1>9. TasksDone("join") /\ TasksOfOthers(uid)
  BY <1>1, <1>2, IdleOwner DEF TasksDone, TasksOfOthers, TaskKept
<1>10. \A u \in Uids : Live(u)' <=> Live(u)
  BY <1>2, <1>5 DEF Live
<1>11. Entered(uid, g, i)
  <2> HIDE DEF NewRoom
  <2> QED
    BY <1>1, <1>2, <1>3, <1>5, <1>6, <1>7, <1>8, <1>9, <1>10 DEF Entered
<1> QED
  BY <1>11 DEF MemberStep

LEMMA JoinGameMembers ==
  ASSUME TypeInv, Agree, Settled', NEW c \in Conns, JoinGame(c)
  PROVE  MemberStep
<1>1. PICK uid \in Uids, g \in GameIds :
        /\ Command(c, uid)
        /\ Room(g)
        /\ playerArray' = [playerArray EXCEPT ![uid].joinedGame = g]
        /\ \/ \E i \in Pids :
                /\ TakesSeat(gameArray[g], uid, i)
                /\ Begin(c, [op |-> "join", conn |-> c, uid |-> uid,
                             room |-> g, seat |-> i, status |-> 0])
           \/ /\ \A i \in Pids : ~ TakesSeat(gameArray[g], uid, i)
              /\ UNCHANGED pending
        /\ EntryConduct(uid)
        /\ UNCHANGED <<gameArray, thread>>
  BY DEF JoinGame
<1>2. /\ Live(uid) /\ playerArray[uid].fid = c /\ Idle(c)
      /\ playerArray[uid].joinedGame = NoOne
      /\ Unseated(uid)
  BY <1>1, NoRoomNoSeat DEF Command, Finds, EntryConduct, Tangled, Settled
<1>3. /\ \A u \in Uids : Live(u)' <=> Live(u)
      /\ playerArray'[uid].joinedGame = g
      /\ playerArray'[uid].fid = playerArray[uid].fid
      /\ \A u \in Uids \ {uid} : playerArray'[u] = playerArray[u]
  BY <1>1, <1>2, JoinedGameUpdate
<1>4. ASSUME NEW i \in Pids, TakesSeat(gameArray[g], uid, i),
             Begin(c, [op |-> "join", conn |-> c, uid |-> uid,
                       room |-> g, seat |-> i, status |-> 0])
      PROVE  Joined(uid, g)
  <2> DEFINE task == [op |-> "join", conn |-> c, uid |-> uid,
                      room |-> g, seat |-> i, status |-> 0]
  <2>1. /\ task.op = "join" /\ task.uid = uid /\ task.room = g
        /\ task.conn = c /\ task.seat = i
    OBVIOUS
  <2>2. task \in Task
    BY DEF Task
  <2>3. task # NULL /\ Begin(c, task)
    BY <1>4, <2>2, RoomsAssumption
  <2> HIDE DEF task
  <2>4. \A j \in Pids : j < i => gameArray[g].playerArray[j] # NoOne
    BY <1>4 DEF TakesSeat, StopsAt
  <2>5. /\ ThreadOf(c) \in Threads
        /\ pending[ThreadOf(c)] = NULL
        /\ \A t \in Threads : pending'[t] = IF t = ThreadOf(c) THEN task ELSE pending[t]
    BY <1>2, <2>3, BegunTask
  <2>6. \A t \in Threads : TaskKept(t) \/ SeatFound(t, uid, g)
    BY <1>2, <2>1, <2>3, <2>4, <2>5 DEF TaskKept, SeatFound
  <2>7. Joining(uid)'
    BY <2>1, <2>3, <2>5 DEF Joining
  <2> QED
    BY <1>1, <1>2, <1>3, <2>6, <2>7 DEF Joined
<1>5. ASSUME \A i \in Pids : ~ TakesSeat(gameArray[g], uid, i), UNCHANGED pending
      PROVE  Joined(uid, g)
  <2>1. /\ gameArray[g] \in Game /\ RoomInv(g)
        /\ \A i \in Pids : gameArray[g].playerArray[i] # uid
    BY <1>1, <1>2 DEF TypeInv, TypeOK, Room, Agree, Unseated
  <2>2. gameArray[g].playerNum = MAX_PLAYERS_PER_GAME
    BY <1>5, <2>1, FirstEmptySeat DEF RoomInv, OccupiedPrefix
  <2> QED
    BY <1>1, <1>2, <1>3, <1>5, <2>2 DEF Joined, TaskKept
<1>6. Joined(uid, g)
  BY <1>1, <1>4, <1>5
<1> QED
  BY <1>6 DEF MemberStep

LEMMA TakeSeatMembers ==
  ASSUME TypeInv, Agree, Settled', NEW t \in Threads, TakeSeat(t)
  PROVE  MemberStep
<1>1. /\ pending[t] # NULL /\ pending[t].op = "join" /\ Founded(pending[t])
  BY DEF TakeSeat, Due, Agree
<1>2. PICK uid \in Uids, g \in GameIds, i \in Pids, c \in Conns :
        /\ pending[t].uid = uid /\ pending[t].room = g /\ pending[t].seat = i
        /\ pending[t].conn = c /\ ThreadOf(c) = t /\ Room(g)
  BY <1>1, TaskTypes
<1>3. /\ Live(uid) /\ playerArray[uid].fid = c /\ playerArray[uid].joinedGame = g
      /\ Unseated(uid)
      /\ \A j \in Pids : j < i => gameArray[g].playerArray[j] # NoOne
  BY <1>1, <1>2 DEF Founded
<1>4. /\ Sits(g, gameArray[g], uid, i, [playerArray[uid] EXCEPT !.pid = i])
      /\ Done(t)
      /\ UNCHANGED thread
      /\ gameArray[g].playerArray[i] = NoOne
  BY <1>2, <1>3 DEF TakeSeat, Settled, Tangled
<1> DEFINE player == [playerArray[uid] EXCEPT !.pid = i]
<1>5. /\ player \in Player /\ player.joinedGame = g /\ player.pid = i /\ player.fid = c
  <2>1. playerArray[uid] \in Player
    BY <1>3 DEF Live, TypeInv, TypeOK
  <2> QED
    BY <1>3, <2>1 DEF Player
<1>6. Sits(g, gameArray[g], uid, i, player) /\ gameArray[g] \in Game
  BY <1>2, <1>4 DEF TypeInv, TypeOK, Room
<1> HIDE DEF player
<1>7. /\ playerArray'[uid] = player
      /\ Live(uid)'
      /\ \A u \in Uids \ {uid} : playerArray'[u] = playerArray[u]
      /\ Room(g)'
      /\ \A h \in GameIds \ {g} : gameArray'[h] = gameArray[h]
      /\ gameArray'[g].playerNum = gameArray[g].playerNum + 1
      /\ \A j \in Seats : gameArray'[g].playerArray[j] =
                            IF j = i THEN uid ELSE gameArray[g].playerArray[j]
  BY <1>5, <1>6, SitsFields
<1>8. \A r \in Threads : pending'[r] = IF r = t THEN NULL ELSE pending[r]
  BY <1>4, DoneTask
<1>9. TasksDone("join")
  BY <1>1, <1>8 DEF TasksDone, TaskKept
<1>10. TasksOfOthers(uid)
  <2>1. ThreadOf(playerArray[uid].fid) = t
    BY <1>2, <1>3
  <2> QED
    BY <1>2, <1>8, <2>1, OthersTasks DEF TasksOfOthers, TaskKept
<1>11. Joining(uid)
  BY <1>1, <1>2 DEF Joining
<1>12. \A u \in Uids : Live(u)' <=> Live(u)
  BY <1>3, <1>7 DEF Live
<1>13. RoomEntered(g) = gameArray[g]
  BY <1>2 DEF RoomEntered
<1>14. Entered(uid, g, i)
  BY <1>2, <1>3, <1>4, <1>5, <1>7, <1>9, <1>10, <1>11, <1>12, <1>13 DEF Entered
<1> QED
  BY <1>14 DEF MemberStep

LEMMA SkipStatusMembers ==
  ASSUME TypeInv, NEW c \in Conns, SkipStatus(c)
  PROVE  MemberStep
<1>1. PICK uid \in Uids :
        /\ Live(uid)
        /\ playerArray' = [playerArray EXCEPT ![uid].isSkipStatus = TRUE]
        /\ UNCHANGED <<gameArray, thread, pending>>
  BY DEF SkipStatus, Command, Finds
<1> DEFINE q == [playerArray[uid] EXCEPT !.isSkipStatus = TRUE]
<1>2. playerArray[uid] \in Player
  BY <1>1 DEF TypeInv, TypeOK, Live
<1>3. /\ q \in Player /\ q.fid = playerArray[uid].fid
      /\ q.joinedGame = playerArray[uid].joinedGame /\ q.pid = playerArray[uid].pid
  BY <1>2 DEF Player
<1>4. playerArray' = [playerArray EXCEPT ![uid] = q]
  BY <1>1
<1> HIDE DEF q
<1>5. \A u \in Uids : playerArray'[u] = IF u = uid THEN q ELSE playerArray[u]
  BY <1>4 DEF TypeInv, TypeOK
<1>6. /\ \A u \in Uids : Live(u)' <=> Live(u)
      /\ \A g \in GameIds : Room(g)' <=> Room(g)
  BY <1>1, <1>3, <1>5, RoomsAssumption DEF Live, Room
<1> QED
  BY <1>1, <1>3, <1>5, <1>6 DEF MemberStep, NobodyMoved, RoomsKept, TaskKept

LEMMA QuitGameMembers ==
  ASSUME TypeInv, Agree, Settled', NEW c \in Conns, QuitGame(c)
  PROVE  MemberStep
<1>1. PICK uid \in Uids :
        LET g    == playerArray[uid].joinedGame
            game == gameArray[g] IN
        /\ Command(c, uid)
        /\ g # NoOne
        /\ UNCHANGED <<gameArray, thread>>
        /\ \/ \E i \in Pids :
                /\ SitsAt(g, uid, i)
                /\ Begin(c, [op |-> "mark", conn |-> c, uid |-> uid, room |-> g, seat |-> i,
                             status |-> game.gameStatus])
                /\ UNCHANGED playerArray
           \/ /\ \A i \in Pids : ~ SitsAt(g, uid, i)
              /\ playerArray' = LeftRoom(playerArray, uid)
              /\ UNCHANGED pending
  BY DEF QuitGame, Tangled, Settled
<1>2. /\ Live(uid) /\ playerArray[uid].fid = c /\ Idle(c)
      /\ playerArray[uid].joinedGame # NoOne
      /\ playerArray \in [Uids -> Player \cup {NULL}]
  BY <1>1 DEF Command, Finds, TypeInv, TypeOK
<1>3. PICK g \in GameIds : g = playerArray[uid].joinedGame
  BY <1>2, RoomOfMember
<1>4. \A h \in GameIds, j \in Pids :
        Room(h) /\ gameArray[h].playerArray[j] = uid => h = g /\ j = playerArray[uid].pid
  BY <1>3, OneSeat
<1>5. Room(g) /\ \A h \in GameIds : Room(h)' <=> Room(h)
  BY <1>1, <1>2, <1>3, RoomOfMember DEF Room
\* He has a seat, and his thread is about to mark it.
<1>6. ASSUME NEW i \in Pids, NEW n,
             SitsAt(g, uid, i), UNCHANGED playerArray,
             Begin(c, [op |-> "mark", conn |-> c, uid |-> uid, room |-> g, seat |-> i,
                       status |-> n])
      PROVE  NobodyMoved
  <2> DEFINE task == [op |-> "mark", conn |-> c, uid |-> uid, room |-> g, seat |-> i,
                      status |-> n]
  <2>1. gameArray[g].playerArray[i] = uid /\ playerArray[uid].pid = i
    BY <1>4, <1>5, <1>6 DEF SitsAt
  <2>2. Founded(task) /\ task.op # "join"
    BY <1>2, <1>3, <2>1 DEF Founded
  <2>3. Begin(c, task)
    BY <1>6
  <2> HIDE DEF task
  <2>4. \A t \in Threads : \/ TaskKept(t)
                           \/ /\ pending[t] = NULL /\ pending'[t].op # "join"
                              /\ Founded(pending'[t])
    BY <1>2, <2>2, <2>3, BegunTask DEF TaskKept
  <2>5. \A u \in Uids : Live(u)' <=> Live(u)
    BY <1>6 DEF Live
  <2> QED
    BY <1>1, <1>5, <1>6, <2>4, <2>5 DEF NobodyMoved, RoomsKept
\* A full room had refused him.
<1>7. ASSUME \A i \in Pids : ~ SitsAt(g, uid, i),
             playerArray' = LeftRoom(playerArray, uid), UNCHANGED pending
      PROVE  Left(uid, g, NoOne)
  <2>1. ASSUME NEW j \in Pids, gameArray[g].playerArray[j] = uid
        PROVE  FALSE
    <3>1. \A k \in Pids : k < j => gameArray[g].playerArray[k] # uid
      BY <1>4, <1>5, <2>1 DEF Pids
    <3> QED
      BY <1>7, <2>1, <3>1 DEF SitsAt
  <2>2. \A h \in GameIds, j \in Pids : Room(h) => gameArray[h].playerArray[j] # uid
    BY <1>4, <2>1
  <2>3. /\ Live(uid)'
        /\ playerArray'[uid].joinedGame = NoOne
        /\ playerArray'[uid].fid = playerArray[uid].fid
        /\ \A u \in Uids \ {uid} : playerArray'[u] = playerArray[u]
    BY <1>2, <1>7, LeftRoomTypes DEF Live
  <2>4. ~ Joining(uid) /\ TasksDone("mark") /\ TasksOfOthers(uid)
    BY <1>2, <1>7, IdleOwner DEF TasksDone, TasksOfOthers, TaskKept
  <2> QED
    BY <1>1, <1>2, <1>5, <2>2, <2>3, <2>4, NoPlaceInRoom DEF Left
<1>8. \/ \E i \in Pids :
           /\ SitsAt(g, uid, i)
           /\ Begin(c, [op |-> "mark", conn |-> c, uid |-> uid, room |-> g, seat |-> i,
                        status |-> gameArray[g].gameStatus])
           /\ UNCHANGED playerArray
      \/ /\ \A i \in Pids : ~ SitsAt(g, uid, i)
         /\ playerArray' = LeftRoom(playerArray, uid)
         /\ UNCHANGED pending
  BY <1>1, <1>3
<1>9. NobodyMoved \/ Left(uid, g, NoOne)
  <2>1. PICK n : n = gameArray[g].gameStatus
    OBVIOUS
  <2> QED
    BY <1>6, <1>7, <1>8, <2>1
<1> QED
  BY <1>9, NoPlaceInRoom DEF MemberStep

LEMMA MarkGoneMembers ==
  ASSUME TypeInv, Agree, Settled', NEW t \in Threads, MarkGone(t)
  PROVE  MemberStep
<1>1. /\ pending[t] # NULL /\ pending[t].op = "mark" /\ Founded(pending[t])
  BY DEF MarkGone, Due, Agree
<1>2. PICK uid \in Uids, g \in GameIds, i \in Pids, c \in Conns :
        /\ pending[t].uid = uid /\ pending[t].room = g /\ pending[t].seat = i
        /\ pending[t].conn = c /\ ThreadOf(c) = t /\ Room(g)
  BY <1>1, TaskTypes
<1>3. /\ Live(uid) /\ playerArray[uid].fid = c
      /\ playerArray[uid].joinedGame = g /\ playerArray[uid].pid = i
      /\ gameArray[g].playerArray[i] \in {uid, Gone}
  BY <1>1, <1>2 DEF Founded
<1>4. /\ gameArray' = Vacate(g, i)
      /\ playerArray' = LeftRoom(playerArray, uid)
      /\ thread[g] # "ending"
      /\ Done(t)
      /\ UNCHANGED thread
  BY <1>2 DEF MarkGone, Settled, Tangled
<1>5. \A r \in Threads : pending'[r] = IF r = t THEN NULL ELSE pending[r]
  BY <1>4, DoneTask
<1>6. \A r \in Threads : r # t /\ pending[r] # NULL /\ pending[r].op # "connect" =>
                           pending[r].uid # uid
  <2>1. ThreadOf(playerArray[uid].fid) = t
    BY <1>2, <1>3
  <2> QED
    BY <2>1, OthersTasks
<1>7. ~ Joining(uid) /\ TasksDone("mark") /\ TasksOfOthers(uid)
  BY <1>1, <1>2, <1>5, <1>6 DEF Joining, TasksDone, TasksOfOthers, TaskKept
<1>8. \A h \in GameIds, j \in Pids :
        Room(h) /\ gameArray[h].playerArray[j] = uid => h = g /\ j = i
  BY <1>3, OneSeat
<1>9. \/ gameArray[g].playerNum = MAX_PLAYERS_PER_GAME
      \/ gameArray[g].playerArray[i] = uid
  BY <1>3, <1>7, SeatNumbers DEF Agree, MemberHasSeat
<1>10. /\ Live(uid)'
       /\ playerArray'[uid].joinedGame = NoOne
       /\ playerArray'[uid].fid = playerArray[uid].fid
       /\ \A u \in Uids \ {uid} : playerArray'[u] = playerArray[u]
  <2>1. playerArray \in [Uids -> Player \cup {NULL}]
    BY DEF TypeInv, TypeOK
  <2> QED
    BY <1>3, <1>4, <2>1, LeftRoomTypes DEF Live
<1>11. /\ \A h \in GameIds : Room(h)' <=> Room(h)
       /\ \A h \in GameIds : Room(h) => gameArray'[h].playerNum = gameArray[h].playerNum
       /\ \A h \in GameIds, j \in Seats : Room(h) =>
            gameArray'[h].playerArray[j] =
              IF h = g /\ j = i THEN Gone ELSE gameArray[h].playerArray[j]
  BY <1>2, <1>4, VacateTypes
<1>12. playerArray[uid].joinedGame # NoOne
  BY <1>3, SeatNumbers
<1>13. Left(uid, g, i)
  BY <1>2, <1>3, <1>4, <1>7, <1>8, <1>9, <1>10, <1>11, <1>12 DEF Left
<1> QED
  BY <1>13 DEF MemberStep

\* A gap is closed only where the tables are already tangled.
LEMMA MoveUpTangles ==
  ASSUME Agree, NEW t \in Threads
  PROVE  ~ MoveUp(t)
BY DEF MoveUp, Due, Agree, Founded

\* A round ends only after every pid below playerNum was dereferenced.
LEMMA SeatedNotGone ==
  ASSUME NEW g \in GameIds, RoomInv(g), EveryPidSeated(g)
  PROVE  NobodyGone(g)
<1> SUFFICES ASSUME NEW i \in Pids
             PROVE  gameArray[g].playerArray[i] # Gone
  BY DEF NobodyGone
<1>1. CASE i < gameArray[g].playerNum
  BY <1>1, SeatNumbers DEF EveryPidSeated, Seated
<1>2. CASE ~ (i < gameArray[g].playerNum)
  BY <1>2 DEF RoomInv, OccupiedPrefix, NoOne, Gone
<1> QED
  BY <1>1, <1>2

LEMMA EnterLobbyMembers ==
  ASSUME TypeInv, NEW g \in GameIds, EnterLobby(g)
  PROVE  MemberStep
<1>1. CASE ~ NoneDangles(g)
  BY <1>1, CrashKeepsMembers DEF EnterLobby, Step
<1>2. CASE NoneDangles(g)
  <2>1. /\ UNCHANGED <<gameArray, pending>>
        /\ thread' = [thread EXCEPT ![g] = "lobby"]
    BY <1>2 DEF EnterLobby, Step
  <2>2. ASSUME NEW u \in Uids
        PROVE  /\ Live(u) => /\ Live(u)'
                             /\ playerArray'[u].fid = playerArray[u].fid
                             /\ playerArray'[u].joinedGame = playerArray[u].joinedGame
                             /\ playerArray'[u].pid = playerArray[u].pid
               /\ Live(u)' => Live(u)
    <3>0. playerArray[u] \in Player \cup {NULL}
      BY DEF TypeInv, TypeOK
    <3>1. CASE \E i \in Seats : gameArray[g].playerArray[i] = u
      <4>1. playerArray[u] \in Player /\ Live(u)
        BY <1>2, <3>0, <3>1 DEF NoneDangles, Dangling, Live
      <4>2. playerArray'[u] = [playerArray[u] EXCEPT !.isSkipStatus = FALSE]
        BY <1>2, <3>1 DEF EnterLobby
      <4>3. /\ [playerArray[u] EXCEPT !.isSkipStatus = FALSE] \in Player
            /\ [playerArray[u] EXCEPT !.isSkipStatus = FALSE].fid = playerArray[u].fid
            /\ [playerArray[u] EXCEPT !.isSkipStatus = FALSE].joinedGame = playerArray[u].joinedGame
            /\ [playerArray[u] EXCEPT !.isSkipStatus = FALSE].pid = playerArray[u].pid
        BY <4>1 DEF Player
      <4> QED
        BY <4>1, <4>2, <4>3, RoomsAssumption DEF Live
    <3>2. CASE ~ \E i \in Seats : gameArray[g].playerArray[i] = u
      BY <1>2, <3>2 DEF EnterLobby, Live
    <3> QED
      BY <3>1, <3>2
  <2>3. \A h \in GameIds : thread'[h] = IF h = g THEN "lobby" ELSE thread[h]
    BY <2>1 DEF TypeInv, TypeOK
  <2>4. \A h \in GameIds : Room(h)' <=> Room(h)
    BY <2>1 DEF Room
  <2> QED
    BY <2>1, <2>2, <2>3, <2>4 DEF MemberStep, NobodyMoved, RoomsKept, TaskKept
<1> QED
  BY <1>1, <1>2

LEMMA RoundMembers ==
  ASSUME TypeInv, Agree, NEW g \in GameIds,
         BeginRound(g) \/ NextStatus(g) \/ EndRound(g) \/ LobbyTimeout(g)
  PROVE  MemberStep
<1>0. Room(g) /\ RoomInv(g)
  BY DEF BeginRound, NextStatus, EndRound, LobbyTimeout, TypeInv, RoomsStand, Agree
<1>1. CASE Crash
  BY <1>1, CrashKeepsMembers
<1>2. ASSUME NEW n \in Int, gameArray' = [gameArray EXCEPT ![g].gameStatus = n],
             UNCHANGED <<pending, playerArray>>, thread' = [thread EXCEPT ![g] = "game"]
      PROVE  MemberStep
  <2>1. /\ \A h \in GameIds : Room(h)' <=> Room(h)
        /\ \A h \in GameIds : Room(h)' =>
             /\ gameArray'[h].playerNum = gameArray[h].playerNum
             /\ gameArray'[h].playerArray = gameArray[h].playerArray
    BY <1>0, <1>2, StatusUpdate
  <2>2. \A h \in GameIds : thread'[h] = IF h = g THEN "game" ELSE thread[h]
    BY <1>2 DEF TypeInv, TypeOK
  <2>3. \A u \in Uids : Live(u)' <=> Live(u)
    BY <1>2 DEF Live
  <2> QED
    BY <1>2, <2>1, <2>2, <2>3 DEF MemberStep, NobodyMoved, RoomsKept, TaskKept
<1>3. CASE BeginRound(g)
  <2> DEFINE dayOne == 2
  <2>1. \/ Crash
        \/ /\ gameArray' = [gameArray EXCEPT ![g].gameStatus = dayOne]
           /\ UNCHANGED <<pending, playerArray>>
           /\ thread' = [thread EXCEPT ![g] = "game"]
    BY <1>3 DEF BeginRound, Step
  <2>2. dayOne \in Int
    OBVIOUS
  <2> HIDE DEF dayOne
  <2> QED
    BY <1>1, <1>2, <2>1, <2>2
<1>4. CASE NextStatus(g)
  <2>1. \/ Crash
        \/ /\ gameArray' = [gameArray EXCEPT ![g].gameStatus = gameArray[g].gameStatus + 1]
           /\ UNCHANGED <<pending, playerArray>>
           /\ thread' = [thread EXCEPT ![g] = "game"]
    BY <1>4 DEF NextStatus, Step, TypeInv, TypeOK
  <2>2. gameArray[g].gameStatus + 1 \in Int
    <3>1. gameArray[g].gameStatus \in Int
      BY <1>0 DEF TypeInv, TypeOK, Room, Game
    <3> QED
      BY <3>1
  <2> QED
    BY <1>1, <1>2, <2>1, <2>2
<1>5. CASE EndRound(g)
  <2>1. \/ Crash
        \/ /\ EveryPidSeated(g)
           /\ UNCHANGED <<pending, playerArray, gameArray>>
           /\ thread' = [thread EXCEPT ![g] = "ending"]
    BY <1>5 DEF EndRound, Step
  <2>2. EveryPidSeated(g) => NobodyGone(g)
    BY <1>0, SeatedNotGone
  <2>3. thread' = [thread EXCEPT ![g] = "ending"] =>
          \A h \in GameIds : thread'[h] = IF h = g THEN "ending" ELSE thread[h]
    BY DEF TypeInv, TypeOK
  <2> QED
    BY <1>1, <2>1, <2>2, <2>3, TablesKept
<1>6. CASE LobbyTimeout(g)
  <2>1. \/ Crash
        \/ /\ UNCHANGED <<pending, playerArray, gameArray>>
           /\ thread' = [thread EXCEPT ![g] = "over"]
    BY <1>6 DEF LobbyTimeout, Step
  <2>2. thread' = [thread EXCEPT ![g] = "over"] =>
          \A h \in GameIds : thread'[h] = IF h = g THEN "over" ELSE thread[h]
    BY DEF TypeInv, TypeOK
  <2> QED
    BY <1>1, <2>1, <2>2, TablesKept
<1> QED
  BY <1>3, <1>4, <1>5, <1>6

\* Nobody being Gone, the sweep finds no gap to close.
LEMMA SweepIdle ==
  ASSUME TypeInv, Agree, NEW g \in GameIds, ClearQuitter(g)
  PROVE  UNCHANGED <<up, playerArray, gameArray>>
<1>1. Room(g) /\ NobodyGone(g) /\ cursor[g] \in Pids
  BY DEF ClearQuitter, TypeInv, TypeOK, RoomsStand, Agree, RoomInv
<1> QED
  BY <1>1 DEF ClearQuitter, NobodyGone

LEMMA ClearQuitterMembers ==
  ASSUME TypeInv, Agree, NEW g \in GameIds, ClearQuitter(g)
  PROVE  MemberStep
<1>1. UNCHANGED <<pending, playerArray, gameArray>>
  BY SweepIdle DEF ClearQuitter
<1>2. \A h \in GameIds : thread'[h] = "ending" => thread[h] = "ending"
  BY DEF ClearQuitter, TypeInv, TypeOK
<1> QED
  BY <1>1, <1>2, TablesKept

LEMMA NextIsMemberStep ==
  ASSUME TypeInv, MemberInv, [Next]_vars, Settled'
  PROVE  Agree /\ MemberStep
<1>0. Agree
  BY ConductGrows DEF TypeInv, MemberInv
<1>1. ASSUME NEW c \in Conns, Client(c)
      PROVE  MemberStep
  <2>1. CASE NewConnection(c)
    BY <1>0, <2>1, NewConnectionMembers
  <2>2. CASE Cut(c)
    BY <1>0, <2>2, TablesKept DEF Cut
  <2>3. CASE CloseConnection(c)
    BY <1>0, <2>3, CloseConnectionMembers
  <2>4. CASE CommandStumbles(c) \/ FrameRunsOn(c) \/ JoinNoRoom(c) \/ Broadcast(c)
    BY <1>0, <2>4, CrashKeepsMembers DEF CommandStumbles, FrameRunsOn, JoinNoRoom, Broadcast
  <2>5. CASE StartGame(c)
    BY <1>0, <2>5, StartGameMembers
  <2>6. CASE JoinGame(c)
    BY <1>0, <2>6, JoinGameMembers
  <2>7. CASE SkipStatus(c)
    BY <1>0, <2>7, SkipStatusMembers
  <2>8. CASE QuitGame(c)
    BY <1>0, <2>8, QuitGameMembers
  <2> QED
    BY <1>1, <2>1, <2>2, <2>3, <2>4, <2>5, <2>6, <2>7, <2>8 DEF Client
<1>2. ASSUME NEW t \in Threads, NetworkThread(t)
      PROVE  MemberStep
  BY <1>0, <1>2, FillSlotMembers, TakeSeatMembers, MoveUpTangles, MarkGoneMembers
     DEF NetworkThread
<1>3. ASSUME NEW g \in GameIds, GameThread(g)
      PROVE  MemberStep
  <2>1. CASE EnterLobby(g)
    BY <1>0, <2>1, EnterLobbyMembers
  <2>2. CASE WaitFaults(g)
    BY <1>0, <2>2, CrashKeepsMembers DEF WaitFaults
  <2>3. CASE BeginRound(g) \/ NextStatus(g) \/ EndRound(g) \/ LobbyTimeout(g)
    BY <1>0, <2>3, RoundMembers
  <2>4. CASE ClearQuitter(g)
    BY <1>0, <2>4, ClearQuitterMembers
  <2> QED
    BY <1>3, <2>1, <2>2, <2>3, <2>4 DEF GameThread
<1>4. CASE UNCHANGED vars
  BY <1>0, <1>4, TablesKept DEF vars
<1> QED
  BY <1>0, <1>1, <1>2, <1>3, <1>4 DEF Next

LEMMA NextMembers ==
  ASSUME TypeInv, TypeInv', MemberInv, [Next]_vars
  PROVE  MemberInv'
<1> SUFFICES ASSUME Settled'
             PROVE  Agree'
  BY DEF MemberInv
<1>1. Agree /\ MemberStep
  BY NextIsMemberStep
<1> QED
  BY <1>1, NobodyMoves, SomebodyConnects, SomebodyLeaves, SomebodyJoins, SomebodyEnters
     DEF MemberStep

LEMMA MembersAlways == Spec => [](TypeInv /\ MemberInv)
<1>1. Init => MemberInv
  BY DEF Init, MemberInv, Agree, OneFid, Live, Room
<1>2. TypeInv /\ TypeInv' /\ MemberInv /\ [Next]_vars => MemberInv'
  BY NextMembers
<1> QED
  BY <1>1, <1>2, TypesKept, PTL DEF Spec

\* As long as the tables are not tangled, a seat that holds a uid belongs to
\* a Player who joined this room and knows this pid: no dangling seat, no
\* seat of two players, nobody on two seats - also while players quit and
\* disconnect in mid-game, whatever a network thread searches meanwhile.
THEOREM SeatHoldersAreMembers == Spec => []SeatHolderIsMember
<1>1. MemberInv => SeatHolderIsMember
  BY DEF MemberInv, Settled, Agree, RoomInv, HoldersJoined, SeatHolderIsMember
<1> QED
  BY <1>1, MembersAlways, PTL

\* Conversely the occupied seats of a room are the ones below playerNum, and
\* a player who joined a room that is not full has the seat his pid names,
\* unless his seat is still being taken.
THEOREM MembersAreSeated == Spec => []MemberIsSeated
<1>1. MemberInv => MemberIsSeated
  BY DEF MemberInv, Settled, Agree, RoomInv, MemberIsSeated
<1> QED
  BY <1>1, MembersAlways, PTL

-----------------------------------------------------------------------------
(* The orderly run.  Until somebody leaves, Players fill playerArray from  *)
(* 0, a slot a thread has found has none below it that is empty, and every *)
(* connection has a Player, or is getting one, or is a TCP client who came *)
(* when the table was full; so no scan of playerArray for the sender meets *)
(* a NULL slot.                                                            *)

Connecting(t) == pending[t] # NULL /\ pending[t].op = "connect"

Served(c) == \/ Known(c)
             \/ c \notin WebConns /\ \A u \in Uids : Live(u)
             \/ \E t \in Threads : Connecting(t) /\ pending[t].conn = c

InOrder == /\ \A u, v \in Uids : v < u /\ Live(u) => Live(v)
           /\ \A t \in Threads : Connecting(t) =>
                \A v \in Uids : v < pending[t].uid => Live(v)
           /\ \A c \in open : Served(c)
           /\ \A g \in GameIds : Room(g) => NobodyGone(g)
           /\ ~ stray => up

OrderInv == conduct = "orderly" => InOrder

AllInv == TypeInv /\ KPSeatEmpty /\ Agree /\ InOrder

\* The tasks that are not searches for a slot begin and end.
SearchesKept ==
  \A t \in Threads : /\ Connecting(t)' <=> Connecting(t)
                     /\ Connecting(t) => pending'[t] = pending[t]

\* The scan for an established connection does not run into a NULL slot, nor
\* past the table.
LEMMA ScanSucceeds ==
  ASSUME TypeInv, InOrder, NEW c \in Conns, c \in open, Idle(c)
  PROVE  /\ ~ Stumbles(c)
         /\ c \in WebConns => Known(c)
<1>1. ASSUME NEW t \in Threads, Connecting(t)
      PROVE  pending[t].conn # c
  BY <1>1 DEF Connecting, Idle, TypeInv, TaskInv
<1>2. Known(c) \/ (c \notin WebConns /\ \A u \in Uids : Live(u))
  BY <1>1 DEF InOrder, Served
<1>3. ASSUME NEW uid \in Uids, ScanReaches(c, uid), ~ Live(uid)
      PROVE  FALSE
  <2>1. PICK u \in Uids : Live(u) /\ playerArray[u].fid = c
    BY <1>2, <1>3 DEF Known
  <2>2. ~ (u < uid)
    BY <1>3, <2>1 DEF ScanReaches
  <2>3. u # uid /\ ~ (uid < u)
    BY <1>3, <2>1 DEF InOrder
  <2> QED
    BY <2>2, <2>3 DEF Uids
<1> QED
  BY <1>2, <1>3 DEF Stumbles

\* What the game threads dereference is there.
LEMMA RoomIsSound ==
  ASSUME AllInv, NEW g \in GameIds, Room(g)
  PROVE  /\ NoneDangles(g)
         /\ EveryPidSeated(g)
         /\ ~ stray => SendsSurvive(g)
<1>1. RoomInv(g) /\ NobodyGone(g) /\ gameArray[g] \in Game
  BY DEF AllInv, Agree, InOrder, TypeInv, TypeOK, Room
<1>2. \A i \in Pids : gameArray[g].playerArray[i] \in Uids => Seated(g, i)
  BY <1>1 DEF RoomInv, HoldersJoined
<1>3. \A i \in Pids : ~ Dangling(g, i)
  BY <1>2 DEF Seated, Dangling
<1>4. ~ Dangling(g, KPSeat)
  BY SeatNumbers DEF AllInv, KPSeatEmpty, Dangling
<1>5. NoneDangles(g)
  BY <1>3, <1>4 DEF NoneDangles, Seats
<1>6. EveryPidSeated(g)
  <2> SUFFICES ASSUME NEW i \in Seats, i < gameArray[g].playerNum
               PROVE  Seated(g, i)
    BY DEF EveryPidSeated
  <2>1. i \in Pids
    BY <1>1, SeatNumbers, RoomsAssumption DEF RoomInv, Pids
  <2>2. gameArray[g].playerArray[i] \in Uids \cup {NoOne, Gone}
    BY <1>1 DEF Game
  <2>3. gameArray[g].playerArray[i] \notin {NoOne, Gone}
    BY <1>1, <2>1 DEF RoomInv, OccupiedPrefix, NobodyGone
  <2> QED
    BY <1>2, <2>1, <2>2, <2>3
<1> QED
  BY <1>3, <1>5, <1>6 DEF SendsSurvive

\* Whoever joins finds only live Players to tell.
LEMMA EveryoneHears ==
  ASSUME TypeInv', Agree', KPSeatEmpty',
         NEW g \in GameIds, Room(g)', NobodyGone(g)',
         \A u \in Uids : Live(u)' <=> Live(u)
  PROVE  Announced(gameArray'[g])
<1> SUFFICES ASSUME NEW i \in Seats, gameArray'[g].playerArray[i] # NoOne
             PROVE  /\ gameArray'[g].playerArray[i] \in Uids
                    /\ Live(gameArray'[g].playerArray[i])
  BY DEF Announced
<1>1. i \in Pids
  BY DEF KPSeatEmpty, Seats
<1>2. gameArray'[g].playerArray[i] \in Uids
  <2>1. gameArray'[g] \in Game
    BY DEF TypeInv, TypeOK, Room
  <2> QED
    BY <1>1, <2>1, SeatNumbers DEF Game, NobodyGone
<1>3. HoldersJoined(g)'
  BY DEF Agree, RoomInv
<1>4. ASSUME NEW u \in Uids, gameArray'[g].playerArray[i] = u
      PROVE  Live(u)'
  BY <1>1, <1>3, <1>4 DEF HoldersJoined, Seated, Live
<1> QED
  BY <1>2, <1>4

\* A step in which nobody comes or goes.
LEMMA NobodyNew ==
  ASSUME InOrder, UNCHANGED <<open, stray>>, SearchesKept,
         \A u \in Uids : /\ Live(u)' <=> Live(u)
                         /\ Live(u) => playerArray'[u].fid = playerArray[u].fid,
         \A g \in GameIds : Room(g)' => NobodyGone(g)',
         ~ stray => up'
  PROVE  InOrder'
<1>1. \A u, v \in Uids : v < u /\ Live(u)' => Live(v)'
  BY DEF InOrder
<1>2. ASSUME NEW c \in open
      PROVE  Served(c)'
  <2>1. Known(c) => Known(c)'
    BY DEF Known
  <2>2. (\E t \in Threads : Connecting(t) /\ pending[t].conn = c) =>
          (\E t \in Threads : Connecting(t)' /\ pending'[t].conn = c)
    BY DEF SearchesKept
  <2> QED
    BY <2>1, <2>2 DEF InOrder, Served
<1>3. ASSUME NEW t \in Threads, Connecting(t)', NEW v \in Uids, v < pending'[t].uid
      PROVE  Live(v)'
  BY <1>3 DEF InOrder, SearchesKept
<1> QED
  BY <1>1, <1>2, <1>3 DEF InOrder

\* The same, when Players and rooms stay as they are too.
LEMMA TablesInOrder ==
  ASSUME InOrder, UNCHANGED <<open, stray, playerArray, gameArray>>, SearchesKept,
         ~ stray => up'
  PROVE  InOrder'
<1>1. \A u \in Uids : /\ Live(u)' <=> Live(u)
                      /\ playerArray'[u].fid = playerArray[u].fid
  BY DEF Live
<1>2. \A g \in GameIds : Room(g)' => NobodyGone(g)'
  BY DEF InOrder, Room, NobodyGone
<1> QED
  BY <1>1, <1>2, NobodyNew

LEMMA SearchesKeptIfTasksKept ==
  ASSUME UNCHANGED pending
  PROVE  SearchesKept
BY DEF SearchesKept, Connecting

LEMMA NewConnectionOrder ==
  ASSUME TypeInv, InOrder, conduct' = "orderly",
         NEW c \in Conns, NewConnection(c)
  PROVE  InOrder'
<1>1. /\ open' = open \cup {c} /\ Idle(c)
      /\ UNCHANGED <<up, stray, playerArray, gameArray>>
  BY DEF NewConnection
<1>2. /\ \A g \in GameIds : Room(g)' => NobodyGone(g)'
      /\ ~ stray' => up'
      /\ \A u \in Uids : Live(u)' <=> Live(u)
      /\ \A d \in Conns : Known(d)' <=> Known(d)
  BY <1>1 DEF InOrder, Room, NobodyGone, Live, Known
<1>3. /\ \A u, v \in Uids : v < u /\ Live(u)' => Live(v)'
      /\ \A d \in open : Served(d)
      /\ \A t \in Threads : Connecting(t) =>
           \A v \in Uids : v < pending[t].uid => Live(v)
  BY <1>2 DEF InOrder
<1>0. open \subseteq Conns
  BY DEF TypeInv, TypeOK
<1>4. CASE (\A uid \in Uids : Live(uid)) /\ UNCHANGED pending /\ c \notin WebConns
  <2>1. \A t \in Threads : /\ Connecting(t)' <=> Connecting(t)
                           /\ pending'[t] = pending[t]
    BY <1>4 DEF Connecting
  <2>2. \A d \in open' : Served(d)'
    BY <1>0, <1>1, <1>2, <1>3, <1>4, <2>1 DEF Served
  <2>3. \A t \in Threads : Connecting(t)' =>
           \A v \in Uids : v < pending'[t].uid => Live(v)'
    BY <1>2, <1>3, <2>1
  <2> QED
    BY <1>2, <1>3, <2>2, <2>3 DEF InOrder
<1>5. ASSUME NEW uid \in Uids, \A v \in Uids : v < uid => Live(v),
             Begin(c, [op |-> "connect", conn |-> c, uid |-> uid,
                       room |-> NoOne, seat |-> NoOne, status |-> 0])
      PROVE  InOrder'
  <2> DEFINE task == [op |-> "connect", conn |-> c, uid |-> uid,
                      room |-> NoOne, seat |-> NoOne, status |-> 0]
  <2>1. task \in Task /\ task.op = "connect" /\ task.uid = uid /\ task.conn = c
    BY DEF Task
  <2>2. Begin(c, task) /\ task # NULL
    BY <1>5, <2>1, RoomsAssumption
  <2> HIDE DEF task
  <2>3. /\ ThreadOf(c) \in Threads /\ pending[ThreadOf(c)] = NULL
        /\ \A t \in Threads : pending'[t] = IF t = ThreadOf(c) THEN task ELSE pending[t]
    BY <1>1, <2>2, BegunTask
  <2>4. \A t \in Threads : Connecting(t)' =>
           \A v \in Uids : v < pending'[t].uid => Live(v)'
    BY <1>2, <1>3, <1>5, <2>1, <2>3 DEF Connecting
  <2>5. ASSUME NEW d \in open'
        PROVE  Served(d)'
    <3>1. CASE d = c
      <4>1. PICK r \in Threads : r = ThreadOf(c)
        BY <2>3
      <4>2. Connecting(r)' /\ pending'[r].conn = c
        BY <2>1, <2>2, <2>3, <4>1 DEF Connecting
      <4> QED
        BY <3>1, <4>2 DEF Served
    <3>2. CASE d # c
      <4>1. Served(d) /\ d \in Conns
        BY <1>0, <1>1, <1>3, <2>5, <3>2
      <4>2. \A t \in Threads : Connecting(t) => Connecting(t)' /\ pending'[t] = pending[t]
        BY <2>3 DEF Connecting
      <4> QED
        BY <1>2, <4>1, <4>2 DEF Served
    <3> QED
      BY <3>1, <3>2
  <2> QED
    BY <1>2, <1>3, <2>4, <2>5 DEF InOrder
<1> QED
  BY <1>4, <1>5 DEF NewConnection, Leaving, Tangled

LEMMA FillSlotOrder ==
  ASSUME TypeInv, InOrder, conduct' = "orderly",
         NEW t \in Threads, FillSlot(t)
  PROVE  InOrder'
<1>1. /\ Connecting(t) /\ Done(t)
      /\ ~ Live(pending[t].uid)
      /\ UNCHANGED <<up, stray, open, gameArray>>
  BY DEF FillSlot, Due, Tangled, Connecting
<1>2. PICK uid \in Uids, c \in Conns : pending[t].uid = uid /\ pending[t].conn = c
  BY <1>1, TaskTypes DEF Connecting
<1>3. PICK skip \in BOOLEAN : playerArray' = [playerArray EXCEPT ![uid] = NewPlayer(c, skip)]
  BY <1>2 DEF FillSlot
<1>4. NewPlayer(c, skip).fid = c /\ NewPlayer(c, skip) # NULL
  BY NewPlayerType, RoomsAssumption DEF NewPlayer
<1>5. \A u \in Uids : playerArray'[u] = IF u = uid THEN NewPlayer(c, skip) ELSE playerArray[u]
  BY <1>3 DEF TypeInv, TypeOK
<1> HIDE DEF NewPlayer
<1>6. \A r \in Threads : pending'[r] = IF r = t THEN NULL ELSE pending[r]
  BY <1>1, DoneTask
<1>7. \A u \in Uids : Live(u)' <=> Live(u) \/ u = uid
  BY <1>4, <1>5 DEF Live
<1>8. \A v \in Uids : v < uid => Live(v)
  BY <1>1, <1>2 DEF InOrder
<1>9. \A u, v \in Uids : v < u /\ Live(u)' => Live(v)'
  BY <1>7, <1>8 DEF InOrder
<1>10. \A r \in Threads : /\ Connecting(r)' => Connecting(r) /\ pending'[r] = pending[r]
                          /\ Connecting(r) /\ r # t => Connecting(r)' /\ pending'[r] = pending[r]
  BY <1>6 DEF Connecting
<1>11. \A r \in Threads : Connecting(r)' =>
         \A v \in Uids : v < pending'[r].uid => Live(v)'
  BY <1>7, <1>10 DEF InOrder
<1>12. ASSUME NEW d \in open
       PROVE  Served(d)'
  <2>1. Known(d) => Known(d)'
    <3> SUFFICES ASSUME NEW u \in Uids, Live(u), playerArray[u].fid = d
                 PROVE  Known(d)'
      BY DEF Known
    <3>1. u # uid
      BY <1>1, <1>2
    <3>2. Live(u)' /\ playerArray'[u].fid = d
      BY <1>5, <1>7, <3>1
    <3> QED
      BY <3>2 DEF Known
  <2>2. Known(c)'
    <3>1. Live(uid)' /\ playerArray'[uid].fid = c
      BY <1>4, <1>5, <1>7
    <3> QED
      BY <3>1 DEF Known
  <2>3. Served(d)
    BY DEF InOrder
  <2> QED
    BY <1>2, <1>7, <1>10, <2>1, <2>2, <2>3 DEF Served
<1>13. \A g \in GameIds : Room(g)' => NobodyGone(g)'
  BY <1>1 DEF InOrder, Room, NobodyGone
<1>14. ~ stray' => up'
  BY <1>1 DEF InOrder
<1> QED
  BY <1>1, <1>9, <1>11, <1>12, <1>13, <1>14 DEF InOrder

\* Whoever enters a room, new or not, is told to everybody there.
LEMMA SitsOrder ==
  ASSUME AllInv, TypeInv', Agree', KPSeatEmpty', SearchesKept,
         NEW g \in GameIds, NEW game \in Game, game = RoomEntered(g),
         NEW uid \in Uids, Live(uid), NEW i \in Pids,
         NEW player \in Player, player.fid = playerArray[uid].fid,
         Sits(g, game, uid, i, player), UNCHANGED <<open, stray>>
  PROVE  InOrder'
<1>1. \A j \in Pids : game.playerArray[j] # Gone
  <2>1. CASE Room(g)
    BY <2>1 DEF AllInv, InOrder, NobodyGone, RoomEntered
  <2>2. CASE ~ Room(g)
    BY <2>2, SeatNumbers DEF NewRoom, RoomEntered, NoOne, Gone
  <2> QED
    BY <2>1, <2>2
<1>2. /\ up' = Announced(gameArray'[g])
      /\ playerArray'[uid] = player
      /\ Live(uid)'
      /\ \A u \in Uids \ {uid} : playerArray'[u] = playerArray[u]
      /\ Room(g)'
      /\ \A h \in GameIds \ {g} : gameArray'[h] = gameArray[h]
      /\ \A j \in Seats : gameArray'[g].playerArray[j] =
                            IF j = i THEN uid ELSE game.playerArray[j]
  BY SitsFields DEF AllInv
<1>3. \A u \in Uids : /\ Live(u)' <=> Live(u)
                      /\ Live(u) => playerArray'[u].fid = playerArray[u].fid
  BY <1>2 DEF Live
<1>4. NobodyGone(g)'
  BY <1>1, <1>2, SeatNumbers DEF NobodyGone
<1>5. \A h \in GameIds : Room(h)' => NobodyGone(h)'
  BY <1>2, <1>4 DEF AllInv, InOrder, Room, NobodyGone
<1>6. up'
  BY <1>2, <1>3, <1>4, EveryoneHears
<1> QED
  BY <1>3, <1>5, <1>6, NobodyNew DEF AllInv

LEMMA StartGameOrder ==
  ASSUME AllInv, TypeInv', Agree', KPSeatEmpty', NEW c \in Conns, StartGame(c)
  PROVE  InOrder'
<1>1. PICK uid \in Uids, g \in GameIds, i \in Pids :
        /\ Live(uid)
        /\ ~ Room(g)
        /\ Sits(g, NewRoom, uid, i,
                [playerArray[uid] EXCEPT !.joinedGame = g, !.pid = i])
        /\ UNCHANGED <<open, stray, pending>>
  BY DEF StartGame, Command, Finds
<1> DEFINE player == [playerArray[uid] EXCEPT !.joinedGame = g, !.pid = i]
<1>2. player \in Player /\ player.fid = playerArray[uid].fid
  <2>1. playerArray[uid] \in Player
    BY <1>1 DEF Live, AllInv, TypeInv, TypeOK
  <2> QED
    BY <2>1 DEF Player
<1>3. Sits(g, NewRoom, uid, i, player)
  BY <1>1
<1> HIDE DEF player
<1>4. NewRoom = RoomEntered(g) /\ NewRoom \in Game
  BY <1>1, NewRoomType DEF RoomEntered
<1> HIDE DEF NewRoom
<1> QED
  BY <1>1, <1>2, <1>3, <1>4, SitsOrder, SearchesKeptIfTasksKept

LEMMA TakeSeatOrder ==
  ASSUME AllInv, TypeInv', Agree', KPSeatEmpty', NEW t \in Threads, TakeSeat(t)
  PROVE  InOrder'
<1>1. /\ pending[t] # NULL /\ pending[t].op = "join" /\ Founded(pending[t])
  BY DEF TakeSeat, Due, AllInv, Agree
<1>2. PICK uid \in Uids, g \in GameIds, i \in Pids :
        /\ pending[t].uid = uid /\ pending[t].room = g /\ pending[t].seat = i
        /\ Room(g)
  BY <1>1, TaskTypes DEF AllInv
<1>3. Live(uid)
  BY <1>1, <1>2 DEF Founded
<1>4. /\ Sits(g, gameArray[g], uid, i, [playerArray[uid] EXCEPT !.pid = i])
      /\ Done(t)
      /\ UNCHANGED <<open, stray>>
  BY <1>2, <1>3 DEF TakeSeat
<1> DEFINE player == [playerArray[uid] EXCEPT !.pid = i]
<1>5. player \in Player /\ player.fid = playerArray[uid].fid
  <2>1. playerArray[uid] \in Player
    BY <1>3 DEF Live, AllInv, TypeInv, TypeOK
  <2> QED
    BY <2>1 DEF Player
<1>6. /\ Sits(g, gameArray[g], uid, i, player)
      /\ gameArray[g] \in Game /\ gameArray[g] = RoomEntered(g)
  BY <1>2, <1>4 DEF AllInv, TypeInv, TypeOK, Room, RoomEntered
<1> HIDE DEF player
<1>7. SearchesKept
  <2>1. \A r \in Threads : pending'[r] = IF r = t THEN NULL ELSE pending[r]
    BY <1>4, DoneTask DEF AllInv
  <2> QED
    BY <1>1, <2>1 DEF SearchesKept, Connecting
<1>8. PICK game \in Game : game = gameArray[g]
  BY <1>6
<1>9. Sits(g, game, uid, i, player) /\ game = RoomEntered(g)
  BY <1>6, <1>8
<1> QED
  BY <1>3, <1>4, <1>5, <1>7, <1>9, SitsOrder

\* A thread begins a task that is no search for a slot.
LEMMA OtherSearches ==
  ASSUME TypeInv, NEW c \in Conns, Idle(c), NEW task \in Task, task.op # "connect",
         Begin(c, task)
  PROVE  SearchesKept
<1>1. /\ ThreadOf(c) \in Threads
      /\ pending[ThreadOf(c)] = NULL
      /\ \A t \in Threads : pending'[t] = IF t = ThreadOf(c) THEN task ELSE pending[t]
  BY BegunTask
<1> QED
  BY <1>1 DEF SearchesKept, Connecting

LEMMA JoinGameOrder ==
  ASSUME AllInv, NEW c \in Conns, JoinGame(c)
  PROVE  InOrder'
<1>1. PICK uid \in Uids, g \in GameIds :
        /\ Live(uid) /\ Idle(c)
        /\ playerArray' = [playerArray EXCEPT ![uid].joinedGame = g]
        /\ \/ \E i \in Pids : Begin(c, [op |-> "join", conn |-> c, uid |-> uid,
                                        room |-> g, seat |-> i, status |-> 0])
           \/ UNCHANGED pending
        /\ UNCHANGED <<up, stray, open, gameArray>>
  BY DEF JoinGame, Command, Finds
<1>2. \A u \in Uids : /\ Live(u)' <=> Live(u)
                      /\ playerArray'[u].fid = playerArray[u].fid
  BY <1>1, JoinedGameUpdate DEF AllInv
<1>3. ASSUME NEW i \in Pids,
             Begin(c, [op |-> "join", conn |-> c, uid |-> uid,
                       room |-> g, seat |-> i, status |-> 0])
      PROVE  SearchesKept
  <2> DEFINE task == [op |-> "join", conn |-> c, uid |-> uid,
                      room |-> g, seat |-> i, status |-> 0]
  <2>1. task \in Task /\ task.op # "connect" /\ Begin(c, task)
    BY <1>3 DEF Task
  <2> HIDE DEF task
  <2> QED
    BY <1>1, <2>1, OtherSearches DEF AllInv
<1>4. SearchesKept
  BY <1>1, <1>3, SearchesKeptIfTasksKept
<1>5. /\ \A h \in GameIds : Room(h)' => NobodyGone(h)'
      /\ ~ stray => up'
  BY <1>1 DEF AllInv, InOrder, Room, NobodyGone
<1> QED
  BY <1>1, <1>2, <1>4, <1>5, NobodyNew DEF AllInv

LEMMA QuitGameOrder ==
  ASSUME AllInv, conduct' = "orderly", NEW c \in Conns, QuitGame(c)
  PROVE  InOrder'
<1>1. PICK uid \in Uids :
        /\ Live(uid) /\ Idle(c)
        /\ playerArray[uid].joinedGame # NoOne
        /\ \E i \in Pids :
             Begin(c, [op |-> "mark", conn |-> c, uid |-> uid,
                       room |-> playerArray[uid].joinedGame, seat |-> i,
                       status |-> gameArray[playerArray[uid].joinedGame].gameStatus])
        /\ UNCHANGED <<up, stray, open, playerArray, gameArray>>
  BY DEF QuitGame, Command, Finds, Leaving, Tangled
<1>2. PICK g \in GameIds, n \in Int :
        g = playerArray[uid].joinedGame /\ n = gameArray[g].gameStatus
  <2>1. playerArray[uid].joinedGame \in GameIds /\ Room(playerArray[uid].joinedGame)
    BY <1>1, RoomOfMember DEF AllInv
  <2> QED
    BY <2>1 DEF AllInv, TypeInv, TypeOK, Room, Game
<1>3. PICK i \in Pids :
        Begin(c, [op |-> "mark", conn |-> c, uid |-> uid, room |-> g,
                  seat |-> i, status |-> n])
  BY <1>1, <1>2
<1> DEFINE task == [op |-> "mark", conn |-> c, uid |-> uid, room |-> g,
                    seat |-> i, status |-> n]
<1>4. task \in Task /\ task.op # "connect" /\ Begin(c, task)
  BY <1>3 DEF Task
<1> HIDE DEF task
<1>5. SearchesKept
  BY <1>1, <1>4, OtherSearches DEF AllInv
<1> QED
  BY <1>1, <1>5, TablesInOrder DEF AllInv, InOrder

LEMMA ClientOrder ==
  ASSUME AllInv, TypeInv', Agree', KPSeatEmpty', conduct' = "orderly",
         NEW c \in Conns, Client(c)
  PROVE  InOrder'
<1>1. CASE NewConnection(c)
  BY <1>1, NewConnectionOrder DEF AllInv
<1>2. CASE Cut(c) \/ CloseConnection(c) \/ JoinNoRoom(c)
  BY <1>2 DEF Cut, CloseConnection, JoinNoRoom, Leaving, Tangled
<1>3. CASE CommandStumbles(c) \/ FrameRunsOn(c)
  BY <1>3, ScanSucceeds DEF CommandStumbles, FrameRunsOn, AllInv
<1>4. CASE StartGame(c)
  BY <1>4, StartGameOrder
<1>5. CASE JoinGame(c)
  BY <1>5, JoinGameOrder
<1>6. CASE Broadcast(c)
  <2>1. PICK uid \in Uids : /\ Live(uid)
                            /\ playerArray[uid].joinedGame # NoOne
                            /\ ~ NoneDangles(playerArray[uid].joinedGame)
    BY <1>6 DEF Broadcast, Command, Finds, NoneDangles
  <2>2. playerArray[uid].joinedGame \in GameIds /\ Room(playerArray[uid].joinedGame)
    BY <2>1, RoomOfMember DEF AllInv
  <2> QED
    BY <2>1, <2>2, RoomIsSound
<1>7. CASE SkipStatus(c)
  <2>1. PICK uid \in Uids :
          /\ Live(uid)
          /\ playerArray' = [playerArray EXCEPT ![uid].isSkipStatus = TRUE]
          /\ UNCHANGED <<up, stray, open, pending, gameArray>>
    BY <1>7 DEF SkipStatus, Command, Finds
  <2> DEFINE q == [playerArray[uid] EXCEPT !.isSkipStatus = TRUE]
  <2>2. playerArray[uid] \in Player
    BY <2>1 DEF AllInv, TypeInv, TypeOK, Live
  <2>3. q \in Player /\ q.fid = playerArray[uid].fid
    BY <2>2 DEF Player
  <2>4. playerArray' = [playerArray EXCEPT ![uid] = q]
    BY <2>1
  <2> HIDE DEF q
  <2>5. \A u \in Uids : playerArray'[u] = IF u = uid THEN q ELSE playerArray[u]
    BY <2>4 DEF AllInv, TypeInv, TypeOK
  <2>6. \A u \in Uids : /\ Live(u)' <=> Live(u)
                        /\ Live(u) => playerArray'[u].fid = playerArray[u].fid
    BY <2>1, <2>3, <2>5, RoomsAssumption DEF Live
  <2>7. /\ \A g \in GameIds : Room(g)' => NobodyGone(g)'
        /\ ~ stray => up'
    BY <2>1 DEF AllInv, InOrder, Room, NobodyGone
  <2> QED
    BY <2>1, <2>6, <2>7, NobodyNew, SearchesKeptIfTasksKept DEF AllInv
<1>8. CASE QuitGame(c)
  BY <1>8, QuitGameOrder
<1> QED
  BY <1>1, <1>2, <1>3, <1>4, <1>5, <1>6, <1>7, <1>8 DEF Client

LEMMA NetworkThreadOrder ==
  ASSUME AllInv, TypeInv', Agree', KPSeatEmpty', conduct' = "orderly",
         NEW t \in Threads, NetworkThread(t)
  PROVE  InOrder'
<1>1. CASE FillSlot(t)
  BY <1>1, FillSlotOrder DEF AllInv
<1>2. CASE TakeSeat(t)
  BY <1>2, TakeSeatOrder
<1>3. ~ MoveUp(t)
  BY MoveUpTangles DEF AllInv
<1>4. CASE MarkGone(t)
  BY <1>4 DEF MarkGone, Leaving, Tangled
<1> QED
  BY <1>1, <1>2, <1>3, <1>4 DEF NetworkThread

LEMMA GameThreadOrder ==
  ASSUME AllInv, NEW g \in GameIds, GameThread(g)
  PROVE  InOrder'
<1>1. Room(g)
  BY DEF GameThread, EnterLobby, WaitFaults, BeginRound, LobbyTimeout, NextStatus,
     EndRound, ClearQuitter, Step, AllInv, TypeInv, RoomsStand
<1>2. NoneDangles(g) /\ EveryPidSeated(g) /\ (~ stray => SendsSurvive(g))
  BY <1>1, RoomIsSound
<1>3. CASE Crash /\ stray
  BY <1>3, TablesInOrder, SearchesKeptIfTasksKept DEF Crash, AllInv
<1>4. CASE UNCHANGED <<up, stray, open, pending, playerArray, gameArray>>
  BY <1>4, TablesInOrder, SearchesKeptIfTasksKept DEF AllInv, InOrder
<1>5. CASE EnterLobby(g)
  <2>1. UNCHANGED <<up, stray, open, pending, gameArray>>
    BY <1>2, <1>5 DEF EnterLobby, Step
  <2>2. ASSUME NEW u \in Uids
        PROVE  /\ Live(u)' <=> Live(u)
               /\ Live(u) => playerArray'[u].fid = playerArray[u].fid
    <3>0. playerArray[u] \in Player \cup {NULL}
      BY DEF AllInv, TypeInv, TypeOK
    <3>1. CASE \E i \in Seats : gameArray[g].playerArray[i] = u
      <4>1. playerArray[u] \in Player /\ Live(u)
        BY <1>2, <3>0, <3>1 DEF NoneDangles, Dangling, Live
      <4>2. playerArray'[u] = [playerArray[u] EXCEPT !.isSkipStatus = FALSE]
        BY <1>2, <1>5, <3>1 DEF EnterLobby
      <4>3. /\ [playerArray[u] EXCEPT !.isSkipStatus = FALSE] \in Player
            /\ [playerArray[u] EXCEPT !.isSkipStatus = FALSE].fid = playerArray[u].fid
        BY <4>1 DEF Player
      <4> QED
        BY <4>1, <4>2, <4>3, RoomsAssumption DEF Live
    <3>2. CASE ~ \E i \in Seats : gameArray[g].playerArray[i] = u
      BY <1>2, <1>5, <3>2 DEF EnterLobby, Live
    <3> QED
      BY <3>1, <3>2
  <2>3. /\ \A h \in GameIds : Room(h)' => NobodyGone(h)'
        /\ ~ stray => up'
    BY <2>1 DEF AllInv, InOrder, Room, NobodyGone
  <2> QED
    BY <2>1, <2>2, <2>3, NobodyNew, SearchesKeptIfTasksKept DEF AllInv
<1>6. CASE WaitFaults(g)
  BY <1>2, <1>6 DEF WaitFaults
<1>7. ASSUME NEW n \in Int, gameArray' = [gameArray EXCEPT ![g].gameStatus = n],
             UNCHANGED <<up, stray, open, pending, playerArray>>
      PROVE  InOrder'
  <2>1. /\ \A h \in GameIds : Room(h)' <=> Room(h)
        /\ \A h \in GameIds : Room(h)' =>
             gameArray'[h].playerArray = gameArray[h].playerArray
    BY <1>1, <1>7, StatusUpdate DEF AllInv
  <2>2. \A u \in Uids : Live(u)' <=> Live(u)
    BY <1>7 DEF Live
  <2>3. /\ \A h \in GameIds : Room(h)' => NobodyGone(h)'
        /\ ~ stray => up'
    BY <1>7, <2>1 DEF AllInv, InOrder, NobodyGone
  <2> QED
    BY <1>7, <2>2, <2>3, NobodyNew, SearchesKeptIfTasksKept DEF AllInv
<1>8. CASE BeginRound(g)
  <2> DEFINE dayOne == 2
  <2>1. \/ Crash /\ stray
        \/ /\ gameArray' = [gameArray EXCEPT ![g].gameStatus = dayOne]
           /\ UNCHANGED <<up, stray, open, pending, playerArray>>
    BY <1>2, <1>8 DEF BeginRound, Step
  <2>2. dayOne \in Int
    OBVIOUS
  <2> HIDE DEF dayOne
  <2> QED
    BY <1>3, <1>7, <2>1, <2>2
<1>9. CASE NextStatus(g)
  <2>1. \/ Crash /\ stray
        \/ /\ gameArray' = [gameArray EXCEPT ![g].gameStatus = gameArray[g].gameStatus + 1]
           /\ UNCHANGED <<up, stray, open, pending, playerArray>>
    BY <1>2, <1>9 DEF NextStatus, Step, AllInv, TypeInv, TypeOK
  <2>2. gameArray[g].gameStatus + 1 \in Int
    <3>1. gameArray[g].gameStatus \in Int
      BY <1>1 DEF AllInv, TypeInv, TypeOK, Room, Game
    <3> QED
      BY <3>1
  <2> QED
    BY <1>3, <1>7, <2>1, <2>2
<1>10. CASE EndRound(g) \/ LobbyTimeout(g)
  BY <1>2, <1>3, <1>4, <1>10 DEF EndRound, LobbyTimeout, Step
<1>11. CASE ClearQuitter(g)
  BY <1>4, <1>11, SweepIdle DEF AllInv, ClearQuitter
<1> QED
  BY <1>5, <1>6, <1>8, <1>9, <1>10, <1>11 DEF GameThread

\* As long as nobody has left, every web client has a Player, both network
\* threads have not taken one slot or one seat, and the stray pointer is
\* readable, no scan of playerArray - not even one made while the other
\* thread is between its search and its write - and no loop of a game thread
\* dereferences NULL.
THEOREM OrderlyRunsSurvive == Spec => []OrderlyRunSurvives
<1>1. Init => OrderInv
  BY DEF Init, OrderInv, InOrder, Connecting, Live, Room
<1>2. /\ TypeInv /\ MemberInv /\ KPSeatEmpty /\ OrderInv
      /\ TypeInv' /\ MemberInv' /\ KPSeatEmpty'
      /\ [Next]_vars
      => OrderInv'
  <2> SUFFICES ASSUME TypeInv, MemberInv, KPSeatEmpty, OrderInv,
                      TypeInv', MemberInv', KPSeatEmpty', [Next]_vars,
                      conduct' = "orderly"
               PROVE  InOrder'
    BY DEF OrderInv
  <2>1. AllInv /\ Agree'
    BY ConductGrows DEF TypeInv, AllInv, OrderInv, MemberInv, Settled
  <2>2. CASE UNCHANGED vars
    BY <2>1, <2>2, TablesInOrder, SearchesKeptIfTasksKept DEF vars, AllInv, InOrder
  <2> QED
    BY <2>1, <2>2, ClientOrder, NetworkThreadOrder, GameThreadOrder DEF Next
<1>3. OrderInv => OrderlyRunSurvives
  BY DEF OrderInv, InOrder, OrderlyRunSurvives
<1> QED
  BY <1>1, <1>2, <1>3, MembersAlways, KPSeatStaysEmpty, PTL DEF Spec

-----------------------------------------------------------------------------
(* Rooms implements Membership.  What the clients see of a step is told by *)
(* three predicates: who sits where, which places were handed out, and who *)
(* is in a room.  The first two read the seats through the Players, so a   *)
(* connection must stand for one Player (OneFid).                          *)

LEMMA SameView ==
  ASSUME Settled' <=> Settled,
         Settled => /\ \A g \in GameIds, i \in Pids, c \in Conns :
                         SeatOfClient(g, i, c)' <=> SeatOfClient(g, i, c)
                    /\ \A g \in GameIds, i \in Pids : Taken(g, i)' <=> Taken(g, i)
                    /\ \A c \in Conns : InRoom(c)' <=> InRoom(c)
  PROVE  UNCHANGED Members!vars
<1>1. \A c \in Conns : (IF Settled THEN PlacesOf(c) ELSE {})'
                         = IF Settled THEN PlacesOf(c) ELSE {}
  BY DEF PlacesOf
<1>2. (IF Settled THEN PlacesTaken ELSE {})' = IF Settled THEN PlacesTaken ELSE {}
  BY DEF PlacesTaken
<1>3. {c \in Conns : Settled /\ InRoom(c)}' = {c \in Conns : Settled /\ InRoom(c)}
  OBVIOUS
<1> QED
  BY <1>1, <1>2, <1>3 DEF Members!vars

LEMMA ArriveView ==
  ASSUME Settled, Settled', NEW c \in Conns, NEW g \in GameIds, NEW i \in Pids,
         ~ InRoom(c), ~ Taken(g, i),
         \A j \in Pids : j < i => Taken(g, j),
         \A h \in GameIds, j \in Pids, d \in Conns :
           SeatOfClient(h, j, d)' <=> IF d = c THEN h = g /\ j = i ELSE SeatOfClient(h, j, d),
         \A h \in GameIds, j \in Pids : Taken(h, j)' <=> Taken(h, j) \/ (h = g /\ j = i),
         \A d \in Conns : InRoom(d)' <=> InRoom(d) \/ d = c
  PROVE  Members!Next
<1>1. \A d \in Conns : PlacesOf(d)' = IF d = c THEN {<<g, i>>} ELSE PlacesOf(d)
  BY DEF PlacesOf
<1>2. PlacesTaken' = PlacesTaken \cup {<<g, i>>}
  BY DEF PlacesTaken
<1>3. <<g, i>> \notin PlacesTaken /\ \A j \in Pids : j < i => <<g, j>> \in PlacesTaken
  BY DEF PlacesTaken
<1>4. [d \in Conns |-> PlacesOf(d)]' = [[d \in Conns |-> PlacesOf(d)] EXCEPT ![c] = {<<g, i>>}]
  BY <1>1
<1>5. {d \in Conns : InRoom(d)}' = {d \in Conns : InRoom(d)} \cup {c}
  OBVIOUS
<1>6. Members!Arrive(c)
  BY <1>2, <1>3, <1>4, <1>5 DEF Members!Arrive, Members!Places, Pids
<1> QED
  BY <1>6 DEF Members!Next

LEMMA RefuseView ==
  ASSUME Settled, Settled', NEW c \in Conns, NEW g \in GameIds,
         ~ InRoom(c), \A j \in Pids : Taken(g, j),
         \A h \in GameIds, j \in Pids, d \in Conns :
           SeatOfClient(h, j, d)' <=> SeatOfClient(h, j, d),
         \A h \in GameIds, j \in Pids : Taken(h, j)' <=> Taken(h, j),
         \A d \in Conns : InRoom(d)' <=> InRoom(d) \/ d = c
  PROVE  Members!Next
<1>1. \A d \in Conns : PlacesOf(d)' = PlacesOf(d)
  BY DEF PlacesOf
<1>2. PlacesTaken' = PlacesTaken /\ \A j \in Pids : <<g, j>> \in PlacesTaken
  BY DEF PlacesTaken
<1>3. {d \in Conns : InRoom(d)}' = {d \in Conns : InRoom(d)} \cup {c}
  OBVIOUS
<1>4. Members!Refuse(c)
  BY <1>1, <1>2, <1>3 DEF Members!Refuse, Members!Full, Members!Places, Pids
<1> QED
  BY <1>4 DEF Members!Next

LEMMA DepartView ==
  ASSUME Settled, Settled', NEW c \in Conns, InRoom(c),
         \A h \in GameIds, j \in Pids, d \in Conns :
           SeatOfClient(h, j, d)' <=> d # c /\ SeatOfClient(h, j, d),
         \A h \in GameIds, j \in Pids : Taken(h, j)' <=> Taken(h, j),
         \A d \in Conns : InRoom(d)' <=> InRoom(d) /\ d # c
  PROVE  Members!Next
<1>1. \A d \in Conns : PlacesOf(d)' = IF d = c THEN {} ELSE PlacesOf(d)
  BY DEF PlacesOf
<1>2. PlacesTaken' = PlacesTaken
  BY DEF PlacesTaken
<1>3. [d \in Conns |-> PlacesOf(d)]' = [[d \in Conns |-> PlacesOf(d)] EXCEPT ![c] = {}]
  BY <1>1
<1>4. {d \in Conns : InRoom(d)}' = {d \in Conns : InRoom(d)} \ {c}
  OBVIOUS
<1>5. Members!Depart(c)
  BY <1>2, <1>3, <1>4 DEF Members!Depart
<1> QED
  BY <1>5 DEF Members!Next

LEMMA DisplaceView ==
  ASSUME Settled, Settled', NEW c \in Conns, NEW d \in Conns,
         NEW g \in GameIds, NEW i \in Pids, InRoom(d),
         \A j \in Pids : Taken(g, j),
         \A h \in GameIds, j \in Pids : ~ SeatOfClient(h, j, d),
         \A h \in GameIds, j \in Pids : SeatOfClient(h, j, c) <=> h = g /\ j = i,
         \A h \in GameIds, j \in Pids, e \in Conns :
           SeatOfClient(h, j, e)' <=> e # c /\ SeatOfClient(h, j, e),
         \A h \in GameIds, j \in Pids : Taken(h, j)' <=> Taken(h, j),
         \A e \in Conns : InRoom(e)' <=> InRoom(e) /\ e # d
  PROVE  Members!Next
<1>1. \A e \in Conns : PlacesOf(e)' = IF e = c THEN {} ELSE PlacesOf(e)
  BY DEF PlacesOf
<1>2. PlacesOf(c) = {<<g, i>>} /\ PlacesOf(d) = {}
  BY DEF PlacesOf
<1>3. PlacesTaken' = PlacesTaken /\ \A j \in Pids : <<g, j>> \in PlacesTaken
  BY DEF PlacesTaken
<1>4. [e \in Conns |-> PlacesOf(e)]' = [[e \in Conns |-> PlacesOf(e)] EXCEPT ![c] = {}]
  BY <1>1
<1>5. {e \in Conns : InRoom(e)}' = {e \in Conns : InRoom(e)} \ {d}
  OBVIOUS
<1>6. Members!Displace(c, d)
  BY <1>2, <1>3, <1>4, <1>5 DEF Members!Displace, Members!Full, Members!Places, Pids
<1> QED
  BY <1>6 DEF Members!Next

LEMMA ScatterView ==
  ASSUME Settled, ~ Settled'
  PROVE  Members!Next
<1>1. {c \in Conns : Settled /\ InRoom(c)}' = {}
  OBVIOUS
<1>2. (IF Settled THEN PlacesTaken ELSE {})' = {}
  OBVIOUS
<1>3. [c \in Conns |-> IF Settled THEN PlacesOf(c) ELSE {}]' = [c \in Conns |-> {}]
  OBVIOUS
<1>4. Settled' = FALSE
  BY DEF Settled
<1>5. Members!Scatter
  BY <1>1, <1>2, <1>3, <1>4 DEF Members!Scatter
<1> QED
  BY <1>5 DEF Members!Next

-----------------------------------------------------------------------------
(* The steps.  A connection stands for at most one Player, so what its     *)
(* client has is what that Player has.                                     *)

\* The room and the seats of a connected client.
LEMMA ViewOfPlayer ==
  ASSUME Agree, NEW uid \in Uids, Live(uid)
  PROVE  /\ InRoom(playerArray[uid].fid) <=>
              playerArray[uid].joinedGame # NoOne /\ ~ Joining(uid)
         /\ \A h \in GameIds, j \in Pids :
              SeatOfClient(h, j, playerArray[uid].fid)
                <=> Room(h) /\ gameArray[h].playerArray[j] = uid
         /\ \A v \in Uids \ {uid} : Live(v) => playerArray[v].fid # playerArray[uid].fid
<1>1. \A v \in Uids : Live(v) /\ playerArray[v].fid = playerArray[uid].fid => v = uid
  BY DEF Agree, OneFid
<1> QED
  BY <1>1 DEF InRoom, SeatOfClient, Seated, Live

\* Only uid may have begun or ended taking a seat.
LEMMA OthersStillJoining ==
  ASSUME NEW uid \in Uids, NEW u \in Uids \ {uid},
         \A t \in Threads :
           \/ TaskKept(t)
           \/ /\ pending[t] # NULL => pending[t].op # "join" \/ pending[t].uid = uid
              /\ pending'[t] # NULL => pending'[t].op # "join" \/ pending'[t].uid = uid
  PROVE  Joining(u)' <=> Joining(u)
<1>1. ASSUME NEW t \in Threads
      PROVE  pending[t] # NULL /\ pending[t].op = "join" /\ pending[t].uid = u <=>
               pending'[t] # NULL /\ pending'[t].op = "join" /\ pending'[t].uid = u
  BY DEF TaskKept
<1> QED
  BY <1>1 DEF Joining

LEMMA NobodyMovedView ==
  ASSUME TypeInv, Settled, Settled', NobodyMoved
  PROVE  UNCHANGED Members!vars
<1>1. \A u \in Uids : Joining(u)' <=> Joining(u)
  BY DEF NobodyMoved, TaskKept, Joining
<1>2. \A c \in Conns : InRoom(c)' <=> InRoom(c)
  BY <1>1 DEF NobodyMoved, InRoom
<1>3. \A g \in GameIds, i \in Pids : Taken(g, i)' <=> Taken(g, i)
  BY DEF NobodyMoved, RoomsKept, Taken
<1>4. \A g \in GameIds, i \in Pids : Room(g) => (Seated(g, i)' <=> Seated(g, i))
  BY DEF NobodyMoved, RoomsKept, Seated
<1>5. \A g \in GameIds, i \in Pids, c \in Conns :
        SeatOfClient(g, i, c)' <=> SeatOfClient(g, i, c)
  BY <1>4 DEF NobodyMoved, RoomsKept, SeatOfClient, Seated, Live
<1> QED
  BY <1>2, <1>3, <1>5, SameView

\* A new client is in no room, and a free uid is on no seat.
LEMMA ConnectedView ==
  ASSUME TypeInv, Agree, Settled, Settled',
         NEW uid \in Uids, NEW c \in Conns, Connected(uid, c)
  PROVE  UNCHANGED Members!vars
<1>1. \A u \in Uids \ {uid} : Joining(u)' <=> Joining(u)
  BY OthersStillJoining DEF Connected, TasksDone
<1>2. \A d \in Conns : InRoom(d)' <=> InRoom(d)
  BY <1>1 DEF Connected, InRoom, Live
<1>3. \A g \in GameIds, i \in Pids : Room(g) => gameArray[g].playerArray[i] # uid
  BY OneSeat DEF Connected
<1>4. \A g \in GameIds, i \in Pids : Taken(g, i)' <=> Taken(g, i)
  BY DEF Connected, Taken, Room
<1>5. \A g \in GameIds, i \in Pids, d \in Conns :
        SeatOfClient(g, i, d)' <=> SeatOfClient(g, i, d)
  BY <1>3 DEF Connected, SeatOfClient, Seated, Room, Live
<1> QED
  BY <1>2, <1>4, <1>5, SameView

\* Nothing is promised to a client whose seat is still to be taken; one for
\* whom there is none is refused now.
LEMMA JoinedView ==
  ASSUME TypeInv, Agree, Settled, Settled',
         NEW uid \in Uids, NEW g \in GameIds, Joined(uid, g)
  PROVE  Members!Next \/ UNCHANGED Members!vars
<1>1. /\ Live(uid) /\ playerArray[uid].joinedGame = NoOne
      /\ Room(g) /\ gameArray' = gameArray
      /\ \A u \in Uids : Live(u)' <=> Live(u)
      /\ \A u \in Uids : playerArray'[u].fid = playerArray[u].fid
      /\ \A u \in Uids \ {uid} : playerArray'[u] = playerArray[u]
      /\ playerArray'[uid].joinedGame = g /\ g # NoOne
  BY SeatNumbers DEF Joined
<1>2. PICK c \in Conns : c = playerArray[uid].fid /\ ~ InRoom(c)
  BY <1>1, ViewOfPlayer, PlayerFields DEF Live, TypeInv, TypeOK
<1>3. \A h \in GameIds, j \in Pids : Taken(h, j)' <=> Taken(h, j)
  BY <1>1 DEF Taken, Room
<1>4. \A h \in GameIds, j \in Pids, d \in Conns :
        SeatOfClient(h, j, d)' <=> SeatOfClient(h, j, d)
  BY <1>1 DEF SeatOfClient, Seated, Room
<1>5. \A u \in Uids \ {uid} : Joining(u)' <=> Joining(u)
  BY OthersStillJoining DEF Joined, SeatFound
<1>6. \A v \in Uids \ {uid} : Live(v) => playerArray[v].fid # c
  BY <1>1, <1>2, ViewOfPlayer
<1>7. \A d \in Conns : d # c => (InRoom(d)' <=> InRoom(d))
  BY <1>1, <1>2, <1>5 DEF InRoom
<1>8. InRoom(c)' <=> ~ Joining(uid)'
  BY <1>1, <1>2, <1>6 DEF InRoom
<1>9. CASE Joining(uid)'
  <2>1. \A d \in Conns : InRoom(d)' <=> InRoom(d)
    BY <1>2, <1>7, <1>8, <1>9
  <2> QED
    BY <1>3, <1>4, <2>1, SameView
<1>10. CASE ~ Joining(uid)'
  <2>1. gameArray[g].playerNum = MAX_PLAYERS_PER_GAME
    BY <1>10 DEF Joined
  <2>2. \A j \in Pids : Taken(g, j)
    BY <1>1, <2>1, RoomsAssumption DEF Agree, RoomInv, OccupiedPrefix, Pids, Taken
  <2>3. \A d \in Conns : InRoom(d)' <=> InRoom(d) \/ d = c
    BY <1>7, <1>8, <1>10
  <2> QED
    BY <1>2, <1>3, <1>4, <2>2, <2>3, RefuseView
<1> QED
  BY <1>9, <1>10

\* A client who leaves gives up his place, or has none and another one
\* loses his.
LEMMA LeftView ==
  ASSUME TypeInv, Agree, Settled, Settled',
         NEW uid \in Uids, NEW g \in GameIds, NEW i \in Pids \cup {NoOne},
         Left(uid, g, i)
  PROVE  Members!Next \/ UNCHANGED Members!vars
<1> DEFINE c == playerArray[uid].fid
           seat == gameArray[g].playerArray[i]
<1>1. Live(uid) /\ c \in Conns
  BY PlayerFields DEF Left, Live, TypeInv, TypeOK
<1>2. /\ InRoom(c) <=> playerArray[uid].joinedGame # NoOne
      /\ \A h \in GameIds, j \in Pids :
           SeatOfClient(h, j, c) <=> Room(h) /\ gameArray[h].playerArray[j] = uid
  BY <1>1, ViewOfPlayer DEF Left
<1>3. \A d \in Conns : InRoom(d)' <=> InRoom(d) /\ d # c
  <2>1. \A v \in Uids \ {uid} : Live(v) => playerArray[v].fid # c
    BY <1>1, ViewOfPlayer
  <2>2. \A v \in Uids \ {uid} : Joining(v)' <=> Joining(v)
    BY OthersStillJoining DEF Left, TasksDone
  <2>3. \A v \in Uids \ {uid} : Live(v)' <=> Live(v)
    BY DEF Left, Live
  <2>4. Live(uid)' => playerArray'[uid].joinedGame = NoOne
    BY DEF Left
  <2> QED
    BY <1>1, <2>1, <2>2, <2>3, <2>4 DEF Left, InRoom
<1>4. i # NoOne => /\ i \in Pids /\ Room(g) /\ seat # NoOne
                   /\ \/ seat = uid
                      \/ \A j \in Pids : Taken(g, j)
  <2> SUFFICES ASSUME i # NoOne, seat # uid
               PROVE  i \in Pids /\ Room(g) /\ \A j \in Pids : Taken(g, j)
    BY SeatNumbers DEF Left, Taken
  <2>1. Room(g) /\ gameArray[g].playerNum = MAX_PLAYERS_PER_GAME
    BY DEF Left
  <2>2. \A j \in Pids : gameArray[g].playerArray[j] # NoOne
    BY <2>1, RoomsAssumption DEF Agree, RoomInv, OccupiedPrefix, Pids
  <2> QED
    BY <2>1, <2>2 DEF Taken
<1>5. \A h \in GameIds, j \in Pids : Room(h) =>
        gameArray'[h].playerArray[j] =
          IF h = g /\ j = i THEN Gone ELSE gameArray[h].playerArray[j]
  BY SeatNumbers DEF Left
<1>6. \A h \in GameIds, j \in Pids : Taken(h, j)' <=> Taken(h, j)
  <2>1. Gone # NoOne /\ NoOne \notin Pids
    BY DEF Gone, NoOne, Pids
  <2>2. \A h \in GameIds, j \in Pids : Room(h) =>
          (gameArray'[h].playerArray[j] # NoOne <=> gameArray[h].playerArray[j] # NoOne)
    BY <1>4, <1>5, <2>1
  <2> QED
    BY <2>2 DEF Left, Taken
<1>7. \A h \in GameIds, j \in Pids, d \in Conns :
        SeatOfClient(h, j, d)' <=> SeatOfClient(h, j, d) /\ ~ (h = g /\ j = i)
  <2> SUFFICES ASSUME NEW h \in GameIds, NEW j \in Pids, Room(h)
               PROVE  \A d \in Conns :
                        SeatOfClient(h, j, d)'
                          <=> SeatOfClient(h, j, d) /\ ~ (h = g /\ j = i)
    BY DEF Left, SeatOfClient
  <2>1. CASE h = g /\ j = i
    BY <1>5, <2>1, SeatNumbers DEF SeatOfClient, Seated
  <2>2. CASE ~ (h = g /\ j = i)
    <3>1. gameArray'[h].playerArray[j] = gameArray[h].playerArray[j] /\ Room(h)'
      BY <1>5, <2>2 DEF Left
    <3>2. gameArray[h].playerArray[j] # uid
      BY <2>2 DEF Left
    <3> QED
      BY <2>2, <3>1, <3>2 DEF Left, SeatOfClient, Seated, Live
  <2> QED
    BY <2>1, <2>2
<1>8. \A h \in GameIds, j \in Pids : SeatOfClient(h, j, c) => h = g /\ j = i
  BY <1>2 DEF Left
<1>9. CASE playerArray[uid].joinedGame = NoOne
  <2>1. i = NoOne
    BY <1>9 DEF Left
  <2>2. i \notin Pids
    BY <2>1 DEF NoOne, Pids
  <2>3. \A d \in Conns : InRoom(d)' <=> InRoom(d)
    BY <1>2, <1>3, <1>9
  <2>4. \A h \in GameIds, j \in Pids, d \in Conns :
          SeatOfClient(h, j, d)' <=> SeatOfClient(h, j, d)
    BY <1>7, <2>2
  <2> QED
    BY <1>6, <2>3, <2>4, SameView
<1>10. CASE /\ playerArray[uid].joinedGame # NoOne
            /\ i = NoOne \/ seat = uid \/ seat \notin Uids
  <2>1. \A d \in Conns : i \in Pids /\ SeatOfClient(g, i, d) => d = c
    BY <1>10 DEF SeatOfClient, Seated, NoOne, Pids
  <2>2. \A h \in GameIds, j \in Pids, d \in Conns :
          SeatOfClient(h, j, d)' <=> d # c /\ SeatOfClient(h, j, d)
    BY <1>7, <1>8, <2>1
  <2>3. InRoom(c)
    BY <1>2, <1>10
  <2> HIDE DEF c
  <2> QED
    BY <1>1, <1>3, <1>6, <2>2, <2>3, DepartView
<1>11. CASE /\ playerArray[uid].joinedGame # NoOne
            /\ i # NoOne /\ seat # uid /\ seat \in Uids
  <2> DEFINE e == playerArray[seat].fid
  <2>1. i \in Pids /\ Room(g) /\ \A j \in Pids : Taken(g, j)
    BY <1>4, <1>11
  <2>2. Live(seat) /\ \A h \in GameIds, j \in Pids :
          Room(h) /\ gameArray[h].playerArray[j] = seat => h = g /\ j = i
    BY <1>11, <2>1, OneSeat
  <2>3. e \in Conns
    BY <1>11, <2>2, PlayerFields DEF Live, TypeInv, TypeOK
  <2>4. \A h \in GameIds, j \in Pids :
          SeatOfClient(h, j, e) <=> Room(h) /\ gameArray[h].playerArray[j] = seat
    BY <1>11, <2>2, ViewOfPlayer
  <2>5. \A h \in GameIds, j \in Pids : SeatOfClient(h, j, e) <=> h = g /\ j = i
    BY <2>1, <2>2, <2>4
  <2>6. \A h \in GameIds, j \in Pids : ~ SeatOfClient(h, j, c)
    BY <1>2, <1>8, <1>11
  <2>7. \A d \in Conns : SeatOfClient(g, i, d) => d = e
    BY DEF SeatOfClient
  <2>8. \A h \in GameIds, j \in Pids, d \in Conns :
          SeatOfClient(h, j, d)' <=> d # e /\ SeatOfClient(h, j, d)
    BY <1>7, <2>1, <2>5, <2>7
  <2>9. InRoom(c)
    BY <1>2, <1>11
  <2> HIDE DEF c, e
  <2> QED
    BY <1>1, <1>3, <1>6, <2>1, <2>3, <2>5, <2>6, <2>8, <2>9, DisplaceView
<1> QED
  BY <1>9, <1>10, <1>11

\* A client who takes his seat gets the first place that was never handed
\* out.
LEMMA EnteredView ==
  ASSUME TypeInv, Agree, Settled, Settled',
         NEW uid \in Uids, NEW g \in GameIds, NEW i \in Pids, Entered(uid, g, i)
  PROVE  Members!Next
<1> DEFINE c == playerArray[uid].fid
           game == RoomEntered(g)
<1>1. Live(uid) /\ c \in Conns /\ ~ InRoom(c)
  <2>1. /\ Live(uid) /\ playerArray[uid] \in Player
        /\ playerArray[uid].joinedGame = NoOne \/ Joining(uid)
    BY DEF Entered, Live, TypeInv, TypeOK
  <2> QED
    BY <2>1, PlayerFields, ViewOfPlayer
<1>2. Unseated(uid)
  BY DEF Entered
<1>3. /\ \A u \in Uids : /\ Live(u)' <=> Live(u)
                         /\ playerArray'[u].fid = playerArray[u].fid
      /\ playerArray'[uid].joinedGame = g /\ g # NoOne
      /\ \A u \in Uids \ {uid} : playerArray'[u] = playerArray[u]
      /\ Room(g)'
      /\ \A h \in GameIds \ {g} : gameArray'[h] = gameArray[h]
      /\ game.playerArray[i] = NoOne
      /\ \A j \in Pids : j < i => game.playerArray[j] # NoOne
      /\ \A j \in Pids : gameArray'[g].playerArray[j] =
                           IF j = i THEN uid ELSE game.playerArray[j]
  BY SeatNumbers DEF Entered
<1>4. /\ Room(g) => game = gameArray[g]
      /\ ~ Room(g) => \A j \in Pids : game.playerArray[j] = NoOne
  BY EnteredRoomTypes, SeatNumbers DEF RoomEntered
<1>5. \A v \in Uids \ {uid} : Joining(v)' <=> Joining(v)
  BY OthersStillJoining DEF Entered, TasksDone, TasksOfOthers
<1>6. ~ Joining(uid)'
  BY DEF Entered, TasksOfOthers, Joining
<1>7. \A v \in Uids \ {uid} : Live(v) => playerArray[v].fid # c
  BY <1>1, ViewOfPlayer
<1>8. \A d \in Conns : InRoom(d)' <=> InRoom(d) \/ d = c
  BY <1>1, <1>3, <1>5, <1>6, <1>7 DEF InRoom
<1>9. \A h \in GameIds, j \in Pids : ~ SeatOfClient(h, j, c)
  BY <1>1, <1>2, ViewOfPlayer DEF Unseated
<1> HIDE DEF game
<1>10. \A j \in Pids : Taken(g, j) <=> game.playerArray[j] # NoOne
  BY <1>4 DEF Taken
<1>11. ~ Taken(g, i) /\ \A j \in Pids : j < i => Taken(g, j)
  BY <1>3, <1>10
<1>12. \A h \in GameIds, j \in Pids : Taken(h, j)' <=> Taken(h, j) \/ (h = g /\ j = i)
  <2>1. \A j \in Pids : Taken(g, j)' <=> Taken(g, j) \/ j = i
    BY <1>3, <1>10, SeatNumbers DEF Taken
  <2>2. \A h \in GameIds \ {g}, j \in Pids : Taken(h, j)' <=> Taken(h, j)
    BY <1>3 DEF Taken, Room
  <2> QED
    BY <2>1, <2>2
<1>13. ASSUME NEW h \in GameIds, NEW j \in Pids, NEW d \in Conns
       PROVE  SeatOfClient(h, j, d)' <=> IF d = c THEN h = g /\ j = i ELSE SeatOfClient(h, j, d)
  <2>1. CASE h # g
    <3>1. SeatOfClient(h, j, d)' <=> SeatOfClient(h, j, d)
      BY <1>3, <2>1 DEF SeatOfClient, Seated, Room
    <3> QED
      BY <1>9, <2>1, <3>1
  <2>2. CASE h = g /\ j = i
    <3>1. gameArray'[g].playerArray[i] = uid
      BY <1>3
    <3>2. SeatOfClient(g, i, d)' <=> d = c
      BY <1>1, <1>3, <3>1 DEF SeatOfClient, Seated
    <3>3. ~ SeatOfClient(g, i, d)
      BY <1>11, SeatNumbers DEF Taken, SeatOfClient, Seated
    <3> QED
      BY <2>2, <3>2, <3>3
  <2>3. CASE h = g /\ j # i
    <3>1. gameArray'[g].playerArray[j] = game.playerArray[j]
      BY <1>3, <2>3
    <3>2. SeatOfClient(g, j, d)' <=> SeatOfClient(g, j, d)
      <4>1. CASE Room(g)
        BY <1>3, <1>4, <3>1, <4>1 DEF SeatOfClient, Seated
      <4>2. CASE ~ Room(g)
        BY <1>4, <3>1, <4>2, SeatNumbers DEF SeatOfClient, Seated
      <4> QED
        BY <4>1, <4>2
    <3> QED
      BY <1>9, <2>3, <3>2
  <2> QED
    BY <2>1, <2>2, <2>3
<1> HIDE DEF c
<1> QED
  BY <1>1, <1>8, <1>11, <1>12, <1>13, ArriveView

LEMMA InitView == Init => Members!Init
<1> SUFFICES ASSUME Init
             PROVE  Members!Init
  OBVIOUS
<1>1. Settled = TRUE
  BY DEF Init, Settled
<1>2. {c \in Conns : Settled /\ InRoom(c)} = {}
  BY DEF Init, InRoom, Live
<1>3. (IF Settled THEN PlacesTaken ELSE {}) = {}
  BY DEF Init, PlacesTaken, Taken, Room
<1>4. [c \in Conns |-> IF Settled THEN PlacesOf(c) ELSE {}] = [c \in Conns |-> {}]
  BY DEF Init, PlacesOf, SeatOfClient, Room
<1> QED
  BY <1>1, <1>2, <1>3, <1>4 DEF Members!Init

LEMMA NextView ==
  TypeInv /\ MemberInv /\ [Next]_vars => [Members!Next]_Members!vars
<1> SUFFICES ASSUME TypeInv, MemberInv, [Next]_vars
             PROVE  Members!Next \/ UNCHANGED Members!vars
  BY DEF Members!vars
<1>1. Settled' => Settled
  BY ConductGrows DEF TypeInv
<1>2. CASE ~ Settled
  BY <1>1, <1>2, SameView
<1>3. CASE Settled /\ ~ Settled'
  BY <1>3, ScatterView
<1>4. CASE Settled /\ Settled'
  <2>1. Agree /\ MemberStep
    BY <1>4, NextIsMemberStep
  <2> QED
    BY <1>4, <2>1, NobodyMovedView, ConnectedView, LeftView, JoinedView, EnteredView
       DEF MemberStep
<1> QED
  BY <1>1, <1>2, <1>3, <1>4

\* To the clients, three tables that name each other by uid and pid are one
\* table of places, as long as the tables are not tangled: joinGame and
\* startGame hand out places in order of arrival, each one once; quitGame and
\* the closing of a connection give up the client's own place and no other,
\* except for one of a full room, by a client whom that room refused.
THEOREM RoomsImplementMembership == Spec => ImplementsMembership
BY MembersAlways, InitView, NextView, PTL DEF Spec, ImplementsMembership, Members!Spec

=============================================================================
