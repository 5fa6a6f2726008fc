---------------------------- MODULE RoomsProofs ----------------------------
(* Proofs about Rooms, for every number of connections, players, rooms and *)
(* seats.                                                                  *)
EXTENDS Rooms, TLAPS

-----------------------------------------------------------------------------
(* Types.  TypeOK alone is not inductive: closeConnection and quitGame     *)
(* index gameArray with joinedGame, so a player's room has to exist, and   *)
(* so has the room of a pending task; and playerNum leaves a seat for each *)
(* thread that has passed playerJoin's test, but for one.                  *)

Seating(t, g) == pending[t] # NULL /\ pending[t].op = "join" /\ pending[t].room = g

TaskInv ==
  /\ \A t \in Threads : pending[t] # NULL =>
       /\ ThreadOf(pending[t].conn) = t
       /\ pending[t].op # "connect" => /\ pending[t].room \in GameIds
                                       /\ pending[t].seat \in Pids
                                       /\ Room(pending[t].room)
       /\ pending[t].op = "shift" => pending[t].status = 2
  /\ \A g \in GameIds, t \in Threads :
       Room(g) /\ Seating(t, g) => gameArray[g].playerNum <= MAX_PLAYERS_PER_GAME
  /\ \A g \in GameIds, t \in Threads, r \in Threads :
       Room(g) /\ Seating(t, g) /\ Seating(r, g) /\ t # r =>
         gameArray[g].playerNum <= MAX_PLAYERS_PER_GAME - 1

TypeInv == TypeOK /\ RoomsStand /\ TaskInv

\* Records of the two tables stay records when a handler writes a field.
LEMMA PlayerFields ==
  ASSUME NEW p \in Player
  PROVE  /\ p.fid \in Conns
         /\ p.pid \in Pids \cup {NoOne}
         /\ p.joinedGame \in GameIds \cup {NoOne}
         /\ \A i \in Pids \cup {NoOne} : [p EXCEPT !.pid = i] \in Player
         /\ \A g \in GameIds \cup {NoOne} : [p EXCEPT !.joinedGame = g] \in Player
         /\ \A b \in BOOLEAN : [p EXCEPT !.isSkipStatus = b] \in Player
BY DEF Player

LEMMA GameFields ==
  ASSUME NEW game \in Game
  PROVE  /\ game.playerArray \in [Seats -> Uids \cup {NoOne, Gone}]
         /\ game.playerNum \in Int
         /\ game.gameStatus \in Int
         /\ \A f \in [Seats -> Uids \cup {NoOne, Gone}], n \in Int :
              [game EXCEPT !.playerArray = f, !.playerNum = n] \in Game
         /\ \A f \in [Seats -> Uids \cup {NoOne, Gone}] :
              [game EXCEPT !.playerArray = f] \in Game
         /\ \A n \in Int : [game EXCEPT !.gameStatus = n] \in Game
BY DEF Game

LEMMA CrashKeepsTypes ==
  ASSUME TypeInv, Crash, conduct' \in Conducts
  PROVE  TypeInv'
BY DEF TypeInv, TypeOK, RoomsStand, TaskInv, Seating, Crash, Live, Room

LEMMA ConductTypes ==
  ASSUME TypeOK
  PROVE  /\ Leaving => conduct' \in Conducts
         /\ Tangled => conduct' \in Conducts
         /\ UNCHANGED conduct => conduct' \in Conducts
BY DEF TypeOK, Leaving, Tangled, Conducts

LEMMA NewPlayerType ==
  ASSUME NEW c \in Conns, NEW skip \in BOOLEAN
  PROVE  NewPlayer(c, skip) \in Player
BY DEF NewPlayer, Player

\* Vacate marks a seat of an existing room, or none.
LEMMA VacateTypes ==
  ASSUME TypeInv, NEW g \in GameIds, Room(g), NEW pid,
         gameArray' = Vacate(g, pid)
  PROVE  /\ gameArray' \in [GameIds -> Game \cup {NULL}]
         /\ \A h \in GameIds : Room(h)' <=> Room(h)
         /\ \A h \in GameIds : Room(h)' =>
              gameArray'[h].playerNum = gameArray[h].playerNum
         /\ \A h \in GameIds : Room(h)' =>
              gameArray'[h].gameStatus = gameArray[h].gameStatus
         /\ \A h \in GameIds, i \in Seats : Room(h)' =>
              gameArray'[h].playerArray[i] =
                IF h = g /\ i = pid THEN Gone ELSE gameArray[h].playerArray[i]
<1> DEFINE seats == [i \in Seats |-> IF i = pid THEN Gone
                                     ELSE gameArray[g].playerArray[i]]
           room  == [gameArray[g] EXCEPT !.playerArray = seats]
<1>1. gameArray[g] \in Game
  BY DEF TypeInv, TypeOK, Room
<1>2. seats \in [Seats -> Uids \cup {NoOne, Gone}]
  BY <1>1, GameFields
<1>3. /\ room \in Game
      /\ room.playerArray = seats
      /\ room.playerNum = gameArray[g].playerNum
      /\ room.gameStatus = gameArray[g].gameStatus
  BY <1>1, <1>2, GameFields DEF Game
<1>4. gameArray' = [gameArray EXCEPT ![g] = room]
  BY DEF Vacate, TypeInv, TypeOK
<1> HIDE DEF room
<1>5. gameArray' \in [GameIds -> Game \cup {NULL}]
  BY <1>3, <1>4 DEF TypeInv, TypeOK
<1>6. \A h \in GameIds : gameArray'[h] = IF h = g THEN room ELSE gameArray[h]
  BY <1>4 DEF TypeInv, TypeOK
<1> QED
  BY <1>1, <1>3, <1>5, <1>6, RoomsAssumption DEF Room

\* Whoever sits down in room g leaves both tables typed; only g and his own
\* slot change.
LEMMA SitsFields ==
  ASSUME TypeInv, NEW g \in GameIds, NEW game \in Game, NEW uid \in Uids,
         NEW i \in Pids, NEW player \in Player, Sits(g, game, uid, i, player)
  PROVE  /\ up' \in BOOLEAN
         /\ up' = Announced(gameArray'[g])
         /\ playerArray' \in [Uids -> Player \cup {NULL}]
         /\ playerArray'[uid] = player
         /\ Live(uid)'
         /\ \A u \in Uids \ {uid} : playerArray'[u] = playerArray[u]
         /\ gameArray' \in [GameIds -> Game \cup {NULL}]
         /\ Room(g)'
         /\ \A h \in GameIds \ {g} : gameArray'[h] = gameArray[h]
         /\ gameArray'[g].playerNum = game.playerNum + 1
         /\ gameArray'[g].gameStatus = game.gameStatus
         /\ \A j \in Seats : gameArray'[g].playerArray[j] =
                               IF j = i THEN uid ELSE game.playerArray[j]
<1> DEFINE joined == [game EXCEPT !.playerArray[i] = uid, !.playerNum = @ + 1]
           seats  == [game.playerArray EXCEPT ![i] = uid]
           n      == game.playerNum + 1
<1>0. /\ playerArray \in [Uids -> Player \cup {NULL}]
      /\ gameArray \in [GameIds -> Game \cup {NULL}]
  BY DEF TypeInv, TypeOK
<1>1. /\ playerArray' = [playerArray EXCEPT ![uid] = player]
      /\ gameArray' = [gameArray EXCEPT ![g] = joined]
      /\ up' = Announced(joined)
  BY DEF Sits
<1>2. seats \in [Seats -> Uids \cup {NoOne, Gone}]
  BY GameFields
<1>3. n \in Int
  <2>1. game.playerNum \in Int
    BY DEF Game
  <2> QED
    BY <2>1
<1>4. joined = [game EXCEPT !.playerArray = seats, !.playerNum = n]
  OBVIOUS
<1>5. \A j \in Seats : seats[j] = IF j = i THEN uid ELSE game.playerArray[j]
  BY DEF Game
<1> HIDE DEF joined, seats, n
<1>6. /\ joined \in Game /\ joined.playerArray = seats /\ joined.playerNum = n
      /\ joined.gameStatus = game.gameStatus
  BY <1>2, <1>3, <1>4 DEF Game
<1>7. gameArray'[g] = joined
  BY <1>0, <1>1
<1>8. up' \in BOOLEAN
  BY <1>1 DEF Announced
<1>9. /\ gameArray' \in [GameIds -> Game \cup {NULL}]
      /\ Room(g)'
      /\ \A h \in GameIds \ {g} : gameArray'[h] = gameArray[h]
  BY <1>0, <1>1, <1>6, RoomsAssumption DEF Room
<1>10. /\ playerArray' \in [Uids -> Player \cup {NULL}]
       /\ playerArray'[uid] = player
       /\ Live(uid)'
       /\ \A u \in Uids \ {uid} : playerArray'[u] = playerArray[u]
  BY <1>0, <1>1, RoomsAssumption DEF Live
<1> QED
  BY <1>1, <1>5, <1>6, <1>7, <1>8, <1>9, <1>10 DEF n

LEMMA SeatNumbers == /\ Seats = 0 .. MAX_PLAYERS_PER_GAME
                     /\ Pids \subseteq Seats
                     /\ KPSeat \in Seats \ Pids
                     /\ Uids \cap {NoOne, Gone} = {}
                     /\ NoOne \notin GameIds
BY RoomsAssumption DEF Seats, Pids, KPSeat, Uids, NoOne, Gone, GameIds

LEMMA ShiftedTypes ==
  ASSUME NEW game \in Game, game.playerNum <= MAX_PLAYERS_PER_GAME + 1, NEW i \in Pids
  PROVE  ShiftedSeats(game, i) \in [Seats -> Uids \cup {NoOne, Gone}]
<1>1. /\ game.playerArray \in [Seats -> Uids \cup {NoOne, Gone}]
      /\ game.playerNum \in Int
  BY DEF Game
<1>2. ASSUME NEW j \in Seats, i <= j, j < game.playerNum - 1
      PROVE  j + 1 \in Seats
  BY <1>1, <1>2, SeatNumbers, RoomsAssumption DEF Pids
<1> QED
  BY <1>1, <1>2 DEF ShiftedSeats

LEMMA SweptTypes ==
  ASSUME NEW game \in Game, NEW i \in Pids
  PROVE  SweptSeats(game, i) \in [Seats -> Uids \cup {NoOne, Gone}]
<1>1. game.playerArray \in [Seats -> Uids \cup {NoOne, Gone}]
  BY DEF Game
<1>2. ASSUME NEW j \in Seats, i <= j, j < MAX_PLAYERS_PER_GAME - 1
      PROVE  j + 1 \in Seats
  BY <1>2, SeatNumbers, RoomsAssumption DEF Pids
<1> QED
  BY <1>1, <1>2 DEF SweptSeats

\* A closed gap renumbers live Players only, and changes nothing but pids.
LEMMA RenumberTypes ==
  ASSUME TypeInv, NEW game \in Game, NEW i \in Pids, ~ ShiftFaults(game, i)
  PROVE  /\ Renumber(game, i) \in [Uids -> Player \cup {NULL}]
         /\ \A u \in Uids : /\ Renumber(game, i)[u] # NULL <=> Live(u)
                            /\ Live(u) => Renumber(game, i)[u].joinedGame
                                            = playerArray[u].joinedGame
<1> SUFFICES ASSUME NEW u \in Uids
             PROVE  /\ Renumber(game, i)[u] \in Player \cup {NULL}
                    /\ Renumber(game, i)[u] # NULL <=> Live(u)
                    /\ Live(u) => Renumber(game, i)[u].joinedGame
                                    = playerArray[u].joinedGame
  BY DEF Renumber
<1>1. playerArray[u] \in Player \cup {NULL}
  BY DEF TypeInv, TypeOK
<1>2. CASE \E j \in Pids : LastMoved(game, i, u, j)
  <2> DEFINE k == CHOOSE j \in Pids : LastMoved(game, i, u, j)
  <2>1. k \in Pids /\ LastMoved(game, i, u, k)
    BY <1>2
  <2>2. Live(u)
    BY <2>1 DEF LastMoved, ShiftFaults
  <2>3. Renumber(game, i)[u] = [playerArray[u] EXCEPT !.pid = k]
    BY <1>2 DEF Renumber
  <2> HIDE DEF k
  <2>4. playerArray[u] \in Player
    BY <1>1, <2>2 DEF Live
  <2>5. /\ [playerArray[u] EXCEPT !.pid = k] \in Player
        /\ [playerArray[u] EXCEPT !.pid = k].joinedGame = playerArray[u].joinedGame
    BY <2>1, <2>4 DEF Player
  <2> QED
    BY <2>2, <2>3, <2>5, RoomsAssumption
<1>3. CASE ~ \E j \in Pids : LastMoved(game, i, u, j)
  BY <1>1, <1>3 DEF Renumber, Live
<1> QED
  BY <1>2, <1>3

\* quitGame's last line clears the room of one slot's Player.
LEMMA LeftRoomTypes ==
  ASSUME NEW players \in [Uids -> Player \cup {NULL}], NEW uid \in Uids
  PROVE  /\ LeftRoom(players, uid) \in [Uids -> Player \cup {NULL}]
         /\ \A u \in Uids : LeftRoom(players, uid)[u] # NULL <=> players[u] # NULL
         /\ players[uid] # NULL =>
              /\ LeftRoom(players, uid)[uid].joinedGame = NoOne
              /\ LeftRoom(players, uid)[uid].fid = players[uid].fid
         /\ \A u \in Uids \ {uid} : LeftRoom(players, uid)[u] = players[u]
<1> DEFINE q == [players[uid] EXCEPT !.joinedGame = NoOne]
<1>1. players[uid] # NULL => /\ q \in Player /\ q.joinedGame = NoOne
                             /\ q.fid = players[uid].fid
  BY DEF Player
<1>2. LeftRoom(players, uid) =
        [players EXCEPT ![uid] = IF players[uid] = NULL THEN NULL ELSE q]
  BY DEF LeftRoom
<1> HIDE DEF q
<1> QED
  BY <1>1, <1>2, RoomsAssumption

LEMMA LeavesRoom ==
  ASSUME TypeInv, NEW uid \in Uids, playerArray' = LeftRoom(playerArray, uid)
  PROVE  /\ playerArray' \in [Uids -> Player \cup {NULL}]
         /\ \A u \in Uids : Live(u)' =>
              \/ Live(u) /\ playerArray'[u].joinedGame = playerArray[u].joinedGame
              \/ playerArray'[u].joinedGame = NoOne
<1>1. playerArray \in [Uids -> Player \cup {NULL}]
  BY DEF TypeInv, TypeOK
<1>2. /\ playerArray' \in [Uids -> Player \cup {NULL}]
      /\ \A u \in Uids : playerArray'[u] # NULL <=> playerArray[u] # NULL
      /\ playerArray[uid] # NULL => playerArray'[uid].joinedGame = NoOne
      /\ \A u \in Uids \ {uid} : playerArray'[u] = playerArray[u]
  BY <1>1, LeftRoomTypes
<1> QED
  BY <1>2 DEF Live

\* A step after which the tables are typed and refer to rooms that exist.
LEMMA RoomsKeepTypes ==
  ASSUME TypeInv,
         up' \in BOOLEAN, UNCHANGED stray, open' \in SUBSET Conns,
         playerArray' \in [Uids -> Player \cup {NULL}],
         gameArray' \in [GameIds -> Game \cup {NULL}],
         thread' \in [GameIds -> Phases], cursor' \in [GameIds -> Pids],
         conduct' \in Conducts,
         pending' \in [Threads -> Task \cup {NULL}], TaskInv',
         \A u \in Uids : Live(u)' =>
           \/ playerArray'[u].joinedGame = NoOne
           \/ Live(u) /\ playerArray'[u].joinedGame = playerArray[u].joinedGame
           \/ playerArray'[u].joinedGame \in GameIds /\ Room(playerArray'[u].joinedGame),
         \A g \in GameIds : /\ Room(g)' <=> Room(g)
                            /\ thread'[g] # "none" <=> thread[g] # "none"
                            /\ Room(g)' => gameArray'[g].playerNum <= MAX_PLAYERS_PER_GAME + 1
  PROVE  TypeInv'
<1>1. TypeOK'
  BY DEF TypeInv, TypeOK
<1>2. ASSUME NEW u \in Uids, Live(u)', playerArray'[u].joinedGame # NoOne
      PROVE  gameArray'[playerArray'[u].joinedGame] # NULL
  <2>1. CASE Live(u) /\ playerArray'[u].joinedGame = playerArray[u].joinedGame
    <3>1. playerArray[u].joinedGame \in GameIds
      BY <1>2, <2>1, PlayerFields DEF TypeInv, TypeOK, Live
    <3>2. Room(playerArray[u].joinedGame)
      BY <1>2, <2>1 DEF TypeInv, RoomsStand
    <3> QED
      BY <2>1, <3>1, <3>2 DEF Room
  <2>2. CASE playerArray'[u].joinedGame \in GameIds /\ Room(playerArray'[u].joinedGame)
    BY <2>2 DEF Room
  <2> QED
    BY <1>2, <2>1, <2>2
<1>3. RoomsStand'
  BY <1>2 DEF TypeInv, RoomsStand, Live, Room
<1> QED
  BY <1>1, <1>3 DEF TypeInv

\* No room fills up and no task begins.
LEMMA TasksLeft ==
  ASSUME TypeInv,
         gameArray' \in [GameIds -> Game \cup {NULL}],
         pending' = pending \/ \E t \in Threads : Done(t),
         \A g \in GameIds : /\ Room(g)' <=> Room(g)
                            /\ Room(g)' => gameArray'[g].playerNum <= gameArray[g].playerNum
  PROVE  /\ pending' \in [Threads -> Task \cup {NULL}]
         /\ TaskInv'
         /\ \A g \in GameIds : Room(g)' => gameArray'[g].playerNum <= MAX_PLAYERS_PER_GAME + 1
<1>1. pending \in [Threads -> Task \cup {NULL}]
  BY DEF TypeInv, TypeOK
<1>2. /\ pending' \in [Threads -> Task \cup {NULL}]
      /\ \A t \in Threads : pending'[t] = pending[t] \/ pending'[t] = NULL
  BY <1>1 DEF Done
<1>3. \A g \in GameIds : Room(g)' =>
        /\ Room(g)
        /\ gameArray[g].playerNum \in Int /\ gameArray'[g].playerNum \in Int
        /\ gameArray'[g].playerNum <= gameArray[g].playerNum
        /\ gameArray[g].playerNum <= MAX_PLAYERS_PER_GAME + 1
  BY DEF TypeInv, TypeOK, Room, Game
<1>4. \A g \in GameIds, t \in Threads : Seating(t, g)' => Seating(t, g)
  BY <1>2 DEF Seating
<1>5. \A t \in Threads : pending'[t] # NULL =>
        /\ ThreadOf(pending'[t].conn) = t
        /\ pending'[t].op # "connect" => /\ pending'[t].room \in GameIds
                                         /\ pending'[t].seat \in Pids
                                         /\ gameArray'[pending'[t].room] # NULL
        /\ pending'[t].op = "shift" => pending'[t].status = 2
  BY <1>2 DEF TypeInv, TaskInv, Room
<1>6. MAX_PLAYERS_PER_GAME \in Nat
  BY RoomsAssumption
<1>7. \A g \in GameIds, t \in Threads :
       Room(g)' /\ Seating(t, g)' => gameArray'[g].playerNum <= MAX_PLAYERS_PER_GAME
  BY <1>3, <1>4, <1>6 DEF TypeInv, TaskInv
<1>8. \A g \in GameIds, t \in Threads, r \in Threads :
       Room(g)' /\ Seating(t, g)' /\ Seating(r, g)' /\ t # r =>
         gameArray'[g].playerNum <= MAX_PLAYERS_PER_GAME - 1
  BY <1>3, <1>4, <1>6 DEF TypeInv, TaskInv
<1>9. TaskInv'
  BY <1>5, <1>7, <1>8 DEF TaskInv, Room
<1>10. \A g \in GameIds : Room(g)' => gameArray'[g].playerNum <= MAX_PLAYERS_PER_GAME + 1
  BY <1>3, <1>6
<1> QED
  BY <1>2, <1>9, <1>10

\* A thread begins a task; if that is to take a seat, one is left.
LEMMA TaskBegins ==
  ASSUME TypeInv, UNCHANGED gameArray, NEW c \in Conns, NEW task \in Task, Begin(c, task),
         task.conn = c,
         task.op # "connect" => /\ task.room \in GameIds /\ task.seat \in Pids
                                /\ Room(task.room),
         task.op = "join" => gameArray[task.room].playerNum < MAX_PLAYERS_PER_GAME,
         task.op = "shift" => task.status = 2
  PROVE  /\ pending' \in [Threads -> Task \cup {NULL}]
         /\ TaskInv'
         /\ \A g \in GameIds : Room(g)' => gameArray'[g].playerNum <= MAX_PLAYERS_PER_GAME + 1
<1> DEFINE t == ThreadOf(c)
<1>1. t \in Threads
  BY DEF ThreadOf, Threads
<1>2. /\ pending' \in [Threads -> Task \cup {NULL}]
      /\ \A r \in Threads : pending'[r] = IF r = t THEN task ELSE pending[r]
  BY <1>1 DEF Begin, TypeInv, TypeOK
<1>3. \A g \in GameIds, r \in Threads : Seating(r, g)' =>
        \/ Seating(r, g)
        \/ /\ r = t /\ task.op = "join" /\ g = task.room
           /\ gameArray[g].playerNum < MAX_PLAYERS_PER_GAME
  BY <1>2 DEF Seating
<1>4. \A g \in GameIds : Room(g) => gameArray[g].playerNum \in Int
  BY DEF TypeInv, TypeOK, Room, Game
<1>5. MAX_PLAYERS_PER_GAME \in Nat
  BY RoomsAssumption
<1>6. \A r \in Threads : pending'[r] # NULL =>
        /\ ThreadOf(pending'[r].conn) = r
        /\ pending'[r].op # "connect" => /\ pending'[r].room \in GameIds
                                         /\ pending'[r].seat \in Pids
                                         /\ gameArray'[pending'[r].room] # NULL
        /\ pending'[r].op = "shift" => pending'[r].status = 2
  BY <1>2 DEF TypeInv, TaskInv, Room
<1> HIDE DEF t
<1>7. \A g \in GameIds, r \in Threads :
       Room(g)' /\ Seating(r, g)' => gameArray'[g].playerNum <= MAX_PLAYERS_PER_GAME
  BY <1>3, <1>4, <1>5 DEF TypeInv, TaskInv, Room
<1>8. ASSUME NEW g \in GameIds, NEW q \in Threads, NEW r \in Threads,
             Room(g)', Seating(q, g)', Seating(r, g)', q # r
      PROVE  gameArray'[g].playerNum <= MAX_PLAYERS_PER_GAME - 1
  <2>1. Room(g) /\ gameArray[g].playerNum \in Int
    BY <1>4, <1>8 DEF Room
  <2>2. \/ Seating(q, g) /\ Seating(r, g)
        \/ gameArray[g].playerNum < MAX_PLAYERS_PER_GAME
    BY <1>3, <1>8
  <2> QED
    BY <1>5, <1>8, <2>1, <2>2 DEF TypeInv, TaskInv
<1>9. TaskInv'
  BY <1>6, <1>7, <1>8 DEF TaskInv, Room
<1> QED
  BY <1>2, <1>9 DEF TypeInv, TypeOK, Room

\* A step that keeps who is a Player and where he is, and which rooms exist.
LEMMA SameRooms ==
  ASSUME TypeInv,
         up' \in BOOLEAN, UNCHANGED stray, open' \in SUBSET Conns,
         playerArray' \in [Uids -> Player \cup {NULL}],
         gameArray' \in [GameIds -> Game \cup {NULL}],
         thread' \in [GameIds -> Phases], cursor' \in [GameIds -> Pids],
         conduct' \in Conducts,
         pending' = pending \/ \E t \in Threads : Done(t),
         \A u \in Uids : Live(u)' =>
           \/ Live(u) /\ playerArray'[u].joinedGame = playerArray[u].joinedGame
           \/ playerArray'[u].joinedGame = NoOne,
         \A g \in GameIds : /\ Room(g)' <=> Room(g)
                            /\ thread'[g] # "none" <=> thread[g] # "none"
                            /\ Room(g)' => gameArray'[g].playerNum <= gameArray[g].playerNum
  PROVE  TypeInv'
BY TasksLeft, RoomsKeepTypes

LEMMA CountsAreIntegers ==
  ASSUME TypeInv
  PROVE  \A g \in GameIds : Room(g) => gameArray[g].playerNum \in Int
BY DEF TypeInv, TypeOK, Room, Game

LEMMA CountsKept ==
  ASSUME TypeInv,
         \A h \in GameIds : Room(h)' <=> Room(h),
         \A h \in GameIds : Room(h)' => gameArray'[h].playerNum = gameArray[h].playerNum
  PROVE  \A h \in GameIds : Room(h)' => gameArray'[h].playerNum <= gameArray[h].playerNum
<1> SUFFICES ASSUME NEW h \in GameIds, Room(h)'
             PROVE  gameArray'[h].playerNum <= gameArray[h].playerNum
  OBVIOUS
<1>1. gameArray[h].playerNum \in Int
  BY CountsAreIntegers
<1>2. gameArray'[h].playerNum = gameArray[h].playerNum
  OBVIOUS
<1> QED
  BY <1>1, <1>2

LEMMA RoomsUntouched ==
  ASSUME TypeInv, UNCHANGED gameArray
  PROVE  /\ gameArray' \in [GameIds -> Game \cup {NULL}]
         /\ \A g \in GameIds : /\ Room(g)' <=> Room(g)
                               /\ Room(g)' => gameArray'[g].playerNum <= gameArray[g].playerNum
BY CountsAreIntegers DEF TypeInv, TypeOK, Room

LEMMA NewConnectionTypes ==
  ASSUME TypeInv, NEW c \in Conns, NewConnection(c)
  PROVE  TypeInv'
<1>0. /\ conduct' \in Conducts /\ open' \in SUBSET Conns
      /\ UNCHANGED <<up, stray, cursor, playerArray, gameArray, thread>>
  BY ConductTypes DEF NewConnection, TypeInv, TypeOK
<1>1. CASE UNCHANGED pending
  BY <1>0, <1>1, SameRooms, RoomsUntouched DEF TypeInv, TypeOK, Live
<1>2. ASSUME NEW uid \in Uids,
             Begin(c, [op |-> "connect", conn |-> c, uid |-> uid,
                       room |-> NoOne, seat |-> NoOne, status |-> 0])
      PROVE  TypeInv'
  <2> DEFINE task == [op |-> "connect", conn |-> c, uid |-> uid,
                      room |-> NoOne, seat |-> NoOne, status |-> 0]
  <2>1. task \in Task /\ task.conn = c /\ task.op = "connect"
    BY DEF Task
  <2> HIDE DEF task
  <2>2. /\ pending' \in [Threads -> Task \cup {NULL}]
        /\ TaskInv'
        /\ \A g \in GameIds : Room(g)' => gameArray'[g].playerNum <= MAX_PLAYERS_PER_GAME + 1
    BY <1>0, <1>2, <2>1, TaskBegins DEF task
  <2> QED
    BY <1>0, <2>2, RoomsKeepTypes, RoomsUntouched DEF TypeInv, TypeOK, Live
<1> QED
  BY <1>1, <1>2 DEF NewConnection

LEMMA FillSlotTypes ==
  ASSUME TypeInv, NEW t \in Threads, FillSlot(t)
  PROVE  TypeInv'
<1>1. /\ conduct' \in Conducts /\ Done(t)
      /\ UNCHANGED <<up, stray, cursor, open, gameArray, thread>>
  BY ConductTypes DEF FillSlot, TypeInv
<1>2. pending[t].uid \in Uids /\ pending[t].conn \in Conns
  <2>1. pending[t] \in Task
    BY DEF FillSlot, Due, TypeInv, TypeOK
  <2> QED
    BY <2>1 DEF Task
<1>3. PICK skip \in BOOLEAN :
        playerArray' = [playerArray EXCEPT
                          ![pending[t].uid] = NewPlayer(pending[t].conn, skip)]
  BY DEF FillSlot
<1>4. /\ NewPlayer(pending[t].conn, skip) \in Player
      /\ NewPlayer(pending[t].conn, skip).joinedGame = NoOne
  BY <1>2, NewPlayerType DEF NewPlayer
<1>5. /\ playerArray' \in [Uids -> Player \cup {NULL}]
      /\ \A u \in Uids : Live(u)' =>
           \/ Live(u) /\ playerArray'[u].joinedGame = playerArray[u].joinedGame
           \/ playerArray'[u].joinedGame = NoOne
  BY <1>2, <1>3, <1>4 DEF TypeInv, TypeOK, Live
<1> QED
  BY <1>1, <1>5, SameRooms, RoomsUntouched DEF TypeInv, TypeOK

LEMMA CutTypes ==
  ASSUME TypeInv, NEW c \in Conns, Cut(c)
  PROVE  TypeInv'
<1>1. conduct' \in Conducts
  BY ConductTypes DEF Cut, TypeInv
<1> QED
  BY <1>1, SameRooms, RoomsUntouched DEF Cut, TypeInv, TypeOK, Live

LEMMA CloseConnectionTypes ==
  ASSUME TypeInv, NEW c \in Conns, CloseConnection(c)
  PROVE  TypeInv'
<1>0. conduct' \in Conducts
  BY ConductTypes DEF CloseConnection, TypeInv
<1>1. ASSUME NEW uid \in Uids, Finds(c, uid),
             playerArray' = [playerArray EXCEPT ![uid] = NULL],
             open' = open \ {c}, UNCHANGED <<up, stray, cursor, pending, thread>>,
             \/ UNCHANGED gameArray
             \/ /\ playerArray[uid].joinedGame # NoOne
                /\ gameArray' = Vacate(playerArray[uid].joinedGame, playerArray[uid].pid)
      PROVE  TypeInv'
  <2>1. playerArray[uid] \in Player
    BY <1>1 DEF Finds, Live, TypeInv, TypeOK
  <2>2. CASE UNCHANGED gameArray
    BY <1>0, <1>1, <2>2, SameRooms, RoomsUntouched DEF TypeInv, TypeOK, Live
  <2>3. CASE /\ playerArray[uid].joinedGame # NoOne
             /\ gameArray' = Vacate(playerArray[uid].joinedGame, playerArray[uid].pid)
    <3> DEFINE g == playerArray[uid].joinedGame
    <3>1. g \in GameIds /\ Room(g)
      BY <1>1, <2>1, <2>3 DEF Player, TypeInv, RoomsStand, Finds
    <3>2. /\ gameArray' \in [GameIds -> Game \cup {NULL}]
          /\ \A h \in GameIds : Room(h)' <=> Room(h)
          /\ \A h \in GameIds : Room(h)' =>
               gameArray'[h].playerNum <= gameArray[h].playerNum
      BY <2>3, <3>1, VacateTypes, CountsAreIntegers
    <3> QED
      BY <1>0, <1>1, <3>2, SameRooms DEF TypeInv, TypeOK, Live
  <2> QED
    BY <1>1, <2>2, <2>3
<1>2. CASE /\ open' = open \ {c}
           /\ UNCHANGED <<up, stray, cursor, pending, playerArray, gameArray, thread>>
  BY <1>0, <1>2, SameRooms, RoomsUntouched DEF TypeInv, TypeOK, Live
<1>3. CASE Crash
  BY <1>0, <1>3, CrashKeepsTypes
<1> QED
  BY <1>1, <1>2, <1>3 DEF CloseConnection

LEMMA NewRoomType == NewRoom \in Game /\ NewRoom.playerNum <= MAX_PLAYERS_PER_GAME
BY RoomsAssumption DEF NewRoom, Game

LEMMA EntryConductTypes ==
  ASSUME TypeOK, NEW uid, EntryConduct(uid)
  PROVE  conduct' \in Conducts
BY ConductTypes DEF EntryConduct

LEMMA StartGameTypes ==
  ASSUME TypeInv, NEW c \in Conns, StartGame(c)
  PROVE  TypeInv'
<1>1. PICK uid \in Uids, g \in GameIds, i \in Pids :
        /\ Command(c, uid)
        /\ ~ Room(g)
        /\ \A h \in GameIds : h < g => Room(h)
        /\ Sits(g, NewRoom, uid, i,
                [playerArray[uid] EXCEPT !.joinedGame = g, !.pid = i])
        /\ thread' = [thread EXCEPT ![g] = "starting"]
        /\ EntryConduct(uid)
        /\ UNCHANGED <<stray, cursor, pending, open>>
  BY DEF StartGame
<1> DEFINE player == [playerArray[uid] EXCEPT !.joinedGame = g, !.pid = i]
<1>2. player \in Player /\ player.joinedGame = g
  <2>1. playerArray[uid] \in Player
    BY <1>1 DEF Command, Finds, Live, TypeInv, TypeOK
  <2> QED
    BY <2>1 DEF Player
<1>3. Sits(g, NewRoom, uid, i, player)
  BY <1>1
<1> HIDE DEF player
<1>4. /\ up' \in BOOLEAN
      /\ playerArray' \in [Uids -> Player \cup {NULL}]
      /\ playerArray'[uid].joinedGame = g
      /\ \A u \in Uids \ {uid} : playerArray'[u] = playerArray[u]
      /\ gameArray' \in [GameIds -> Game \cup {NULL}]
      /\ Room(g)'
      /\ \A h \in GameIds \ {g} : gameArray'[h] = gameArray[h]
      /\ gameArray'[g].playerNum <= MAX_PLAYERS_PER_GAME + 1
  BY <1>2, <1>3, SitsFields, NewRoomType, RoomsAssumption DEF NewRoom
<1>5. conduct' \in Conducts
  BY <1>1, EntryConductTypes DEF TypeInv
<1>6. \A h \in GameIds : Room(h)' <=> (h = g \/ Room(h))
  BY <1>4 DEF Room
<1>7. \A h \in GameIds : thread'[h] = IF h = g THEN "starting" ELSE thread[h]
  BY <1>1 DEF TypeInv, TypeOK
<1>8. TypeOK'
  <2>1. thread' \in [GameIds -> Phases]
    BY <1>1 DEF TypeInv, TypeOK, Phases
  <2>2. \A h \in GameIds : Room(h)' => gameArray'[h].playerNum <= MAX_PLAYERS_PER_GAME + 1
    BY <1>4, <1>6 DEF TypeInv, TypeOK
  <2> QED
    BY <1>1, <1>4, <1>5, <2>1, <2>2 DEF TypeInv, TypeOK
<1>9. ASSUME NEW u \in Uids, Live(u)', playerArray'[u].joinedGame # NoOne
      PROVE  gameArray'[playerArray'[u].joinedGame] # NULL
  <2>1. CASE u = uid
    BY <1>4, <2>1 DEF Room
  <2>2. CASE u # uid
    <3>1. Live(u) /\ playerArray'[u] = playerArray[u]
      BY <1>4, <1>9, <2>2 DEF Live
    <3>2. playerArray[u].joinedGame \in GameIds
      BY <1>9, <3>1, PlayerFields DEF TypeInv, TypeOK, Live
    <3>3. Room(playerArray[u].joinedGame)
      BY <1>9, <3>1 DEF TypeInv, RoomsStand
    <3> QED
      BY <1>6, <3>1, <3>2, <3>3 DEF Room
  <2> QED
    BY <2>1, <2>2
<1>10. RoomsStand'
  <2>1. \A h \in GameIds : Room(h)' <=> thread'[h] # "none"
    BY <1>6, <1>7 DEF TypeInv, RoomsStand
  <2>2. ASSUME NEW h \in GameIds, NEW k \in GameIds, k < h, Room(h)'
        PROVE  Room(k)'
    <3>1. CASE h = g
      BY <1>1, <1>6, <2>2, <3>1
    <3>2. CASE h # g
      BY <1>6, <2>2, <3>2 DEF TypeInv, RoomsStand
    <3> QED
      BY <3>1, <3>2
  <2> QED
    BY <1>9, <2>1, <2>2 DEF RoomsStand, Live, Room
<1>11. TaskInv'
  <2>1. ASSUME NEW t \in Threads, pending'[t] # NULL
        PROVE  /\ ThreadOf(pending'[t].conn) = t
               /\ pending'[t].op # "connect" => /\ pending'[t].room \in GameIds
                                                /\ pending'[t].seat \in Pids
                                                /\ gameArray'[pending'[t].room] # NULL
               /\ pending'[t].op = "shift" => pending'[t].status = 2
    BY <1>1, <1>6, <2>1 DEF TypeInv, TaskInv, Room
  <2>2. \A h \in GameIds, t \in Threads : Seating(t, h)' =>
          Seating(t, h) /\ Room(h) /\ gameArray'[h] = gameArray[h]
    BY <1>1, <1>4 DEF TypeInv, TaskInv, Seating
  <2> QED
    BY <2>1, <2>2 DEF TypeInv, TaskInv, Room
<1> QED
  BY <1>8, <1>10, <1>11 DEF TypeInv

\* Writing the room of one Player, if it exists.
LEMMA JoinedGameUpdate ==
  ASSUME TypeInv, NEW uid \in Uids, Live(uid), NEW g \in GameIds \cup {NoOne},
         playerArray' = [playerArray EXCEPT ![uid].joinedGame = g]
  PROVE  /\ playerArray' \in [Uids -> Player \cup {NULL}]
         /\ \A u \in Uids : Live(u)' <=> Live(u)
         /\ playerArray'[uid].joinedGame = g
         /\ playerArray'[uid].fid = playerArray[uid].fid
         /\ playerArray'[uid].pid = playerArray[uid].pid
         /\ \A u \in Uids \ {uid} : playerArray'[u] = playerArray[u]
<1> DEFINE q == [playerArray[uid] EXCEPT !.joinedGame = g]
<1>1. playerArray[uid] \in Player /\ playerArray \in [Uids -> Player \cup {NULL}]
  BY DEF TypeInv, TypeOK, Live
<1>2. /\ q \in Player /\ q.joinedGame = g
      /\ q.fid = playerArray[uid].fid /\ q.pid = playerArray[uid].pid
  BY <1>1 DEF Player
<1>3. playerArray' = [playerArray EXCEPT ![uid] = q]
  BY <1>1
<1> HIDE DEF q
<1> QED
  BY <1>1, <1>2, <1>3, RoomsAssumption DEF Live

LEMMA JoinGameTypes ==
  ASSUME TypeInv, NEW c \in Conns, JoinGame(c)
  PROVE  TypeInv'
<1>1. PICK uid \in Uids, g \in GameIds :
        /\ Command(c, uid)
        /\ Room(g)
        /\ playerArray' = [playerArray EXCEPT ![uid].joinedGame = g]
        /\ \/ \E i \in Pids :
                /\ TakesSeat(gameArray[g], uid, i)
                /\ Begin(c, [op |-> "join", conn |-> c, uid |-> uid,
                             room |-> g, seat |-> i, status |-> 0])
           \/ UNCHANGED pending
        /\ EntryConduct(uid)
        /\ UNCHANGED <<up, stray, cursor, open, gameArray, thread>>
  BY DEF JoinGame
<1>2. Live(uid)
  BY <1>1 DEF Command, Finds
<1>3. /\ playerArray' \in [Uids -> Player \cup {NULL}]
      /\ \A u \in Uids : Live(u)' <=> Live(u)
      /\ playerArray'[uid].joinedGame = g
      /\ \A u \in Uids \ {uid} : playerArray'[u] = playerArray[u]
  BY <1>1, <1>2, JoinedGameUpdate
<1>4. conduct' \in Conducts
  BY <1>1, EntryConductTypes DEF TypeInv
<1>5. /\ pending' \in [Threads -> Task \cup {NULL}]
      /\ TaskInv'
      /\ \A h \in GameIds : Room(h)' => gameArray'[h].playerNum <= MAX_PLAYERS_PER_GAME + 1
  <2>1. CASE UNCHANGED pending
    BY <1>1, <2>1, TasksLeft, RoomsUntouched
  <2>2. ASSUME NEW i \in Pids, TakesSeat(gameArray[g], uid, i),
               Begin(c, [op |-> "join", conn |-> c, uid |-> uid,
                         room |-> g, seat |-> i, status |-> 0])
        PROVE  <1>5!1 /\ <1>5!2 /\ <1>5!3
    <3> DEFINE task == [op |-> "join", conn |-> c, uid |-> uid,
                        room |-> g, seat |-> i, status |-> 0]
    <3>1. task \in Task /\ task.conn = c /\ task.room = g /\ task.seat = i
      BY DEF Task
    <3> HIDE DEF task
    <3>2. gameArray[g].playerNum < MAX_PLAYERS_PER_GAME
      BY <2>2 DEF TakesSeat
    <3> QED
      BY <1>1, <2>2, <3>1, <3>2, TaskBegins DEF task
  <2> QED
    BY <1>1, <2>1, <2>2
<1> QED
  BY <1>1, <1>3, <1>4, <1>5, RoomsKeepTypes, RoomsUntouched DEF TypeInv, TypeOK

\* The room and the seat of a task that is due.
LEMMA TaskFields ==
  ASSUME TypeInv, NEW t \in Threads, NEW op, op # "connect", Due(t, op)
  PROVE  /\ pending[t] \in Task /\ pending[t].op = op
         /\ pending[t].uid \in Uids
         /\ pending[t].room \in GameIds
         /\ pending[t].seat \in Pids
         /\ Room(pending[t].room)
         /\ gameArray[pending[t].room] \in Game
         /\ ThreadOf(pending[t].conn) = t
         /\ op = "shift" => pending[t].status = 2
<1>1. pending[t] \in Task /\ pending[t] # NULL
  BY DEF Due, TypeInv, TypeOK
<1> QED
  BY <1>1 DEF Due, TypeInv, TypeOK, TaskInv, Task, Room

LEMMA TakeSeatTypes ==
  ASSUME TypeInv, NEW t \in Threads, TakeSeat(t)
  PROVE  TypeInv'
<1> DEFINE uid == pending[t].uid
           g   == pending[t].room
           i   == pending[t].seat
           player == [playerArray[uid] EXCEPT !.pid = i]
<1>1. /\ uid \in Uids /\ g \in GameIds /\ i \in Pids
      /\ Room(g) /\ gameArray[g] \in Game /\ Seating(t, g)
  BY TaskFields DEF TakeSeat, Due, Seating
<1>2. conduct' \in Conducts
  BY ConductTypes DEF TakeSeat, TypeInv
<1>3. CASE Crash
  BY <1>2, <1>3, CrashKeepsTypes
<1>4. ASSUME Live(uid), Sits(g, gameArray[g], uid, i, player), Done(t),
             UNCHANGED <<stray, cursor, open, thread>>
      PROVE  TypeInv'
  <2>1. player \in Player /\ player.joinedGame = playerArray[uid].joinedGame
    <3>1. playerArray[uid] \in Player
      BY <1>1, <1>4 DEF Live, TypeInv, TypeOK
    <3> QED
      BY <1>1, <3>1 DEF Player
  <2> HIDE DEF uid, g, i, player
  <2>2. /\ up' \in BOOLEAN
        /\ playerArray' \in [Uids -> Player \cup {NULL}]
        /\ playerArray'[uid] = player
        /\ \A u \in Uids \ {uid} : playerArray'[u] = playerArray[u]
        /\ gameArray' \in [GameIds -> Game \cup {NULL}]
        /\ gameArray'[g] # NULL
        /\ \A h \in GameIds \ {g} : gameArray'[h] = gameArray[h]
        /\ gameArray'[g].playerNum = gameArray[g].playerNum + 1
    <3>1. /\ g \in GameIds /\ gameArray[g] \in Game /\ uid \in Uids
          /\ i \in Pids /\ player \in Player
          /\ Sits(g, gameArray[g], uid, i, player)
      BY <1>1, <1>4, <2>1
    <3> QED
      BY <3>1, SitsFields DEF Room
  <2>3. \A h \in GameIds : Room(h)' <=> Room(h)
    <3>1. gameArray'[g] # NULL /\ Room(g)
      BY <1>1, <2>2
    <3> QED
      BY <2>2, <3>1 DEF Room
  <2>4. /\ pending' \in [Threads -> Task \cup {NULL}]
        /\ \A r \in Threads : pending'[r] = IF r = t THEN NULL ELSE pending[r]
    BY <1>4 DEF Done, TypeInv, TypeOK
  <2>5. \A h \in GameIds, r \in Threads : Seating(r, h)' => r # t /\ Seating(r, h)
    BY <2>4 DEF Seating
  <2>6. \A h \in GameIds : Room(h) => gameArray[h].playerNum \in Int
    BY CountsAreIntegers
  <2>7. MAX_PLAYERS_PER_GAME \in Nat
    BY RoomsAssumption
  <2>8. \A h \in GameIds, r \in Threads :
          Room(h)' /\ Seating(r, h)' => gameArray'[h].playerNum <= MAX_PLAYERS_PER_GAME
    BY <1>1, <2>2, <2>3, <2>5, <2>6, <2>7 DEF TypeInv, TaskInv
  <2>9. \A h \in GameIds : Room(h)' => gameArray'[h].playerNum <= MAX_PLAYERS_PER_GAME + 1
    BY <1>1, <2>2, <2>3, <2>6, <2>7 DEF TypeInv, TypeOK, TaskInv
  <2>10. \A q \in Threads, r \in Threads : r # t /\ q # t => q = r
    BY DEF Threads
  <2>11. \A r \in Threads : pending'[r] # NULL =>
           /\ ThreadOf(pending'[r].conn) = r
           /\ pending'[r].op # "connect" => /\ pending'[r].room \in GameIds
                                            /\ pending'[r].seat \in Pids
                                            /\ Room(pending'[r].room)
           /\ pending'[r].op = "shift" => pending'[r].status = 2
    BY <2>4 DEF TypeInv, TaskInv
  <2>12. \A r \in Threads : pending'[r] # NULL /\ pending'[r].op # "connect" =>
           gameArray'[pending'[r].room] # NULL
    BY <2>3, <2>11 DEF Room
  <2>13. TaskInv'
    BY <2>5, <2>8, <2>10, <2>11, <2>12 DEF TaskInv, Room
  <2> QED
    BY <1>2, <1>4, <2>1, <2>2, <2>3, <2>4, <2>9, <2>13, RoomsKeepTypes
       DEF TypeInv, TypeOK, Live
<1> QED
  BY <1>3, <1>4 DEF TakeSeat

LEMMA SkipStatusTypes ==
  ASSUME TypeInv, NEW c \in Conns, SkipStatus(c)
  PROVE  TypeInv'
<1>1. PICK uid \in Uids :
        /\ Command(c, uid)
        /\ playerArray' = [playerArray EXCEPT ![uid].isSkipStatus = TRUE]
        /\ UNCHANGED <<up, stray, cursor, open, pending, gameArray, thread, conduct>>
  BY DEF SkipStatus
<1> DEFINE q == [playerArray[uid] EXCEPT !.isSkipStatus = TRUE]
<1>2. Live(uid) /\ playerArray[uid] \in Player
  BY <1>1 DEF Command, Finds, TypeInv, TypeOK, Live
<1>3. q \in Player /\ q.joinedGame = playerArray[uid].joinedGame
  BY <1>2 DEF Player
<1>4. playerArray' = [playerArray EXCEPT ![uid] = q]
  BY <1>1
<1> HIDE DEF q
<1> QED
  BY <1>1, <1>2, <1>3, <1>4, SameRooms, RoomsUntouched, RoomsAssumption DEF TypeInv, TypeOK, Live

\* Writing the seats and the count of room g, and nothing else of the rooms.
LEMMA RoomUpdate ==
  ASSUME TypeInv, NEW g \in GameIds, Room(g),
         NEW seats \in [Seats -> Uids \cup {NoOne, Gone}],
         NEW n \in Int,
         gameArray' = [gameArray EXCEPT ![g].playerArray = seats,
                                        ![g].playerNum = n]
  PROVE  /\ gameArray' \in [GameIds -> Game \cup {NULL}]
         /\ \A h \in GameIds : Room(h)' <=> Room(h)
         /\ gameArray'[g].playerArray = seats
         /\ gameArray'[g].playerNum = n
         /\ gameArray'[g].gameStatus = gameArray[g].gameStatus
         /\ \A h \in GameIds \ {g} : gameArray'[h] = gameArray[h]
<1> DEFINE room == [gameArray[g] EXCEPT !.playerArray = seats, !.playerNum = n]
<1>1. gameArray[g] \in Game
  BY DEF TypeInv, TypeOK, Room
<1>2. /\ room \in Game
      /\ room.playerArray = seats
      /\ room.playerNum = n
      /\ room.gameStatus = gameArray[g].gameStatus
  BY <1>1, GameFields DEF Game
<1>3. gameArray' = [gameArray EXCEPT ![g] = room]
  BY DEF TypeInv, TypeOK
<1> HIDE DEF room
<1>4. gameArray' \in [GameIds -> Game \cup {NULL}]
  BY <1>2, <1>3 DEF TypeInv, TypeOK
<1>5. \A h \in GameIds : gameArray'[h] = IF h = g THEN room ELSE gameArray[h]
  BY <1>3 DEF TypeInv, TypeOK
<1>6. \A h \in GameIds : Room(h)' <=> Room(h)
  BY <1>1, <1>2, <1>5, RoomsAssumption DEF Room
<1> QED
  BY <1>2, <1>4, <1>5, <1>6

LEMMA QuitGameTypes ==
  ASSUME TypeInv, NEW c \in Conns, QuitGame(c)
  PROVE  TypeInv'
<1>1. PICK uid \in Uids :
        LET g    == playerArray[uid].joinedGame
            game == gameArray[g] IN
        /\ Command(c, uid)
        /\ g # NoOne
        /\ \/ \E i \in Pids :
                /\ Begin(c, [op |-> IF Waiting(game) THEN "shift" ELSE "mark",
                             conn |-> c, uid |-> uid, room |-> g, seat |-> i,
                             status |-> game.gameStatus])
                /\ UNCHANGED playerArray
           \/ /\ playerArray' = LeftRoom(playerArray, uid)
              /\ UNCHANGED pending
  BY DEF QuitGame
<1> DEFINE g    == playerArray[uid].joinedGame
           game == gameArray[g]
<1>2. Live(uid) /\ playerArray[uid] \in Player
  BY <1>1 DEF Command, Finds, TypeInv, TypeOK, Live
<1>3. g \in GameIds /\ Room(g) /\ game.gameStatus \in Int
  <2>1. g \in GameIds /\ Room(g)
    BY <1>1, <1>2 DEF Player, TypeInv, RoomsStand
  <2> QED
    BY <2>1 DEF TypeInv, TypeOK, Room, Game
<1>4. /\ conduct' \in Conducts
      /\ UNCHANGED <<up, stray, cursor, open, gameArray, thread>>
  BY ConductTypes DEF QuitGame, TypeInv
<1>5. ASSUME NEW i \in Pids, UNCHANGED playerArray,
             Begin(c, [op |-> IF Waiting(game) THEN "shift" ELSE "mark",
                       conn |-> c, uid |-> uid, room |-> g, seat |-> i,
                       status |-> game.gameStatus])
      PROVE  TypeInv'
  <2> DEFINE task == [op |-> IF Waiting(game) THEN "shift" ELSE "mark",
                      conn |-> c, uid |-> uid, room |-> g, seat |-> i,
                      status |-> game.gameStatus]
  <2>1. /\ task.op \in {"shift", "mark"} /\ task \in Task
        /\ task.op = "shift" => task.status = 2
    BY <1>3 DEF Task, Waiting
  <2>2. task.conn = c /\ task.room = g /\ task.seat = i
    OBVIOUS
  <2> HIDE DEF task, g
  <2>3. /\ pending' \in [Threads -> Task \cup {NULL}]
        /\ TaskInv'
        /\ \A h \in GameIds : Room(h)' => gameArray'[h].playerNum <= MAX_PLAYERS_PER_GAME + 1
    BY <1>3, <1>4, <1>5, <2>1, <2>2, TaskBegins DEF task
  <2> QED
    BY <1>4, <1>5, <2>3, RoomsKeepTypes, RoomsUntouched DEF TypeInv, TypeOK, Live
<1>6. CASE playerArray' = LeftRoom(playerArray, uid) /\ UNCHANGED pending
  BY <1>4, <1>6, LeavesRoom, SameRooms, RoomsUntouched DEF TypeInv, TypeOK
<1> QED
  BY <1>1, <1>5, <1>6

LEMMA MoveUpTypes ==
  ASSUME TypeInv, NEW t \in Threads, MoveUp(t)
  PROVE  TypeInv'
<1> DEFINE uid  == pending[t].uid
           g    == pending[t].room
           i    == pending[t].seat
           game == gameArray[g]
<1>1. uid \in Uids /\ g \in GameIds /\ i \in Pids /\ Room(g) /\ game \in Game
  BY TaskFields DEF MoveUp
<1>2. conduct' \in Conducts
  BY DEF MoveUp, TypeInv, TypeOK
<1>3. CASE Crash
  BY <1>2, <1>3, CrashKeepsTypes
<1>4. ASSUME ~ ShiftFaults(game, i),
             gameArray' = [gameArray EXCEPT ![g].playerArray = ShiftedSeats(game, i),
                                            ![g].playerNum = @ - 1],
             playerArray' = LeftRoom(Renumber(game, i), uid),
             Done(t),
             UNCHANGED <<up, stray, cursor, open, thread>>
      PROVE  TypeInv'
  <2> DEFINE n == game.playerNum - 1
             seats == ShiftedSeats(game, i)
  <2>1. gameArray' = [gameArray EXCEPT ![g].playerArray = seats, ![g].playerNum = n]
    BY <1>1, <1>4 DEF TypeInv, TypeOK
  <2> HIDE DEF uid, g, i, game
  <2>2. /\ Renumber(game, i) \in [Uids -> Player \cup {NULL}]
        /\ \A u \in Uids : /\ Renumber(game, i)[u] # NULL <=> Live(u)
                           /\ Live(u) => Renumber(game, i)[u].joinedGame
                                           = playerArray[u].joinedGame
    BY <1>1, <1>4, RenumberTypes
  <2>3. /\ playerArray' \in [Uids -> Player \cup {NULL}]
        /\ \A u \in Uids : Live(u)' =>
             \/ Live(u) /\ playerArray'[u].joinedGame = playerArray[u].joinedGame
             \/ playerArray'[u].joinedGame = NoOne
    <3> DEFINE players == Renumber(game, i)
    <3> HIDE DEF players
    <3>1. playerArray' = LeftRoom(players, uid)
      BY <1>4 DEF players
    <3> QED
      BY <1>1, <2>2, <3>1, LeftRoomTypes DEF players, Live
  <2>4. /\ game.playerNum \in Int /\ n \in Int /\ n <= game.playerNum
        /\ game.playerNum <= MAX_PLAYERS_PER_GAME + 1
    <3>1. game.playerNum \in Int
      BY <1>1 DEF Game
    <3> QED
      BY <1>1, <3>1 DEF game, TypeInv, TypeOK
  <2>5. seats \in [Seats -> Uids \cup {NoOne, Gone}]
    BY <1>1, <2>4, ShiftedTypes
  <2> HIDE DEF n, seats
  <2>6. /\ gameArray' \in [GameIds -> Game \cup {NULL}]
        /\ \A h \in GameIds : Room(h)' <=> Room(h)
        /\ \A h \in GameIds : Room(h)' => gameArray'[h].playerNum <= gameArray[h].playerNum
    <3>1. gameArray' \in [GameIds -> Game \cup {NULL}]
      BY <1>1, <2>1, <2>4, <2>5, RoomUpdate
    <3>2. /\ \A h \in GameIds : Room(h)' <=> Room(h)
          /\ \A h \in GameIds \ {g} : gameArray'[h] = gameArray[h]
      BY <1>1, <2>1, <2>4, <2>5, RoomUpdate
    <3>3. gameArray'[g].playerNum = n
      <4>1. gameArray[g] \in Game /\ gameArray \in [GameIds -> Game \cup {NULL}]
        BY <1>1 DEF TypeInv, TypeOK, Room
      <4> QED
        BY <1>1, <2>1, <4>1 DEF Game
    <3>4. \A h \in GameIds \ {g} : Room(h)' =>
            gameArray'[h].playerNum <= gameArray[h].playerNum
      BY <3>2, CountsAreIntegers
    <3>5. gameArray'[g].playerNum <= gameArray[g].playerNum
      BY <2>4, <3>3 DEF game
    <3> QED
      BY <3>1, <3>2, <3>4, <3>5
  <2> QED
    BY <1>2, <1>4, <2>3, <2>6, SameRooms DEF TypeInv, TypeOK
<1> QED
  BY <1>3, <1>4 DEF MoveUp

LEMMA MarkGoneTypes ==
  ASSUME TypeInv, NEW t \in Threads, MarkGone(t)
  PROVE  TypeInv'
<1> DEFINE uid == pending[t].uid
           g   == pending[t].room
<1>1. uid \in Uids /\ g \in GameIds /\ Room(g)
  BY TaskFields DEF MarkGone
<1>2. /\ gameArray' = Vacate(g, pending[t].seat)
      /\ playerArray' = LeftRoom(playerArray, uid)
      /\ Done(t)
      /\ UNCHANGED <<up, stray, cursor, open, thread>>
      /\ conduct' \in Conducts
  BY ConductTypes DEF MarkGone, TypeInv
<1>3. /\ gameArray' \in [GameIds -> Game \cup {NULL}]
      /\ \A h \in GameIds : Room(h)' <=> Room(h)
      /\ \A h \in GameIds : Room(h)' => gameArray'[h].playerNum <= gameArray[h].playerNum
  BY <1>1, <1>2, VacateTypes, CountsKept
<1> QED
  BY <1>1, <1>2, <1>3, LeavesRoom, SameRooms DEF TypeInv, TypeOK

LEMMA StatusUpdate ==
  ASSUME TypeInv, NEW g \in GameIds, Room(g), NEW n \in Int,
         gameArray' = [gameArray EXCEPT ![g].gameStatus = n]
  PROVE  /\ gameArray' \in [GameIds -> Game \cup {NULL}]
         /\ \A h \in GameIds : Room(h)' <=> Room(h)
         /\ \A h \in GameIds : Room(h)' =>
              /\ gameArray'[h].playerNum = gameArray[h].playerNum
              /\ gameArray'[h].playerArray = gameArray[h].playerArray
<1> DEFINE room == [gameArray[g] EXCEPT !.gameStatus = n]
<1>1. gameArray[g] \in Game
  BY DEF TypeInv, TypeOK, Room
<1>2. /\ room \in Game
      /\ room.playerArray = gameArray[g].playerArray
      /\ room.playerNum = gameArray[g].playerNum
  BY <1>1, GameFields DEF Game
<1>3. gameArray' = [gameArray EXCEPT ![g] = room]
  BY DEF TypeInv, TypeOK
<1> HIDE DEF room
<1>4. gameArray' \in [GameIds -> Game \cup {NULL}]
  BY <1>2, <1>3 DEF TypeInv, TypeOK
<1>5. \A h \in GameIds : gameArray'[h] = IF h = g THEN room ELSE gameArray[h]
  BY <1>3 DEF TypeInv, TypeOK
<1> QED
  BY <1>1, <1>2, <1>4, <1>5, RoomsAssumption DEF Room

\* A thread that moves on leaves everything else of Step typed.
LEMMA StepTypes ==
  ASSUME TypeInv, NEW g \in GameIds, NEW from, NEW ok, NEW to \in Phases \ {"none"},
         from # "none", Step(g, from, ok, to), ok
  PROVE  /\ Room(g)
         /\ up' \in BOOLEAN /\ UNCHANGED <<stray, open, cursor, pending, conduct>>
         /\ thread' \in [GameIds -> Phases]
         /\ \A h \in GameIds : thread'[h] # "none" <=> thread[h] # "none"
<1>1. thread[g] = from /\ thread' = [thread EXCEPT ![g] = to]
      /\ UNCHANGED <<up, stray, cursor, open, pending, conduct>>
  BY DEF Step
<1> QED
  BY <1>1 DEF TypeInv, TypeOK, RoomsStand

LEMMA StepCrashes ==
  ASSUME TypeInv, NEW g \in GameIds, NEW from, NEW ok, NEW to,
         Step(g, from, ok, to), ~ ok
  PROVE  TypeInv'
BY CrashKeepsTypes, ConductTypes DEF Step, TypeInv

LEMMA EnterLobbyTypes ==
  ASSUME TypeInv, NEW g \in GameIds, EnterLobby(g)
  PROVE  TypeInv'
<1>1. CASE ~ NoneDangles(g)
  BY <1>1, StepCrashes DEF EnterLobby
<1>2. CASE NoneDangles(g)
  <2>1. /\ Room(g)
        /\ up' \in BOOLEAN /\ UNCHANGED <<stray, open, cursor, pending, conduct>>
        /\ thread' \in [GameIds -> Phases]
        /\ \A h \in GameIds : thread'[h] # "none" <=> thread[h] # "none"
    BY <1>2, StepTypes DEF EnterLobby, Phases
  <2>2. ASSUME NEW u \in Uids
        PROVE  /\ playerArray'[u] \in Player \cup {NULL}
               /\ Live(u)' => Live(u) /\ playerArray'[u].joinedGame = playerArray[u].joinedGame
    <3>0. playerArray[u] \in Player \cup {NULL} /\ gameArray[g] \in Game
      BY <2>1 DEF TypeInv, TypeOK, Room
    <3>1. CASE \E i \in Seats : gameArray[g].playerArray[i] = u
      <4>1. Live(u)
        BY <1>2, <3>1 DEF NoneDangles, Dangling
      <4>2. playerArray'[u] = [playerArray[u] EXCEPT !.isSkipStatus = FALSE]
        BY <1>2, <3>1 DEF EnterLobby
      <4>3. playerArray[u] \in Player
        BY <3>0, <4>1 DEF Live
      <4>4. [playerArray[u] EXCEPT !.isSkipStatus = FALSE].joinedGame = playerArray[u].joinedGame
        BY <4>3 DEF Player
      <4> QED
        BY <4>1, <4>2, <4>3, <4>4, PlayerFields
    <3>2. CASE ~ \E i \in Seats : gameArray[g].playerArray[i] = u
      BY <1>2, <3>0, <3>2 DEF EnterLobby, Live
    <3> QED
      BY <3>1, <3>2
  <2>3. playerArray' \in [Uids -> Player \cup {NULL}]
    BY <1>2, <2>2 DEF EnterLobby
  <2> QED
    BY <1>2, <2>1, <2>2, <2>3, SameRooms, RoomsUntouched DEF EnterLobby, TypeInv, TypeOK
<1> QED
  BY <1>1, <1>2

LEMMA RoundTypes ==
  ASSUME TypeInv, NEW g \in GameIds,
         BeginRound(g) \/ NextStatus(g) \/ EndRound(g) \/ LobbyTimeout(g)
  PROVE  TypeInv'
<1> DEFINE safe == SendsSurvive(g) /\ EveryPidSeated(g)
<1>1. CASE BeginRound(g)
  <2>1. CASE ~ safe
    BY <1>1, <2>1, StepCrashes DEF BeginRound
  <2>2. CASE safe
    <3>1. /\ Room(g)
          /\ up' \in BOOLEAN /\ UNCHANGED <<stray, open, cursor, pending, conduct>>
          /\ thread' \in [GameIds -> Phases]
          /\ \A h \in GameIds : thread'[h] # "none" <=> thread[h] # "none"
      BY <1>1, <2>2, StepTypes DEF BeginRound, Phases
    <3> DEFINE dayOne == 2
    <3>2. /\ dayOne \in Int
          /\ gameArray' = [gameArray EXCEPT ![g].gameStatus = dayOne]
          /\ UNCHANGED playerArray
      BY <1>1, <2>2 DEF BeginRound
    <3> HIDE DEF dayOne
    <3>3. /\ gameArray' \in [GameIds -> Game \cup {NULL}]
          /\ \A h \in GameIds : Room(h)' <=> Room(h)
          /\ \A h \in GameIds : Room(h)' =>
               gameArray'[h].playerNum <= gameArray[h].playerNum
      BY <3>1, <3>2, StatusUpdate, CountsKept
    <3> QED
      BY <3>1, <3>2, <3>3, SameRooms DEF TypeInv, TypeOK, Live
  <2> QED
    BY <2>1, <2>2
<1>2. CASE NextStatus(g)
  <2>1. CASE ~ safe
    BY <1>2, <2>1, StepCrashes DEF NextStatus
  <2>2. CASE safe
    <3>1. /\ Room(g)
          /\ up' \in BOOLEAN /\ UNCHANGED <<stray, open, cursor, pending, conduct>>
          /\ thread' \in [GameIds -> Phases]
          /\ \A h \in GameIds : thread'[h] # "none" <=> thread[h] # "none"
      BY <1>2, <2>2, StepTypes DEF NextStatus, Phases
    <3>2. gameArray[g].gameStatus + 1 \in Int
      <4>1. gameArray[g].gameStatus \in Int
        BY <3>1 DEF TypeInv, TypeOK, Room, Game
      <4> QED
        BY <4>1
    <3>3. gameArray' = [gameArray EXCEPT ![g].gameStatus = gameArray[g].gameStatus + 1]
          /\ UNCHANGED playerArray
      BY <1>2, <2>2, <3>1 DEF NextStatus, TypeInv, TypeOK
    <3>4. /\ gameArray' \in [GameIds -> Game \cup {NULL}]
          /\ \A h \in GameIds : Room(h)' <=> Room(h)
          /\ \A h \in GameIds : Room(h)' =>
               gameArray'[h].playerNum <= gameArray[h].playerNum
      BY <3>1, <3>2, <3>3, StatusUpdate, CountsKept
    <3> QED
      BY <3>1, <3>3, <3>4, SameRooms DEF TypeInv, TypeOK, Live
  <2> QED
    BY <2>1, <2>2
<1>3. CASE EndRound(g)
  <2>1. CASE ~ safe
    BY <1>3, <2>1, StepCrashes DEF EndRound
  <2>2. CASE safe
    <3>1. /\ up' \in BOOLEAN /\ UNCHANGED <<stray, open, cursor, pending, conduct>>
          /\ thread' \in [GameIds -> Phases]
          /\ \A h \in GameIds : thread'[h] # "none" <=> thread[h] # "none"
      BY <1>3, <2>2, StepTypes DEF EndRound, Phases
    <3> QED
      BY <1>3, <2>2, <3>1, SameRooms, RoomsUntouched DEF EndRound, TypeInv, TypeOK, Live
  <2> QED
    BY <2>1, <2>2
<1>4. CASE LobbyTimeout(g)
  <2>1. CASE ~ SendsSurvive(g)
    BY <1>4, <2>1, StepCrashes DEF LobbyTimeout
  <2>2. CASE SendsSurvive(g)
    <3>1. /\ up' \in BOOLEAN /\ UNCHANGED <<stray, open, cursor, pending, conduct>>
          /\ thread' \in [GameIds -> Phases]
          /\ \A h \in GameIds : thread'[h] # "none" <=> thread[h] # "none"
      BY <1>4, <2>2, StepTypes DEF LobbyTimeout, Phases
    <3> QED
      BY <1>4, <2>2, <3>1, SameRooms, RoomsUntouched DEF LobbyTimeout, TypeInv, TypeOK, Live
  <2> QED
    BY <2>1, <2>2
<1> QED
  BY <1>1, <1>2, <1>3, <1>4

LEMMA ClearQuitterTypes ==
  ASSUME TypeInv, NEW g \in GameIds, ClearQuitter(g)
  PROVE  TypeInv'
<1> DEFINE i == cursor[g]
           n == gameArray[g].playerNum - 1
           seats == SweptSeats(gameArray[g], i)
<1>1. /\ up' \in BOOLEAN
      /\ UNCHANGED <<stray, open, pending, playerArray, conduct>>
      /\ i \in Pids
      /\ Room(g)
  BY DEF ClearQuitter, TypeInv, TypeOK, RoomsStand
<1>2. /\ gameArray[g] \in Game
      /\ gameArray[g].playerNum \in Int
  BY <1>1 DEF TypeInv, TypeOK, Room, Game
<1>3. cursor' \in [GameIds -> Pids]
  <2>1. CASE SweepDone(i)
    BY <2>1, RoomsAssumption DEF ClearQuitter, TypeInv, TypeOK, Pids
  <2>2. CASE ~ SweepDone(i)
    <3>1. i + 1 \in Pids
      BY <1>1, <2>2, RoomsAssumption DEF SweepDone, Pids
    <3>2. cursor' = [cursor EXCEPT ![g] = i + 1]
      BY <2>2 DEF ClearQuitter
    <3> QED
      BY <3>1, <3>2 DEF TypeInv, TypeOK
  <2> QED
    BY <2>1, <2>2
<1>4. /\ thread' \in [GameIds -> Phases]
      /\ \A h \in GameIds : thread'[h] # "none" <=> thread[h] # "none"
  BY DEF ClearQuitter, TypeInv, TypeOK, Phases
<1>5. CASE gameArray[g].playerArray[i] = Gone
  <2>1. n \in Int /\ n <= gameArray[g].playerNum
    BY <1>2
  <2>2. seats \in [Seats -> Uids \cup {NoOne, Gone}]
    BY <1>1, <1>2, SweptTypes
  <2>3. gameArray' = [gameArray EXCEPT ![g].playerArray = seats, ![g].playerNum = n]
    BY <1>5 DEF ClearQuitter, TypeInv, TypeOK
  <2> HIDE DEF i, n, seats
  <2>4. /\ gameArray' \in [GameIds -> Game \cup {NULL}]
        /\ \A h \in GameIds : Room(h)' <=> Room(h)
        /\ \A h \in GameIds : Room(h)' => gameArray'[h].playerNum <= gameArray[h].playerNum
    <3>1. gameArray' \in [GameIds -> Game \cup {NULL}]
      BY <1>1, <2>1, <2>2, <2>3, RoomUpdate
    <3>2. /\ \A h \in GameIds : Room(h)' <=> Room(h)
          /\ \A h \in GameIds \ {g} : gameArray'[h] = gameArray[h]
      BY <1>1, <2>1, <2>2, <2>3, RoomUpdate
    <3>3. gameArray'[g].playerNum = n
      <4>1. gameArray[g] \in Game /\ gameArray \in [GameIds -> Game \cup {NULL}]
        BY <1>1 DEF TypeInv, TypeOK, Room
      <4> QED
        BY <1>1, <2>3, <4>1 DEF Game
    <3>4. \A h \in GameIds \ {g} : Room(h)' =>
            gameArray'[h].playerNum <= gameArray[h].playerNum
      BY <3>2, CountsAreIntegers
    <3>5. gameArray'[g].playerNum <= gameArray[g].playerNum
      BY <2>1, <3>3
    <3> QED
      BY <3>1, <3>2, <3>4, <3>5
  <2> QED
    BY <1>1, <1>3, <1>4, <2>4, SameRooms DEF TypeInv, TypeOK, Live
<1>6. CASE gameArray[g].playerArray[i] # Gone
  <2>1. UNCHANGED gameArray
    BY <1>6 DEF ClearQuitter
  <2> QED
    BY <1>1, <1>3, <1>4, <2>1, SameRooms, RoomsUntouched DEF TypeInv, TypeOK, Live
<1> QED
  BY <1>5, <1>6

LEMMA InitTypes == Init => TypeInv
BY RoomsAssumption DEF Init, TypeInv, TypeOK, RoomsStand, TaskInv, Seating, Conducts,
   Phases, Live, Room, Pids

LEMMA NextTypes == TypeInv /\ [Next]_vars => TypeInv'
<1> SUFFICES ASSUME TypeInv, [Next]_vars
             PROVE  TypeInv'
  OBVIOUS
<1>1. ASSUME NEW c \in Conns, Client(c)
      PROVE  TypeInv'
  <2>1. CASE NewConnection(c)
    BY <2>1, NewConnectionTypes
  <2>2. CASE CloseConnection(c) \/ Cut(c)
    BY <2>2, CloseConnectionTypes, CutTypes
  <2>3. CASE CommandStumbles(c) \/ FrameRunsOn(c) \/ JoinNoRoom(c) \/ Broadcast(c)
    BY <2>3, CrashKeepsTypes, ConductTypes
       DEF CommandStumbles, FrameRunsOn, JoinNoRoom, Broadcast, TypeInv
  <2>4. CASE StartGame(c)
    BY <2>4, StartGameTypes
  <2>5. CASE JoinGame(c)
    BY <2>5, JoinGameTypes
  <2>6. CASE SkipStatus(c)
    BY <2>6, SkipStatusTypes
  <2>7. CASE QuitGame(c)
    BY <2>7, QuitGameTypes
  <2> QED
    BY <1>1, <2>1, <2>2, <2>3, <2>4, <2>5, <2>6, <2>7 DEF Client
<1>2. ASSUME NEW g \in GameIds, GameThread(g)
      PROVE  TypeInv'
  <2>1. CASE EnterLobby(g)
    BY <2>1, EnterLobbyTypes
  <2>2. CASE WaitFaults(g)
    BY <2>2, CrashKeepsTypes, ConductTypes DEF WaitFaults, TypeInv
  <2>3. CASE BeginRound(g) \/ NextStatus(g) \/ EndRound(g) \/ LobbyTimeout(g)
    BY <2>3, RoundTypes
  <2>4. CASE ClearQuitter(g)
    BY <2>4, ClearQuitterTypes
  <2> QED
    BY <1>2, <2>1, <2>2, <2>3, <2>4 DEF GameThread
<1>3. ASSUME NEW t \in Threads, NetworkThread(t)
      PROVE  TypeInv'
  BY <1>3, FillSlotTypes, TakeSeatTypes, MoveUpTypes, MarkGoneTypes DEF NetworkThread
<1>4. CASE UNCHANGED vars
  BY <1>4 DEF vars, TypeInv, TypeOK, RoomsStand, TaskInv, Seating, Live, Room
<1> QED
  BY <1>1, <1>2, <1>3, <1>4 DEF Next

\* The strengthening of the type invariant holds in every reachable state.
LEMMA TypesKept == Spec => []TypeInv
BY InitTypes, NextTypes, PTL DEF Spec

\* In every reachable state the tables keep their types, and whatever room a
\* player, a thread or a broadcast refers to exists: the handlers that index
\* gameArray with joinedGame never meet NULL.
THEOREM TypeCorrect == Spec => [](TypeOK /\ RoomsStand)
BY TypesKept, PTL DEF TypeInv

\* A room that a thread plays in, or that a player has joined, is in gameArray:
\* the part of TypeCorrect that a run checks by this name.
THEOREM RoomsStayReferred == Spec => []RoomsStand
BY TypeCorrect, PTL

-----------------------------------------------------------------------------
(* Seats.  SeatChanges says what a step may do to one seat of a room; the  *)
(* two theorems below it read off what concerns them.                      *)

\* How a step may change seat i of the existing room g.
SeatChange(g, i) ==
  LET before == gameArray[g].playerArray[i]
      after  == gameArray'[g].playerArray[i]
  IN  \/ after = before
      \/ i \in Pids /\ before = NoOne
      \/ i \in Pids /\ after = Gone
      \/ i \in Pids /\ Writes("join", g, i)
      \/ Writes("shift", g, i) /\ (i = KPSeat => after \in {before, NoOne})
      \/ thread[g] = "ending" /\ (i = KPSeat => after = NoOne)

LEMMA SeatChanges ==
  ASSUME TypeInv, [Next]_vars
  PROVE  /\ \A g \in GameIds, i \in Seats : Room(g) => SeatChange(g, i)
         /\ \A g \in GameIds : ~ Room(g) /\ Room(g)' =>
              gameArray'[g].playerArray[KPSeat] = NoOne
<1> DEFINE Changes == /\ \A g \in GameIds, i \in Seats : Room(g) => SeatChange(g, i)
                      /\ \A g \in GameIds : ~ Room(g) /\ Room(g)' =>
                           gameArray'[g].playerArray[KPSeat] = NoOne
<1>1. ASSUME \A g \in GameIds : Room(g)' => /\ Room(g)
                                            /\ gameArray'[g].playerArray = gameArray[g].playerArray,
             \A g \in GameIds : Room(g) => Room(g)'
      PROVE  Changes
  BY <1>1 DEF SeatChange
<1>2. ASSUME UNCHANGED gameArray
      PROVE  Changes
  BY <1>1, <1>2 DEF Room
<1> HIDE DEF Changes
<1>3. ASSUME Crash
      PROVE  Changes
  BY <1>2, <1>3 DEF Crash
<1>4. ASSUME NEW g \in GameIds, Room(g), NEW pid \in Pids \cup {NoOne},
             gameArray' = Vacate(g, pid)
      PROVE  Changes
  <2>1. \A h \in GameIds : Room(h)' <=> Room(h)
    BY <1>4, VacateTypes
  <2>2. ASSUME NEW h \in GameIds, Room(h), NEW i \in Seats
        PROVE  SeatChange(h, i)
    <3>1. gameArray'[h].playerArray[i] =
            IF h = g /\ i = pid THEN Gone ELSE gameArray[h].playerArray[i]
      BY <1>4, <2>1, <2>2, VacateTypes
    <3>2. i = pid => i \in Pids
      BY <2>2, SeatNumbers DEF NoOne
    <3> QED
      BY <3>1, <3>2 DEF SeatChange
  <2> QED
    BY <2>1, <2>2 DEF Changes
<1>5. ASSUME NEW c \in Conns, Client(c)
      PROVE  Changes
  <2>1. CASE NewConnection(c) \/ Cut(c) \/ SkipStatus(c) \/ JoinGame(c) \/ QuitGame(c)
    BY <1>2, <2>1 DEF NewConnection, Cut, SkipStatus, JoinGame, QuitGame
  <2>2. CASE CommandStumbles(c) \/ FrameRunsOn(c) \/ JoinNoRoom(c) \/ Broadcast(c)
    BY <1>3, <2>2 DEF CommandStumbles, FrameRunsOn, JoinNoRoom, Broadcast
  <2>3. CASE CloseConnection(c)
    <3>1. ASSUME NEW uid \in Uids, Finds(c, uid), playerArray[uid].joinedGame # NoOne,
                 gameArray' = Vacate(playerArray[uid].joinedGame, playerArray[uid].pid)
          PROVE  Changes
      <4>1. playerArray[uid] \in Player
        BY <3>1 DEF Finds, Live, TypeInv, TypeOK
      <4>2. playerArray[uid].joinedGame \in GameIds /\ Room(playerArray[uid].joinedGame)
        BY <3>1, <4>1, PlayerFields DEF TypeInv, RoomsStand, Finds
      <4> QED
        BY <1>4, <3>1, <4>1, <4>2, PlayerFields
    <3> QED
      BY <1>2, <1>3, <2>3, <3>1 DEF CloseConnection
  <2>4. CASE StartGame(c)
    <3>1. PICK uid \in Uids, g \in GameIds, i \in Pids :
            /\ Live(uid)
            /\ ~ Room(g)
            /\ Sits(g, NewRoom, uid, i,
                    [playerArray[uid] EXCEPT !.joinedGame = g, !.pid = i])
      BY <2>4 DEF StartGame, Command, Finds
    <3> DEFINE player == [playerArray[uid] EXCEPT !.joinedGame = g, !.pid = i]
    <3>2. player \in Player
      <4>1. playerArray[uid] \in Player
        BY <3>1 DEF Live, TypeInv, TypeOK
      <4> QED
        BY <4>1 DEF Player
    <3>3. Sits(g, NewRoom, uid, i, player)
      BY <3>1
    <3> HIDE DEF player
    <3>4. /\ \A j \in Seats : gameArray'[g].playerArray[j] =
                              IF j = i THEN uid ELSE NewRoom.playerArray[j]
          /\ \A h \in GameIds \ {g} : gameArray'[h] = gameArray[h]
      BY <3>2, <3>3, SitsFields, NewRoomType
    <3>5. gameArray'[g].playerArray[KPSeat] = NoOne
      BY <3>4, SeatNumbers DEF NewRoom
    <3> QED
      BY <3>1, <3>4, <3>5 DEF Changes, SeatChange, Room
  <2> QED
    BY <1>5, <2>1, <2>2, <2>3, <2>4 DEF Client
<1>6. ASSUME NEW g \in GameIds, GameThread(g)
      PROVE  Changes
  <2>1. CASE EnterLobby(g) \/ LobbyTimeout(g) \/ EndRound(g) \/ WaitFaults(g)
    BY <1>2, <1>3, <2>1 DEF EnterLobby, LobbyTimeout, EndRound, WaitFaults, Step
  <2>2. ASSUME NEW n \in Int, Room(g), gameArray' = [gameArray EXCEPT ![g].gameStatus = n]
        PROVE  Changes
    <3>1. /\ \A h \in GameIds : Room(h)' <=> Room(h)
          /\ \A h \in GameIds : Room(h)' =>
               gameArray'[h].playerArray = gameArray[h].playerArray
      BY <2>2, StatusUpdate
    <3> QED
      BY <1>1, <3>1
  <2>3. CASE BeginRound(g)
    <3> DEFINE dayOne == 2
    <3>1. \/ Crash
          \/ Room(g) /\ gameArray' = [gameArray EXCEPT ![g].gameStatus = dayOne]
      BY <2>3 DEF BeginRound, Step, TypeInv, RoomsStand
    <3>2. dayOne \in Int
      OBVIOUS
    <3> HIDE DEF dayOne
    <3> QED
      BY <1>3, <2>2, <3>1, <3>2
  <2>4. CASE NextStatus(g)
    <3>1. \/ Crash
          \/ /\ Room(g)
             /\ gameArray' = [gameArray EXCEPT ![g].gameStatus = gameArray[g].gameStatus + 1]
      BY <2>4 DEF NextStatus, Step, TypeInv, TypeOK, RoomsStand
    <3>2. Room(g) => gameArray[g].gameStatus + 1 \in Int
      <4>1. Room(g) => gameArray[g].gameStatus \in Int
        BY DEF TypeInv, TypeOK, Room, Game
      <4> QED
        BY <4>1
    <3> QED
      BY <1>3, <2>2, <3>1, <3>2
  <2>5. CASE ClearQuitter(g)
    <3> DEFINE i == cursor[g]
               n == gameArray[g].playerNum - 1
               seats == SweptSeats(gameArray[g], i)
    <3>1. thread[g] = "ending" /\ Room(g) /\ i \in Pids
      BY <2>5 DEF ClearQuitter, TypeInv, TypeOK, RoomsStand
    <3>2. gameArray[g] \in Game /\ gameArray[g].playerNum \in Int
      BY <3>1 DEF TypeInv, TypeOK, Room, Game
    <3>3. n \in Int
      BY <3>2
    <3>4. seats \in [Seats -> Uids \cup {NoOne, Gone}] /\ seats[KPSeat] = NoOne
      BY <3>1, <3>2, SweptTypes, SeatNumbers DEF SweptSeats
    <3>5. \/ UNCHANGED gameArray
          \/ gameArray' = [gameArray EXCEPT ![g].playerArray = seats, ![g].playerNum = n]
      BY <2>5 DEF ClearQuitter, TypeInv, TypeOK
    <3> HIDE DEF i, n, seats
    <3>6. CASE gameArray' = [gameArray EXCEPT ![g].playerArray = seats, ![g].playerNum = n]
      <4>1. /\ \A h \in GameIds : Room(h)' <=> Room(h)
            /\ gameArray'[g].playerArray = seats
            /\ \A h \in GameIds \ {g} : gameArray'[h] = gameArray[h]
        BY <3>1, <3>3, <3>4, <3>6, RoomUpdate
      <4> QED
        BY <3>1, <3>4, <4>1 DEF Changes, SeatChange
    <3> QED
      BY <1>2, <3>5, <3>6
  <2> QED
    BY <1>6, <2>1, <2>3, <2>4, <2>5 DEF GameThread
<1>7. ASSUME NEW t \in Threads, NetworkThread(t)
      PROVE  Changes
  <2>1. CASE FillSlot(t)
    BY <1>2, <2>1 DEF FillSlot
  <2>2. CASE TakeSeat(t)
    <3> DEFINE uid == pending[t].uid
               g   == pending[t].room
               i   == pending[t].seat
               player == [playerArray[uid] EXCEPT !.pid = i]
    <3>1. /\ uid \in Uids /\ g \in GameIds /\ i \in Pids
          /\ Room(g) /\ gameArray[g] \in Game
          /\ pending[t] # NULL /\ pending[t].op = "join"
      BY <2>2, TaskFields DEF TakeSeat, Due
    <3>2. ASSUME Live(uid), Sits(g, gameArray[g], uid, i, player), Done(t)
          PROVE  Changes
      <4>1. player \in Player
        <5>1. playerArray[uid] \in Player
          BY <3>1, <3>2 DEF Live, TypeInv, TypeOK
        <5> QED
          BY <3>1, <5>1 DEF Player
      <4>2. Writes("join", g, i)
        <5>1. pending'[t] = NULL
          BY <3>2 DEF Done, TypeInv, TypeOK
        <5> QED
          BY <3>1, <5>1 DEF Writes
      <4> HIDE DEF uid, g, i, player
      <4>3. /\ \A j \in Seats : gameArray'[g].playerArray[j] =
                                IF j = i THEN uid ELSE gameArray[g].playerArray[j]
            /\ \A h \in GameIds \ {g} : gameArray'[h] = gameArray[h]
        BY <3>1, <3>2, <4>1, SitsFields
      <4> QED
        BY <3>1, <4>2, <4>3 DEF Changes, SeatChange, Room
    <3> QED
      BY <1>3, <2>2, <3>2 DEF TakeSeat
  <2>3. CASE MoveUp(t)
    <3> DEFINE g == pending[t].room
               i == pending[t].seat
    <3>1. /\ g \in GameIds /\ i \in Pids /\ Room(g) /\ gameArray[g] \in Game
          /\ pending[t] # NULL /\ pending[t].op = "shift" /\ pending[t].status = 2
      BY <2>3, TaskFields DEF MoveUp, Due
    <3>2. /\ gameArray[g].playerNum \in Int
          /\ gameArray[g].playerNum <= MAX_PLAYERS_PER_GAME + 1
          /\ gameArray \in [GameIds -> Game \cup {NULL}]
      BY <3>1 DEF TypeInv, TypeOK, Game
    <3>3. ASSUME gameArray' = [gameArray EXCEPT
                    ![g].playerArray = ShiftedSeats(gameArray[g], i),
                    ![g].playerNum = @ - 1],
                 Done(t)
          PROVE  Changes
      <4> DEFINE n == gameArray[g].playerNum - 1
                 seats == ShiftedSeats(gameArray[g], i)
      <4>1. n \in Int
        BY <3>2
      <4>2. seats \in [Seats -> Uids \cup {NoOne, Gone}]
        BY <3>1, <3>2, ShiftedTypes
      <4>3. seats[KPSeat] \in {gameArray[g].playerArray[KPSeat], NoOne}
        BY <3>2, SeatNumbers, RoomsAssumption DEF ShiftedSeats, KPSeat
      <4>4. gameArray' = [gameArray EXCEPT ![g].playerArray = seats, ![g].playerNum = n]
        BY <3>1, <3>2, <3>3
      <4>5. pending'[t] = NULL
        BY <3>3 DEF Done, TypeInv, TypeOK
      <4>6. \A j \in Seats : Writes("shift", g, j)
        BY <3>1, <4>5 DEF Writes
      <4> HIDE DEF n, seats, g, i
      <4>7. /\ \A h \in GameIds : Room(h)' <=> Room(h)
            /\ gameArray'[g].playerArray = seats
            /\ \A h \in GameIds \ {g} : gameArray'[h] = gameArray[h]
        BY <3>1, <4>1, <4>2, <4>4, RoomUpdate
      <4> QED
        BY <4>3, <4>6, <4>7 DEF Changes, SeatChange
    <3> QED
      BY <1>3, <2>3, <3>3 DEF MoveUp
  <2>4. CASE MarkGone(t)
    BY <1>4, <2>4, TaskFields DEF MarkGone
  <2> QED
    BY <1>7, <2>1, <2>2, <2>3, <2>4 DEF NetworkThread
<1>8. ASSUME UNCHANGED vars
      PROVE  Changes
  BY <1>2, <1>8 DEF vars
<1> QED
  BY <1>5, <1>6, <1>7, <1>8 DEF Next, Changes

\* No sequence of joins, quits, disconnects and sweeps ever puts anybody in
\* the KP's seat: isExistKP() is false for the life of every room.
THEOREM KPSeatStaysEmpty == Spec => []KPSeatEmpty
<1>1. Init => KPSeatEmpty
  BY DEF Init, KPSeatEmpty, Room
<1>2. TypeInv /\ KPSeatEmpty /\ [Next]_vars => KPSeatEmpty'
  <2> SUFFICES ASSUME TypeInv, KPSeatEmpty, [Next]_vars, NEW g \in GameIds, Room(g)'
               PROVE  gameArray'[g].playerArray[KPSeat] = NoOne
    BY DEF KPSeatEmpty, Room
  <2>1. CASE ~ Room(g)
    BY <2>1, SeatChanges
  <2>2. CASE Room(g)
    <3>1. gameArray[g].playerArray[KPSeat] = NoOne
      BY <2>2 DEF KPSeatEmpty
    <3>2. SeatChange(g, KPSeat)
      BY <2>2, SeatChanges, SeatNumbers
    <3> QED
      BY <3>1, <3>2, SeatNumbers DEF SeatChange
  <2> QED
    BY <2>1, <2>2
<1> QED
  BY <1>1, <1>2, TypesKept, PTL DEF Spec

\* From the first night of a round until its result is known a seat changes
\* only from empty to a late player, or from a player to Gone, so the pids
\* that skills and votes name stay put - but for a quit that was tested while
\* the room counted as waiting, and a seat both network threads found empty.
THEOREM PidsStayPut == Spec => PidsStable
<1>1. TypeInv /\ [Next]_vars => PidsKept
  <2> SUFFICES ASSUME TypeInv, [Next]_vars, NEW g \in GameIds, NEW i \in Pids,
                      thread[g] = "game", gameArray[g].gameStatus # 2,
                      gameArray'[g].playerArray[i] # gameArray[g].playerArray[i]
               PROVE  \/ gameArray[g].playerArray[i] = NoOne
                      \/ gameArray'[g].playerArray[i] = Gone
                      \/ Writes("shift", g, i) \/ Writes("join", g, i)
    BY DEF PidsKept
  <2>1. Room(g)
    BY DEF TypeInv, RoomsStand
  <2>2. SeatChange(g, i)
    BY <2>1, SeatChanges, SeatNumbers
  <2> QED
    BY <2>2 DEF SeatChange
<1> QED
  BY <1>1, TypesKept, PTL DEF Spec, PidsStable
=============================================================================
