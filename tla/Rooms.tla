------------------------------- MODULE Rooms -------------------------------
(***************************************************************************)
(* Who is connected, who sits in which room, and when the process dies of  *)
(* it: the tables of GameHandler (playerArray, gameArray), the room fields *)
(* of Game (playerArray, playerNum, gameStatus) and of Player (pid,        *)
(* joinedGame, isSkipStatus), with every handler that writes them.         *)
(*                                                                         *)
(* Atomicity.  Two network threads run the handlers: the epoll loop those  *)
(* of TCP clients, mongoose those of web clients.  Nothing is locked.  A   *)
(* handler that looks for a place (a slot of playerArray, a seat) and then *)
(* writes there is two steps: the search leaves a task in pending, and     *)
(* until the task is done its thread does nothing else, while the other    *)
(* one and the game threads go on.  Every other handler is one step, as is *)
(* the code a game thread runs between two of its waiting loops.  newGame  *)
(* is one step although it searches gameArray: two startgame commands that *)
(* overlap in it are left out.                                             *)
(*                                                                         *)
(* A connection is a place for one client at a time, a TCP descriptor or   *)
(* an index of WebServer's table, and may be used again; the two kinds     *)
(* have different numbers here (Sockets has what happens when they meet).  *)
(* Characters, skills and votes are left out: of a round only the seats    *)
(* the game thread dereferences matter here.  Room codes are taken to be   *)
(* distinct, so a code names a room.                                       *)
(*                                                                         *)
(* A NULL dereference ends the process (up = FALSE) and nothing happens    *)
(* after it.  sendSocket(-1, ..) reads the word before                     *)
(* GameHandler::playerArray, the never initialised pointer socketHandler,  *)
(* as a Player: stray says whether that word points to unmapped memory.    *)
(***************************************************************************)
EXTENDS Integers

CONSTANTS
  Conns,                 \* client connections, each with its own fid
  WebConns,              \* those that WebServer serves
  MAX_PLAYERS,           \* size of GameHandler::playerArray
  MAX_GAMES,             \* size of GameHandler::gameArray
  MAX_PLAYERS_PER_GAME,  \* seats of a room; one more is the KP's
  MaxStatus,             \* bound on gameStatus, not in the code
  MaxDrift,              \* bound below playerNum (-MaxDrift), not in the code
  NULL

VARIABLES
  up,           \* the process has not crashed
  stray,        \* an uninitialised pointer points to unmapped memory
  open,         \* connections that are established
  playerArray,  \* GameHandler::playerArray
  gameArray,    \* GameHandler::gameArray
  thread,       \* where the game thread of each room is
  cursor,       \* the seat that thread's sweep after a round has reached
  pending,      \* what a network thread has found and not written yet
  conduct       \* history: the riskiest thing clients have done so far

vars == <<up, stray, open, playerArray, gameArray, thread, cursor, pending, conduct>>

Uids    == 0 .. MAX_PLAYERS - 1
GameIds == 0 .. MAX_GAMES - 1
Pids    == 0 .. MAX_PLAYERS_PER_GAME - 1
KPSeat  == MAX_PLAYERS_PER_GAME
Seats   == Pids \cup {KPSeat}

NoOne == -1    \* PID_PLAYER_DOES_NOT_EXIST, and "not in a room"
Gone  == -2    \* PID_PLAYER_QUIT_GAME

Player == [fid : Conns, pid : Pids \cup {NoOne},
           joinedGame : GameIds \cup {NoOne}, isSkipStatus : BOOLEAN]
Game   == [playerArray : [Seats -> Uids \cup {NoOne, Gone}],
           playerNum : Int, gameStatus : Int]
Conducts == {"orderly", "leaving", "tangled"}
Phases == {"none", "starting", "lobby", "game", "ending", "over"}

Threads == {"epoll", "mongoose"}
ThreadOf(c) == IF c \in WebConns THEN "mongoose" ELSE "epoll"

\* A handler of conn past its search: slot uid or seat number seat of room
\* was found.  status is the gameStatus that playerQuit saw.
Task == [op : {"connect", "join", "shift", "mark"}, conn : Conns, uid : Uids,
         room : GameIds \cup {NoOne}, seat : Pids \cup {NoOne}, status : Int]

ASSUME RoomsAssumption ==
  /\ WebConns \subseteq Conns
  /\ MAX_PLAYERS \in Nat \ {0}
  /\ MAX_GAMES \in Nat \ {0}
  /\ MAX_PLAYERS_PER_GAME \in Nat \ {0}
  /\ MaxStatus \in Nat
  /\ MaxDrift \in Nat
  /\ NULL \notin Player
  /\ NULL \notin Game
  /\ NULL \notin Task

-----------------------------------------------------------------------------
(* What the code dereferences.                                             *)

Live(u) == playerArray[u] # NULL
Room(g) == gameArray[g] # NULL

\* Game::getPlayerByPID(i) is a Player.
Seated(g, i) == /\ gameArray[g].playerArray[i] \in Uids
                /\ Live(gameArray[g].playerArray[i])

\* The seat names a uid whose Player has been deleted.
Dangling(g, i) == /\ gameArray[g].playerArray[i] \in Uids
                  /\ ~ Live(gameArray[g].playerArray[i])

\* Mutant: the loop bound is <= playerNum.
EveryPidSeatedLong(g) == \A i \in Seats : i <= gameArray[g].playerNum => Seated(g, i)

\* findPlayerByCharacter and AssignCharacters visit every pid below
\* playerNum, whatever its seat holds; playerNum may count the KP's seat.
EveryPidSeated(g) == \A i \in Seats : i < gameArray[g].playerNum => Seated(g, i)

\* sendMsg(i, ..) for every pid passes on what the seat holds.
SendsSurvive(g) == \A i \in Pids : /\ ~ Dangling(g, i)
                                   /\ stray => gameArray[g].playerArray[i] # NoOne

\* A loop over playerArray that looks for connection c reaches uid.
ScanReaches(c, uid) ==
  \A v \in Uids : v < uid => Live(v) /\ playerArray[v].fid # c

\* The loop stops at uid: the Player of c, or a NULL that is dereferenced.
Finds(c, uid)   == ScanReaches(c, uid) /\ Live(uid) /\ playerArray[uid].fid = c
Stumbles(c)     == \E uid \in Uids : ScanReaches(c, uid) /\ ~ Live(uid)

-----------------------------------------------------------------------------
(* The history variable: "orderly" until somebody leaves (or asks for a    *)
(* room before the first one exists, or is a web client without a Player), *)
(* "tangled" once the tables may name one thing twice: a seat may have     *)
(* moved, a client has changed rooms without leaving the old one, both     *)
(* network threads have written one slot or one seat, or a connection is   *)
(* used again whose last Player is still there.                            *)

Leaving == conduct' = IF conduct = "tangled" THEN "tangled" ELSE "leaving"
Tangled == conduct' = "tangled"

Crash == /\ up' = FALSE
         /\ UNCHANGED <<stray, open, playerArray, gameArray, thread, cursor, pending>>

\* The thread of c is between two handlers, has to finish one, begins one
\* and has finished one.
Idle(c)        == up /\ pending[ThreadOf(c)] = NULL
Due(t, op)     == up /\ pending[t] # NULL /\ pending[t].op = op
Begin(c, task) == pending' = [pending EXCEPT ![ThreadOf(c)] = task]
Done(t)        == pending' = [pending EXCEPT ![t] = NULL]

-----------------------------------------------------------------------------
(* Connections: GameHandler::newConnection and closeConnection.            *)

NewPlayer(c, skip) == [fid |-> c, pid |-> NoOne, joinedGame |-> NoOne,
                       isSkipStatus |-> skip]

\* Some Player bears the number of connection c.
Known(c) == \E u \in Uids : Live(u) /\ playerArray[u].fid = c

\* The search of newConnection: the first NULL slot is found.  A full table
\* refuses, but keeps the connection.
NewConnection(c) ==
  /\ Idle(c) /\ c \notin open
  /\ open' = open \cup {c}
  /\ \/ \E uid \in Uids :
          /\ ~ Live(uid)
          /\ \A v \in Uids : v < uid => Live(v)
          /\ Begin(c, [op |-> "connect", conn |-> c, uid |-> uid,
                       room |-> NoOne, seat |-> NoOne, status |-> 0])
          /\ IF Known(c) THEN Tangled ELSE UNCHANGED conduct
     \/ /\ \A uid \in Uids : Live(uid)
        /\ UNCHANGED pending
        /\ \/ Known(c) /\ Tangled
           \/ ~ Known(c) /\ c \in WebConns /\ Leaving
           \/ ~ Known(c) /\ c \notin WebConns /\ UNCHANGED conduct
  /\ UNCHANGED <<up, stray, cursor, playerArray, gameArray, thread>>

\* The slot found gets a new Player, whoever is there by now; isSkipStatus
\* is left uninitialised by the constructor.
FillSlot(t) ==
  /\ Due(t, "connect")
  /\ \E skip \in BOOLEAN :
       playerArray' = [playerArray EXCEPT
                         ![pending[t].uid] = NewPlayer(pending[t].conn, skip)]
  /\ IF Live(pending[t].uid) THEN Tangled ELSE UNCHANGED conduct
  /\ Done(t)
  /\ UNCHANGED <<up, stray, cursor, open, gameArray, thread>>

\* SocketHandler closes a descriptor on a receive error or on its timeout
\* and tells nobody: the Player stays, with its slot and its seat.
Cut(c) ==
  /\ Idle(c) /\ c \in open \ WebConns
  /\ open' = open \ {c}
  /\ Leaving
  /\ UNCHANGED <<up, stray, cursor, pending, playerArray, gameArray, thread>>

\* Mutants: the seat is left as it is; the seat is marked empty.
VacateNothing(g, pid) == gameArray
VacateAsEmpty(g, pid) ==
  [gameArray EXCEPT ![g].playerArray =
     [i \in Seats |-> IF i = pid THEN NoOne ELSE @[i]]]

\* gameArray[joinedGame]->playerArray[pid] = PID_PLAYER_QUIT_GAME; a pid of
\* -1 hits the field isDestroy before the array, which isPlayerDeath(-1)
\* reads (Round has that; no seat is concerned).
Vacate(g, pid) ==
  [gameArray EXCEPT ![g].playerArray =
     [i \in Seats |-> IF i = pid THEN Gone ELSE @[i]]]

CloseConnection(c) ==
  /\ Idle(c) /\ c \in open
  /\ \/ /\ \E uid \in Uids :
             LET p == playerArray[uid] IN
             /\ Finds(c, uid)
             /\ playerArray' = [playerArray EXCEPT ![uid] = NULL]
             /\ IF p.joinedGame = NoOne
                THEN UNCHANGED gameArray /\ Leaving
                ELSE /\ gameArray' = Vacate(p.joinedGame, p.pid)
                     /\ IF thread[p.joinedGame] = "ending"
                        THEN Tangled ELSE Leaving
        /\ open' = open \ {c}
        /\ UNCHANGED <<up, stray, cursor, pending, thread>>
     \/ /\ ~ Stumbles(c)
        /\ \A uid \in Uids : ~ Finds(c, uid)
        /\ open' = open \ {c}
        /\ Leaving
        /\ UNCHANGED <<up, stray, cursor, pending, playerArray, gameArray, thread>>
     \/ Stumbles(c) /\ Crash /\ Leaving

-----------------------------------------------------------------------------
(* Commands: SocketHandler::recvSocket or WebServer's frame handler,       *)
(* GameHandler::router and the handlers of Player and Game below them.     *)
(* Command(c, uid) is what they have in common: the sender's Player is     *)
(* found.                                                                  *)

Command(c, uid) == Idle(c) /\ c \in open /\ Finds(c, uid)

\* The search for the sender runs into an empty slot.
CommandStumbles(c) ==
  /\ Idle(c) /\ c \in open
  /\ Stumbles(c)
  /\ Crash
  /\ UNCHANGED conduct

\* The table is full of others: a TCP command is ignored, but the search for
\* a web client goes on past the table, which has fewer slots than WebServer
\* has indexes, and takes gameArray's entries for Players.
FrameRunsOn(c) ==
  /\ Idle(c) /\ c \in open \cap WebConns
  /\ ~ Stumbles(c) /\ ~ Known(c)
  /\ Crash
  /\ UNCHANGED conduct

\* Game::playerJoin's scan stops at the first seat that is empty or uid's.
StopsAt(game, uid, i) ==
  /\ game.playerArray[i] \in {uid, NoOne}
  /\ \A j \in Pids : j < i => game.playerArray[j] \notin {uid, NoOne}

TakesSeat(game, uid, i) ==
  /\ game.playerNum < MAX_PLAYERS_PER_GAME
  /\ StopsAt(game, uid, i)
  /\ game.playerArray[i] = NoOne

\* Game::sendMsgAll skips empty seats but not those of players who left.
Announced(game) ==
  \A i \in Seats : game.playerArray[i] # NoOne =>
                     game.playerArray[i] \in Uids /\ Live(game.playerArray[i])

\* uid sits on seat i of room g, whose state was game, and is announced.
\* player is the new value of his Player.
Sits(g, game, uid, i, player) ==
  LET joined == [game EXCEPT !.playerArray[i] = uid, !.playerNum = @ + 1] IN
  /\ playerArray' = [playerArray EXCEPT ![uid] = player]
  /\ gameArray' = [gameArray EXCEPT ![g] = joined]
  /\ up' = Announced(joined)

\* Entering a room while still in another (or the same) one.
EntryConduct(uid) ==
  IF playerArray[uid].joinedGame = NoOne THEN UNCHANGED conduct ELSE Tangled

\* Mutant: the constructor's loop stops before the KP's seat.
NewRoomShort == [playerArray |-> [i \in Seats |-> IF i = KPSeat THEN 0 ELSE NoOne],
                 playerNum |-> 0, gameStatus |-> 2]

NewRoom == [playerArray |-> [i \in Seats |-> NoOne],
            playerNum |-> 0, gameStatus |-> 2]

\* "startgame": the creator joins the new room, then its thread is created.
\* With no free slot newGame returns -1 and nothing changes.
StartGame(c) ==
  \E uid \in Uids, g \in GameIds, i \in Pids :
    /\ Command(c, uid)
    /\ ~ Room(g)
    /\ \A h \in GameIds : h < g => Room(h)
    /\ TakesSeat(NewRoom, uid, i)
    /\ Sits(g, NewRoom, uid, i,
            [playerArray[uid] EXCEPT !.joinedGame = g, !.pid = i])
    /\ thread' = [thread EXCEPT ![g] = "starting"]
    /\ EntryConduct(uid)
    /\ UNCHANGED <<stray, cursor, pending, open>>

\* "joingame" with the code of a room: joinGame records the room, whatever
\* playerJoin will say, and playerJoin finds a seat or refuses.
JoinGame(c) ==
  \E uid \in Uids, g \in GameIds :
    /\ Command(c, uid)
    /\ Room(g)
    /\ Room(0)
    /\ playerArray' = [playerArray EXCEPT ![uid].joinedGame = g]
    /\ \/ \E i \in Pids :
            /\ TakesSeat(gameArray[g], uid, i)
            /\ Begin(c, [op |-> "join", conn |-> c, uid |-> uid,
                         room |-> g, seat |-> i, status |-> 0])
       \/ /\ \A i \in Pids : ~ TakesSeat(gameArray[g], uid, i)
          /\ UNCHANGED pending
    /\ EntryConduct(uid)
    /\ UNCHANGED <<up, stray, cursor, open, gameArray, thread>>

\* playerJoin takes the seat it found, whoever sits there by now, and writes
\* the pid of the Player in slot uid.
TakeSeat(t) ==
  LET uid == pending[t].uid
      g   == pending[t].room
      i   == pending[t].seat IN
  /\ Due(t, "join")
  /\ \/ /\ Live(uid)
        /\ Sits(g, gameArray[g], uid, i, [playerArray[uid] EXCEPT !.pid = i])
        /\ Done(t)
        /\ UNCHANGED <<stray, cursor, open, thread>>
     \/ ~ Live(uid) /\ Crash
  /\ IF gameArray[g].playerArray[i] = NoOne THEN UNCHANGED conduct ELSE Tangled

\* "joingame" before any room exists: gameArray[0]->code is printed.
JoinNoRoom(c) ==
  /\ \E uid \in Uids : Command(c, uid)
  /\ ~ Room(0)
  /\ Crash
  /\ Leaving

\* "sendall", "send", "showplayers": every seat that holds a uid is
\* dereferenced.
Broadcast(c) ==
  \E uid \in Uids :
    LET g == playerArray[uid].joinedGame IN
    /\ Command(c, uid)
    /\ g # NoOne
    /\ \E i \in Seats : Dangling(g, i)
    /\ Crash
    /\ UNCHANGED conduct

\* "skipstatus" and "confirm".
SkipStatus(c) ==
  \E uid \in Uids :
    /\ Command(c, uid)
    /\ playerArray' = [playerArray EXCEPT ![uid].isSkipStatus = TRUE]
    /\ UNCHANGED <<up, stray, cursor, open, pending, gameArray, thread, conduct>>

-----------------------------------------------------------------------------
(* Leaving a room: Player::quitGame and Game::playerQuit.                  *)

SitsAt(g, uid, i) ==
  /\ gameArray[g].playerArray[i] = uid
  /\ \A j \in Pids : j < i => gameArray[g].playerArray[j] # uid

\* In the "waiting" status the seats above i move down one.  The seat then
\* emptied is number playerNum, not playerNum - 1; past the KP's seat that
\* is the field playerKP.
ShiftedSeats(game, i) ==
  [j \in Seats |-> IF j = game.playerNum THEN NoOne
                   ELSE IF i <= j /\ j < game.playerNum - 1
                        THEN game.playerArray[j + 1]
                        ELSE game.playerArray[j]]

\* j is the last of the moved seats that holds uid.
LastMoved(game, i, uid, j) ==
  /\ i <= j /\ j < game.playerNum - 1
  /\ game.playerArray[j + 1] = uid
  /\ \A k \in Pids : j < k /\ k < game.playerNum - 1 =>
                       game.playerArray[k + 1] # uid

\* A moved seat whose pid cannot be written back.
ShiftFaults(game, i) ==
  \E j \in Pids :
    /\ i <= j /\ j < game.playerNum - 1
    /\ \/ game.playerArray[j + 1] \in Uids /\ ~ Live(game.playerArray[j + 1])
       \/ game.playerArray[j + 1] = NoOne /\ stray

Renumber(game, i) ==
  [u \in Uids |->
     IF \E j \in Pids : LastMoved(game, i, u, j)
     THEN [playerArray[u] EXCEPT
             !.pid = CHOOSE j \in Pids : LastMoved(game, i, u, j)]
     ELSE playerArray[u]]

\* Mutant: every status of a round counts as waiting.
WaitingFromTwo(game) == game.gameStatus >= 2

\* "not in a game" - and also day 1 of a round.
Waiting(game) == game.gameStatus = 2

\* quitGame clears joinedGame whatever playerQuit found, and keeps pid.
LeftRoom(players, uid) ==
  [players EXCEPT ![uid] = IF @ = NULL THEN NULL ELSE [@ EXCEPT !.joinedGame = NoOne]]

\* The search of playerQuit, and its test of gameStatus.
QuitGame(c) ==
  \E uid \in Uids :
    LET g    == playerArray[uid].joinedGame
        game == gameArray[g] IN
    /\ Command(c, uid)
    /\ g # NoOne
    /\ \/ \E i \in Pids :
            /\ SitsAt(g, uid, i)
            /\ Begin(c, [op |-> IF Waiting(game) THEN "shift" ELSE "mark",
                         conn |-> c, uid |-> uid, room |-> g, seat |-> i,
                         status |-> game.gameStatus])
            /\ IF Waiting(game) THEN Tangled ELSE UNCHANGED conduct
            /\ UNCHANGED playerArray
       \/ /\ \A i \in Pids : ~ SitsAt(g, uid, i)
          /\ playerArray' = LeftRoom(playerArray, uid)
          /\ UNCHANGED pending
          /\ Leaving
    /\ UNCHANGED <<up, stray, cursor, open, gameArray, thread>>

\* The gap is closed, whatever the game thread has begun since the test.
MoveUp(t) ==
  LET uid  == pending[t].uid
      g    == pending[t].room
      i    == pending[t].seat
      game == gameArray[g] IN
  /\ Due(t, "shift")
  /\ game.playerNum > -MaxDrift
  /\ IF ShiftFaults(game, i) THEN Crash ELSE
       /\ gameArray' = [gameArray EXCEPT ![g].playerArray = ShiftedSeats(game, i),
                                         ![g].playerNum = @ - 1]
       /\ playerArray' = LeftRoom(Renumber(game, i), uid)
       /\ Done(t)
       /\ UNCHANGED <<up, stray, cursor, open, thread>>
  /\ UNCHANGED conduct

\* Or the seat is marked as that of a player who left a running game.
MarkGone(t) ==
  LET uid == pending[t].uid
      g   == pending[t].room IN
  /\ Due(t, "mark")
  /\ gameArray' = Vacate(g, pending[t].seat)
  /\ playerArray' = LeftRoom(playerArray, uid)
  /\ IF thread[g] = "ending" THEN Tangled ELSE Leaving
  /\ Done(t)
  /\ UNCHANGED <<up, stray, cursor, open, thread>>

-----------------------------------------------------------------------------
(* The game thread, Game::run.  Its waiting loops dereference every seat   *)
(* that holds a uid; the code between them also sends to every pid.        *)

Step(g, from, ok, to) ==
  /\ up /\ thread[g] = from
  /\ IF ok THEN /\ thread' = [thread EXCEPT ![g] = to]
                /\ UNCHANGED <<up, stray, cursor, open, pending, conduct>>
     ELSE Crash /\ UNCHANGED conduct

NoneDangles(g) == \A i \in Seats : ~ Dangling(g, i)

\* The top of the room's loop clears isSkipStatus of those seated.
EnterLobby(g) ==
  /\ Step(g, "starting", NoneDangles(g), "lobby")
  /\ NoneDangles(g) =>
       /\ playerArray' =
            [u \in Uids |-> IF \E i \in Seats : gameArray[g].playerArray[i] = u
                            THEN [playerArray[u] EXCEPT !.isSkipStatus = FALSE]
                            ELSE playerArray[u]]
       /\ UNCHANGED gameArray

Prepared(g) == \A i \in Seats : gameArray[g].playerArray[i] \in Uids =>
                 playerArray[gameArray[g].playerArray[i]].isSkipStatus

\* A waiting loop meets a seat whose Player is gone.
WaitFaults(g) ==
  /\ up /\ thread[g] \in {"lobby", "game"}
  /\ ~ NoneDangles(g)
  /\ Crash
  /\ UNCHANGED conduct

\* Everybody seated is prepared: characters are assigned and day 1, which
\* has gameStatus 2 like the lobby of a new room, begins.
BeginRound(g) ==
  LET ok == SendsSurvive(g) /\ EveryPidSeated(g) IN
  /\ thread[g] = "lobby" /\ NoneDangles(g) /\ Prepared(g)
  /\ Step(g, "lobby", ok, "game")
  /\ ok => /\ gameArray' = [gameArray EXCEPT ![g].gameStatus = 2]
           /\ UNCHANGED playerArray

\* Mutant: the thread frees its room, as the comment in startGame plans,
\* and makes nobody leave it.
LobbyTimeoutFrees(g) ==
  LET ok == SendsSurvive(g) IN
  /\ thread[g] = "lobby" /\ NoneDangles(g) /\ ~ Prepared(g)
  /\ Step(g, "lobby", ok, "none")
  /\ ok => /\ gameArray' = [gameArray EXCEPT ![g] = NULL]
           /\ UNCHANGED playerArray

\* Not everybody is prepared in time: run returns, and the room stays.
LobbyTimeout(g) ==
  LET ok == SendsSurvive(g) IN
  /\ thread[g] = "lobby" /\ NoneDangles(g) /\ ~ Prepared(g)
  /\ Step(g, "lobby", ok, "over")
  /\ ok => UNCHANGED <<playerArray, gameArray>>

\* The skills of one day or night, then the next night or day.
NextStatus(g) ==
  LET ok == SendsSurvive(g) /\ EveryPidSeated(g) IN
  /\ thread[g] = "game" /\ gameArray[g].gameStatus < MaxStatus
  /\ Step(g, "game", ok, "game")
  /\ ok => /\ gameArray' = [gameArray EXCEPT ![g].gameStatus = @ + 1]
           /\ UNCHANGED playerArray

\* At the end of a day the game is decided.
EndRound(g) ==
  LET ok == SendsSurvive(g) /\ EveryPidSeated(g) IN
  /\ thread[g] = "game" /\ gameArray[g].gameStatus % 2 = 0
  /\ gameArray[g].playerNum > -MaxDrift
  /\ Step(g, "game", ok, "ending")
  /\ ok => UNCHANGED <<playerArray, gameArray>>

\* "clear player who quit game", one seat of the loop at a time: the seats
\* above one marked Gone move down (the last one stays), the KP's seat is
\* emptied, nobody's pid is updated, and the scan goes on at the next seat.
SweptSeats(game, i) ==
  [j \in Seats |-> IF j = KPSeat THEN NoOne
                   ELSE IF i <= j /\ j < MAX_PLAYERS_PER_GAME - 1
                        THEN game.playerArray[j + 1]
                        ELSE game.playerArray[j]]

\* Mutant: the loop runs one seat too far.
SweepDoneLate(i) == i = MAX_PLAYERS_PER_GAME

SweepDone(i) == i + 1 = MAX_PLAYERS_PER_GAME

ClearQuitter(g) ==
  LET i == cursor[g] IN
  /\ up /\ thread[g] = "ending"
  /\ gameArray' =
       IF gameArray[g].playerArray[i] = Gone
       THEN [gameArray EXCEPT ![g].playerArray = SweptSeats(gameArray[g], i),
                              ![g].playerNum = @ - 1]
       ELSE gameArray
  /\ IF SweepDone(i)
     THEN /\ thread' = [thread EXCEPT ![g] = "starting"]
          /\ cursor' = [cursor EXCEPT ![g] = 0]
     ELSE /\ cursor' = [cursor EXCEPT ![g] = i + 1]
          /\ UNCHANGED thread
  /\ UNCHANGED <<up, stray, open, pending, playerArray, conduct>>

GameThread(g) ==
  \/ EnterLobby(g)
  \/ WaitFaults(g)
  \/ BeginRound(g)
  \/ LobbyTimeout(g)
  \/ NextStatus(g)
  \/ EndRound(g)
  \/ ClearQuitter(g)

Client(c) ==
  \/ NewConnection(c)
  \/ Cut(c)
  \/ CloseConnection(c)
  \/ CommandStumbles(c)
  \/ FrameRunsOn(c)
  \/ StartGame(c)
  \/ JoinGame(c)
  \/ JoinNoRoom(c)
  \/ Broadcast(c)
  \/ SkipStatus(c)
  \/ QuitGame(c)

\* A network thread writes what its handler has searched for.
NetworkThread(t) ==
  \/ FillSlot(t)
  \/ TakeSeat(t)
  \/ MoveUp(t)
  \/ MarkGone(t)

Init ==
  /\ up = TRUE
  /\ stray \in BOOLEAN
  /\ open = {}
  /\ playerArray = [u \in Uids |-> NULL]
  /\ gameArray = [g \in GameIds |-> NULL]
  /\ thread = [g \in GameIds |-> "none"]
  /\ cursor = [g \in GameIds |-> 0]
  /\ pending = [t \in Threads |-> NULL]
  /\ conduct = "orderly"

Next == \/ \E c \in Conns : Client(c)
        \/ \E t \in Threads : NetworkThread(t)
        \/ \E g \in GameIds : GameThread(g)

Spec == Init /\ [][Next]_vars

-----------------------------------------------------------------------------
(* Properties.                                                             *)

\* Every variable keeps its type; pids and seats stay inside their arrays,
\* and playerNum exceeds the seats of a room by one at most, when both
\* network threads pass playerJoin's test before either takes its seat.
TypeOK ==
  /\ up \in BOOLEAN
  /\ stray \in BOOLEAN
  /\ open \in SUBSET Conns
  /\ playerArray \in [Uids -> Player \cup {NULL}]
  /\ gameArray \in [GameIds -> Game \cup {NULL}]
  /\ thread \in [GameIds -> Phases]
  /\ cursor \in [GameIds -> Pids]
  /\ pending \in [Threads -> Task \cup {NULL}]
  /\ conduct \in Conducts
  /\ \A g \in GameIds : Room(g) => gameArray[g].playerNum <= MAX_PLAYERS_PER_GAME + 1

\* No handler ever seats anybody in the KP's seat: "setkp" reports success
\* (Player::joinKP is empty) but isExistKP() is false for the life of every
\* room, whatever joins, quits, disconnects and sweeps do to playerArray.
KPSeatEmpty == \A g \in GameIds : Room(g) => gameArray[g].playerArray[KPSeat] = NoOne

\* What a Player, a thread and a seat refer to exists: a player's joinedGame
\* and a running thread name a room, so getJoinedGame() and the handlers
\* that index gameArray with it never meet NULL; and rooms fill gameArray
\* from 0, which is what joinGame's read of gameArray[0] relies on.
RoomsStand ==
  /\ \A u \in Uids : Live(u) /\ playerArray[u].joinedGame # NoOne
                    => Room(playerArray[u].joinedGame)
  /\ \A g \in GameIds : Room(g) <=> thread[g] # "none"
  /\ \A g, h \in GameIds : h < g /\ Room(g) => Room(h)

OccupiedPrefix(g) ==
  \A i \in Pids : gameArray[g].playerArray[i] # NoOne <=> i < gameArray[g].playerNum

\* uid has passed playerJoin's test and has no seat yet.
Joining(uid) == \E t \in Threads : /\ pending[t] # NULL /\ pending[t].op = "join"
                                   /\ pending[t].uid = uid

MemberHasSeat(u) ==
  LET p == playerArray[u] IN
  p.joinedGame # NoOne =>
    \/ gameArray[p.joinedGame].playerNum = MAX_PLAYERS_PER_GAME
    \/ p.pid # NoOne /\ gameArray[p.joinedGame].playerArray[p.pid] = u

\* As long as the tables are not tangled (nobody quits while the room counts
\* as waiting, changes rooms or leaves while a finished round is swept, no
\* slot or seat is taken by both network threads, no connection cut without
\* notice is used again), a seat that holds a uid belongs to a Player who
\* joined this room and knows this pid.  So nobody has two seats, no two
\* players share one, and no seat dangles - also while players leave in
\* mid-game or disconnect, with or without notice.
SeatHolderIsMember ==
  conduct # "tangled" =>
    \A g \in GameIds : Room(g) =>
      \A i \in Pids : gameArray[g].playerArray[i] \in Uids =>
        /\ Seated(g, i)
        /\ playerArray[gameArray[g].playerArray[i]].joinedGame = g
        /\ playerArray[gameArray[g].playerArray[i]].pid = i

\* Under the same conduct the occupied seats of a room are the ones below
\* playerNum, and a player who joined a room has the seat his pid names.  The
\* exceptions are a player whom playerJoin has not seated yet, and a full
\* room: joinGame records the room although playerJoin refused, and the
\* player keeps the pid of an earlier room, or none.
MemberIsSeated ==
  conduct # "tangled" =>
    /\ \A g \in GameIds : Room(g) => OccupiedPrefix(g)
    /\ \A u \in Uids : Live(u) /\ ~ Joining(u) => MemberHasSeat(u)

\* While nobody has left at all, every web client has a Player, the network
\* threads have not taken one slot or one seat together and the stray pointer
\* is readable, the server does not crash: not in the scans of playerArray,
\* although they test no slot for NULL and run while the other thread is
\* between its search and its write, nor in the game threads' loops over
\* pids.  (Two connections that search at once may take one slot, and then
\* it does crash though nobody left; overlapping startgame commands and web
\* indexes equal to a TCP descriptor are not in this module.)
OrderlyRunSurvives == conduct = "orderly" /\ ~ stray => up

\* This step is the write of operation op in room g, seat i.
Writes(op, g, i) ==
  \E t \in Threads : /\ pending[t] # NULL /\ pending'[t] = NULL
                     /\ pending[t].op = op /\ pending[t].room = g
                     /\ op = "shift" => pending[t].status = 2
                     /\ op = "join" => pending[t].seat = i

\* From the first night of a round until its result is known, a pid names
\* the same player: its seat may only go from empty to a player who joins
\* late, or from a player to Gone.  Skill targets and votes are pids.  The
\* exceptions are the code's two races: a quit that found the room waiting
\* and closes the gap now, and a seat that both network threads found empty.
PidsKept ==
  \A g \in GameIds, i \in Pids :
    LET before == gameArray[g].playerArray[i]
        after  == gameArray'[g].playerArray[i]
    IN  /\ thread[g] = "game" /\ gameArray[g].gameStatus # 2
        /\ after # before
        => \/ before = NoOne \/ after = Gone
           \/ Writes("shift", g, i) \/ Writes("join", g, i)

PidsStable == [][PidsKept]_vars

-----------------------------------------------------------------------------
(* The abstract specification, while the tables are not tangled.           *)

Settled == conduct # "tangled"

\* A seat leads to connection c: seat, uid, Player, connection.
SeatOfClient(g, i, c) == /\ Room(g) /\ Seated(g, i)
                         /\ playerArray[gameArray[g].playerArray[i]].fid = c

InRoom(c) == \E u \in Uids : /\ Live(u) /\ playerArray[u].fid = c
                             /\ playerArray[u].joinedGame # NoOne
                             /\ ~ Joining(u)

PlacesOf(c)  == {s \in GameIds \X Pids : SeatOfClient(s[1], s[2], c)}

Taken(g, i)  == Room(g) /\ gameArray[g].playerArray[i] # NoOne
PlacesTaken  == {s \in GameIds \X Pids : Taken(s[1], s[2])}

\* Uids are given to new Players, Players keep the pids of rooms they left,
\* and the seats know neither: still, to the clients all this is a room that
\* hands out places in order of arrival, each one once, to clients who have
\* none and keep it until they leave.  The one exception is a client whom a
\* full room refused: his disconnecting may cost somebody else's place.  A
\* client whose connection is cut without notice is still there.
Members == INSTANCE Membership WITH
  Clients  <- Conns,
  Rooms    <- GameIds,
  PlaceNum <- MAX_PLAYERS_PER_GAME,
  settled  <- Settled,
  inRoom   <- {c \in Conns : Settled /\ InRoom(c)},
  placeOf  <- [c \in Conns |-> IF Settled THEN PlacesOf(c) ELSE {}],
  taken    <- IF Settled THEN PlacesTaken ELSE {}
ImplementsMembership == Members!Spec

-----------------------------------------------------------------------------
(* What comments and messages of the code promise and the code breaks.     *)

\* Game.cpp:139: a player who quits during a game counts as dead, and the
\* game goes on.
QuitterCountsAsDead ==
  [][\A g \in GameIds :
       /\ conduct = "leaving" /\ ~ stray
       /\ thread[g] = "game" /\ gameArray[g].gameStatus > 2
       /\ NextStatus(g)
       => up']_vars

=============================================================================
