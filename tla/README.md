# A verification project for Botc-Server

Botc-Server hosts rooms in which people play *Blood on the Clocktower*.  It is
one process: an epoll loop for TCP clients, a thread with a mongoose web server
for browsers, and one thread per room.  The threads share tables of pointers
and use no lock.  This directory holds TLA+ models of the server's own logic,
the TLC configurations that check them on small instances, and proofs that the
TLA+ proof system checks.  Line numbers refer to `src/`.

## 1. Inventory

| Component | State | Operations | Module |
|---|---|---|---|
| `GameHandler` | `playerArray[MAX_PLAYERS]`, `gameArray[MAX_GAMES]`, `socketHandler`, `webServer` | `newConnection`, `closeConnection`, `router` (text commands), `newGame` | `Rooms` (tables), `Sockets` (who is found for a connection), `Day` and `Round` (commands that answer) |
| `Player` | `uid`, `fid`, `pid`, `joinedGame`, `isSkipStatus`, answers to polls, votes and skills | `joinGame`, `quitGame`, setters called from `router` | `Rooms` (membership), `Day`, `Round` (answers) |
| `Game`, membership | `playerArray[21]`, `playerNum`, `gameStatus` | `playerJoin`, `playerQuit`, `sendMsg`, `sendMsgAll`, the sweep at the end of `run` | `Rooms` |
| `Game::run` | `gameStatus`, `startTime`, `endTime`, the phase (its program counter) | lobby, day, night, chat, nomination and vote, decision, sweep | `Rooms` (as far as seats matter), `Day` (chat to execution), `Round` (skills, nights, decision) |
| `Game::AssignCharacters` | the deck, `characterNum`, each player's character | shuffle, Baron, Drunk, bluffs | `Deck` |
| `Game::useSkill` and the status helpers | `skillArg`, `isSkillUsed`, `deathDate`, ... | one case per character | `Round` |
| decision | deaths, characters | Imp and Scarlet Woman, who may vote | `Round` |
| `SocketHandler` | `myevent_s` slots, descriptors, `last_active` | accept, receive, close, idle scan | `Sockets` |
| `WebServer` | `fid_ptr_mappint[1024]` | open, close, frame | `Sockets` |
| `main`, `interface.cpp`, `Game::frame`, `Game::selfDestroy`, mongoose, `static/` | - | start-up, nothing, dead code, third party, a page | not modelled |

**How they interact.**  A TCP line reaches `SocketHandler::recvSocket`, which
looks the descriptor up in `GameHandler::playerArray` and calls `router` on the
uid it finds; a websocket frame takes the same way from the mongoose thread.
`router` runs the handlers of `Player` and `Game` on the network thread, and
these write the seats of rooms (`Game::playerArray`) and fields of players.
The room's thread (`Game::run`, started by "startgame") polls the same fields
in waiting loops with one-second sleeps, follows seats to players, and
answers through `GameHandler::sendSocket`.  A seat holds a uid and not a
pointer: `getPlayerByPID` follows it, and a uid whose `Player` was deleted
leads to NULL.  No caller tests the result.

**What is hard in it.**

* Departures.  Freed slots leave holes in tables that are scanned without a NULL
  test (GameHandler.cpp:107, SocketHandler.cpp:300); a seat left in mid-game is
  -2 and later dereferenced (Game.cpp:80).
* Seats move.  `playerQuit` closes seats up in a room that waits, the sweep
  after a round closes them up differently, and both meet pids that
  players, skills and votes carry around.
* Status numbers overlap: the lobby of a new room and day 1 are both 2.
* Answers outlive questions.  The fields a player's commands fill are polled by
  the room's thread and mostly never cleared, so an answer to one
  question is taken for the next.
* Time.  A waiting loop ends by answer or by time limit, and the limits move.
* Tables fill up: rooms and web socket indices are never freed.
* Two network threads allocate slots, seats and rooms from the same tables, each with a
  search and a later write.

**What would make each component correct.**

* Tables: a seat that holds a uid belongs to a live player who is in that room
  and knows that pid; a player in a room has a seat; a room that is referred to
  exists; pids do not change while a round uses them.
* Day: nobody is executed without the votes of more than half of the votable
  players; each asked player is asked once per nomination; a vote counts for
  the question it answered; the phase ends.
* Deck: counts per type match the table for the player number, no character
  is dealt twice, bluffs are not in play.
* Skills and decision: protection, poison and death are decided once per night
  in the announced order; the game ends exactly when a side has won.
* Sockets: a message is attributed to the player whose connection it came from,
  every accepted descriptor is watched or closed.

PROJECT.json lists the hazards line by line, with the properties that watch them.

## 2. The modules

| Module | Subject | MC module | Proofs |
|---|---|---|---|
| `Rooms` | seats, players, rooms, threads, crashes | `MCRooms` | `RoomsProofs`, `MembershipProofs` |
| `Membership` | what rooms promise to clients: the abstract specification that `Rooms` implements until the tables are tangled | `MCRooms` | `MembershipProofs` |
| `Day` | chat, nomination, vote, execution, clock | `MCDay` | `DayProofs` |
| `DayEffect` | what a day may do to a room: the abstract specification that `Day` implements | `MCDay` | `DayEffectProofs` |
| `Sockets` | both network threads: event slots, descriptors, web indices, and the Players found through them | `MCSockets` | `SocketsProofs`, `CutProofs` |
| `Deck` | `AssignCharacters`, round after round | `MCDeck` | `DeckProofs` |
| `Round` | `useSkill`, nights, deaths, decision | `MCRound` | `RoundProofs` |

The modules divide the program by the state that actions share, and each names
what it takes from another.  `Rooms` has every seat and lets a round be a sequence of
statuses; `Day` and `Round` fix the seats (`PidsStable` says what a round may rely on)
and refine a status.  `Round` takes of a day only what `DayEffect` allows, and `Day` is
shown to implement `DayEffect`.  `Sockets` ends where a command has found its Player,
and `Rooms`, `Day` and `Round` begin there.  `Deck` yields the characters with which
`Round` starts, and the one field that both change from round to round, `isDrunk`.
No module declares a RECURSIVE operator.

## 3. Rooms

*State.*  `playerArray` and `gameArray` are GameHandler's tables (a `Player` or a
`Game` record, or NULL); the records keep the fields membership needs.  `thread[g]`
is the place of room g's thread in `Game::run`: "starting" (top of its loop),
"lobby" (waiting for readiness), "game" (a day or a night), "ending" (the sweep of
seats, at seat `cursor[g]`), "over" (returned).  `pending[t]` is what a handler on network
thread t ("epoll" or "mongoose") has searched for and not written yet.  `up` turns FALSE
when the process dereferences NULL.  `stray` says that the word before
`GameHandler::playerArray`, the never initialised pointer `socketHandler`, which
`sendSocket(-1, ..)` takes for a player, points to unmapped memory; it is chosen once.
(`sendSocket(-2, ..)` reads the pointer `webServer`, which is set or harmless.)  `conduct`
is a history variable, the riskiest thing clients have done so far:

* "orderly" until somebody leaves.  Also no longer orderly: asking for a room before
  the first one exists (which crashes), and a web client that finds the table full
  (whose first frame crashes);
* "leaving" after that;
* "tangled" once the tables may name one thing twice: somebody quits while the room
  counts as waiting, so that seats move; leaves during the sweep; enters a room without
  leaving his own; both network threads find one slot or one seat, and both write it; or a
  connection is used again whose last Player is still there.

*Actions.*  `NewConnection` (the search) and `FillSlot` (the write), `CloseConnection`, and
`Cut`, the receive error and the time limit of `SocketHandler`, which close a descriptor
and tell nobody.  The commands that touch membership: `StartGame`, `JoinNoRoom`,
`SkipStatus`; `JoinGame` and `TakeSeat`; `QuitGame`, and then `MoveUp` or `MarkGone`.
`Broadcast` only follows seats; `CommandStumbles` and `FrameRunsOn` are the crashes of the
search for the sender that precedes every command.  The room's thread has `EnterLobby`,
`BeginRound`, `LobbyTimeout`, `NextStatus`, `EndRound`, `ClearQuitter` (one seat of the
sweep) and `WaitFaults`, the crash of a waiting loop.

*Atomicity.*  Nothing is locked, and all steps of the two network threads and of the game
threads interleave.  A network handler is one step, unless it looks for a place and then
writes there: between the two the other network thread may take the same slot
(GameHandler.cpp:74-85) or seat (Game.cpp:95-104), and the game thread may change the
status that `playerQuit` has tested (Game.cpp:130).  A network thread finishes one handler
before it begins the next.  What a game thread runs between two waiting loops is one step;
the sweep is one step per seat, because it moves seats while handlers write them.
Three overlaps are left out.  `newGame` (GameHandler.cpp:480-500) is one step, so two
startgame commands never find one free room.  The loop that moves seats up
(132-137) is one step.  `playerNum += 1` on two threads loses no update.  And the
numbers of the two kinds of connection are different here; `Sockets` has what
happens when a descriptor equals a web index.

*Checked.*

| Run | What it shows | Instance |
|---|---|---|
| `rooms` | types, and with them that `playerNum` exceeds the seats by one at most; nobody ever takes the KP's seat, so no KP branch of `run` executes; past day 1 a seat only goes from empty to a late joiner or from a player to -2, but for the two races, a quit that had found the room waiting and two joins that had found one seat: this is what pids in skills and votes rely on | a TCP and a web client, 2 Players, 1 room of 2 seats, statuses up to 3 (a day and a night), any conduct; 1,712,214 states |
| `rooms_settled` | until the tables are tangled: a seat's uid is a live player of that room with that pid, a player of a room has a seat (unless it was full, or is being taken), references to rooms are never NULL, and `Rooms` implements `Membership`; and without departures nothing crashes, although no scan tests for NULL and the other thread may be between its search and its write | 2 TCP clients and a web client, 2 Players, 2 rooms of 2 seats; 637,701 states |
| `rooms_quitter` | **violated**: a departure in mid-game kills the process at the next status | 2 clients, 1 room of 3 seats |

`OrderlyRunSurvives` is conditional on purpose.  Two connections that arrive at once may
get one slot, the later write replaces the earlier Player, and the next command of the
client who lost it crashes the server though nobody has left.  In `Rooms` that run
counts as tangled; `Sockets` follows it (`raced`, `ReceiveStumbles`).  What the property
says is that this collision is the only way: a scan that meets a table between
another thread's search and its write, or a pid loop that meets a half-made join, does no harm.

*The abstract rooms.*  `Membership` has no uids, pids or Players, only clients and
places: a client who arrives gets the first place that was never handed out (`Arrive`),
or, in a full room, none although he is told that he joined (`Refuse`); a client who
leaves gives up his own place (`Depart`), which nobody gets again.  `Members == INSTANCE
Membership` in `Rooms` reads these from the tables: a place is a client's if the seat
holds a uid whose Player has his connection, and is taken if the seat is not -1.
`ImplementsMembership` is `Members!Spec`.  One action is there because the code
needs it: in `Displace` a client whom a full room refused departs, and another one's
place goes with him (see *Divergences*); without it the run finds a violation.
`Scatter` ends the promise where `conduct` becomes "tangled".  A client whose connection was
cut without notice is still in his room, as the code sees it, until the number is used again.

*Bounds.*  `MaxStatus` ends a round after its first night (status 3): what a status
does to seats depends only on whether it is 2 and on its parity.  `MaxDrift` bounds how far
`playerNum` falls below zero; each further loss repeats the same drift.  Real sizes
are 10 players, 3 rooms, 20 seats.  Two clients, one on each network thread, meet in every
race, since a thread runs one handler at a time; two seats are a seat to lose and a seat
to move, two rooms are enough for a player to be in the wrong one, and in
`rooms_settled` three clients find a full table of Players (two) and a full room (one of them
can come back under another uid).  The theorems hold for every size.
`StillSettled`, the constraint of `rooms_settled`, drops states in which `conduct` is
"tangled" or `stray` holds: `conduct` never returns, the run's properties assume it has not
happened, and `stray` only turns steps into crashes that leave the tables alone.
`Readable`, the constraint of `rooms`, drops the latter only.
No fairness is assumed; these are safety properties.  Deadlock is not checked: the
process may have crashed, or all rooms be dead and all clients silent.

## 4. Day

*State.*  `at` is the place in `Game::run` between the chat phase and the
execution.  `skillArgSP` is the one field with which players shoot, nominate and
vote; `choice` is the target in `skillArg` of Butler and Poisoner; `skip`,
`dead`, `mute` (dead and `isVotedAfterDeath` not 0) and `seated` are sets of pids.
`left` and `voteLeft` are `endTime` minus the time.  `allSkip`, `timedOut`,
`initiator`, `pollPID`, `voteNum`, `maxNum`, `maxPid` are the code's locals, reset
where their scope ends.  History variables record who supported a nomination
(`support`, `backing`), whether a vote passed its initiator by (`lapped`), the time
outside of votes (`idle`) and who was executed.

*Actions.*  Commands (`UseSkillSP`, `SetSkillArg`, `SkipStatus`, `Leave`) happen at any
time, from the living and the dead.  The thread has one action per
pass over the seats or per seat on which it acts: `ChatScan`, `Shoot`, `ChatOn`, `StartPoll`;
`PollScan`, `NoNomination`, `Nominate`; `NextVoter`, `VotersDone`, `VoteTimeOut`,
`CastVote`, `Count`; `Execute`.  The test for skipping and for time comes at the
top of the loop, its use at the bottom, and commands fall in between.
The KP's branches are left out, which `KPSeatStaysEmpty` of `RoomsProofs` justifies.

*Precedence.*  `(skillArg >> 8) & (0xff != pid)` in the Butler's two tests: C++
compares first, so the test is the low bit of the chosen pid (`Barred`).

*Checked.*

| Run | What it shows | Instance |
|---|---|---|
| `day_votes` | an execution has, for one nomination, the support of more than half of those who can vote then; the poll phase gets its time outside of votes | 3 players, one dead with or without a vote, or the Virgin among them; 2.6 million states |
| `day_butler` | types; `vote_num` counts players, not answers, unless the initiator left or is a Butler; the day does no more than `DayEffect` | 3 players, a Butler who may change his master, one who may leave; 1,751,919 states |
| `day_fair` | under fairness the chat phase ends by the clock and the poll phase ends once all have skipped, whatever is sent, unless the process crashes; nobody is shot or struck whom `DayEffect` does not name | 2 players: Slayer, Virgin, Imp, Poisoner; 276,786 states |

*The abstract day.*  `DayEffect` has four actions and no clock, no votes and no
commands: somebody evil is shot, a nominator of the Virgin is struck, somebody leaves,
somebody is executed.  `Effect == INSTANCE DayEffect` identifies `seated`,
`characterID`, `dead` and `executed` with the variables of `Day`; `ImplementsEffect`
is `Effect!Spec`.  That the victim of a shot is
evil depends on the pass that read the command, that the executed one is still a player
on departures between the vote and the execution.

*Bounds.*  Limits of one tick let a timeout fall before, during or after each answer.  `MaxLeft`
saturates the time left, which grows without bound (see *Divergences*); it is
at least the limits, and the theorem about time holds for every such value.
Three seats give a voter below, an initiator and a voter above.  In
`day_fair` two seats are enough for an initiator and a voter.  `Targets` includes
the pids that mean "agree" (1) and "object".  `CHECK_DEADLOCK FALSE`: the model
ends with the day, or with the process.

*Fairness.*  `FairSpec` assumes that the room's thread keeps running and that time
passes; both come from the operating system.  Players owe nothing.  The clock
does not tick past the end of a vote that is waited for: the loop polls with
`sleep(0)`, against a clock of one second.

## 5. Sockets

*State.*  `socket` is the kernel's: which connection an open descriptor stands for.
`g_events` has SocketHandler's slots: `old` says that 900 seconds have passed since
`last_active`, which is set by the accept and by nothing else; `silent` is history, 0 or, once
nothing has been received for 900 seconds, 1 plus the number of passes that spared the slot.
`checkpos` is where the idle scan goes on, the size of the table included.  `mg` is mongoose's: which connection is at an address;
`fid_ptr_mappint` is WebServer's table of addresses by index.  `playerArray` holds the
Players by uid: the number and the kind of their connection, and in `of`, which the code
does not have, the connection they were made for.  `pending[thread]` is a
`newConnection` between its search and its assignment.  History: `met`, `cut` (how
often a descriptor was closed without `closeConnection`), `refused` (found a full table
of slots, indices or Players) and `raced` (lost its slot to the other thread).

*Actions.*  The epoll thread: `Accept`, `ReceiveData`, `ReceiveEnd`, `ReceiveError`,
`ReceiveStumbles` (a command whose search for the sender meets NULL), `IdleScan`; `GrowOld` and
`FallSilent` are the clock.
The web thread: `Handshake`, `FrameStumbles`, `CloseWeb`.  `FillSlot(thread)` is the second
half of `newConnection`.  Commands that find a Player change nothing here; whom they
find is `Hears` and `HearsFrame`, which the properties are about.

*Atomicity.*  A handler is one step, except that `newConnection`, which both threads
call without a lock, searches in one step and assigns in another, so that both may choose
one slot.  The kernel gives any closed descriptor to the next client, mongoose any free
address.

| Run | What it shows | Instance |
|---|---|---|
| `sockets` | types; slots and kernel agree about every descriptor; a TCP client is heard as itself unless its descriptor was once cut off without `closeConnection` or a web index equals it; a web client is heard as itself or as nobody; at most as many Players stay behind at a descriptor as it was cut; nobody loses his Player by another's departure; a client that has sent nothing for 900 seconds is closed before the scan could have gone round once more | 3 TCP and 2 web clients, descriptors 1 to 3, one address, 2 event slots, 3 Players, 2 indices, a scan of 1 slot; 2,749,539 states |
| `sockets_sender` | **violated**: after an error the next client with the descriptor is taken for the Player left behind | 2 TCP clients, 1 descriptor |

*Bounds.*  Every table can fill up (three clients for two slots, five connections for
three Players, no index left after two handshakes), every number comes back (one
address for two web clients; descriptors are chosen freely among three), and the
descriptors 1 to 3 overlap with the indices 0 and 1.  A scan of one slot out of two
leaves slots to later passes and wraps around; the code's is 100 out of 1024.
Clients of a kind are symmetric.  No fairness: a server whose clients are silent owes
nothing, and `SilentIsClosed` states the scan's promise as a bound on passes (for what the code does to
clients who are not silent see *Divergences*).
`CHECK_DEADLOCK FALSE`: each client connects once, then all is quiet.

## 6. Deck

*State.*  `stage` is the next step of `AssignCharacters`; `hand` the set of cards in
`tmpCharactersList` (a card dealt twice makes it too small), `spare` the last minion
of the shuffled list, `bluffs` the last three townsfolk, `demon`, `isDrunk`, `newCharacter`,
`told` what the players get.  `garbage` records that the slot which is read before it is
written held the Baron of an earlier round.

*Actions.*  `Deal`, `AddBaron` or `RemoveBaron`, `SeatPlayers`, `TellDemon`, and
`NextRound`, after which all is dealt again and `isDrunk` stays.  A shuffle is not a
permutation but what the code uses of it: `Splits(list, dealt, end, n, k)` says that
some order of the list has `dealt` as its first n and `end` as its last k cards.

| Run | What it shows | Instance |
|---|---|---|
| `deck` | types; one card for each player; the kinds of the table, two outsiders more for a Baron; the Baron in play if and only if he was drawn, unless `garbage`; the Imp's three characters are free, in every round | 5 or 6 players, 6 townsfolk; 54,380 states |
| `deck_drunk` | **violated**: the Drunk of one round may be the Imp of the next, whom the search for a character then does not find | as above |

*Bounds.*  Five players never have a Baron, six may; six players take no more than
three townsfolk, so with six townsfolk the margin that keeps the Imp's characters
free (`MarginAssumption`) is met with nothing to spare (the code's 13 townsfolk leave one
more than it asks for).  `FewDrunks` stops dealing when a third player has
`isDrunk`: the field influences only who may be found.  With two minions, from ten players
on, a Baron may have been dealt already when one is added; so many townsfolk are out of
TLC's reach, and the proofs, which hold for 1 to 15 players, cover that case.

## 7. Round

*State.*  `at` is the place in `run`: "ask", "wait", "use" (with `cursor`, the next call
of `useSkill`), "aim", "guard" and "blow" (within the Imp's call), "day", "decide", "end", and "hung" for a search that cannot end.
Players' fields are `characterID`, `deathDate`, `mute` (isVotedAfterDeath), `isDrunk`, `isSkillUsed` and
`skillArg`, a record of its three lowest bytes.  `strike` is what the Imp's call has read so
far: the victim, whether he is the Mayor's substitute, and the values of `con12` and `con13`.  `night` and `leaderless` are history:
who was killed since the night began, and how many decisions in a row found the Imp dead.
`Casts` says how a round may begin, with what earlier rounds left in the fields.

*Actions.*  `SetSkillArg` at any time, also between two skills of a night; `Ask` and
`WaitOver` (answers or time limit, at any moment); `UseSkill`, one step per character,
whose cases are operators (`Learn`, `Chef`, `Choose`, `See`, `FortuneTeller`,
`Undertaker`, `Ravenkeeper`, `Attack`); `NightOver`, `Daybreak`; `DayDeath` and `Execution`,
the steps of `DayEffect` with the date of the death; `Decide`, `DecideFaults`.  Every
case but the Imp's reads the others' arguments once.  The Imp's goes on in
`LookForPoison`, `LookForMonk` and `Blow`: it looks at the Poisoner's and the Monk's arguments
three times (Game.cpp:961-963, and 982-984 for a substitute), and the players may write them in
between.  Every case ends by overwriting `skillArg`, which is why who is poisoned or protected changes as
the night proceeds.

| Run | What it shows | Instance |
|---|---|---|
| `round` | types; one death per night at most; who dies at night was unprotected at one of the looks; a search never ends only if nobody else is alive, or a left-over drunk is taken for a minion and there is none; a dead demon is answered one decision later at most | 5 players in seven casts, two days and two nights (`LastStatus` 5), arguments that name pids 1, 3 and the free seat 5; 2,369,223 states |
| `round_scarlet` | **violated**: the good win while the Scarlet Woman, now the Imp, lives | statuses to 4 |

*Bounds.*  The seven casts cover every character whose skill changes state, two of them with
fields left by an earlier round (the dead Imp, a drunk beside an Investigator without a minion).
Two targets suffice for two choices that agree or differ; 5 is beyond the players,
where the Fortune Teller, the Ravenkeeper and the Imp dereference a free seat.  The
second night is the first with deaths by day and by night before it.  No fairness: a
round's only obligation to go on, the waiting loops, ends by its clock, which `Day`
checks for the phases in which the clock moves; that searches end is the safety property
`HangsOnlyAlone`.  (A search that can end is one step: it draws random pids until one
fits.)  `CHECK_DEADLOCK FALSE`: rounds end, hang or crash, and stop at `LastStatus`.

## 8. Proofs

All theorems hold for every value of the constants that the modules' assumptions admit.

`RoomsProofs` (any number of connections, slots, rooms, seats):

* `TypeCorrect`, `RoomsStayReferred`: `TypeOK` and `RoomsStand`.  Neither is inductive
  alone: handlers index `gameArray` with a player's `joinedGame` and write the result back,
  so that the room exists is needed for the types, and the types for the next index.
  `TaskInv` adds what network threads have found: its room exists, and `playerNum` leaves a seat
  for each thread that has passed `playerJoin`'s test, but for one.
* `KPSeatStaysEmpty`, `PidsStayPut`: both follow from the lemma `SeatChanges`, which
  says for every action how the contents of one seat may change.

`MembershipProofs` (as above):

* `SeatHoldersAreMembers`, `MembersAreSeated`: one invariant, `MemberInv`, since each
  needs the other: `closeConnection` wipes the seat that a pid names, whoever sits
  there, and `playerJoin` takes the first empty seat, whatever `playerNum` says.  Of its
  parts, that a sweep over seats starts without a gap makes the sweep harmless until
  somebody leaves during it; that a connection stands for one Player (`OneFid`) is needed
  where a command finds its sender; and `Founded(pending[t])` says what is still true,
  when a network thread writes, of what it has found: the sender is the same live Player,
  no seat below the one found is empty, and the seat it will mark is his or marked already.
  The seat or slot itself need not be free any more, but then the write tangles the tables.
  The lemma `NextIsMemberStep` reduces handlers and threads to five kinds of step, as far as
  membership goes: `NobodyMoved`, `Connected`, `Left`, `Joined` (told that he joined, with or
  without a seat to come) and `Entered` (the seat is taken).
* `OrderlyRunsSurvive`: `OrderInv`.  While nobody has left, live Players are a prefix of
  the table, no slot below one that was found is empty, and every open connection has a
  Player or is about to get one, or is a TCP client the full table refused; so a scan that
  tests no slot for NULL meets its client before the first NULL.
* `RoomsImplementMembership`, the refinement: each of the five kinds of step is an
  action of `Membership` or leaves its variables alone: a player is in a room for
  `Membership` from `Entered` on, and one who was refused from `Joined` on.
  That a pid which names somebody else's seat names one of a full room, the guard
  of `Displace`, is `MemberIsSeated`.

`DayProofs` (any number of players, any morning, any limits):

* `TypeCorrect`: `TypeOK` is inductive.
* `VotesAreCountedOnce`, `ExecutionsHaveMajority`: the invariant `Counted`.  While
  the vote has not passed its initiator (`Fair`), its cursor is in the first lap
  and the supporters are the initiator and players below the cursor, so the
  next vote adds a new member to the set; hence `vote_num`, and later `max_num`, are
  cardinalities.  The library's facts about finite sets do the counting.
* `PollHasFullTime`: the invariant `TimeInv`, that the time passed outside of votes
  and the time left (plus what the current vote will give back) cover the limit.

`DayEffectProofs`: `DayImplementsEffect`, the refinement.  With `TypeOK` and `LeadIsPlayer`
(who leads the vote is a player, and nobody is executed before the end) each action
of `Day` is an action of `DayEffect` or leaves its variables alone.

`SocketsProofs` (any number of clients, descriptors, addresses, slots, Players):

* `TypeCorrect`: with `TypeOK` goes `Known`, that whoever is at a descriptor, in a
  Player or in a pending search has been met before.
* `SlotsAgree`, `TcpHeardRight`, `WebHeardRight`, `EverybodyServed`: one invariant,
  `IInv`.  A number stands for one connection: `Kept(fid, type, c)` says that Players
  with that number and kind were made for c, that there is one at most, and none while a
  `newConnection` for it is pending.  `TcpKept` has this for descriptors that were never
  cut, `WebKept` for the index at which an address is found first; an index
  never assigned has no Player at all.  That is why indices which are never cleared do
  no harm to what clients are heard as: the old Player is gone when the address comes back.
  `Placed`, that a Player has the number of its own connection while that is open,
  carries `ServedUnlessRaced` over the close of another one.

`CutProofs` (as above):

* `SilentOnesAreClosed`: `SilenceInv`.  A silent slot is an old one, which every pass that reaches it
  closes.  What the passes that spared it went over and the way from
  `checkpos` to that slot (`Distance`, round the end of the table) together fall short of the table:
  a pass that spares it moves the length of a scan from the one to the other.  The arithmetic does
  not ask that the scan's length divide the table's.
* `OrphansAreCut`: `OrphanInv`, which counts.  A connection has one Player at most
  (`OnePlayer`), so a cut adds one orphan at most; a close that deletes an older Player
  of the same number instead of the right one trades one orphan for another.

`DeckProofs` (1 to 15 players, any number of townsfolk above the margin): `DeckInv`, over all
stages.  Between `Deal` and the swap of the Baron it has `AsCounted`, the number of cards of each
kind, and that the spare minion is not in the hand; that needs the table, row by row,
to leave a fourth minion (`Counts` never takes more than three).  From `ThreeFree`
follows `BluffsStayFree`, from the sums of the rows `EveryoneHasACard`.

`RoundProofs` (any number of players, any casts, arguments and rounds):

* `TypeCorrect`: `TypeOK` is inductive.
* `ProtectedSurvive`: only the last of the Imp's looks adds to `night`, and what its two
  differently written tests have in common; `strike` remembers the earlier looks.
* `OneDies`: `NightInv`.  The Imp's call is the thirteenth and `cursor` moves past it, so
  he strikes once a night, as long as no Imp is drunk (then he would be called as the Drunk too).
* `DemonsDeathEnds`: `LeaderInv`.  The only decision that finds the Imp dead and lets the game
  go on is the one that makes the Scarlet Woman an Imp, and there is one Scarlet
  Woman (`OneScarlet`): afterwards there is none, and the next such decision ends the
  game.  That the search, which goes down from the highest pid, finds an Imp at all
  (`HasHighest`) is an induction, replaced by a pigeonhole argument over finite sets.
* `SearchesEnd`: `Hang` is reached from two skills, with the sets they search.

The assumptions are `RoomsAssumption`, `DayAssumption`, `SocketsAssumption`,
`DeckAssumption`, `MarginAssumption` and `RoundAssumption`: sizes are positive, NULL is
no record, bounds are natural numbers, kinds of clients and of cards are disjoint, the
four outsiders and minions of the code, `MaxLeft` is at least the limits, and no cast of
`Round` has two Scarlet Women, which `EveryoneHasACard` of `DeckProofs` justifies.  TLC
evaluates them in every run.

Only model-checked: liveness (`ChatEndsInTime`, `SkippedPollEnds`), since TLAPS proves
neither liveness under fairness nor ENABLED.  Every other property of a passing run is
stated by a theorem.  Also out of its reach are induction over data and RECURSIVE operators.

## 9. Divergences

Each violated run above has a finding in PROJECT.json that quotes the comment or
message it contradicts.  Read in the code while modelling, and not given a run of
their own:

* Player.cpp:36 ignores that a full room refused the player, and tells him that he joined.  His
  pid is still the one of a room he quit in mid-game; when he disconnects, GameHandler.cpp:119
  marks that seat of the full room as left, and another player loses it (`Displace`).
* Game.h:77 says that `playerNum` follows joins and departures.  Game.cpp:136 empties seat
  `playerNum` and not the last occupied one, so the last player who quits a waiting room
  keeps the seat while `playerNum` drops.
* Game.cpp:131 calls status 2 "not in a game"; day 1 has that status as well, and
  a departure then shifts the seats above, as in the lobby.
* Game.cpp:1059 logs that all players exit when a lobby times out; nobody does, and
  the room keeps its place in `gameArray` for good.
* Game.h:52: the Virgin kills a Townsfolk who nominates her first; the code kills any
  nominator, every time.  Game.h:53: the Slayer kills the demon, once; the code
  kills minions too, any number of times, also by a dead Slayer.
* Game.h:58: the Butler votes where his master does; see *Precedence*.
* Game.cpp:1399 waits for a player to vote; an answer left from an earlier question
  counts at once.  Nothing clears `skillArgSP` within the poll phase.
* An answer to a vote is the next nomination: "agree" nominates player 1.
* Game.cpp:1395 leaves the voting loop at the initiator, after the players below him;
  those above are never asked, while the message at 1426 says that all votable players voted.
* A Butler who nominates and then changes his master is passed over where the loop
  should stop (1392): it asks everybody a second time and counts their votes twice.
* The poll phase's limit, which line 1319 announces as a fixed time, is pushed on by
  1423 with every vote; an old answer of a dead player that nominates again and again
  keeps it from running out until all have skipped.
* Game.cpp:961 and 970 say a poisoned Soldier can be killed; the condition asks for a poisoned Monk as
  well (`con14`), and there is one Poisoner.  So he dies only if the Poisoner changes his choice
  between the two looks.  As the Mayor's substitute he dies if he is poisoned and not protected, as
  982 says.  Game.h:64 says poison lasts through the next day; it
  ends when the Poisoner is asked again, and the dead Poisoner's stays.
* Game.cpp:784-791: the comment ignores more than two deaths; the bound lets a third through,
  behind the end of a list of two.
* An Imp who does not answer in time kills player 0 (957, 958: the untouched argument is
  "kill somebody" and pid 0).
* Game.cpp:679, 682: the Chef's count is shifted twice, and the pairs within the row go to a
  variable that is overwritten.  Game.cpp:694: the Empath's test repeats `con3`, which holds, so
  every Empath gets a random number.  (What a skill tells is not modelled.)
* `isVotedAfterDeath` is never set: the dead vote for ever.
* SocketHandler.cpp:215 says clients that are silent for 60 seconds are closed; the limit
  is 900 seconds, and `last_active` is not renewed by what a client sends: busy clients are closed
  too, 900 seconds after the accept.  `SilentIsClosed` is about the silent ones only.
* Game.h:61 and Game.cpp:921 say that the good lose when a Saint is executed; no code looks for the Saint.
  Game.h:55 says the Mayor's side wins if three are alive and nobody is executed; nothing does that.

## 10. Not modelled

* mongoose (`src/mongoose/`), vendored: 21,025 of the repository's 24,311 lines of C and C++.
  Of what is the server's own, the modules cover most of Game.cpp and the parts of
  the other files that change state.
* Formatting and logging, plain HTTP, the static page; the names players set; the "poll"
  and "vote" commands (they set fields that `run` never reads); `frame` and
  `selfDestroy` (dead code); `newUser`/`delUser` (deprecated); `setKP`, `removeKP`, `senddata`,
  which nothing calls, and the KP's branches of `run`.
* What a player learns from a skill; only that he is told, and what is dereferenced on the way.
* In `Day` and `Round`: late joiners, whose character and `deathDate` are uninitialised,
  departures in `Round`, sends to free seats (`Rooms` has these as far as seats go), and pids
  beyond the array of seats, which would read past it.
* In `Sockets`: partial reads and writes, and memory other than zero behind `g_events` and
  `fid_ptr_mappint`, which the code does not initialise; the models take them as zero.
* `main` and `interface.cpp`, which have no state.
