-------------------------------- MODULE Day --------------------------------
(***************************************************************************)
(* The daytime of a room, Game::run from the start of the chat phase to    *)
(* the execution: the Slayer's shots, nominations, votes, and the clock    *)
(* that bounds them, against the commands players send meanwhile.          *)
(*                                                                         *)
(* Players answer every question of the day through one field,             *)
(* skillArgSP: its second byte is the target of a shot, the nominated      *)
(* player, or 1 for a vote in favour.  The network thread writes it at any *)
(* time; the game thread polls it.                                         *)
(*                                                                         *)
(* The seats of the room are 0 .. PlayerNum-1.  Nobody joins late, and it  *)
(* is day 2 or later, when a seat left becomes -2 (module Rooms has the    *)
(* rest, also what sending to free seats may do).  There is no KP: Rooms   *)
(* shows that nobody gets into that seat.                                  *)
(* One pass of the game thread over the seats is one step, except where    *)
(* the code acts on a seat before it looks at the next one.                *)
(***************************************************************************)
EXTENDS Integers, FiniteSets

CONSTANTS
  PlayerNum,   \* players in the room
  Mornings,    \* how a day may begin: who is who, and who is dead
  Targets,     \* the pids that commands name; PlayerNum stands for a free seat
  Leavers,     \* players who may quit or lose their connection
  ChatLimit,   \* timeOut[3], in ticks of the clock
  PollLimit,   \* timeOut[5]
  VoteLimit,   \* timeOut[6]
  MaxLeft      \* bound on the time left, not in the code

VARIABLES
  up,           \* the process has not crashed
  at,           \* where the game thread is
  seated,       \* pids whose seat is not -2
  characterID,
  dead,         \* deathDate > 0
  mute,         \* the dead whose isVotedAfterDeath is set
  skillArgSP,   \* the target in each player's skillArgSP, NONE for 0
  choice,       \* the target in the skillArg of Butler and Poisoner
  skip,         \* players with isSkipStatus
  left,         \* endTime of the phase, minus the time
  voteLeft,     \* endTime of a vote, minus the time
  allSkip,      \* local isAllPlayerSkipStatus
  timedOut,     \* local isTimeOut
  cursor,       \* local loop counter i
  initiator,    \* local initiatorPID
  pollPID,      \* local pollPID
  voteNum,      \* local vote_num
  maxNum,       \* local max_num
  maxPid,       \* local max_pid
  support,      \* history: who nominated, or voted in favour, this time
  backing,      \* history: the same for the player in the lead
  lapped,       \* history: a vote went past the seat of its initiator
  idle,         \* history: time of the poll phase spent outside of votes
  executed      \* history: who was executed

answers == <<skillArgSP, choice, skip>>
people  == <<seated, characterID, dead, mute>>
clock   == <<left, voteLeft, idle>>
vote    == <<initiator, pollPID, voteNum, support, lapped>>
lead    == <<maxNum, maxPid, backing>>
scan    == <<allSkip, timedOut>>
vars    == <<up, at, cursor, executed, people, answers, clock, vote, lead, scan>>

NONE == -1
Pids == 0 .. PlayerNum - 1
Agree == 1

Evil  == {"minion", "poisoner", "imp"}
Characters == Evil \cup {"townsfolk", "slayer", "virgin", "butler"}
Stages == {"chat", "shoot", "poll", "find", "vote", "wait", "count", "tally", "over"}
InVote == {"vote", "wait", "count"}

ASSUME DayAssumption ==
  /\ PlayerNum \in Nat \ {0}
  /\ Mornings \subseteq [characterID : [Pids -> Characters],
                         dead : SUBSET Pids, mute : SUBSET Pids]
  /\ \A m \in Mornings : m.mute \subseteq m.dead
  /\ Targets \subseteq 0 .. PlayerNum
  /\ Leavers \subseteq Pids
  /\ ChatLimit \in Nat /\ PollLimit \in Nat /\ VoteLimit \in Nat \ {0}
  /\ MaxLeft \in Nat /\ PollLimit <= MaxLeft /\ ChatLimit <= MaxLeft

Alive   == seated \ dead
Votable == seated \ (dead \cap mute)

Crash == /\ up' = FALSE
         /\ UNCHANGED <<at, cursor, executed, people, answers, clock, vote, lead, scan>>

\* Mutant: the death of the player is not recorded.
KillNot(p) == UNCHANGED <<dead, mute>>

\* killPlayer: nothing happens to a seat that was left.
Kill(p) == IF p \in seated
           THEN dead' = dead \cup {p} /\ mute' = mute \ {p}
           ELSE UNCHANGED <<dead, mute>>

-----------------------------------------------------------------------------
(* Commands, any time.                                                     *)

\* "useskillsp"
UseSkillSP(p) ==
  /\ up /\ at # "over" /\ p \in seated
  /\ \E t \in Targets \cup {NONE} : skillArgSP' = [skillArgSP EXCEPT ![p] = t]
  /\ UNCHANGED <<up, at, cursor, executed, people, choice, skip, clock, vote, lead, scan>>

\* "kpc", which any player may send, and "set skillarg", which stores an
\* uninitialised number.  Only what a Butler or a Poisoner has there is read
\* by day.  ("kpc" with a second argument is this and then UseSkillSP.)
SetSkillArg(p) ==
  /\ up /\ at # "over" /\ p \in seated
  /\ characterID[p] \in {"butler", "poisoner"}
  /\ \E t \in Targets \cup {NONE} : choice' = [choice EXCEPT ![p] = t]
  /\ UNCHANGED <<up, at, cursor, executed, people, skillArgSP, skip, clock, vote, lead, scan>>

\* "skipstatus", "confirm"
SkipStatus(p) ==
  /\ up /\ at # "over" /\ p \in seated
  /\ skip' = skip \cup {p}
  /\ UNCHANGED <<up, at, cursor, executed, people, skillArgSP, choice, clock, vote, lead, scan>>

\* "quitgame", or the connection is closed.
Leave(p) ==
  /\ up /\ at # "over" /\ p \in seated \cap Leavers
  /\ seated' = seated \ {p}
  /\ UNCHANGED <<up, at, cursor, executed, characterID, dead, mute, answers, clock,
                 vote, lead, scan>>

-----------------------------------------------------------------------------
(* The clock.  The game thread polls it far more often than once a second, *)
(* so it does not tick on past the end of a vote that is being waited for. *)

Tick ==
  /\ up /\ at # "over"
  /\ at = "wait" => voteLeft > 0
  /\ left' = IF left > -VoteLimit THEN left - 1 ELSE left
  /\ voteLeft' = IF voteLeft > 0 THEN voteLeft - 1 ELSE 0
  /\ idle' = IF at \in {"poll", "find", "vote", "count"} /\ idle < PollLimit
             THEN idle + 1 ELSE idle
  /\ UNCHANGED <<up, at, cursor, executed, people, answers, vote, lead, scan>>

\* Both loops look at who wants to go on, and at the time, first.
Scan(from, to) ==
  /\ up /\ at = from
  /\ allSkip' = (seated \subseteq skip)
  /\ timedOut' = (left <= 0)
  /\ at' = to
  /\ UNCHANGED <<up, cursor, executed, people, answers, clock, vote, lead>>

-----------------------------------------------------------------------------
(* Chatting, and shots.                                                    *)

ChatScan == Scan("chat", "shoot")

\* isPlayerPoisoned: the Poisoner's choice counts even if he is dead.
Poisoned(p) == \E q \in Pids : characterID[q] = "poisoner" /\ choice[q] = p

\* Mutant: the Slayer kills whom he likes.
HitsAnybody(p, target) == ~ Poisoned(p) /\ characterID[p] = "slayer"

Hits(p, target) == /\ ~ Poisoned(p)
                   /\ characterID[p] = "slayer"
                   /\ characterID[target] \in Evil

\* Mutant: the chat phase has no time limit.
ChatOverSkipped == allSkip

ChatOver == allSkip \/ timedOut

\* The seat at the cursor shoots if it holds a target.  The search for the
\* Poisoner visits every seat, so it dies of one that was left.
Shoot ==
  LET target == skillArgSP[cursor] IN
  /\ up /\ at = "shoot" /\ cursor \in Pids
  /\ IF cursor \notin seated \/ target = NONE
     THEN /\ cursor' = cursor + 1
          /\ UNCHANGED <<up, at, executed, people, answers, clock, vote, lead, scan>>
     ELSE IF seated # Pids \/ target \notin seated
     THEN Crash
     ELSE /\ IF Hits(cursor, target) THEN Kill(target) ELSE UNCHANGED <<dead, mute>>
          /\ skillArgSP' = [skillArgSP EXCEPT ![cursor] = NONE]
          /\ cursor' = cursor + 1
          /\ UNCHANGED <<up, at, executed, seated, characterID, choice, skip, clock,
                         vote, lead, scan>>

ChatOn ==
  /\ up /\ at = "shoot" /\ cursor \notin Pids
  /\ ~ ChatOver
  /\ at' = "chat" /\ cursor' = 0
  /\ UNCHANGED <<up, executed, people, answers, clock, vote, lead, scan>>

\* The poll phase starts with everybody's answer and readiness cleared.
StartPoll ==
  /\ up /\ at = "shoot" /\ cursor \notin Pids
  /\ ChatOver
  /\ at' = "poll" /\ cursor' = 0
  /\ left' = PollLimit
  /\ skip' = skip \ seated
  /\ skillArgSP' = [p \in Pids |-> IF p \in seated THEN NONE ELSE skillArgSP[p]]
  /\ maxNum' = -1 /\ maxPid' = NONE
  /\ UNCHANGED <<up, executed, people, choice, voteLeft, idle, vote, backing, scan>>

-----------------------------------------------------------------------------
(* Nomination.                                                             *)

PollScan == Scan("poll", "find")

\* The Butler's test, (skillArg >> 8) & (0xff != ..): only the low bit of
\* the chosen pid counts.
Barred(p) == characterID[p] = "butler" /\ choice[p] # NONE /\ choice[p] % 2 = 1

Nominators == {p \in Alive : skillArgSP[p] # NONE /\ ~ Barred(p)}

PhaseOver == IF allSkip \/ timedOut THEN "tally" ELSE "poll"

NoNomination ==
  /\ up /\ at = "find" /\ Nominators = {}
  /\ at' = PhaseOver
  /\ UNCHANGED <<up, cursor, executed, people, answers, clock, vote, lead, scan>>

\* The lowest seat nominates.  Who nominates the Virgin dies, and the loop
\* starts again without looking at the time.
Nominate ==
  \E p \in Nominators :
    LET target == skillArgSP[p] IN
    /\ up /\ at = "find"
    /\ \A q \in Nominators : p <= q
    /\ IF target \notin seated THEN Crash
       ELSE IF characterID[target] = "virgin"
       THEN /\ Kill(p)
            /\ at' = "poll"
            /\ UNCHANGED <<up, cursor, executed, seated, characterID, answers, clock,
                           vote, lead, scan>>
       ELSE /\ initiator' = p /\ pollPID' = target
            /\ voteNum' = 1 /\ support' = {p}
            /\ at' = "vote"
            /\ UNCHANGED <<up, cursor, executed, people, answers, clock, lapped, lead, scan>>

-----------------------------------------------------------------------------
(* Voting.  The loop passes every seat twice, unless it meets the          *)
(* initiator first.                                                        *)

Seat(i) == IF i < PlayerNum THEN i ELSE i - PlayerNum

\* Mutant: one step too many.
LoopDoneLate(i) == i > 2 * PlayerNum

LoopDone(i) == i = 2 * PlayerNum

PassedOver(j) == j \notin seated \/ j \in dead \cap mute \/ Barred(j)

\* Mutant: the loop ends when it reaches the initiator again.
SecondTime(i) == i = initiator + PlayerNum

IsInitiator(i) == Seat(i) = initiator

NextVoter ==
  /\ up /\ at = "vote" /\ ~ LoopDone(cursor)
  /\ IF PassedOver(Seat(cursor))
     THEN /\ cursor' = cursor + 1
          /\ lapped' = (lapped \/ Seat(cursor) = initiator)
          /\ UNCHANGED <<at, voteLeft>>
     ELSE /\ at' = IF IsInitiator(cursor) THEN "count" ELSE "wait"
          /\ voteLeft' = IF IsInitiator(cursor) THEN voteLeft ELSE VoteLimit
          /\ UNCHANGED <<cursor, lapped>>
  /\ UNCHANGED <<up, executed, people, answers, left, idle, initiator, pollPID,
                 voteNum, support, lead, scan>>

VotersDone ==
  /\ up /\ at = "vote" /\ LoopDone(cursor)
  /\ at' = "count"
  /\ UNCHANGED <<up, cursor, executed, people, answers, clock, vote, lead, scan>>

\* Mutant: the vote runs on the time of the phase.
NotExtended == left

\* endTime = lastEndTime + timeOut[6], whatever time the vote took.
Extended == IF left + VoteLimit <= MaxLeft THEN left + VoteLimit ELSE MaxLeft

NextSeat == /\ cursor' = cursor + 1
            /\ at' = "vote"
            /\ left' = Extended
            /\ voteLeft' = 0

\* The time is tested before the answer.
VoteTimeOut ==
  /\ up /\ at = "wait" /\ voteLeft = 0
  /\ NextSeat
  /\ UNCHANGED <<up, executed, people, answers, idle, vote, lead, scan>>

\* skillArgSP may have been set at any time since the poll phase began, and
\* stays set.
CastVote ==
  LET j == Seat(cursor) IN
  /\ up /\ at = "wait" /\ voteLeft > 0
  /\ IF j \notin seated THEN Crash ELSE
       /\ skillArgSP[j] # NONE
       /\ IF skillArgSP[j] = Agree
          THEN voteNum' = voteNum + 1 /\ support' = support \cup {j}
          ELSE UNCHANGED <<voteNum, support>>
       /\ NextSeat
       /\ UNCHANGED <<up, executed, people, answers, idle, initiator, pollPID, lapped,
                      lead, scan>>

Count ==
  /\ up /\ at = "count"
  /\ IF voteNum > maxNum
     THEN maxNum' = voteNum /\ maxPid' = pollPID /\ backing' = support
     ELSE UNCHANGED lead
  /\ at' = PhaseOver
  /\ initiator' = NONE /\ pollPID' = NONE /\ voteNum' = 0 /\ support' = {}
  /\ cursor' = 0
  /\ UNCHANGED <<up, executed, people, answers, clock, lapped, scan>>

-----------------------------------------------------------------------------
(* Execution.                                                              *)

\* Mutant: half of the votes suffices.
HalfSuffices == maxNum * 2 >= Cardinality(Votable)

Majority == maxNum * 2 > Cardinality(Votable)

Execute ==
  /\ up /\ at = "tally"
  /\ IF Majority THEN Kill(maxPid) /\ executed' = maxPid
     ELSE UNCHANGED <<dead, mute, executed>>
  /\ at' = "over"
  /\ UNCHANGED <<up, cursor, seated, characterID, answers, clock, vote, lead, scan>>

Command(p) == UseSkillSP(p) \/ SetSkillArg(p) \/ SkipStatus(p) \/ Leave(p)

GameThread ==
  \/ ChatScan \/ Shoot \/ ChatOn \/ StartPoll
  \/ PollScan \/ NoNomination \/ Nominate
  \/ NextVoter \/ VotersDone \/ VoteTimeOut \/ CastVote \/ Count
  \/ Execute

\* Some of the dead may count as having voted: killPlayer clears
\* isVotedAfterDeath, but the Player constructor initialises neither that nor
\* deathDate.
Init ==
  /\ up = TRUE /\ at = "chat" /\ cursor = 0 /\ executed = NONE
  /\ seated = Pids
  /\ \E m \in Mornings :
       characterID = m.characterID /\ dead = m.dead /\ mute = m.mute
  /\ skillArgSP = [p \in Pids |-> NONE]
  /\ choice \in {f \in [Pids -> Targets \cup {NONE}] :
                   \A p \in Pids : characterID[p] \in {"butler", "poisoner"} \/ f[p] = NONE}
  /\ skip = {}
  /\ left = ChatLimit /\ voteLeft = 0 /\ idle = 0
  /\ allSkip = FALSE /\ timedOut = FALSE
  /\ initiator = NONE /\ pollPID = NONE /\ voteNum = 0 /\ support = {} /\ lapped = FALSE
  /\ maxNum = -1 /\ maxPid = NONE /\ backing = {}

Next == (\E p \in Pids : Command(p)) \/ Tick \/ GameThread

Spec == Init /\ [][Next]_vars

\* The scheduler runs the room's thread, and time passes.  No player has to
\* do anything.
Fairness == WF_vars(GameThread) /\ WF_vars(Tick)
FairSpec == Spec /\ Fairness

-----------------------------------------------------------------------------
(* Properties.                                                             *)

\* Every variable keeps its type; the loops stay inside the seats.
TypeOK ==
  /\ up \in BOOLEAN /\ at \in Stages
  /\ seated \subseteq Pids
  /\ characterID \in [Pids -> Characters]
  /\ dead \subseteq Pids /\ mute \subseteq dead
  /\ skillArgSP \in [Pids -> Targets \cup {NONE}]
  /\ choice \in [Pids -> Targets \cup {NONE}]
  /\ skip \subseteq Pids
  /\ left \in -VoteLimit .. MaxLeft
  /\ voteLeft \in 0 .. VoteLimit
  /\ idle \in 0 .. PollLimit
  /\ allSkip \in BOOLEAN /\ timedOut \in BOOLEAN /\ lapped \in BOOLEAN
  /\ cursor \in 0 .. 2 * PlayerNum
  /\ initiator \in Pids \cup {NONE} /\ pollPID \in Pids \cup {NONE}
  /\ maxPid \in Pids \cup {NONE} /\ executed \in Pids \cup {NONE}
  /\ voteNum \in Nat /\ maxNum \in Nat \cup {-1}
  /\ support \subseteq Pids /\ backing \subseteq Pids
  /\ at \in InVote => initiator \in Pids
  /\ at = "wait" => cursor < 2 * PlayerNum

\* vote_num is the number of different players who nominated or agreed,
\* although the loop passes every seat twice: it always stops at the
\* initiator's seat in time, unless that player has left or is a Butler, who
\* may choose another master meanwhile and then is not recognised.
CountedOnce ==
  at \in InVote /\ initiator \in seated /\ characterID[initiator] # "butler"
    => voteNum = Cardinality(support)

\* Nobody is executed unless, for one and the same nomination, more than
\* half of those who can vote at the end supported it - whatever was voted
\* on in between, whoever died or left.  (lapped: no vote that went past its
\* initiator is considered.)
ExecutionHasMajority ==
  [][executed' # executed /\ ~ lapped
       => /\ executed' = maxPid
          /\ 2 * Cardinality(backing) > Cardinality(Votable)]_vars

\* The time votes take is given back: unless everybody was seen ready, the
\* poll phase is not closed before PollLimit has passed outside of votes.
FullPollTime == at \in {"tally", "over"} => allSkip \/ idle >= PollLimit

\* Whatever is shot at, nominated, voted on and skipped, in whatever order,
\* all a day does to the room is what DayEffect allows: only the evil are
\* shot, only nominators of the Virgin are struck, at most one player is
\* executed, nothing happens after it, and the dead stay dead.
Effect == INSTANCE DayEffect WITH
  PlayerNum <- PlayerNum, seated <- seated, characterID <- characterID,
  dead <- dead, executed <- executed
ImplementsEffect == Effect!Spec

\* The chat phase ends, by the clock, whatever players send.
ChatEndsInTime == at \in {"chat", "shoot"} ~> at = "poll" \/ ~ up

\* Once everybody in the room wants to go on, the poll phase ends, however
\* many answers are pending and whatever players send: every vote waits for
\* a bounded time, and the Virgin's loop, which skips the exit test, runs
\* out of nominators.
SkippedPollEnds ==
  at \in {"poll", "find"} \cup InVote /\ seated \subseteq skip
    ~> at = "over" \/ ~ up

=============================================================================
