----------------------------- MODULE DayProofs -----------------------------
(* Proofs about Day, for any number of players, any morning and any limits *)
(* of time: types, that votes are counted once, that an execution has a    *)
(* majority, and that the poll phase is given its time.                    *)
EXTENDS Day, FiniteSetTheorems, TLAPS

USE DEF vars, answers, people, clock, vote, lead, scan

LEMMA PidFacts ==
  /\ PlayerNum \in Nat /\ PlayerNum >= 1
  /\ Pids \subseteq Nat /\ NONE \notin Pids
  /\ \A p \in Pids : p < PlayerNum
BY DayAssumption DEF Pids, NONE

\* A set of players is finite, and so is its cardinality.
LEMMA PlayersFinite ==
  ASSUME NEW S \in SUBSET Pids
  PROVE  IsFiniteSet(S) /\ Cardinality(S) \in Nat
<1>1. IsFiniteSet(Pids)
  BY PidFacts, FS_Interval DEF Pids
<1>2. IsFiniteSet(S)
  BY <1>1, FS_Subset
<1>3. QED
  BY <1>2, FS_CardinalityType

-----------------------------------------------------------------------------
(* Types.                                                                  *)

LEMMA KillTypes ==
  ASSUME NEW p, seated \subseteq Pids, dead \subseteq Pids, mute \subseteq dead, Kill(p)
  PROVE  dead' \subseteq Pids /\ mute' \subseteq dead'
BY DEF Kill

LEMMA ExtendedType == TypeOK => Extended \in -VoteLimit .. MaxLeft
BY DayAssumption DEF TypeOK, Extended

LEMMA InitTypes == Init => TypeOK
<1> SUFFICES ASSUME Init
             PROVE  TypeOK
  OBVIOUS
<1>1. PICK m \in Mornings : characterID = m.characterID /\ dead = m.dead /\ mute = m.mute
  BY DEF Init
<1>2. /\ characterID \in [Pids -> Characters] /\ dead \subseteq Pids
      /\ mute \subseteq dead
  BY <1>1, DayAssumption
<1>3. choice \in [Pids -> Targets \cup {NONE}]
  BY DEF Init
<1>4. /\ left \in -VoteLimit .. MaxLeft /\ voteLeft \in 0 .. VoteLimit
      /\ idle \in 0 .. PollLimit /\ cursor \in 0 .. 2 * PlayerNum
  BY DayAssumption DEF Init
<1>5. QED
  BY <1>2, <1>3, <1>4 DEF Init, TypeOK, Stages, InVote

LEMMA CommandTypes ==
  ASSUME TypeOK, NEW p \in Pids, Command(p)
  PROVE  TypeOK'
<1>1. CASE UseSkillSP(p)
  BY <1>1, PidFacts DEF UseSkillSP, TypeOK
<1>2. CASE SetSkillArg(p)
  BY <1>2, PidFacts DEF SetSkillArg, TypeOK
<1>3. CASE SkipStatus(p)
  BY <1>3 DEF SkipStatus, TypeOK
<1>4. CASE Leave(p)
  BY <1>4 DEF Leave, TypeOK
<1>5. QED
  BY <1>1, <1>2, <1>3, <1>4 DEF Command

LEMMA TickTypes == TypeOK /\ Tick => TypeOK'
BY DayAssumption DEF Tick, TypeOK

LEMMA ScanTypes ==
  ASSUME TypeOK, ChatScan \/ PollScan
  PROVE  TypeOK'
<1>1. allSkip' \in BOOLEAN /\ timedOut' \in BOOLEAN
  <2>1. allSkip' = (seated \subseteq skip) /\ timedOut' = (left <= 0)
    BY DEF ChatScan, PollScan, Scan
  <2>2. (seated \subseteq skip) = TRUE \/ (seated \subseteq skip) = FALSE
    BY Zenon
  <2>3. (left <= 0) = TRUE \/ (left <= 0) = FALSE
    BY SMT DEF TypeOK
  <2>4. QED
    BY <2>1, <2>2, <2>3, Zenon
<1>2. /\ at' \in {"shoot", "find"}
      /\ UNCHANGED <<up, cursor, executed, people, answers, clock, vote, lead>>
  BY DEF ChatScan, PollScan, Scan
<1>3. QED
  BY <1>1, <1>2 DEF TypeOK, Stages, InVote

LEMMA ChatTypes ==
  ASSUME TypeOK, Shoot \/ ChatOn \/ StartPoll
  PROVE  TypeOK'
<1>1. CASE Shoot
  <2>1. CASE Crash
    BY <2>1 DEF Crash, TypeOK
  <2>2. CASE ~ Crash
    <3>1. /\ cursor \in Pids /\ at = "shoot" /\ cursor' = cursor + 1
          /\ UNCHANGED <<up, at, executed, seated, characterID, choice, skip, clock,
                         vote, lead, scan>>
      BY <1>1, <2>2 DEF Shoot
    <3>2. dead' \subseteq Pids /\ mute' \subseteq dead'
      BY <1>1, <2>2, KillTypes DEF Shoot, TypeOK
    <3>3. skillArgSP' \in [Pids -> Targets \cup {NONE}]
      BY <1>1, <2>2 DEF Shoot, TypeOK
    <3>4. cursor' \in 0 .. 2 * PlayerNum
      BY <3>1, PidFacts
    <3>5. QED
      BY <3>1, <3>2, <3>3, <3>4 DEF TypeOK, InVote
  <2>3. QED
    BY <2>1, <2>2
<1>2. CASE ChatOn
  BY <1>2, PidFacts DEF ChatOn, TypeOK, Stages, InVote
<1>3. CASE StartPoll
  BY <1>3, DayAssumption, PidFacts DEF StartPoll, TypeOK, Stages, InVote, NONE
<1>4. QED
  BY <1>1, <1>2, <1>3

LEMMA NominationTypes ==
  ASSUME TypeOK, NoNomination \/ Nominate
  PROVE  TypeOK'
<1>1. CASE NoNomination
  BY <1>1 DEF NoNomination, PhaseOver, TypeOK, Stages, InVote
<1>2. CASE Nominate
  <2>1. CASE Crash
    BY <2>1 DEF Crash, TypeOK
  <2>2. CASE ~ Crash
    <3>1. PICK p \in Nominators :
            \/ /\ Kill(p) /\ at' = "poll"
               /\ UNCHANGED <<up, cursor, executed, seated, characterID, answers, clock,
                              vote, lead, scan>>
            \/ /\ skillArgSP[p] \in seated
               /\ initiator' = p /\ pollPID' = skillArgSP[p]
               /\ voteNum' = 1 /\ support' = {p} /\ at' = "vote"
               /\ UNCHANGED <<up, cursor, executed, people, answers, clock, lapped, lead, scan>>
      BY <1>2, <2>2 DEF Nominate
    <3>2. p \in Pids
      BY DEF Nominators, Alive, TypeOK
    <3>3. QED
      BY <3>1, <3>2, KillTypes DEF TypeOK, Stages, InVote
  <2>3. QED
    BY <2>1, <2>2
<1>3. QED
  BY <1>1, <1>2

LEMMA SeatDone ==
  ASSUME TypeOK, at = "wait", NextSeat
  PROVE  /\ at' = "vote" /\ cursor' \in 0 .. 2 * PlayerNum
         /\ left' \in -VoteLimit .. MaxLeft /\ voteLeft' \in 0 .. VoteLimit
BY DayAssumption, PidFacts, ExtendedType DEF NextSeat, TypeOK

LEMMA VoteTypes ==
  ASSUME TypeOK, NextVoter \/ VotersDone \/ VoteTimeOut \/ CastVote \/ Count
  PROVE  TypeOK'
<1>1. CASE NextVoter
  <2>1. lapped' \in BOOLEAN
    BY <1>1 DEF NextVoter, TypeOK
  <2>2. cursor \in 0 .. 2 * PlayerNum - 1
    BY <1>1, PidFacts DEF NextVoter, LoopDone, TypeOK
  <2>3. cursor' \in 0 .. 2 * PlayerNum /\ (at' = "wait" => cursor' = cursor)
    BY <1>1, <2>2, PidFacts DEF NextVoter
  <2>4. voteLeft' \in 0 .. VoteLimit
    BY <1>1, DayAssumption DEF NextVoter, TypeOK
  <2>5. at' \in InVote /\ at \in InVote
    BY <1>1 DEF NextVoter, InVote
  <2>6. UNCHANGED <<up, executed, people, answers, left, idle, initiator, pollPID,
                    voteNum, support, lead, scan>>
    BY <1>1 DEF NextVoter
  <2>7. at' = "wait" => cursor' < 2 * PlayerNum
    BY <2>2, <2>3, PidFacts
  <2>8. QED
    BY <2>1, <2>3, <2>4, <2>5, <2>6, <2>7 DEF TypeOK, Stages, InVote
<1>2. CASE VotersDone
  BY <1>2 DEF VotersDone, TypeOK, Stages, InVote
<1>3. CASE VoteTimeOut
  BY <1>3, SeatDone DEF VoteTimeOut, TypeOK, Stages, InVote
<1>4. CASE CastVote
  <2>1. CASE Crash
    BY <2>1 DEF Crash, TypeOK
  <2>2. CASE ~ Crash
    <3>1. /\ at = "wait" /\ NextSeat /\ Seat(cursor) \in seated
          /\ UNCHANGED <<up, executed, people, answers, idle, initiator, pollPID, lapped,
                         lead, scan>>
          /\ \/ voteNum' = voteNum + 1 /\ support' = support \cup {Seat(cursor)}
             \/ UNCHANGED <<voteNum, support>>
      BY <1>4, <2>2 DEF CastVote
    <3>2. voteNum' \in Nat /\ support' \subseteq Pids
      BY <3>1 DEF TypeOK
    <3>3. QED
      BY <3>1, <3>2, SeatDone DEF TypeOK, Stages, InVote
  <2>3. QED
    BY <2>1, <2>2
<1>5. CASE Count
  <2>1. /\ maxNum' \in Nat \cup {-1} /\ maxPid' \in Pids \cup {NONE}
        /\ backing' \subseteq Pids
    BY <1>5 DEF Count, TypeOK
  <2>2. cursor' \in 0 .. 2 * PlayerNum
    BY <1>5, PidFacts DEF Count
  <2>3. QED
    BY <1>5, <2>1, <2>2 DEF Count, PhaseOver, TypeOK, Stages, InVote
<1>6. QED
  BY <1>1, <1>2, <1>3, <1>4, <1>5

LEMMA ExecuteTypes == TypeOK /\ Execute => TypeOK'
BY KillTypes DEF Execute, TypeOK, Stages, InVote

LEMMA NextTypes == TypeOK /\ [Next]_vars => TypeOK'
<1> SUFFICES ASSUME TypeOK, [Next]_vars
             PROVE  TypeOK'
  OBVIOUS
<1>1. ASSUME NEW p \in Pids, Command(p)
      PROVE  TypeOK'
  BY <1>1, CommandTypes
<1>2. CASE Tick
  BY <1>2, TickTypes
<1>3. CASE GameThread
  BY <1>3, ScanTypes, ChatTypes, NominationTypes, VoteTypes, ExecuteTypes DEF GameThread
<1>4. CASE UNCHANGED vars
  BY <1>4 DEF TypeOK
<1>5. QED
  BY <1>1, <1>2, <1>3, <1>4 DEF Next

\* The tables of the day keep their types, and the loops over seats, one of
\* which visits every seat twice, stay inside them.
THEOREM TypeCorrect == Spec => []TypeOK
BY InitTypes, NextTypes, PTL DEF Spec

-----------------------------------------------------------------------------
(* Votes.  As long as the vote has not passed its initiator by, its cursor *)
(* is in the first lap, and those who support the nomination are the       *)
(* initiator and players below the cursor.                                 *)

Fair == ~ lapped \/ (initiator \in seated /\ characterID[initiator] # "butler")

FirstLap ==
  /\ cursor <= initiator
  /\ at = "wait" => cursor < initiator
  /\ support \subseteq {initiator} \cup {p \in Pids : p < cursor}
  /\ voteNum = Cardinality(support)

VoteInv == at \in InVote =>
  /\ initiator \in support
  /\ initiator \notin dead
  /\ Fair => FirstLap

LeadInv == ~ lapped => maxNum = -1 \/ maxNum = Cardinality(backing)

CursorInv == at \in {"chat", "poll", "find"} => cursor = 0

Counted == VoteInv /\ LeadInv /\ CursorInv

LEMMA SameVote ==
  ASSUME Counted, UNCHANGED <<at, cursor, characterID, vote, lead>>,
         seated' \subseteq seated,
         at \in InVote => dead' \subseteq dead
  PROVE  Counted'
<1>1. Fair' => Fair
  BY DEF Fair
<1>2. VoteInv'
  BY <1>1 DEF Counted, VoteInv, FirstLap
<1>3. QED
  BY <1>2 DEF Counted, LeadInv, CursorInv

LEMMA OutsideVote ==
  ASSUME Counted, at' \notin InVote, UNCHANGED <<lapped, lead>>,
         at' \in {"chat", "poll", "find"} => cursor' = 0
  PROVE  Counted'
BY DEF Counted, VoteInv, LeadInv, CursorInv

LEMMA CommandCounts ==
  ASSUME Counted, NEW p \in Pids, Command(p)
  PROVE  Counted'
BY SameVote DEF Command, UseSkillSP, SetSkillArg, SkipStatus, Leave

LEMMA CrashCounts == Counted /\ Crash => Counted'
BY SameVote DEF Crash

LEMMA ChatCounts ==
  ASSUME Counted, ChatScan \/ Shoot \/ ChatOn \/ PollScan \/ NoNomination \/ Execute
  PROVE  Counted'
<1>1. CASE Crash
  BY <1>1, CrashCounts
<1>2. CASE ~ Crash
  BY <1>2, OutsideVote
     DEF ChatScan, PollScan, Scan, Shoot, ChatOn, NoNomination, PhaseOver, Execute,
         InVote, Counted, CursorInv
<1>3. QED
  BY <1>1, <1>2

LEMMA StartPollCounts == Counted /\ StartPoll => Counted'
BY DEF StartPoll, Counted, VoteInv, LeadInv, CursorInv, InVote

\* A nomination has one supporter.
LEMMA NominateCounts ==
  ASSUME TypeOK, Counted, Nominate
  PROVE  Counted'
<1>1. CASE Crash
  BY <1>1, CrashCounts
<1>2. CASE ~ Crash
  <2>0. cursor = 0
    BY DEF Nominate, Counted, CursorInv
  <2>1. PICK p \in Nominators :
          \/ /\ at' = "poll"
             /\ UNCHANGED <<cursor, lapped, lead>>
          \/ /\ initiator' = p /\ voteNum' = 1 /\ support' = {p} /\ at' = "vote"
             /\ UNCHANGED <<cursor, people, lapped, lead>>
    BY <1>2 DEF Nominate
  <2>2. CASE at' = "poll"
    BY <2>0, <2>1, <2>2, OutsideVote DEF InVote
  <2>3. CASE at' # "poll"
    <3>1. p \in Pids /\ p \notin dead
      BY DEF Nominators, Alive, TypeOK
    <3>2. Cardinality({p}) = 1 /\ cursor' <= p
      <4>1. Cardinality({p}) = 1
        BY FS_Singleton, Zenon
      <4>2. cursor' = 0
        BY <2>0, <2>1, <2>3
      <4>3. QED
        BY <3>1, <4>1, <4>2, PidFacts
    <3>3. QED
      BY <2>1, <2>3, <3>1, <3>2
         DEF Counted, VoteInv, FirstLap, LeadInv, CursorInv, InVote
  <2>4. QED
    BY <2>2, <2>3
<1>3. QED
  BY <1>1, <1>2

\* In the first lap the cursor is a pid, and the vote stops there if it is
\* the initiator's.
LEMMA AtInitiator ==
  ASSUME TypeOK, Counted, at \in {"vote", "wait"}, Fair
  PROVE  /\ cursor \in Pids /\ Seat(cursor) = cursor
         /\ cursor = initiator /\ PassedOver(cursor) => lapped = FALSE
<1>1. cursor <= initiator /\ initiator \in Pids /\ initiator \notin dead
  BY DEF Counted, VoteInv, FirstLap, InVote, TypeOK
<1>2. cursor \in Pids /\ Seat(cursor) = cursor
  BY <1>1, PidFacts DEF TypeOK, Seat, Pids
<1>3. QED
  BY <1>1, <1>2 DEF Fair, PassedOver, Barred, TypeOK

LEMMA NextVoterCounts ==
  ASSUME TypeOK, Counted, NextVoter
  PROVE  Counted'
<1>0. at = "vote" /\ UNCHANGED <<people, initiator, voteNum, support, lead>>
  BY DEF NextVoter
<1>1. CASE PassedOver(Seat(cursor))
  <2>1. /\ cursor' = cursor + 1 /\ at' = "vote"
        /\ lapped' = (lapped \/ Seat(cursor) = initiator)
    BY <1>0, <1>1 DEF NextVoter
  <2>2. Fair' => Fair
    BY <1>0, <2>1 DEF Fair
  <2>3. ASSUME Fair'
        PROVE  FirstLap'
    <3>1. Fair /\ FirstLap /\ cursor \in Pids /\ Seat(cursor) = cursor
      BY <1>0, <2>2, <2>3, AtInitiator DEF Counted, VoteInv, InVote
    <3>2. cursor # initiator
      BY <1>0, <1>1, <2>1, <2>3, <3>1, AtInitiator
         DEF Fair, PassedOver, Barred, Counted, VoteInv, InVote
    <3>3. initiator \in Pids
      BY <1>0 DEF TypeOK, InVote
    <3>4. QED
      BY <1>0, <2>1, <3>1, <3>2, <3>3, PidFacts DEF FirstLap
  <2>4. QED
    BY <1>0, <2>1, <2>3 DEF Counted, VoteInv, LeadInv, CursorInv, InVote
<1>2. CASE ~ PassedOver(Seat(cursor))
  <2>1. /\ UNCHANGED <<cursor, lapped>>
        /\ at' = IF IsInitiator(cursor) THEN "count" ELSE "wait"
    BY <1>2 DEF NextVoter
  <2>2. Fair' => Fair /\ (at' = "wait" => cursor < initiator)
    <3>1. SUFFICES ASSUME Fair'
                   PROVE  Fair /\ (at' = "wait" => cursor < initiator)
      OBVIOUS
    <3>2. Fair
      BY <1>0, <2>1, <3>1 DEF Fair
    <3>3. cursor <= initiator /\ cursor \in Pids /\ initiator \in Pids
      BY <1>0, <3>2, AtInitiator DEF Counted, VoteInv, FirstLap, InVote, TypeOK
    <3>4. at' = "wait" => cursor # initiator
      BY <1>0, <2>1, <3>2, AtInitiator DEF IsInitiator
    <3>5. QED
      BY <3>2, <3>3, <3>4, PidFacts
  <2>3. QED
    BY <1>0, <2>1, <2>2 DEF Counted, VoteInv, FirstLap, LeadInv, CursorInv, InVote
<1>3. QED
  BY <1>1, <1>2

LEMMA VotersDoneCounts == Counted /\ VotersDone => Counted'
BY DEF VotersDone, Counted, VoteInv, FirstLap, Fair, LeadInv, CursorInv, InVote

\* The seat at the cursor has not voted in this lap, so its vote makes both
\* the count and the set of supporters one larger.
LEMMA SeatCounts ==
  ASSUME TypeOK, Counted, VoteTimeOut \/ CastVote
  PROVE  Counted'
<1>1. CASE Crash
  BY <1>1, CrashCounts
<1>2. CASE ~ Crash
  <2>1. /\ at = "wait" /\ at' = "vote" /\ cursor' = cursor + 1
        /\ UNCHANGED <<people, initiator, lapped, lead>>
        /\ \/ UNCHANGED <<voteNum, support>>
           \/ /\ voteNum' = voteNum + 1 /\ support' = support \cup {Seat(cursor)}
              /\ Seat(cursor) \in Pids
    BY <1>2 DEF VoteTimeOut, CastVote, NextSeat, TypeOK
  <2>2. ASSUME Fair'
        PROVE  FirstLap'
    <3>1. Fair /\ FirstLap
      BY <2>1, <2>2 DEF Fair, Counted, VoteInv, InVote
    <3>2. cursor \in Pids /\ Seat(cursor) = cursor /\ cursor < initiator /\ initiator \in Pids
      BY <2>1, <3>1, AtInitiator DEF FirstLap, TypeOK, InVote
    <3>3. CASE UNCHANGED <<voteNum, support>>
      BY <2>1, <3>1, <3>2, <3>3, PidFacts DEF FirstLap
    <3>4. CASE /\ voteNum' = voteNum + 1 /\ support' = support \cup {cursor}
      <4>1. cursor \notin support
        BY <3>1, <3>2, PidFacts DEF FirstLap
      <4>2. IsFiniteSet(support)
        BY PlayersFinite DEF TypeOK
      <4>3. Cardinality(support') = Cardinality(support) + 1
        BY <3>4, <4>1, <4>2, FS_AddElement
      <4>4. support' \subseteq {initiator} \cup {p \in Pids : p < cursor + 1}
        BY <3>1, <3>2, <3>4, PidFacts DEF FirstLap
      <4>5. QED
        BY <2>1, <3>1, <3>2, <3>4, <4>3, <4>4, PidFacts DEF FirstLap
    <3>5. QED
      BY <2>1, <3>2, <3>3, <3>4
  <2>3. QED
    BY <2>1, <2>2 DEF Counted, VoteInv, LeadInv, CursorInv, InVote
<1>3. QED
  BY <1>1, <1>2

LEMMA CountCounts ==
  ASSUME TypeOK, Counted, Count
  PROVE  Counted'
<1>1. /\ at = "count" /\ at' \notin InVote /\ cursor' = 0 /\ UNCHANGED lapped
      /\ \/ UNCHANGED lead
         \/ maxNum' = voteNum /\ backing' = support
  BY DEF Count, PhaseOver, InVote
<1>2. LeadInv'
  BY <1>1 DEF Counted, LeadInv, VoteInv, FirstLap, Fair, InVote
<1>3. QED
  BY <1>1, <1>2 DEF Counted, VoteInv, CursorInv

LEMMA InitCounts == Init => Counted
BY DEF Init, Counted, VoteInv, LeadInv, CursorInv, InVote

LEMMA NextCounts == TypeOK /\ Counted /\ [Next]_vars => Counted'
<1> SUFFICES ASSUME TypeOK, Counted, [Next]_vars
             PROVE  Counted'
  OBVIOUS
<1>1. ASSUME NEW p \in Pids, Command(p)
      PROVE  Counted'
  BY <1>1, CommandCounts
<1>2. CASE Tick
  BY <1>2, SameVote DEF Tick
<1>3. CASE GameThread
  BY <1>3, ChatCounts, StartPollCounts, NominateCounts, NextVoterCounts,
     VotersDoneCounts, SeatCounts, CountCounts DEF GameThread
<1>4. CASE UNCHANGED vars
  BY <1>4, SameVote
<1>5. QED
  BY <1>1, <1>2, <1>3, <1>4 DEF Next

\* vote_num counts players, not answers, for any number of players and any
\* interleaving of commands with the vote, unless the initiator has left or
\* is a Butler.
THEOREM VotesAreCountedOnce == Spec => []CountedOnce
<1>1. Counted => CountedOnce
  BY DEF Counted, VoteInv, FirstLap, Fair, CountedOnce
<1>2. QED
  BY InitTypes, NextTypes, InitCounts, NextCounts, <1>1, PTL DEF Spec

\* Whoever is executed had, for one nomination, the support of more than half
\* of those who can vote.
THEOREM ExecutionsHaveMajority == Spec => ExecutionHasMajority
<1> DEFINE Executed == executed' # executed /\ ~ lapped
                       => /\ executed' = maxPid
                          /\ 2 * Cardinality(backing) > Cardinality(Votable)
<1>1. ASSUME TypeOK, Counted, Execute
      PROVE  Executed
  <2>1. Cardinality(Votable) \in Nat /\ Cardinality(backing) \in Nat
    BY <1>1, PlayersFinite DEF TypeOK, Votable
  <2>2. SUFFICES ASSUME executed' # executed, ~ lapped
                 PROVE  /\ executed' = maxPid
                        /\ 2 * Cardinality(backing) > Cardinality(Votable)
    OBVIOUS
  <2>3. Majority /\ executed' = maxPid
    BY <1>1, <2>2 DEF Execute
  <2>4. maxNum = -1 \/ maxNum = Cardinality(backing)
    BY <1>1, <2>2 DEF Counted, LeadInv
  <2>5. QED
    BY <2>1, <2>3, <2>4 DEF Majority
<1>2. ASSUME [Next]_vars, ~ Execute
      PROVE  executed' = executed
  BY <1>2 DEF Next, Command, UseSkillSP, SetSkillArg, SkipStatus, Leave, Tick, GameThread,
     ChatScan, Scan, Shoot, Crash, ChatOn, StartPoll, PollScan, NoNomination, Nominate,
     NextVoter, VotersDone, VoteTimeOut, CastVote, Count
<1>3. TypeOK /\ Counted /\ [Next]_vars => [Executed]_vars
  BY <1>1, <1>2
<1>4. QED
  BY InitTypes, NextTypes, InitCounts, NextCounts, <1>3, PTL DEF Spec, ExecutionHasMajority

-----------------------------------------------------------------------------
(* Time.  What has passed outside of votes and what is left add up to the  *)
(* limit of the phase, or exceed it; during a vote, counting what the vote *)
(* will give back.                                                         *)

Given(extra) == idle >= PollLimit \/ idle + left + extra >= PollLimit

TimeInv ==
  /\ at \in {"poll", "find", "vote", "count"} => Given(0)
  /\ at = "wait" => Given(VoteLimit - voteLeft)
  /\ at \in {"find"} \cup InVote => (timedOut => idle >= PollLimit)
  /\ FullPollTime

LEMMA TimeTypes ==
  TypeOK => /\ left \in Int /\ idle \in Nat /\ voteLeft \in Nat
            /\ PollLimit \in Nat /\ VoteLimit \in Nat /\ MaxLeft \in Nat
            /\ PollLimit <= MaxLeft
BY DayAssumption DEF TypeOK

LEMMA SameTime ==
  ASSUME TimeInv, UNCHANGED <<at, left, voteLeft, idle, allSkip, timedOut>>
  PROVE  TimeInv'
BY DEF TimeInv, Given, FullPollTime

LEMMA CommandTime ==
  ASSUME TimeInv, NEW p \in Pids, Command(p)
  PROVE  TimeInv'
BY SameTime DEF Command, UseSkillSP, SetSkillArg, SkipStatus, Leave

LEMMA CrashTime == TimeInv /\ Crash => TimeInv'
BY SameTime DEF Crash

LEMMA TickTime ==
  ASSUME TypeOK, TimeInv, Tick
  PROVE  TimeInv'
<1>1. CASE at \in {"poll", "find", "vote", "count"}
  <2>1. Given(0)'
    BY <1>1, TimeTypes DEF Tick, TimeInv, Given
  <2>2. timedOut' /\ idle >= PollLimit => idle' >= PollLimit
    BY <1>1, TimeTypes DEF Tick
  <2>3. QED
    BY <1>1, <2>1, <2>2 DEF Tick, TimeInv, FullPollTime, InVote
<1>2. CASE at = "wait"
  BY <1>2, TimeTypes DEF Tick, TimeInv, Given, FullPollTime, InVote
<1>3. CASE at \notin {"poll", "find", "vote", "count", "wait"}
  BY <1>3 DEF Tick, TimeInv, FullPollTime, InVote
<1>4. QED
  BY <1>1, <1>2, <1>3

LEMMA OutsideTime ==
  ASSUME TimeInv, at' \in {"chat", "shoot"}
  PROVE  TimeInv'
BY DEF TimeInv, FullPollTime, InVote

LEMMA ChatTime ==
  ASSUME TypeOK, TimeInv, ChatScan \/ Shoot \/ ChatOn \/ StartPoll
  PROVE  TimeInv'
<1>1. CASE Crash
  BY <1>1, CrashTime
<1>2. CASE StartPoll
  BY <1>2, TimeTypes DEF StartPoll, TimeInv, Given, FullPollTime, InVote
<1>3. CASE ~ Crash /\ ~ StartPoll
  BY <1>3, OutsideTime DEF ChatScan, Scan, Shoot, ChatOn
<1>4. QED
  BY <1>1, <1>2, <1>3

\* The phase ends by the clock only when the clock was seen to have run out.
LEMMA PollTime ==
  ASSUME TypeOK, TimeInv, PollScan \/ NoNomination \/ Nominate \/ Execute
  PROVE  TimeInv'
<1>1. CASE Crash
  BY <1>1, CrashTime
<1>2. CASE PollScan
  <2>1. /\ at = "poll" /\ at' = "find" /\ timedOut' = (left <= 0)
        /\ UNCHANGED <<left, idle>>
    BY <1>2 DEF PollScan, Scan
  <2>2. Given(0)
    BY <2>1 DEF TimeInv
  <2>3. left <= 0 => idle >= PollLimit
    BY <2>2, TimeTypes DEF Given
  <2>4. Given(0)'
    BY <2>1, <2>2 DEF Given
  <2>5. QED
    BY <2>1, <2>3, <2>4 DEF TimeInv, FullPollTime, InVote
<1>3. CASE NoNomination
  BY <1>3 DEF NoNomination, PhaseOver, TimeInv, Given, FullPollTime, InVote
<1>4. CASE Nominate /\ ~ Crash
  <2>1. at = "find" /\ at' \in {"poll", "vote"} /\ UNCHANGED <<clock, scan>>
    BY <1>4 DEF Nominate
  <2>2. QED
    BY <2>1 DEF TimeInv, Given, FullPollTime, InVote
<1>5. CASE Execute
  BY <1>5 DEF Execute, TimeInv, FullPollTime, InVote
<1>6. QED
  BY <1>1, <1>2, <1>3, <1>4, <1>5

LEMMA VoteTime ==
  ASSUME TypeOK, TimeInv, NextVoter \/ VotersDone \/ VoteTimeOut \/ CastVote \/ Count
  PROVE  TimeInv'
<1>1. CASE Crash
  BY <1>1, CrashTime
<1>2. CASE NextVoter
  <2>1. /\ at = "vote" /\ UNCHANGED <<left, idle, scan>>
        /\ \/ at' \in {"vote", "count"}
           \/ at' = "wait" /\ voteLeft' = VoteLimit
    BY <1>2 DEF NextVoter
  <2>2. QED
    BY <2>1, TimeTypes DEF TimeInv, Given, FullPollTime, InVote
<1>3. CASE VotersDone
  BY <1>3 DEF VotersDone, TimeInv, Given, FullPollTime, InVote
<1>4. CASE (VoteTimeOut \/ CastVote) /\ ~ Crash
  <2>1. /\ at = "wait" /\ at' = "vote" /\ left' = Extended
        /\ UNCHANGED <<idle, scan>>
    BY <1>4 DEF VoteTimeOut, CastVote, NextSeat
  <2>2. Given(0)'
    BY <2>1, TimeTypes DEF TimeInv, Given, Extended
  <2>3. QED
    BY <2>1, <2>2 DEF TimeInv, FullPollTime, InVote
<1>5. CASE Count
  BY <1>5 DEF Count, PhaseOver, TimeInv, Given, FullPollTime, InVote
<1>6. QED
  BY <1>1, <1>2, <1>3, <1>4, <1>5

LEMMA NextTime == TypeOK /\ TimeInv /\ [Next]_vars => TimeInv'
<1> SUFFICES ASSUME TypeOK, TimeInv, [Next]_vars
             PROVE  TimeInv'
  OBVIOUS
<1>1. ASSUME NEW p \in Pids, Command(p)
      PROVE  TimeInv'
  BY <1>1, CommandTime
<1>2. CASE Tick
  BY <1>2, TickTime
<1>3. CASE GameThread
  BY <1>3, ChatTime, PollTime, VoteTime DEF GameThread
<1>4. CASE UNCHANGED vars
  BY <1>4, SameTime
<1>5. QED
  BY <1>1, <1>2, <1>3, <1>4 DEF Next

\* The poll phase is given its full time outside of votes, whatever the
\* limits are and however often players vote, unless all are ready.
THEOREM PollHasFullTime == Spec => []FullPollTime
<1>1. Init => TimeInv
  BY DEF Init, TimeInv, FullPollTime, InVote
<1>2. TimeInv => FullPollTime
  BY DEF TimeInv
<1>3. QED
  BY InitTypes, NextTypes, NextTime, <1>1, <1>2, PTL DEF Spec

=============================================================================
