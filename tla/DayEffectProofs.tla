-------------------------- MODULE DayEffectProofs --------------------------
(* Proof that Day implements DayEffect, for any number of players, any     *)
(* morning and any limits of time: every step of a day is a step of        *)
(* DayEffect or changes nothing that DayEffect speaks about.               *)
EXTENDS DayProofs

USE DEF vars, answers, people, clock, vote, lead, scan,
        Effect!vars, Effect!Pids, Effect!NONE

-----------------------------------------------------------------------------
(* Whoever leads the vote is a player, and nobody is executed before the   *)
(* end.                                                                    *)

LeadIsPlayer ==
  /\ at \in InVote => pollPID \in Pids
  /\ maxNum # -1 => maxPid \in Pids
  /\ at # "over" => executed = NONE

LEMMA InitLead == Init => LeadIsPlayer
BY DEF Init, LeadIsPlayer, InVote

LEMMA CommandLead ==
  ASSUME LeadIsPlayer, NEW p \in Pids, Command(p)
  PROVE  LeadIsPlayer'
BY DEF LeadIsPlayer, Command, UseSkillSP, SetSkillArg, SkipStatus, Leave

LEMMA CrashLead == LeadIsPlayer /\ Crash => LeadIsPlayer'
BY DEF LeadIsPlayer, Crash

LEMMA NominateLead ==
  ASSUME TypeOK, LeadIsPlayer, Nominate
  PROVE  LeadIsPlayer'
<1>1. PICK p \in Nominators :
        /\ at = "find"
        /\ \/ skillArgSP[p] \notin seated /\ Crash
           \/ at' = "poll" /\ UNCHANGED <<executed, lead>>
           \/ /\ skillArgSP[p] \in seated /\ pollPID' = skillArgSP[p]
              /\ at' = "vote" /\ UNCHANGED <<executed, lead>>
  BY Zenon DEF Nominate
<1>2. QED
  BY <1>1, CrashLead DEF LeadIsPlayer, InVote, TypeOK

LEMMA CastVoteLead == LeadIsPlayer /\ CastVote => LeadIsPlayer'
BY CrashLead DEF CastVote, NextSeat, LeadIsPlayer, InVote

LEMMA CountLead ==
  ASSUME TypeOK, LeadIsPlayer, Count
  PROVE  LeadIsPlayer'
<1>1. at' \in {"tally", "poll"} /\ executed' = executed /\ at = "count"
  BY DEF Count, PhaseOver
<1>2. UNCHANGED lead \/ maxPid' = pollPID
  BY DEF Count
<1>3. QED
  BY <1>1, <1>2 DEF LeadIsPlayer, InVote

LEMMA NextLead == TypeOK /\ LeadIsPlayer /\ [Next]_vars => LeadIsPlayer'
<1> SUFFICES ASSUME TypeOK, LeadIsPlayer, [Next]_vars
             PROVE  LeadIsPlayer'
  OBVIOUS
<1>1. ASSUME NEW p \in Pids, Command(p)
      PROVE  LeadIsPlayer'
  BY <1>1, CommandLead
<1>2. CASE Tick
  BY <1>2 DEF Tick, LeadIsPlayer
<1>3. CASE ChatScan \/ PollScan
  BY <1>3 DEF ChatScan, PollScan, Scan, LeadIsPlayer, InVote
<1>4. CASE Shoot
  BY <1>4, CrashLead DEF Shoot, LeadIsPlayer, InVote
<1>5. CASE ChatOn \/ StartPoll \/ NoNomination
  BY <1>5 DEF ChatOn, StartPoll, NoNomination, PhaseOver, LeadIsPlayer, InVote
<1>6. CASE Nominate
  BY <1>6, NominateLead
<1>7. CASE NextVoter \/ VotersDone \/ VoteTimeOut
  BY <1>7 DEF NextVoter, VotersDone, VoteTimeOut, NextSeat, LeadIsPlayer, InVote
<1>8. CASE CastVote
  BY <1>8, CastVoteLead
<1>9. CASE Count
  BY <1>9, CountLead
<1>10. CASE Execute
  BY <1>10 DEF Execute, LeadIsPlayer, InVote
<1>11. CASE UNCHANGED vars
  BY <1>11 DEF LeadIsPlayer
<1>12. QED
  BY <1>1, <1>2, <1>3, <1>4, <1>5, <1>6, <1>7, <1>8, <1>9, <1>10, <1>11
     DEF Next, GameThread

-----------------------------------------------------------------------------
(* The steps.                                                              *)

Seen == <<seated, characterID, dead, executed>>

LEMMA InitMaps ==
  ASSUME Init
  PROVE  Effect!Init
<1>1. TypeOK
  BY InitTypes
<1>2. QED
  BY <1>1 DEF Init, TypeOK, Effect!Init, Pids, NONE

\* A departure is allowed, the other commands are not seen.
LEMMA CommandMaps ==
  ASSUME LeadIsPlayer, NEW p \in Pids, Command(p)
  PROVE  [Effect!Next]_Effect!vars
<1>1. CASE Leave(p)
  <2>1. executed = NONE /\ Effect!Left(p)
    BY <1>1 DEF Leave, LeadIsPlayer, Effect!Left
  <2>2. QED
    BY <2>1 DEF Effect!Next, Pids, NONE
<1>2. CASE ~ Leave(p)
  BY <1>2 DEF Command, UseSkillSP, SetSkillArg, SkipStatus
<1>3. QED
  BY <1>1, <1>2

\* A shot that hits is the Slayer's, and hits somebody evil.
LEMMA ShootMaps ==
  ASSUME TypeOK, LeadIsPlayer, Shoot
  PROVE  [Effect!Next]_Effect!vars
<1> DEFINE target == skillArgSP[cursor]
<1>1. at = "shoot" /\ cursor \in Pids
  BY DEF Shoot
<1>2. CASE Hits(cursor, target) /\ target \in seated /\ Kill(target)
           /\ UNCHANGED <<seated, characterID, executed>>
  <2>1. characterID[cursor] = "slayer" /\ characterID[target] \in Effect!Evil
    BY <1>2 DEF Hits, Evil, Effect!Evil
  <2>2. Effect!InPlay("slayer")
    BY <1>1, <2>1 DEF Effect!InPlay, Pids
  <2>3. Effect!Dies(target)
    BY <1>2 DEF Kill, Effect!Dies
  <2>4. Effect!Shot(target) /\ executed = NONE /\ target \in Pids
    BY <1>1, <1>2, <2>1, <2>2, <2>3 DEF Effect!Shot, LeadIsPlayer, TypeOK
  <2>5. QED
    BY <2>4 DEF Effect!Next, Pids, NONE
<1>3. CASE UNCHANGED Seen
  BY <1>3 DEF Seen
<1>4. QED
  BY <1>2, <1>3 DEF Shoot, Crash, Seen

\* Who nominates the Virgin is alive.
LEMMA NominateMaps ==
  ASSUME TypeOK, LeadIsPlayer, Nominate
  PROVE  [Effect!Next]_Effect!vars
<1>1. PICK p \in Nominators :
        /\ at = "find"
        /\ \/ UNCHANGED Seen
           \/ /\ skillArgSP[p] \in seated /\ characterID[skillArgSP[p]] = "virgin"
              /\ Kill(p) /\ UNCHANGED <<seated, characterID, executed>>
  BY Zenon DEF Nominate, Crash, Seen
<1>2. p \in seated /\ p \in Pids /\ p \notin dead
  BY DEF Nominators, Alive, TypeOK
<1>3. CASE /\ skillArgSP[p] \in seated /\ characterID[skillArgSP[p]] = "virgin"
           /\ Kill(p) /\ UNCHANGED <<seated, characterID, executed>>
  <2>1. Effect!InPlay("virgin")
    BY <1>3 DEF Effect!InPlay, TypeOK, Pids
  <2>2. Effect!Struck(p) /\ executed = NONE
    BY <1>1, <1>2, <1>3, <2>1 DEF Kill, Effect!Struck, Effect!Dies, LeadIsPlayer
  <2>3. QED
    BY <1>2, <2>2 DEF Effect!Next, Pids, NONE
<1>4. QED
  BY <1>1, <1>3 DEF Seen

\* One player at most is executed, and the day is over.
LEMMA ExecuteMaps ==
  ASSUME TypeOK, LeadIsPlayer, Execute
  PROVE  [Effect!Next]_Effect!vars
<1>1. CASE Majority
  <2>1. Cardinality(Votable) \in Nat
    BY PlayersFinite DEF Votable, TypeOK
  <2>2. maxNum # -1
    BY <1>1, <2>1 DEF Majority
  <2>3. maxPid \in Pids /\ executed = NONE
    BY <2>2 DEF LeadIsPlayer, Execute
  <2>4. Effect!Execution(maxPid)
    BY <1>1 DEF Execute, Kill, Effect!Execution, Effect!Dies
  <2>5. QED
    BY <2>3, <2>4 DEF Effect!Next, Pids, NONE
<1>2. CASE ~ Majority
  BY <1>2 DEF Execute
<1>3. QED
  BY <1>1, <1>2

LEMMA NextMaps ==
  ASSUME TypeOK, LeadIsPlayer, [Next]_vars
  PROVE  [Effect!Next]_Effect!vars
<1>1. ASSUME NEW p \in Pids, Command(p)
      PROVE  [Effect!Next]_Effect!vars
  BY <1>1, CommandMaps
<1>2. CASE Shoot
  BY <1>2, ShootMaps
<1>3. CASE Nominate
  BY <1>3, NominateMaps
<1>4. CASE Execute
  BY <1>4, ExecuteMaps
<1>5. CASE Tick \/ ChatScan \/ ChatOn \/ StartPoll \/ PollScan \/ NoNomination
  BY <1>5 DEF Tick, ChatScan, ChatOn, StartPoll, PollScan, Scan, NoNomination
<1>6. CASE NextVoter \/ VotersDone \/ VoteTimeOut \/ CastVote \/ Count
  BY <1>6 DEF NextVoter, VotersDone, VoteTimeOut, CastVote, Crash, Count
<1>7. CASE UNCHANGED vars
  BY <1>7
<1>8. QED
  BY <1>1, <1>2, <1>3, <1>4, <1>5, <1>6, <1>7 DEF Next, GameThread

\* All a day does to the room is what DayEffect allows: only the evil are
\* shot, only nominators of the Virgin are struck, at most one player is
\* executed, nothing happens after it, and the dead stay dead.
THEOREM DayImplementsEffect == Spec => ImplementsEffect
<1>1. Init => Effect!Init
  BY InitMaps
<1>2. TypeOK /\ LeadIsPlayer /\ [Next]_vars => [Effect!Next]_Effect!vars
  BY NextMaps
<1>3. QED
  BY <1>1, <1>2, TypeCorrect, InitLead, NextLead, PTL
     DEF Spec, ImplementsEffect, Effect!Spec
=============================================================================
