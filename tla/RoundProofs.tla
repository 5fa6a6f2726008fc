---------------------------- MODULE RoundProofs ----------------------------
(* Proofs about Round, for any number of players, any casts and arguments: *)
(* types, who may die at night and how often, what follows the demon's     *)
(* death, and which searches end.                                          *)
EXTENDS Round, FiniteSetTheorems, TLAPS

USE DEF vars, people

-----------------------------------------------------------------------------
(* Types.                                                                  *)

LEMMA StrikeTypes ==
  /\ NoStrike \in Strike
  /\ \A p, q \in Pids : \A quiet, substitute \in BOOLEAN :
       Aimed(p, q, quiet, substitute) \in Strike
<1>1. 0 \in Pids
  BY RoundAssumption DEF Pids
<1>2. QED
  BY <1>1 DEF NoStrike, Strike, Aimed

LEMMA InitTypes == Init => TypeOK
<1> SUFFICES ASSUME Init
             PROVE  TypeOK
  OBVIOUS
<1>1. PICK c \in Casts :
        /\ characterID = c.characterID
        /\ deathDate = [p \in Pids |-> IF p \in c.dead THEN 1 ELSE 0]
        /\ mute = c.mute /\ isDrunk = c.drunk /\ isSkillUsed = c.used
  BY DEF Init
<1>2. /\ characterID \in [Pids -> Characters]
      /\ mute \subseteq Pids /\ isDrunk \subseteq Pids /\ isSkillUsed \subseteq Pids
  BY <1>1, RoundAssumption
<1>3. LastStatus \in Nat /\ LastStatus >= 2 /\ 1 <= LastStatus \div 2
  BY RoundAssumption
<1>4. deathDate \in [Pids -> 0 .. LastStatus \div 2]
  BY <1>1, <1>3
<1>5. skillArg \in [Pids -> Arg]
  BY DEF Init, Nothing, Arg, Byte
<1>6. strike \in Strike
  BY StrikeTypes DEF Init
<1>7. QED
  BY <1>2, <1>3, <1>4, <1>5, <1>6 DEF Init, TypeOK, Order

\* A death is dated by a day.
LEMMA DateType ==
  ASSUME TypeOK
  PROVE  Today \in 0 .. LastStatus \div 2
<1>1. gameStatus \in Nat /\ LastStatus \in Nat /\ gameStatus <= LastStatus
  BY RoundAssumption DEF TypeOK
<1>2. gameStatus \div 2 \in Nat /\ gameStatus \div 2 <= LastStatus \div 2
  BY <1>1
<1>3. QED
  BY <1>1, <1>2 DEF Today

LEMMA KilledTypes ==
  ASSUME TypeOK, NEW p \in Pids, Killed(p)
  PROVE  deathDate' \in [Pids -> 0 .. LastStatus \div 2] /\ mute' \subseteq Pids
BY DateType DEF TypeOK, Killed

\* Whatever a skill does it ends like this.
LEMMA ReturnsTypes ==
  ASSUME TypeOK, NEW p \in Pids, NEW ret \in Arg, Returns(p, ret),
         deathDate' \in [Pids -> 0 .. LastStatus \div 2],
         mute' \subseteq Pids, night' \subseteq Pids, isSkillUsed' \subseteq Pids
  PROVE  TypeOK'
<1>1. skillArg' \in [Pids -> Arg]
  BY DEF Returns, TypeOK
<1>2. cursor' \in 1 .. Len(Order) + 1
  <2>1. PICK k \in Calls : cursor' = k + 1
    BY DEF Returns
  <2>2. k \in Int /\ 1 <= k /\ k <= Len(Order) /\ Len(Order) \in Nat
    BY DEF Calls, TypeOK, Order
  <2>3. QED
    BY <2>1, <2>2
<1>3. strike' \in Strike
  BY StrikeTypes DEF Returns
<1>4. QED
  BY <1>1, <1>2, <1>3 DEF Returns, TypeOK

LEMMA ArgTypes ==
  /\ Nothing \in Arg /\ Told \in Arg /\ Asked \in Arg
  /\ \A b \in Byte : Chosen(b) \in Arg
BY DEF Nothing, Told, Asked, Chosen, Arg, Byte

LEMMA UnhurtTypes ==
  ASSUME TypeOK, NEW p \in Pids, NEW ret \in Arg, Returns(p, ret), Unhurt,
         isSkillUsed' \subseteq Pids
  PROVE  TypeOK'
<1>1. /\ deathDate' \in [Pids -> 0 .. LastStatus \div 2]
      /\ mute' \subseteq Pids /\ night' \subseteq Pids
  BY DEF Unhurt, TypeOK
<1>2. QED
  BY <1>1, ReturnsTypes

LEMMA StopTypes ==
  ASSUME TypeOK, Crash \/ Hang
  PROVE  TypeOK'
BY DEF Crash, Hang, TypeOK

LEMMA AttackTypes ==
  ASSUME TypeOK, NEW p \in Pids, Attack(p)
  PROVE  TypeOK'
<1> DEFINE q == skillArg[p].b2
<1>1. CASE Nobody(p)
  BY <1>1, ArgTypes, UnhurtTypes DEF Nobody, TypeOK
<1>2. CASE Crash
  BY <1>2, StopTypes
<1>3. CASE ~ Nobody(p) /\ ~ Crash
  <2>1. /\ at' = "aim" /\ q \in Pids
        /\ strike' = Aimed(p, q, skillArg[p].b1 # 0, FALSE)
        /\ UNCHANGED <<up, gameStatus, people, skillArg, cursor, isGameEnd, night, leaderless>>
    BY <1>3 DEF Attack
  <2>2. strike' \in Strike
    BY <2>1, StrikeTypes
  <2>3. QED
    BY <2>1, <2>2 DEF TypeOK
<1>4. QED
  BY <1>1, <1>2, <1>3

LEMMA LookTypes ==
  ASSUME TypeOK, LookForPoison \/ LookForMonk
  PROVE  TypeOK'
<1>1. Poisoned(strike.target) \in BOOLEAN /\ Protected(strike.target) \in BOOLEAN
  BY DEF Poisoned, Protected
<1>2. Exposed \in BOOLEAN
  <2>1. strike.exposed \in BOOLEAN
    BY DEF TypeOK, Strike
  <2>2. QED
    BY <2>1 DEF Exposed
<1>3. strike' \in Strike
  BY <1>1, <1>2 DEF LookForPoison, LookForMonk, TypeOK, Strike
<1>4. QED
  BY <1>3 DEF LookForPoison, LookForMonk, TypeOK

LEMMA BlowTypes ==
  ASSUME TypeOK, Blow
  PROVE  TypeOK'
<1> DEFINE p == strike.imp
           q == strike.target
<1>1. p \in Pids /\ q \in Pids
  BY DEF TypeOK, Strike
<1>2. CASE Spare(p)
  BY <1>1, <1>2, ArgTypes, UnhurtTypes DEF Spare, TypeOK
<1>3. CASE Kill(p, q)
  <2>1. night' \subseteq Pids /\ isSkillUsed' \subseteq Pids
    BY <1>1, <1>3 DEF Kill, TypeOK
  <2>2. QED
    BY <1>1, <1>3, <2>1, ArgTypes, KilledTypes, ReturnsTypes DEF Kill
<1>4. CASE StrikeMayor(p, q)
  <2>1. CASE Hang
    BY <2>1, StopTypes
  <2>2. ASSUME NEW r \in Substitutes(p), at' = "aim", strike' = Aimed(p, r, FALSE, TRUE),
               UNCHANGED <<up, gameStatus, people, skillArg, cursor, isGameEnd, night,
                           leaderless>>
        PROVE  TypeOK'
    <3>1. r \in Pids
      BY DEF Substitutes, Alive
    <3>2. strike' \in Strike
      BY <1>1, <2>2, <3>1, StrikeTypes
    <3>3. QED
      BY <2>2, <3>2 DEF TypeOK
  <2>3. QED
    BY <1>4, <2>1, <2>2 DEF StrikeMayor
<1>5. QED
  BY <1>2, <1>3, <1>4 DEF Blow

LEMMA SkillTypes ==
  ASSUME TypeOK, NEW p \in Pids, Skill(p)
  PROVE  TypeOK'
<1> DEFINE c == characterID[p]
<1>1. skillArg[p].b1 \in Byte
  BY DEF TypeOK, Arg
<1>2. CASE c \in {"washerwoman", "librarian", "investigator"}
  <2>1. Learn(p, c)
    BY <1>2 DEF Skill
  <2>2. QED
    BY <2>1, ArgTypes, UnhurtTypes, StopTypes DEF Learn, Nobody, TypeOK
<1>3. CASE c = "chef"
  <2>1. Chef(p)
    BY <1>3 DEF Skill
  <2>2. QED
    BY <2>1, ArgTypes, UnhurtTypes DEF Chef, Nobody, TypeOK
<1>4. CASE c \in {"poisoner", "butler", "monk"}
  <2>1. Choose(p)
    BY <1>4 DEF Skill
  <2>2. QED
    BY <1>1, <2>1, ArgTypes, UnhurtTypes DEF Choose, TypeOK
<1>5. ASSUME See(p)
      PROVE  TypeOK'
  BY <1>5, ArgTypes, UnhurtTypes DEF See, TypeOK
<1>6. CASE c \in {"spy", "empath"}
  BY <1>5, <1>6 DEF Skill
<1>7. CASE c = "fortune_teller"
  BY <1>5, <1>7, StopTypes DEF Skill, FortuneTeller
<1>8. CASE c = "undertaker"
  BY <1>5, <1>8, StopTypes DEF Skill, Undertaker
<1>9. CASE c = "ravenkeeper"
  <2>1. Ravenkeeper(p)
    BY <1>9 DEF Skill
  <2>2. QED
    BY <2>1, ArgTypes, UnhurtTypes, StopTypes DEF Ravenkeeper, Nobody, TypeOK
<1>10. CASE c = "imp"
  BY <1>10, AttackTypes DEF Skill
<1>11. CASE c \notin {"washerwoman", "librarian", "investigator", "chef", "poisoner",
                      "butler", "monk", "spy", "empath", "fortune_teller", "undertaker",
                      "ravenkeeper", "imp"}
  <2>1. Nobody(p)
    BY <1>11 DEF Skill
  <2>2. QED
    BY <2>1, ArgTypes, UnhurtTypes DEF Nobody, TypeOK
<1>12. QED
  BY <1>2, <1>3, <1>4, <1>6, <1>7, <1>8, <1>9, <1>10, <1>11

LEMMA DecideTypes ==
  ASSUME TypeOK, Decide
  PROVE  TypeOK'
<1>1. Succeeded \in [Pids -> Characters]
  BY DEF Succeeded, TypeOK, Characters
<1>2. characterID' \in [Pids -> Characters]
  BY <1>1 DEF Decide, TypeOK
<1>3. isGameEnd' \in 0 .. 2 /\ leaderless' \in Nat
  BY DEF Decide, TypeOK, Verdict
<1>4. gameStatus' \in 2 .. LastStatus /\ at' \in {"ask", "end"}
  BY RoundAssumption DEF Decide, TypeOK
<1>5. QED
  BY <1>2, <1>3, <1>4 DEF Decide, TypeOK

LEMMA NextTypes == TypeOK /\ [Next]_vars => TypeOK'
<1> SUFFICES ASSUME TypeOK, [Next]_vars
             PROVE  TypeOK'
  OBVIOUS
<1>1. ASSUME NEW p \in Pids, SetSkillArg(p)
      PROVE  TypeOK'
  <2>1. PICK a \in Args : skillArg' = [skillArg EXCEPT ![p] = a]
    BY <1>1 DEF SetSkillArg
  <2>2. a \in Arg
    BY RoundAssumption DEF Seats, Arg, Byte
  <2>3. QED
    BY <1>1, <2>1, <2>2 DEF SetSkillArg, TypeOK
<1>2. ASSUME NEW p \in Pids, DayDeath(p)
      PROVE  TypeOK'
  BY <1>2, KilledTypes DEF DayDeath, TypeOK
<1>3. CASE Ask
  BY <1>3, ArgTypes DEF Ask, TypeOK
<1>4. CASE WaitOver \/ Daybreak
  BY <1>4 DEF WaitOver, Daybreak, TypeOK, Order
<1>5. CASE NightOver
  BY <1>5, RoundAssumption DEF NightOver, TypeOK
<1>6. CASE UseSkill
  BY <1>6, SkillTypes DEF UseSkill
<1>7. CASE Execution
  <2>1. deathDate' \in [Pids -> 0 .. LastStatus \div 2] /\ mute' \subseteq Pids
    BY <1>7, KilledTypes DEF Execution, TypeOK
  <2>2. QED
    BY <1>7, <2>1 DEF Execution, TypeOK
<1>8. CASE Decide \/ DecideFaults
  BY <1>8, DecideTypes, StopTypes DEF DecideFaults
<1>9. CASE LookForPoison \/ LookForMonk \/ Blow
  BY <1>9, LookTypes, BlowTypes
<1>10. CASE UNCHANGED vars
  BY <1>10 DEF TypeOK
<1>11. QED
  BY <1>1, <1>2, <1>3, <1>4, <1>5, <1>6, <1>7, <1>8, <1>9, <1>10 DEF Next

\* Characters, arguments and deaths keep their types: the cursor stays inside
\* the list of skills, and every death is dated by a day that has begun.
THEOREM TypeCorrect == Spec => []TypeOK
BY InitTypes, NextTypes, PTL DEF Spec

-----------------------------------------------------------------------------
(* Who may die at night.                                                   *)

\* Nobody dies by a skill before the last look of the Imp's turn.
LEMMA SkillsSpare ==
  ASSUME NEW p \in Pids, Skill(p)
  PROVE  night' = night
<1> DEFINE c == characterID[p]
<1> USE DEF Unhurt, Hang, Crash, Nobody
<1>1. CASE c \in {"washerwoman", "librarian", "investigator"}
  BY <1>1 DEF Skill, Learn
<1>2. CASE c = "chef"
  BY <1>2 DEF Skill, Chef
<1>3. CASE c \in {"poisoner", "butler", "monk"}
  BY <1>3 DEF Skill, Choose
<1>4. CASE c \in {"spy", "empath"}
  BY <1>4 DEF Skill, See
<1>5. CASE c = "fortune_teller"
  BY <1>5 DEF Skill, FortuneTeller, See
<1>6. CASE c = "undertaker"
  BY <1>6 DEF Skill, Undertaker, See
<1>7. CASE c = "ravenkeeper"
  BY <1>7 DEF Skill, Ravenkeeper
<1>8. CASE c = "imp"
  BY <1>8 DEF Skill, Attack
<1>9. CASE c \notin {"washerwoman", "librarian", "investigator", "chef", "poisoner",
                     "butler", "monk", "spy", "empath", "fortune_teller", "undertaker",
                     "ravenkeeper", "imp"}
  BY <1>9 DEF Skill
<1>10. QED
  BY <1>1, <1>2, <1>3, <1>4, <1>5, <1>6, <1>7, <1>8, <1>9

\* Who dies is the victim of a blow that found him unguarded.
Struck(r) ==
  /\ at = "blow" /\ r = strike.target
  /\ IF strike.substitute THEN SubstituteUnguarded ELSE Unguarded

LEMMA NightDeaths ==
  ASSUME [Next]_vars, NEW r \in night' \ night
  PROVE  Blow /\ Struck(r)
<1>1. ~ UseSkill
  BY SkillsSpare DEF UseSkill
<1>2. ~ \E p \in Pids : SetSkillArg(p) \/ DayDeath(p)
  BY DEF SetSkillArg, DayDeath
<1>3. ~ (Ask \/ WaitOver \/ NightOver \/ Daybreak)
  BY DEF Ask, WaitOver, NightOver, Daybreak
<1>4. ~ (Execution \/ Decide \/ DecideFaults)
  BY DEF Execution, Decide, DecideFaults, Crash
<1>5. ~ (LookForPoison \/ LookForMonk \/ UNCHANGED vars)
  BY DEF LookForPoison, LookForMonk
<1>6. Blow
  BY <1>1, <1>2, <1>3, <1>4, <1>5 DEF Next
<1>7. ~ Spare(strike.imp) /\ ~ StrikeMayor(strike.imp, strike.target)
  BY DEF Spare, Unhurt, StrikeMayor, Hang
<1>8. /\ at = "blow" /\ Kill(strike.imp, strike.target)
      /\ IF strike.substitute THEN SubstituteUnguarded ELSE Unguarded
  BY <1>6, <1>7 DEF Blow
<1>9. r = strike.target
  BY <1>8 DEF Kill
<1>10. QED
  BY <1>6, <1>8, <1>9 DEF Struck

\* What the Monk's look found, the history knows.
LookInv == at = "blow" /\ ~ strike.guarded => strike.exposed

LEMMA LooksRemembered == TypeOK /\ LookInv /\ [Next]_vars => LookInv'
<1> SUFFICES ASSUME TypeOK, LookInv, [Next]_vars, at' = "blow"
             PROVE  ~ strike'.guarded => strike'.exposed
  BY DEF LookInv
<1>1. CASE LookForMonk
  <2>1. /\ strike'.guarded = Protected(strike.target)
        /\ strike'.exposed = Exposed
    BY <1>1 DEF LookForMonk, TypeOK, Strike
  <2>2. QED
    BY <2>1 DEF Exposed
<1>2. CASE UseSkill
  <2>1. PICK p \in Pids : Skill(p)
    BY <1>2 DEF UseSkill
  <2>2. Crash \/ Hang \/ at' = "aim" \/ \E ret : Returns(p, ret)
    BY <2>1 DEF Skill, Learn, Chef, Choose, See, FortuneTeller, Undertaker, Ravenkeeper,
                Nobody, Attack
  <2>3. at' = at
    BY <2>2 DEF Crash, Hang, Returns
  <2>4. QED
    BY <1>2, <2>3 DEF UseSkill
<1>3. CASE Blow
  BY <1>3 DEF Blow, Kill, Spare, StrikeMayor, Returns, Hang
<1>4. CASE \E p \in Pids : SetSkillArg(p)
  BY <1>4 DEF SetSkillArg, LookInv
<1>5. CASE DecideFaults \/ UNCHANGED vars
  BY <1>5 DEF DecideFaults, Crash, LookInv
<1>6. CASE \/ \E p \in Pids : DayDeath(p)
           \/ Ask \/ WaitOver \/ LookForPoison \/ NightOver \/ Daybreak \/ Execution \/ Decide
  BY <1>6 DEF DayDeath, Ask, WaitOver, LookForPoison, NightOver, Daybreak, Execution, Decide
<1>7. QED
  BY <1>1, <1>2, <1>3, <1>4, <1>5, <1>6 DEF Next

\* A poisoned Monk protects nobody.
LEMMA PoisonedMonk ==
  ASSUME NEW q \in Pids, MonkPoisoned
  PROVE  ~ Protected(q)
<1>1. PICK m \in Pids : Is(m, "monk") /\ Poisoned(m)
  BY DEF MonkPoisoned
<1>2. \A n \in Pids : Is(n, "monk") => n = m
  BY <1>1, RoundAssumption DEF Is, Pids
<1>3. QED
  BY <1>1, <1>2 DEF Protected

\* Who dies at night was unprotected when useSkill looked for the Monk's
\* choice, or is so at the last look: the tests for the Imp's choice and for
\* the Mayor's substitute are written differently, and both see to it.
THEOREM ProtectedSurvive == Spec => NightSparesProtected
<1>1. ASSUME TypeOK, LookInv, [Next]_vars
      PROVE  [\A p \in night' \ night :
                p = strike.target /\ (strike.exposed \/ ~ Protected(p))]_vars
  <2>1. ASSUME NEW r \in night' \ night
        PROVE  r = strike.target /\ (strike.exposed \/ ~ Protected(r))
    <3>1. Struck(r)
      BY <1>1, NightDeaths
    <3>2. r \in Pids
      BY <1>1, <3>1 DEF Struck, TypeOK, Strike
    <3>3. ~ strike.guarded \/ MonkPoisoned
      BY <3>1 DEF Struck, Unguarded, SubstituteUnguarded
    <3>4. QED
      BY <1>1, <3>1, <3>2, <3>3, PoisonedMonk DEF Struck, LookInv
  <2>2. QED
    BY <2>1
<1>2. Init => LookInv
  BY DEF Init, LookInv
<1>3. QED
  BY <1>1, <1>2, LooksRemembered, TypeCorrect, PTL DEF Spec, NightSparesProtected

-----------------------------------------------------------------------------
(* What changes whose side, and the game's end.                            *)

decided == <<characterID, isGameEnd, gameStatus, isDrunk, leaderless>>

LEMMA SkillsDecideNothing ==
  ASSUME NEW p \in Pids, Skill(p)
  PROVE  UNCHANGED decided
<1>1. Crash \/ Hang => UNCHANGED decided
  BY DEF Crash, Hang, decided
<1>2. \A ret : Returns(p, ret) => UNCHANGED decided
  BY DEF Returns, decided
<1>3. Attack(p) => UNCHANGED decided
  BY <1>1, <1>2 DEF Attack, Nobody, decided
<1>4. QED
  BY <1>1, <1>2, <1>3 DEF Skill, Learn, Chef, Choose, See, FortuneTeller, Undertaker,
                          Ravenkeeper, Nobody

LEMMA ImpDecidesNothing ==
  ASSUME LookForPoison \/ LookForMonk \/ Blow
  PROVE  UNCHANGED decided
BY DEF LookForPoison, LookForMonk, Blow, Kill, Spare, StrikeMayor, Returns, Hang, decided

LEMMA OnlyDecide ==
  ASSUME TypeOK, [Next]_vars, ~ Decide
  PROVE  /\ characterID' = characterID /\ isGameEnd' = isGameEnd
         /\ isDrunk' = isDrunk /\ leaderless' = leaderless
         /\ at = "end" => at' = "end"
<1>1. CASE UseSkill
  <2>1. UNCHANGED decided
    BY <1>1, SkillsDecideNothing DEF UseSkill
  <2>2. QED
    BY <1>1, <2>1 DEF UseSkill, decided
<1>2. CASE LookForPoison \/ LookForMonk \/ Blow
  <2>1. UNCHANGED decided
    BY <1>2, ImpDecidesNothing
  <2>2. at # "end"
    BY <1>2 DEF LookForPoison, LookForMonk, Blow
  <2>3. QED
    BY <2>1, <2>2 DEF decided
<1>3. CASE ~ (UseSkill \/ LookForPoison \/ LookForMonk \/ Blow)
  BY <1>3 DEF Next, SetSkillArg, DayDeath, Ask, WaitOver, NightOver, Daybreak, Execution,
              DecideFaults, Crash
<1>4. QED
  BY <1>1, <1>2, <1>3

-----------------------------------------------------------------------------
(* One death per night: the Imp has one turn, and unless he counts as a    *)
(* drunk it is the thirteenth.                                             *)

NoDrunkImp == \A p \in isDrunk : characterID[p] # "imp"

Striking == at \in {"aim", "guard", "blow"}

\* While the Imp strikes, the call that is due is his.
TurnInv == Striking => \E k \in Calls : /\ FirstCall(k) /\ Is(strike.imp, Order[k])
                                        /\ characterID[strike.imp] = "imp"

NightInv == NoDrunkImp => /\ Cardinality(night) <= 1
                          /\ at = "wait" => night = {}
                          /\ at = "use" /\ cursor <= 13 => night = {}
                          /\ Striking => night = {}

LEMMA Turns ==
  ASSUME NEW k \in 1 .. Len(Order), NEW p \in Pids, Is(p, Order[k]),
         characterID[p] = "imp", NoDrunkImp
  PROVE  k = 13
<1>1. p \notin isDrunk
  BY DEF NoDrunkImp
<1>2. Order[k] = "imp"
  BY <1>1 DEF Is, Holders
<1>3. QED
  BY <1>2 DEF Order

LEMMA DrunksStay == TypeOK /\ [Next]_vars => (NoDrunkImp' => NoDrunkImp)
<1> SUFFICES ASSUME TypeOK, [Next]_vars, NEW p \in isDrunk, NoDrunkImp'
             PROVE  characterID[p] # "imp"
  BY DEF NoDrunkImp
<1>1. /\ isDrunk' = isDrunk
      /\ characterID' = characterID \/ characterID' = Succeeded
  BY OnlyDecide DEF Decide
<1>2. p \in Pids /\ characterID \in [Pids -> Characters]
  BY DEF TypeOK
<1>3. characterID'[p] # "imp"
  BY <1>1 DEF NoDrunkImp
<1>4. CASE characterID' = characterID
  BY <1>3, <1>4
<1>5. CASE characterID' = Succeeded
  BY <1>2, <1>3, <1>5 DEF Succeeded
<1>6. QED
  BY <1>1, <1>4, <1>5

\* Outside of Returns, a turn of the Imp keeps its place in the order.
LEMMA TurnStays ==
  ASSUME TurnInv, Striking, UNCHANGED <<characterID, isDrunk, cursor>>,
         strike'.imp = strike.imp
  PROVE  TurnInv'
<1>1. PICK k \in Calls : /\ FirstCall(k) /\ Is(strike.imp, Order[k])
                         /\ characterID[strike.imp] = "imp"
  BY DEF TurnInv
<1>2. \A c : Holders(c)' = Holders(c)
  BY DEF Holders
<1>3. Calls' = Calls
  BY <1>2 DEF Calls
<1>4. k \in Calls' /\ FirstCall(k)' /\ (Is(strike.imp, Order[k]))'
  BY <1>1, <1>2, <1>3 DEF FirstCall, Is
<1>5. QED
  BY <1>1, <1>4 DEF TurnInv

LEMMA TurnKept == TypeOK /\ TurnInv /\ [Next]_vars => TurnInv'
<1> SUFFICES ASSUME TypeOK, TurnInv, [Next]_vars, Striking'
             PROVE  TurnInv'
  BY DEF TurnInv
<1>1. CASE UseSkill
  <2>1. at = "use"
    BY <1>1 DEF UseSkill
  <2>2. PICK k \in Calls : FirstCall(k) /\ \E p \in Pids : Is(p, Order[k]) /\ Skill(p)
    BY <1>1 DEF UseSkill
  <2>3. PICK p \in Pids : Is(p, Order[k]) /\ Skill(p)
    BY <2>2
  <2>4. ~ Crash /\ ~ Hang /\ ~ \E ret : Returns(p, ret)
    BY <2>1 DEF Crash, Hang, Returns, Striking
  <2>5. characterID[p] = "imp" /\ Attack(p)
    BY <2>3, <2>4 DEF Skill, Learn, Chef, Choose, See, FortuneTeller, Undertaker,
                      Ravenkeeper, Nobody
  <2>6. /\ strike' = Aimed(p, skillArg[p].b2, skillArg[p].b1 # 0, FALSE)
        /\ UNCHANGED <<people, cursor>>
    BY <2>4, <2>5 DEF Attack, Nobody
  <2>7. strike'.imp = p
    BY <2>6 DEF Aimed, NoStrike
  <2>8. \A c : Holders(c)' = Holders(c)
    BY <2>6 DEF Holders
  <2>9. Calls' = Calls
    BY <2>6, <2>8 DEF Calls
  <2>10. k \in Calls' /\ FirstCall(k)' /\ (Is(strike.imp, Order[k]))'
    BY <2>2, <2>3, <2>7, <2>8, <2>9 DEF FirstCall, Is
  <2>11. characterID'[strike'.imp] = "imp"
    BY <2>5, <2>6, <2>7
  <2>12. QED
    BY <2>10, <2>11 DEF TurnInv
<1>2. CASE LookForPoison \/ LookForMonk
  <2>1. /\ Striking /\ UNCHANGED <<characterID, isDrunk, cursor>>
        /\ strike'.imp = strike.imp
    BY <1>2 DEF LookForPoison, LookForMonk, Striking, TypeOK, Strike
  <2>2. QED
    BY <2>1, TurnStays
<1>3. CASE Blow
  <2>1. ~ \E ret : Returns(strike.imp, ret)
    BY DEF Returns, Striking
  <2>2. StrikeMayor(strike.imp, strike.target)
    BY <1>3, <2>1 DEF Blow, Kill, Spare
  <2>3. ~ Hang
    BY DEF Hang, Striking
  <2>4. PICK r \in Substitutes(strike.imp) :
          /\ strike' = Aimed(strike.imp, r, FALSE, TRUE)
          /\ UNCHANGED <<people, cursor>>
    BY <2>2, <2>3 DEF StrikeMayor
  <2>5. strike'.imp = strike.imp
    BY <2>4 DEF Aimed, NoStrike
  <2>6. Striking /\ UNCHANGED <<characterID, isDrunk, cursor>>
    BY <1>3, <2>4 DEF Blow, Striking
  <2>7. QED
    BY <2>5, <2>6, TurnStays
<1>4. CASE \/ \E p \in Pids : SetSkillArg(p)
           \/ DecideFaults \/ UNCHANGED vars
  BY <1>4, TurnStays DEF SetSkillArg, DecideFaults, Crash, Striking
<1>5. CASE \/ \E p \in Pids : DayDeath(p)
           \/ Ask \/ WaitOver \/ NightOver \/ Daybreak \/ Execution \/ Decide
  BY <1>5 DEF DayDeath, Ask, WaitOver, NightOver, Daybreak, Execution, Decide, Striking
<1>6. QED
  BY <1>1, <1>2, <1>3, <1>4, <1>5 DEF Next

\* The Imp's turn over, the thirteenth call is done.
LEMMA AfterTurn ==
  ASSUME TypeOK, TurnInv, Striking, NoDrunkImp, NEW ret, Returns(strike.imp, ret)
  PROVE  cursor' = 14
<1>1. PICK k \in Calls : /\ FirstCall(k) /\ Is(strike.imp, Order[k])
                         /\ characterID[strike.imp] = "imp"
  BY DEF TurnInv
<1>2. PICK l \in Calls : FirstCall(l) /\ cursor' = l + 1
  BY DEF Returns
<1>3. k \in 1 .. Len(Order) /\ k \in Int /\ l \in Int
  BY DEF Calls, TypeOK, Order
<1>4. k = l
  BY <1>1, <1>2, <1>3 DEF FirstCall
<1>5. strike.imp \in Pids
  BY DEF TypeOK, Strike
<1>6. k = 13
  BY <1>1, <1>3, <1>5, Turns
<1>7. QED
  BY <1>2, <1>4, <1>6

LEMMA NightKept == TypeOK /\ TurnInv /\ NightInv /\ [Next]_vars => NightInv'
<1> SUFFICES ASSUME TypeOK, TurnInv, NightInv, [Next]_vars, NoDrunkImp'
             PROVE  /\ Cardinality(night') <= 1
                    /\ at' = "wait" => night' = {}
                    /\ at' = "use" /\ cursor' <= 13 => night' = {}
                    /\ Striking' => night' = {}
  BY DEF NightInv
<1>1. NoDrunkImp
  BY DrunksStay
<1>2. /\ Cardinality(night) <= 1
      /\ at = "wait" => night = {}
      /\ at = "use" /\ cursor <= 13 => night = {}
      /\ Striking => night = {}
  BY <1>1 DEF NightInv
<1>3. Cardinality({}) = 0
  BY FS_EmptySet
<1>4. CASE UseSkill
  <2>1. PICK k \in Calls : FirstCall(k) /\ \E p \in Pids : Is(p, Order[k]) /\ Skill(p)
    BY <1>4 DEF UseSkill
  <2>2. PICK p \in Pids : Is(p, Order[k]) /\ Skill(p)
    BY <2>1
  <2>3. k \in 1 .. Len(Order) /\ cursor <= k /\ cursor \in Int /\ at = "use"
    BY <1>4 DEF Calls, TypeOK, Order, UseSkill
  <2>4. night' = night
    BY <2>2, SkillsSpare
  <2>5. CASE \E ret : Returns(p, ret)
    <3>1. at' = "use" /\ \E l \in Calls : FirstCall(l) /\ cursor' = l + 1
      BY <2>5 DEF Returns
    <3>2. PICK l \in Calls : FirstCall(l) /\ cursor' = l + 1
      BY <3>1
    <3>3. cursor <= l /\ l \in Int
      BY <2>3 DEF Calls
    <3>4. cursor' <= 13 => cursor <= 13
      BY <2>3, <3>2, <3>3
    <3>5. QED
      BY <1>2, <2>3, <2>4, <3>1, <3>4 DEF Striking
  <2>6. CASE Crash \/ Hang
    BY <1>2, <2>3, <2>4, <2>6 DEF Crash, Hang, Striking
  <2>7. CASE ~ (Crash \/ Hang \/ \E ret : Returns(p, ret))
    <3>1. characterID[p] = "imp" /\ Attack(p)
      BY <2>2, <2>7 DEF Skill, Learn, Chef, Choose, See, FortuneTeller, Undertaker,
                        Ravenkeeper, Nobody
    <3>2. at' = "aim"
      BY <2>7, <3>1 DEF Attack, Nobody
    <3>3. k = 13
      BY <1>1, <2>2, <2>3, <3>1, Turns
    <3>4. night = {}
      BY <1>2, <2>3, <3>3
    <3>5. QED
      BY <1>3, <2>4, <3>2, <3>4
  <2>8. QED
    BY <2>5, <2>6, <2>7
<1>5. CASE LookForPoison \/ LookForMonk
  BY <1>2, <1>5 DEF LookForPoison, LookForMonk, Striking
<1>6. CASE Blow
  <2>1. Striking /\ night = {}
    BY <1>2, <1>6 DEF Blow, Striking
  <2>2. CASE Kill(strike.imp, strike.target)
    <3>1. night' = {strike.target}
      BY <2>1, <2>2 DEF Kill
    <3>2. Cardinality(night') = 1
      BY <3>1, FS_Singleton
    <3>3. Returns(strike.imp, Told)
      BY <2>2 DEF Kill
    <3>4. cursor' = 14 /\ at' = "use"
      BY <1>1, <2>1, <3>3, AfterTurn DEF Returns
    <3>5. QED
      BY <3>2, <3>4 DEF Striking
  <2>3. CASE Spare(strike.imp)
    BY <1>3, <2>1, <2>3 DEF Spare, Unhurt
  <2>4. CASE StrikeMayor(strike.imp, strike.target)
    <3>1. night' = {}
      BY <2>1, <2>4 DEF StrikeMayor, Hang, Unhurt
    <3>2. at' \in {"aim", "hung"}
      BY <2>4 DEF StrikeMayor, Hang
    <3>3. QED
      BY <1>3, <3>1, <3>2 DEF Striking
  <2>5. QED
    BY <1>6, <2>2, <2>3, <2>4 DEF Blow
<1>7. CASE Ask
  BY <1>3, <1>7 DEF Ask, Striking
<1>8. CASE WaitOver
  BY <1>2, <1>8 DEF WaitOver, Striking
<1>9. CASE \E p \in Pids : SetSkillArg(p) \/ DayDeath(p)
  BY <1>2, <1>9 DEF SetSkillArg, DayDeath, Striking
<1>10. CASE NightOver \/ Daybreak \/ Execution \/ Decide \/ DecideFaults
  BY <1>2, <1>10 DEF NightOver, Daybreak, Execution, Decide, DecideFaults, Crash, Striking
<1>11. CASE UNCHANGED vars
  BY <1>2, <1>11 DEF Striking
<1>12. QED
  BY <1>4, <1>5, <1>6, <1>7, <1>8, <1>9, <1>10, <1>11 DEF Next

\* At most one player dies in a night, whatever is sent and when, unless an
\* earlier round left an Imp drunk.
THEOREM OneDies == Spec => []OneDeathPerNight
<1>1. Init => TurnInv /\ NightInv
  BY FS_EmptySet DEF Init, TurnInv, NightInv, Striking
<1>2. NightInv => OneDeathPerNight
  BY DEF NightInv, NoDrunkImp, OneDeathPerNight
<1>3. QED
  BY <1>1, <1>2, TurnKept, NightKept, TypeCorrect, PTL DEF Spec

-----------------------------------------------------------------------------
(* What follows when the Imp is found dead.                                *)

OneScarlet == \A p, q \in Pids :
  characterID[p] = "scarlet_woman" /\ characterID[q] = "scarlet_woman" => p = q

\* Only once does a decision let a dead Imp pass, and then nobody is left to
\* take over.
LeaderInv == at # "end" => /\ leaderless <= 1
                           /\ leaderless = 1 => Holders("scarlet_woman") = {}

\* A set of pids has a highest: if not, counting those up to each would map
\* the set one to one into fewer numbers than it has members.
LEMMA HasHighest ==
  ASSUME NEW H, H \subseteq Pids, H # {}
  PROVE  \E p \in H : \A q \in H : q <= p
<1> DEFINE upTo(p) == {q \in H : q <= p}
           n == Cardinality(H)
           count == [p \in H |-> Cardinality(upTo(p))]
<1>1. Pids \subseteq Int /\ IsFiniteSet(Pids)
  BY RoundAssumption, FS_Interval DEF Pids
<1>2. IsFiniteSet(H) /\ n \in Nat
  BY <1>1, FS_Subset, FS_CardinalityType
<1>3. ASSUME NEW p \in H
      PROVE  IsFiniteSet(upTo(p)) /\ Cardinality(upTo(p)) \in Nat
  <2>1. upTo(p) \in SUBSET H
    OBVIOUS
  <2> HIDE DEF upTo
  <2>2. QED
    BY <1>2, <2>1, FS_Subset, FS_CardinalityType
<1>4. ASSUME NEW p \in H, NEW q \in H, p < q
      PROVE  Cardinality(upTo(p)) < Cardinality(upTo(q))
  <2>1. upTo(p) \in SUBSET upTo(q)
    <3>1. \A x \in H : x <= p => x <= q
      BY <1>1, <1>4
    <3>2. QED
      BY <3>1
  <2>2. q \in upTo(q) /\ q \notin upTo(p)
    BY <1>1, <1>4
  <2>3. /\ IsFiniteSet(upTo(p)) /\ Cardinality(upTo(p)) \in Nat
        /\ IsFiniteSet(upTo(q)) /\ Cardinality(upTo(q)) \in Nat
    BY <1>3
  <2> HIDE DEF upTo
  <2>4. /\ Cardinality(upTo(p)) <= Cardinality(upTo(q))
        /\ Cardinality(upTo(q)) = Cardinality(upTo(p)) => upTo(q) = upTo(p)
    BY <2>1, <2>3, FS_Subset
  <2>5. QED
    BY <2>2, <2>3, <2>4
<1>5. SUFFICES ASSUME \A p \in H : \E q \in H : ~ q <= p
               PROVE  FALSE
  OBVIOUS
<1>6. ASSUME NEW p \in H
      PROVE  Cardinality(upTo(p)) \in 1 .. n - 1
  <2>1. upTo(p) \in SUBSET H /\ upTo(p) # H
    BY <1>5
  <2>2. upTo(p) # {}
    BY <1>1
  <2>3. IsFiniteSet(upTo(p)) /\ Cardinality(upTo(p)) \in Nat
    BY <1>3
  <2> HIDE DEF upTo
  <2>4. Cardinality(upTo(p)) <= n /\ (n = Cardinality(upTo(p)) => H = upTo(p))
    BY <1>2, <2>1, FS_Subset
  <2>5. Cardinality(upTo(p)) # 0
    BY <2>2, <2>3, FS_EmptySet
  <2>6. QED
    BY <1>2, <2>1, <2>3, <2>4, <2>5
<1>7. n # 0
  BY <1>2, FS_EmptySet
<1>8. IsFiniteSet(1 .. n - 1) /\ Cardinality(1 .. n - 1) < n
  <2> HIDE DEF n
  <2>1. 1 \in Int /\ n - 1 \in Int /\ n \in Nat
    BY <1>2
  <2>2. /\ IsFiniteSet(1 .. n - 1)
        /\ Cardinality(1 .. n - 1) = IF 1 > n - 1 THEN 0 ELSE n - 1 - 1 + 1
    BY <2>1, FS_Interval
  <2>3. QED
    BY <1>7, <2>1, <2>2
<1>9. count \in [H -> 1 .. n - 1]
  BY <1>6
<1>10. PICK p \in H, q \in H : p # q /\ count[p] = count[q]
  <2> HIDE DEF n, count
  <2>1. QED
    BY <1>2, <1>8, <1>9, FS_PigeonHole DEF n
<1>11. QED
  BY <1>1, <1>3, <1>4, <1>10

\* findPlayerByCharacter finds somebody if there is somebody.
LEMMA FoundByCharacter ==
  ASSUME NEW c, Holders(c) # {}, isDrunk \subseteq Pids
  PROVE  \E p \in Pids : Is(p, c)
<1>1. Holders(c) \subseteq Pids
  BY DEF Holders
<1>2. PICK p \in Holders(c) : \A q \in Holders(c) : q <= p
  BY <1>1, HasHighest
<1>3. QED
  BY <1>1, <1>2 DEF Is

\* A decision that finds no living Imp takes his death for certain.
LEMMA LeaderlessDies ==
  ASSUME TypeOK, ~ LivingImp, Holders("imp") # {},
         NEW dies \in Decapitated
  PROVE  dies
<1>1. PICK p \in Pids : Is(p, "imp")
  BY FoundByCharacter DEF TypeOK
<1>2. p \in Dead
  BY <1>1 DEF LivingImp, Alive, Is, Holders
<1>3. QED
  BY <1>1, <1>2 DEF Decapitated

\* The only Scarlet Woman turns Imp.
LEMMA ScarletIsSpent ==
  ASSUME TypeOK, OneScarlet, Holders("scarlet_woman") # {},
         characterID' = Succeeded, isDrunk' = isDrunk
  PROVE  Holders("scarlet_woman")' = {}
<1>1. PICK w \in Pids \ isDrunk : characterID[w] = "scarlet_woman"
  BY DEF Holders
<1>2. Holders("scarlet_woman") = {w}
  BY <1>1 DEF Holders, OneScarlet
<1>3. Is(w, "scarlet_woman")
  BY <1>1, <1>2, RoundAssumption DEF Is, Pids
<1>4. \A p \in Pids : characterID'[p] = "scarlet_woman" => p # w /\ characterID[p] = "scarlet_woman"
  BY <1>3 DEF Succeeded
<1>5. \A p \in Pids : characterID'[p] # "scarlet_woman"
  BY <1>1, <1>4 DEF OneScarlet
<1>6. QED
  BY <1>5 DEF Holders

LEMMA ScarletKept == TypeOK /\ OneScarlet /\ [Next]_vars => OneScarlet'
<1> SUFFICES ASSUME TypeOK, OneScarlet, [Next]_vars
             PROVE  OneScarlet'
  OBVIOUS
<1>1. characterID' = characterID \/ characterID' = Succeeded
  BY OnlyDecide DEF Decide
<1>2. \A p \in Pids : characterID'[p] = "scarlet_woman" => characterID[p] = "scarlet_woman"
  BY <1>1 DEF Succeeded
<1>3. QED
  BY <1>2 DEF OneScarlet

LEMMA LeaderKept == TypeOK /\ OneScarlet /\ LeaderInv /\ [Next]_vars => LeaderInv'
<1> SUFFICES ASSUME TypeOK, OneScarlet, LeaderInv, [Next]_vars, at' # "end"
             PROVE  /\ leaderless' <= 1
                    /\ leaderless' = 1 => Holders("scarlet_woman")' = {}
  BY DEF LeaderInv
<1>1. CASE ~ Decide
  BY <1>1, OnlyDecide DEF LeaderInv, Holders
<1>2. CASE Decide /\ (LivingImp \/ Holders("imp") = {})
  BY <1>2 DEF Decide
<1>3. CASE Decide /\ ~ LivingImp /\ Holders("imp") # {}
  <2>1. leaderless' = leaderless + 1 /\ leaderless \in Nat /\ leaderless <= 1
    BY <1>3 DEF Decide, LeaderInv, TypeOK
  <2>2. isDrunk' = isDrunk /\ ~ isGameEnd' > 0
    BY <1>3 DEF Decide
  <2>3. characterID' = Succeeded /\ isGameEnd' = Verdict(TRUE)
    <3>1. PICK dies \in Decapitated :
            /\ characterID' = IF dies THEN Succeeded ELSE characterID
            /\ isGameEnd' = Verdict(dies)
      BY <1>3 DEF Decide
    <3>2. dies = TRUE
      BY <1>3, LeaderlessDies DEF Decapitated
    <3>3. QED
      BY <3>1, <3>2
  <2>4. Holders("scarlet_woman") # {}
    BY <2>2, <2>3 DEF Verdict
  <2>5. leaderless = 0
    BY <1>3, <2>1, <2>4 DEF LeaderInv, Decide
  <2>6. Holders("scarlet_woman")' = {}
    BY <2>2, <2>3, <2>4, ScarletIsSpent
  <2>7. QED
    BY <2>1, <2>5, <2>6
<1>4. QED
  BY <1>1, <1>2, <1>3

\* Where the Imp is found dead, the next decision but one at the latest ends
\* the game.
THEOREM DemonsDeathEnds == Spec => []DemonsDeathEndsGame
<1>1. Init => OneScarlet /\ LeaderInv
  BY RoundAssumption DEF Init, OneScarlet, LeaderInv
<1>2. LeaderInv => DemonsDeathEndsGame
  BY DEF LeaderInv, DemonsDeathEndsGame
<1>3. QED
  BY <1>1, <1>2, ScarletKept, LeaderKept, TypeCorrect, PTL DEF Spec

-----------------------------------------------------------------------------
(* Where a search loop of useSkill does not end.                           *)

\* Where nobody can be found.
NobodyToFind(p) ==
  \/ Alive \subseteq {p}
  \/ isDrunk # {} /\ \A q \in Pids : characterID[q] \notin Minions

LEMMA SkillHangs ==
  ASSUME TypeOK, NEW p \in Pids, Skill(p), at' = "hung", at # "hung"
  PROVE  NobodyToFind(p) /\ Hang
<1> DEFINE c == characterID[p]
<1>1. \A ret : Returns(p, ret) => at' # "hung"
  BY DEF Returns
<1>2. Crash => at' = at
  BY DEF Crash
<1>3. CASE c = "imp"
  BY <1>1, <1>2, <1>3 DEF Skill, Attack, Nobody
<1>4. CASE c \in {"washerwoman", "librarian", "investigator"}
  <2>1. Learn(p, c)
    BY <1>4 DEF Skill
  <2>2. /\ Hang
        /\ Alive \subseteq {p} \/ (Suspected(p, c) # {} /\ Shown(p, c) = {})
    BY <1>1, <2>1 DEF Learn, Nobody
  <2>3. CASE Alive \subseteq {p}
    BY <2>2, <2>3 DEF NobodyToFind
  <2>4. CASE Suspected(p, c) # {} /\ Shown(p, c) = {}
    <3>1. c = "investigator"
      BY <2>4 DEF Suspected
    <3>2. Suspected(p, c) = {q \in Pids \ {p} : characterID[q] \in Minions \/ q \in isDrunk}
      BY <3>1 DEF Suspected
    <3>3. Shown(p, c) = {q \in Pids \ {p} : characterID[q] \in Minions \cup {"recluse"}}
      BY <3>1 DEF Shown
    <3>4. QED
      BY <2>2, <2>4, <3>1, <3>2, <3>3 DEF Minions, NobodyToFind
  <2>5. QED
    BY <2>2, <2>3, <2>4
<1>5. CASE c \notin {"washerwoman", "librarian", "investigator", "imp"}
  BY <1>1, <1>2, <1>5 DEF Skill, Chef, Choose, See, FortuneTeller, Undertaker, Ravenkeeper,
                          Nobody
<1>6. QED
  BY <1>3, <1>4, <1>5

LEMMA BlowHangs ==
  ASSUME Blow, at' = "hung"
  PROVE  NobodyToFind(strike.imp) /\ Hang
<1>1. ~ \E ret : Returns(strike.imp, ret)
  BY DEF Returns
<1>2. StrikeMayor(strike.imp, strike.target)
  BY <1>1 DEF Blow, Kill, Spare
<1>3. Substitutes(strike.imp) = {} /\ Hang
  BY <1>2 DEF StrikeMayor
<1>4. QED
  BY <1>3 DEF Substitutes, NobodyToFind

LEMMA FewAlive ==
  ASSUME NEW p, Alive \subseteq {p}
  PROVE  Cardinality(Alive) <= 1
<1>1. IsFiniteSet({p}) /\ Cardinality({p}) = 1
  BY FS_Singleton
<1>2. QED
  BY <1>1, FS_Subset

\* A loop of useSkill that looks for a player finds one, unless at most one
\* is alive, or a drunk is taken for the minion that is not in play.
THEOREM SearchesEnd == Spec => []HangsOnlyAlone
<1>1. Init => HangsOnlyAlone
  BY DEF Init, HangsOnlyAlone
<1>2. TypeOK /\ HangsOnlyAlone /\ [Next]_vars => HangsOnlyAlone'
  <2> SUFFICES ASSUME TypeOK, HangsOnlyAlone, [Next]_vars, at' = "hung"
               PROVE  HangsOnlyAlone'
    BY DEF HangsOnlyAlone
  <2>1. CASE at = "hung"
    <3>1. ~ Decide
      BY <2>1 DEF Decide
    <3>2. UNCHANGED people
      BY <2>1 DEF Next, SetSkillArg, DayDeath, Ask, WaitOver, UseSkill, LookForPoison,
                  LookForMonk, Blow, NightOver, Daybreak, Execution, Decide, DecideFaults
    <3>3. QED
      BY <2>1, <3>2 DEF HangsOnlyAlone, Alive, Dead
  <2>2. CASE at # "hung"
    <3>1. UseSkill \/ Blow
      BY <2>2 DEF Next, SetSkillArg, DayDeath, Ask, WaitOver, LookForPoison, LookForMonk,
                  NightOver, Daybreak, Execution, Decide, DecideFaults, Crash
    <3>2. PICK p : NobodyToFind(p) /\ Hang
      BY <2>2, <3>1, SkillHangs, BlowHangs DEF UseSkill
    <3>3. Alive' = Alive /\ UNCHANGED <<isDrunk, characterID>>
      BY <3>2 DEF Hang, Alive, Dead
    <3>4. QED
      BY <3>2, <3>3, FewAlive DEF HangsOnlyAlone, NobodyToFind
  <2>3. QED
    BY <2>1, <2>2
<1>3. QED
  BY <1>1, <1>2, TypeCorrect, PTL DEF Spec
=============================================================================
