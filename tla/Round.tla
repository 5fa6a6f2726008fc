------------------------------- MODULE Round -------------------------------
(***************************************************************************)
(* A round of the game, Game::run from the first day to the end: asking    *)
(* for skill arguments, useSkill for one character after the other, the    *)
(* deaths of the day, and the decision whether the game is over.  Players  *)
(* write their skillArg at any time while the room's thread reads it,      *)
(* without a lock: what the Imp's turn reads of the Poisoner's it reads at *)
(* several moments, which are steps of their own.  The other skills decide *)
(* by one look at each argument and are one step.                          *)
(*                                                                         *)
(* What a player learns from a skill is left out; what the skill does to   *)
(* the state, what it dereferences and whether its loops end is not.       *)
(* Seats do not change (Rooms), there is no KP, and of a day only what     *)
(* DayEffect says remains, with the dates of the deaths.  A skillArg is a  *)
(* record of its lowest three bytes; what a pid beyond the array of seats  *)
(* would read is left out.                                                 *)
(***************************************************************************)
EXTENDS Integers, FiniteSets, Sequences

CONSTANTS
  PlayerNum,
  Casts,       \* how a round may begin: characters, and fields never reset
  Args,        \* the arguments players send
  LastStatus   \* bound on gameStatus, not in the code

VARIABLES
  up,          \* the process has not crashed
  at,          \* where the room's thread is
  gameStatus,
  characterID,
  deathDate,
  mute,        \* players with isVotedAfterDeath
  isDrunk,     \* players with isDrunk
  isSkillUsed, \* players with isSkillUsed
  skillArg,
  cursor,      \* the next call of useSkill
  strike,      \* the Imp's turn: what useSkill has read so far
  isGameEnd,
  night,       \* history: who was killed since the night began
  leaderless   \* history: decisions in a row that found the Imp, and found him dead

people == <<characterID, deathDate, mute, isDrunk, isSkillUsed>>
vars   == <<up, at, gameStatus, people, skillArg, cursor, strike, isGameEnd, night,
            leaderless>>

NONE == -1
Pids == 0 .. PlayerNum - 1

Townsfolk  == {"washerwoman", "librarian", "investigator", "chef", "empath",
               "fortune_teller", "undertaker", "monk", "ravenkeeper", "virgin",
               "slayer", "soldier", "mayor"}
Outsiders  == {"butler", "drunk", "recluse", "saint"}
Minions    == {"poisoner", "spy", "scarlet_woman", "baron"}
Characters == Townsfolk \cup Outsiders \cup Minions \cup {"imp"}
Good       == Townsfolk \cup Outsiders
Evil       == Minions \cup {"imp"}

\* The calls of useSkill, in their order.
Order == <<"washerwoman", "librarian", "investigator", "chef", "poisoner", "spy",
           "butler", "drunk", "empath", "fortune_teller", "undertaker", "monk",
           "imp", "mayor", "ravenkeeper">>

Byte    == 0 .. 255
Seats   == 0 .. 20
Arg     == [code : Byte, b1 : Byte, b2 : Byte]
Nothing == [code |-> 0, b1 |-> 0, b2 |-> 0]
Asked   == [code |-> 2, b1 |-> 0, b2 |-> 0]
Told    == [code |-> 1, b1 |-> 0, b2 |-> 0]
Chosen(p) == [code |-> 1, b1 |-> p, b2 |-> 0]

Strike == [imp : Pids, target : Pids, quiet : BOOLEAN, substitute : BOOLEAN,
           poisoned : BOOLEAN, guarded : BOOLEAN, exposed : BOOLEAN]
NoStrike == [imp |-> 0, target |-> 0, quiet |-> FALSE, substitute |-> FALSE,
             poisoned |-> FALSE, guarded |-> FALSE, exposed |-> FALSE]

ASSUME RoundAssumption ==
  /\ PlayerNum \in Nat \ {0}
  /\ Casts \subseteq [characterID : [Pids -> Characters], dead : SUBSET Pids,
                      mute : SUBSET Pids, drunk : SUBSET Pids, used : SUBSET Pids]
  /\ \A c \in Casts : \A p, q \in Pids :
       c.characterID[p] = "scarlet_woman" /\ c.characterID[q] = "scarlet_woman" => p = q
  /\ Args \subseteq [code : Byte, b1 : Seats, b2 : Seats]
  /\ LastStatus \in Nat /\ LastStatus >= 2

IsNight == gameStatus % 2 = 1

\* Mutant: the night is a date of its own.
StatusAsDate == gameStatus

Today == gameStatus \div 2
Dead    == {p \in Pids : deathDate[p] > 0}
Alive   == Pids \ Dead

\* findPlayerByCharacter: the last one; who is drunk has no character but
\* "drunk".
Holders(c) == IF c = "drunk" THEN isDrunk
              ELSE {p \in Pids \ isDrunk : characterID[p] = c}
Is(p, c) == p \in Holders(c) /\ \A q \in Holders(c) : q <= p

\* isPlayerPoisoned: the Poisoner may be dead.
Poisoned(p) == \E q \in Pids : /\ Is(q, "poisoner")
                               /\ skillArg[q].code = 1 /\ skillArg[q].b1 = p

\* isPlayerProtectedByMonk
Protected(p) == \E q \in Pids : /\ Is(q, "monk") /\ ~ Poisoned(q)
                                /\ skillArg[q].code = 1 /\ skillArg[q].b1 = p

Confused(p) == p \in isDrunk \/ Poisoned(p)

Crash == up' = FALSE /\ UNCHANGED <<at, gameStatus, people, skillArg, cursor, strike,
                                    isGameEnd, night, leaderless>>

\* A loop that waits for a player who does not exist never ends.
Hang == at' = "hung" /\ UNCHANGED <<up, gameStatus, people, skillArg, cursor, strike,
                                    isGameEnd, night, leaderless>>

\* killPlayer, also of somebody dead.
Killed(p) == /\ deathDate' = [deathDate EXCEPT ![p] = Today]
             /\ mute' = mute \ {p}

-----------------------------------------------------------------------------
(* Commands, any time: "kpc", which any player may send, and "set          *)
(* skillarg", which stores an uninitialised number.  What other characters *)
(* have there is not read.                                                 *)

Interactive == {"fortune_teller", "monk", "butler", "poisoner", "imp"}

SetSkillArg(p) ==
  /\ up /\ at \notin {"end", "hung"}
  /\ characterID[p] \in Interactive \cup {"ravenkeeper"}
  /\ \E a \in Args : skillArg' = [skillArg EXCEPT ![p] = a]
  /\ UNCHANGED <<up, at, gameStatus, people, cursor, strike, isGameEnd, night, leaderless>>

-----------------------------------------------------------------------------
(* Asking for arguments.                                                   *)

MustChoose(p) ==
  \/ IsNight /\ p \in Alive /\ characterID[p] \in Interactive
  \/ ~ IsNight /\ p \in Dead /\ characterID[p] = "ravenkeeper" /\ skillArg[p] = Nothing

Ask ==
  /\ up /\ at = "ask"
  /\ skillArg' = [p \in Pids |-> IF MustChoose(p) THEN Asked ELSE skillArg[p]]
  /\ at' = "wait"
  /\ night' = {}
  /\ UNCHANGED <<up, gameStatus, people, cursor, strike, isGameEnd, leaderless>>

\* Everybody has answered, or the time limit has run out, as it may at any
\* moment.
WaitOver ==
  /\ up /\ at = "wait"
  /\ at' = "use" /\ cursor' = 1
  /\ UNCHANGED <<up, gameStatus, people, skillArg, strike, isGameEnd, night, leaderless>>

-----------------------------------------------------------------------------
(* useSkill(p).  Whatever happens, it ends by overwriting skillArg.        *)

\* Characters without a player are passed over.
Calls == {k \in cursor .. Len(Order) : Holders(Order[k]) # {}}
FirstCall(k) == \A l \in Calls : k <= l

Returns(p, ret) ==
  /\ skillArg' = [skillArg EXCEPT ![p] = ret]
  /\ \E k \in Calls : FirstCall(k) /\ cursor' = k + 1
  /\ at' = "use" /\ strike' = NoStrike
  /\ UNCHANGED <<up, gameStatus, characterID, isDrunk, isGameEnd, leaderless>>

Unhurt == UNCHANGED <<deathDate, mute, night>>

Nobody(p) == Returns(p, Nothing) /\ Unhurt /\ UNCHANGED isSkillUsed

\* Characters the first-day skills look for, besides p.  A drunk counts as
\* a minion too.
Shown(p, c) ==
  LET others == Pids \ {p} IN
  CASE c = "washerwoman" -> {q \in others : \/ characterID[q] \in Townsfolk /\ q \notin isDrunk
                                            \/ characterID[q] = "spy"}
    [] c = "librarian"   -> {q \in others : characterID[q] \in Outsiders \/ q \in isDrunk}
    [] c = "investigator" -> {q \in others : characterID[q] \in Minions \cup {"recluse"}}

Suspected(p, c) ==
  IF c = "investigator"
  THEN {q \in Pids \ {p} : characterID[q] \in Minions \/ q \in isDrunk}
  ELSE Shown(p, c)

\* Washerwoman, librarian, investigator: a confused one picks any two living
\* players and may be asked again.
Learn(p, c) ==
  IF p \in Dead \/ p \in isSkillUsed \/ IsNight THEN Nobody(p)
  ELSE IF Confused(p)
  THEN IF Alive \subseteq {p} THEN Hang
       ELSE Returns(p, Told) /\ Unhurt /\ UNCHANGED isSkillUsed
  ELSE IF Suspected(p, c) # {} /\ Shown(p, c) = {} THEN Hang
  ELSE /\ isSkillUsed' = isSkillUsed \cup {p}
       /\ Returns(p, Told) /\ Unhurt

Chef(p) ==
  IF p \in Dead \/ p \in isSkillUsed \/ IsNight THEN Nobody(p)
  ELSE /\ isSkillUsed' = IF Confused(p) THEN isSkillUsed ELSE isSkillUsed \cup {p}
       /\ Returns(p, Told) /\ Unhurt

\* Poisoner, Butler and Monk: the choice is confirmed at night.
Choose(p) ==
  /\ Returns(p, IF p \in Alive /\ IsNight THEN Chosen(skillArg[p].b1) ELSE Nothing)
  /\ Unhurt /\ UNCHANGED isSkillUsed

\* Spy and Empath.
See(p) ==
  /\ Returns(p, IF p \in Alive /\ IsNight THEN Told ELSE Nothing)
  /\ Unhurt /\ UNCHANGED isSkillUsed

\* A pid outside the seats is dereferenced, unless the answer is made up.
FortuneTeller(p) ==
  IF p \in Alive /\ IsNight /\ ~ Confused(p) /\ ~ {skillArg[p].b1, skillArg[p].b2} \subseteq Pids
  THEN Crash
  ELSE See(p)

\* The third of today's deaths is written behind deathList[2].
DiedToday == {q \in Pids : deathDate[q] = Today}
Undertaker(p) ==
  \/ See(p)
  \/ p \in Alive /\ IsNight /\ Cardinality(DiedToday) > 2 /\ Crash

Ravenkeeper(p) ==
  IF p \in Alive \/ p \in isSkillUsed \/ IsNight THEN Nobody(p)
  ELSE IF ~ Confused(p) /\ skillArg[p].b1 \notin Pids THEN Crash
  ELSE /\ isSkillUsed' = isSkillUsed \cup {p}
       /\ Returns(p, Told) /\ Unhurt

-----------------------------------------------------------------------------
(* The Imp.  His choice is read first; then, one after the other, whether  *)
(* the victim is poisoned (con12), whether the Monk protects him (con13)   *)
(* and whether the Monk is poisoned (con14).  A substitute for the Mayor   *)
(* goes through the same three looks (con22 .. con24).                     *)

Soldier(q) == characterID[q] = "soldier"

\* con14 and con24.
MonkPoisoned == \E m \in Pids : Is(m, "monk") /\ Poisoned(m)

\* For a Soldier both he and the Monk must be poisoned.
Unguarded == IF Soldier(strike.target) THEN strike.poisoned /\ MonkPoisoned
             ELSE ~ strike.guarded \/ MonkPoisoned

\* Mutant: the Monk does not protect the substitute.
SubstituteAnyhow == Soldier(strike.target) => strike.poisoned

\* A Soldier must be poisoned, and not protected.
SubstituteUnguarded == IF Soldier(strike.target) THEN strike.poisoned /\ ~ strike.guarded
                       ELSE ~ strike.guarded \/ MonkPoisoned

\* Mutant: not the Mayor himself.
OtherSubstitutes(p) == {r \in Alive \ {p} : characterID[r] # "mayor"}

Substitutes(p) == Alive \ {p}

Aimed(p, q, quiet, substitute) ==
  [NoStrike EXCEPT !.imp = p, !.target = q, !.quiet = quiet, !.substitute = substitute]

\* b1 is not zero to kill nobody.  Who has not answered attacks player 0.
Attack(p) ==
  LET q == skillArg[p].b2 IN
  IF p \in Dead \/ ~ IsNight THEN Nobody(p)
  ELSE IF q \notin Pids THEN Crash
  ELSE /\ at' = "aim"
       /\ strike' = Aimed(p, q, skillArg[p].b1 # 0, FALSE)
       /\ UNCHANGED <<up, gameStatus, people, skillArg, cursor, isGameEnd, night, leaderless>>

\* The history field: somebody looked and the victim was not protected.
Exposed == strike.exposed \/ ~ Protected(strike.target)

LookForPoison ==
  /\ up /\ at = "aim"
  /\ strike' = [strike EXCEPT !.poisoned = Poisoned(strike.target), !.exposed = Exposed]
  /\ at' = "guard"
  /\ UNCHANGED <<up, gameStatus, people, skillArg, cursor, isGameEnd, night, leaderless>>

LookForMonk ==
  /\ up /\ at = "guard"
  /\ strike' = [strike EXCEPT !.guarded = Protected(strike.target), !.exposed = Exposed]
  /\ at' = "blow"
  /\ UNCHANGED <<up, gameStatus, people, skillArg, cursor, isGameEnd, night, leaderless>>

Kill(p, q) ==
  /\ Killed(q) /\ night' = night \cup {q}
  /\ Returns(p, Told) /\ UNCHANGED isSkillUsed

Spare(p) == Returns(p, Told) /\ Unhurt /\ UNCHANGED isSkillUsed

\* Mutant: the Mayor dies as well.
StrikeBoth(p, q) ==
  \E r \in Substitutes(p) :
     /\ at' = "aim" /\ strike' = Aimed(p, r, FALSE, TRUE)
     /\ Killed(q) /\ night' = night \cup {q}
     /\ UNCHANGED <<up, gameStatus, characterID, isDrunk, isSkillUsed, skillArg, cursor,
                    isGameEnd, leaderless>>

\* The Mayor is attacked: somebody else alive is drawn.
StrikeMayor(p, q) ==
  \/ Substitutes(p) = {} /\ Hang
  \/ \E r \in Substitutes(p) :
       /\ at' = "aim" /\ strike' = Aimed(p, r, FALSE, TRUE)
       /\ UNCHANGED <<up, gameStatus, people, skillArg, cursor, isGameEnd, night, leaderless>>

\* The last look, and what follows from the three.
Blow ==
  LET p == strike.imp
      q == strike.target IN
  /\ up /\ at = "blow"
  /\ IF strike.substitute THEN IF SubstituteUnguarded THEN Kill(p, q) ELSE Spare(p)
     ELSE IF strike.quiet \/ ~ Unguarded THEN Spare(p)
     ELSE IF characterID[q] = "mayor" THEN StrikeMayor(p, q)
     ELSE Kill(p, q)

-----------------------------------------------------------------------------

\* The case of useSkill's switch, by the character the player believes in.
Skill(p) ==
  LET c == characterID[p] IN
  CASE c \in {"washerwoman", "librarian", "investigator"} -> Learn(p, c)
    [] c = "chef" -> Chef(p)
    [] c \in {"poisoner", "butler", "monk"} -> Choose(p)
    [] c \in {"spy", "empath"} -> See(p)
    [] c = "fortune_teller" -> FortuneTeller(p)
    [] c = "undertaker" -> Undertaker(p)
    [] c = "ravenkeeper" -> Ravenkeeper(p)
    [] c = "imp" -> Attack(p)
    [] OTHER -> Nobody(p)

UseSkill ==
  /\ up /\ at = "use"
  /\ \E k \in Calls : FirstCall(k) /\ \E p \in Pids : Is(p, Order[k]) /\ Skill(p)

NightOver ==
  /\ up /\ at = "use" /\ Calls = {} /\ IsNight
  /\ gameStatus < LastStatus
  /\ gameStatus' = gameStatus + 1
  /\ at' = "ask"
  /\ UNCHANGED <<up, people, skillArg, cursor, strike, isGameEnd, night, leaderless>>

-----------------------------------------------------------------------------
(* The day (DayEffect), and the decision.                                  *)

Daybreak ==
  /\ up /\ at = "use" /\ Calls = {} /\ ~ IsNight
  /\ at' = "day"
  /\ UNCHANGED <<up, gameStatus, people, skillArg, cursor, strike, isGameEnd, night,
                 leaderless>>

InPlay(c) == \E p \in Pids : characterID[p] = c

\* A shot, or the nomination of the Virgin.
DayDeath(p) ==
  /\ up /\ at = "day"
  /\ \/ InPlay("slayer") /\ characterID[p] \in Evil
     \/ InPlay("virgin") /\ p \in Alive
  /\ Killed(p)
  /\ UNCHANGED <<up, at, gameStatus, characterID, isDrunk, isSkillUsed, skillArg,
                 cursor, strike, isGameEnd, night, leaderless>>

Execution ==
  /\ up /\ at = "day"
  /\ (\E p \in Pids : Killed(p)) \/ UNCHANGED <<deathDate, mute>>
  /\ at' = "decide"
  /\ UNCHANGED <<up, gameStatus, characterID, isDrunk, isSkillUsed, skillArg, cursor,
                 strike, isGameEnd, night, leaderless>>

\* The Scarlet Woman becomes an Imp, dead or alive as she is.
Succeeded == [p \in Pids |-> IF Is(p, "scarlet_woman") THEN "imp" ELSE characterID[p]]

\* Who may still vote.
VotableOf(side) == {p \in Pids \ (Dead \cap mute) : characterID[p] \in side}

EvilHasHalf == Cardinality(VotableOf(Evil)) >= Cardinality(VotableOf(Good))

\* The Imp is dead.  Without one to be found isPlayerDeath(-1) reads the
\* field before playerArray, and may then follow it.
Decapitated == IF Holders("imp") = {} THEN BOOLEAN
               ELSE {\E p \in Dead : Is(p, "imp")}

\* Mutant: the Scarlet Woman keeps the game going as long as she lives.
VerdictForEver(dies) == IF EvilHasHalf THEN 2 ELSE 0

\* isGameEnd: 1 when the good have won, 2 when the evil have.
Verdict(dies) == IF dies /\ Holders("scarlet_woman") = {} THEN 1
                 ELSE IF EvilHasHalf THEN 2 ELSE 0

LivingImp == \E p \in Alive \ isDrunk : characterID[p] = "imp"

Decide ==
  /\ up /\ at = "decide"
  /\ \E dies \in Decapitated :
       /\ characterID' = IF dies THEN Succeeded ELSE characterID
       /\ isGameEnd' = Verdict(dies)
  /\ leaderless' = IF LivingImp \/ Holders("imp") = {} THEN 0 ELSE leaderless + 1
  /\ IF isGameEnd' > 0
     THEN at' = "end" /\ UNCHANGED gameStatus
     ELSE at' = "ask" /\ gameStatus < LastStatus /\ gameStatus' = gameStatus + 1
  /\ UNCHANGED <<up, deathDate, mute, isDrunk, isSkillUsed, skillArg, cursor, strike, night>>

DecideFaults == up /\ at = "decide" /\ Holders("imp") = {} /\ Crash

-----------------------------------------------------------------------------

\* Characters, and what earlier rounds have left in the players' fields.
Init ==
  /\ up = TRUE /\ at = "ask" /\ gameStatus = 2
  /\ \E c \in Casts :
       /\ characterID = c.characterID
       /\ deathDate = [p \in Pids |-> IF p \in c.dead THEN 1 ELSE 0]
       /\ mute = c.mute /\ isDrunk = c.drunk /\ isSkillUsed = c.used
  /\ skillArg = [p \in Pids |-> Nothing]
  /\ cursor = 1 /\ strike = NoStrike /\ isGameEnd = 0 /\ night = {} /\ leaderless = 0

Next == \/ \E p \in Pids : SetSkillArg(p) \/ DayDeath(p)
        \/ Ask \/ WaitOver \/ UseSkill \/ LookForPoison \/ LookForMonk \/ Blow
        \/ NightOver \/ Daybreak \/ Execution \/ Decide \/ DecideFaults

Spec == Init /\ [][Next]_vars

-----------------------------------------------------------------------------
(* Properties.                                                             *)

\* Every variable keeps its type; deaths are dated by days.
TypeOK ==
  /\ up \in BOOLEAN
  /\ at \in {"ask", "wait", "use", "aim", "guard", "blow", "day", "decide", "end", "hung"}
  /\ gameStatus \in 2 .. LastStatus
  /\ characterID \in [Pids -> Characters]
  /\ deathDate \in [Pids -> 0 .. LastStatus \div 2]
  /\ mute \subseteq Pids /\ isDrunk \subseteq Pids /\ isSkillUsed \subseteq Pids
  /\ skillArg \in [Pids -> Arg]
  /\ cursor \in 1 .. Len(Order) + 1 /\ strike \in Strike
  /\ isGameEnd \in 0 .. 2 /\ leaderless \in Nat
  /\ night \subseteq Pids

\* At most one player dies in a night, whatever is chosen, poisoned and
\* changed between two skills, and although the Mayor's substitute is a kill
\* of its own - unless an earlier round left an Imp drunk, who then acts in
\* the Drunk's turn.
OneDeathPerNight == (\A p \in isDrunk : characterID[p] # "imp") => Cardinality(night) <= 1

\* Who dies at night was unprotected at one of the moments at which useSkill
\* looked, be it as the Imp's choice or as the Mayor's substitute, whatever
\* the Monk and the Poisoner send between the looks.
NightSparesProtected ==
  [][\A p \in night' \ night :
       p = strike.target /\ (strike.exposed \/ ~ Protected(p))]_vars

\* A demon's death is answered at the next decision but one at the latest,
\* also if the Scarlet Woman was dead already when she took over.  A demon
\* whom an earlier round left drunk is not found, and his death not seen.
DemonsDeathEndsGame == at = "ask" => leaderless <= 1

\* The search loops of useSkill end unless at most one player is alive, or
\* there is a drunk, whom the Investigator takes for a minion, and no minion.
HangsOnlyAlone ==
  at = "hung" => \/ Cardinality(Alive) <= 1
                 \/ isDrunk # {} /\ \A p \in Pids : characterID[p] \notin Minions

-----------------------------------------------------------------------------
(* What comments of the code promise and the code breaks.                  *)

\* Game.h:66: the Scarlet Woman becomes the demon when he dies.
ScarletReplacesDemon == isGameEnd = 1 => ~ LivingImp

=============================================================================
