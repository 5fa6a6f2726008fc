-------------------------------- MODULE Deck --------------------------------
(***************************************************************************)
(* The cards of a round: Game::AssignCharacters, which the room's thread   *)
(* runs at the start of every round.                                       *)
(*                                                                         *)
(* The code shuffles one list per kind of character and takes a prefix of  *)
(* each.  What matters of a shuffled list is which cards are in that       *)
(* prefix and which are at its end, where the code looks for cards that    *)
(* were not dealt.  A hand is a set: a card dealt twice shows as a hand    *)
(* that is too small.  Of the seats only those of the Imp and of the Drunk *)
(* matter; the other cards go to the other players.  Rounds follow each    *)
(* other, and isDrunk is the one field that is set and never cleared.      *)
(***************************************************************************)
EXTENDS Integers, FiniteSets

CONSTANTS
  Townsfolk, Outsiders, Minions,   \* the cards of each kind
  Imp,                             \* the demon's only card
  Baron, Drunk,                    \* a minion and an outsider
  PlayerNums,                      \* numbers of players a round may have
  NONE

VARIABLES
  stage,       \* the next step of AssignCharacters
  playerNum,
  existBaron,  \* local existBaron, as first drawn
  hand,        \* the cards in tmpCharactersList
  spare,       \* MinionsList[TOTAL_MINIONS_NUM-1]
  bluffs,      \* the last three of TownsfolkList
  demon,       \* who has the Imp
  isDrunk,     \* players with isDrunk
  newCharacter,\* what the Drunk believes to be
  told,        \* what the Imp's skillArgSP says
  garbage      \* history: the slot read before it is written held the Baron

cards == <<playerNum, existBaron, hand, spare, bluffs, garbage>>
seats == <<demon, isDrunk, newCharacter, told>>
vars  == <<stage, cards, seats>>

ASSUME DeckAssumption ==
  /\ IsFiniteSet(Townsfolk)
  /\ IsFiniteSet(Outsiders) /\ Cardinality(Outsiders) = 4
  /\ IsFiniteSet(Minions)   /\ Cardinality(Minions) = 4
  /\ Baron \in Minions /\ Drunk \in Outsiders
  /\ Townsfolk \cap Outsiders = {} /\ Townsfolk \cap Minions = {}
  /\ Outsiders \cap Minions = {}
  /\ Imp \notin Townsfolk \cup Outsiders \cup Minions
  /\ NONE \notin Townsfolk \cup Minions \cup Nat
  /\ PlayerNums \subseteq 1 .. 15

Cards == {Imp} \cup Minions \cup Outsiders \cup Townsfolk

\* Mutant: one player too many.
PidsTooMany == 0 .. playerNum

Pids == 0 .. playerNum - 1

\* numberList: demons, minions, outsiders, townsfolk by number of players.
NumberList ==
  << <<0, 0, 0, 1>>, <<1, 0, 0, 1>>, <<1, 0, 0, 2>>, <<1, 0, 0, 3>>, <<1, 1, 1, 2>>,
     <<1, 1, 1, 3>>, <<1, 1, 0, 5>>, <<1, 1, 1, 5>>, <<1, 1, 2, 5>>, <<1, 2, 0, 7>>,
     <<1, 2, 1, 7>>, <<1, 2, 2, 7>>, <<1, 3, 0, 9>>, <<1, 3, 1, 9>>, <<1, 3, 2, 9>> >>

\* The lists are long enough: of TownsfolkList, whatever is dealt, three
\* cards are left.
ASSUME MarginAssumption ==
  \A n \in PlayerNums : NumberList[n][4] + 3 <= Cardinality(Townsfolk)

\* Mutant: the two outsiders replace one townsfolk only.
CountsUneven(n, b) ==
  LET row == NumberList[n] IN
  IF b THEN <<row[1], row[2] - 1, row[3] + 2, row[4] - 1>> ELSE row

\* How many cards of each kind are taken.
Counts(n, b) ==
  LET row == NumberList[n] IN
  IF b THEN <<row[1], row[2] - 1, row[3] + 2, row[4] - 2>> ELSE row

AtMost(m, n) == IF m <= n THEN m ELSE n

\* Mutant: the end of the list may reach into the cards dealt.
SplitsAnyhow(list, dealt, end, n, k) ==
  dealt \subseteq list /\ Cardinality(dealt) = n /\ end \subseteq list /\ Cardinality(end) = k

\* Some order of list has dealt as its first n cards and end as its last k.
Splits(list, dealt, end, n, k) ==
  /\ dealt \subseteq list /\ Cardinality(dealt) = n
  /\ end \subseteq list   /\ Cardinality(end) = k
  /\ Cardinality(dealt \cup end) = AtMost(Cardinality(list), n + k)

-----------------------------------------------------------------------------

\* With few players there is no Baron.
MayHaveBaron(n) == IF n <= 5 THEN {FALSE} ELSE BOOLEAN

Deal ==
  /\ stage = "deal"
  /\ \E n \in PlayerNums : \E b \in MayHaveBaron(n) :
       /\ playerNum' = n /\ existBaron' = b
       /\ \E m \in SUBSET Minions, s \in Minions :
            /\ Splits(Minions, m, {s}, Counts(n, b)[2], 1)
            /\ spare' = s
            /\ \E o \in SUBSET Outsiders :
                 /\ Cardinality(o) = Counts(n, b)[3]
                 /\ \E t, e \in SUBSET Townsfolk :
                      /\ Splits(Townsfolk, t, e, Counts(n, b)[4], 3)
                      /\ bluffs' = e
                      /\ hand' = (IF Counts(n, b)[1] = 1 THEN {Imp} ELSE {})
                                 \cup m \cup o \cup t
  /\ stage' = "baron"
  /\ UNCHANGED <<garbage, seats>>

\* The search for the Baron includes the last slot, not written so far.
LastCard(found) == IF found THEN spare ELSE Baron

AddBaron ==
  /\ stage = "baron" /\ existBaron
  /\ \E g \in BOOLEAN :
       /\ garbage' = g
       /\ hand' = hand \cup {LastCard(g \/ Baron \in hand)}
  /\ stage' = "seat"
  /\ UNCHANGED <<playerNum, existBaron, spare, bluffs, seats>>

\* Mutant: the Baron stays although the outsiders were not added.
Unswapped == hand

\* Mutant: nothing is put in for the Baron.
OnlyRemoved == hand \ {Baron}

Swapped == IF Baron \in hand THEN (hand \ {Baron}) \cup {spare} ELSE hand

RemoveBaron ==
  /\ stage = "baron" /\ ~ existBaron
  /\ hand' = Swapped
  /\ garbage' = FALSE
  /\ stage' = "seat"
  /\ UNCHANGED <<playerNum, existBaron, spare, bluffs, seats>>

\* The shuffle of the hand; the Drunk is given another card.
SeatPlayers ==
  /\ stage = "seat"
  /\ \E d \in IF Imp \in hand THEN Pids ELSE {NONE} :
       /\ demon' = d
       /\ IF Drunk \in hand
          THEN /\ \E p \in Pids \ {d} : isDrunk' = isDrunk \cup {p}
               /\ \E c \in Townsfolk : newCharacter' = c
          ELSE isDrunk' = isDrunk /\ newCharacter' = NONE
  /\ stage' = "tell"
  /\ UNCHANGED <<cards, told>>

TellDemon ==
  /\ stage = "tell"
  /\ told' = IF demon = NONE THEN told ELSE bluffs
  /\ stage' = "done"
  /\ UNCHANGED <<cards, demon, isDrunk, newCharacter>>

\* A round is played, and the room's thread deals again.
NextRound ==
  /\ stage = "done"
  /\ stage' = "deal" /\ hand' = {} /\ spare' = NONE /\ bluffs' = {} /\ garbage' = FALSE
  /\ demon' = NONE /\ newCharacter' = NONE /\ told' = {}
  /\ existBaron' = FALSE
  /\ UNCHANGED <<playerNum, isDrunk>>

Init ==
  /\ stage = "deal" /\ playerNum \in PlayerNums /\ existBaron = FALSE
  /\ hand = {} /\ spare = NONE /\ bluffs = {} /\ garbage = FALSE
  /\ demon = NONE /\ isDrunk = {} /\ newCharacter = NONE /\ told = {}

Next == Deal \/ AddBaron \/ RemoveBaron \/ SeatPlayers \/ TellDemon \/ NextRound

Spec == Init /\ [][Next]_vars

-----------------------------------------------------------------------------
(* Properties.                                                             *)

Dealt == stage \in {"seat", "tell", "done"}

\* Every variable keeps its type, and the Imp has the seat of a player.
TypeOK ==
  /\ stage \in {"deal", "baron", "seat", "tell", "done"}
  /\ playerNum \in PlayerNums /\ existBaron \in BOOLEAN /\ garbage \in BOOLEAN
  /\ hand \subseteq Cards
  /\ spare \in Minions \cup {NONE}
  /\ bluffs \subseteq Townsfolk /\ told \subseteq Townsfolk
  /\ demon \in 0 .. playerNum - 1 \cup {NONE} /\ isDrunk \subseteq 0 .. 14
  /\ newCharacter \in Townsfolk \cup {NONE}

\* No card is dealt twice: the card that is put in for a Baron, or for one
\* that was missing, is never in the hand already, and with it there is one
\* for each player.
OneCardEach == Dealt => Cardinality(hand) = playerNum

\* The balance of the kinds is that of the table, whichever cards were
\* swapped: one demon, its minions, and two townsfolk less for two outsiders
\* more when a Baron was drawn.
KindsAsDrawn ==
  Dealt => LET row == NumberList[playerNum]
               two == IF existBaron THEN 2 ELSE 0 IN
           /\ Cardinality(hand \cap {Imp}) = row[1]
           /\ Cardinality(hand \cap Minions) = row[2]
           /\ Cardinality(hand \cap Outsiders) = row[3] + two
           /\ Cardinality(hand \cap Townsfolk) = row[4] - two

\* There are two more outsiders exactly when the Baron is in play, unless the
\* slot that is read before it is written happened to hold his number, as
\* an earlier round may leave it.
BaronBringsOutsiders == Dealt /\ ~ garbage => (Baron \in hand <=> existBaron)

\* The three characters the Imp is told are in nobody's hand, in every round
\* of whatever size.  (The Drunk may believe to be one of them.)
BluffsAreFree == told # {} => Cardinality(told) = 3 /\ told \cap hand = {}

-----------------------------------------------------------------------------
(* What comments of the code promise and the code breaks.                  *)

\* Game.cpp:68: findPlayerByCharacter finds the player who has a character.
\* It passes over players with isDrunk.
ImpIsFound == Dealt /\ demon # NONE => demon \notin isDrunk
=============================================================================
