----------------------------- MODULE DeckProofs -----------------------------
(* Proofs about Deck, for every number of players, every shuffle, and any  *)
(* townsfolk that leave the margin of three: no card is dealt twice, the   *)
(* kinds are as in the table, and the Imp's characters are free.           *)
EXTENDS Deck, FiniteSetTheorems, TLAPS

USE DEF vars, cards, seats

-----------------------------------------------------------------------------
(* The table, and cardinalities.                                           *)

LEMMA Rows ==
  ASSUME NEW n \in 1 .. 15
  PROVE  LET row == NumberList[n] IN
         /\ row[1] \in 0 .. 1 /\ row[2] \in 0 .. 3 /\ row[3] \in 0 .. 2 /\ row[4] \in Nat
         /\ row[1] + row[2] + row[3] + row[4] = n
         /\ n > 5 => row[2] >= 1 /\ row[4] >= 3
<1>1. CASE n \in 1 .. 5
  BY <1>1 DEF NumberList
<1>2. CASE n \in 6 .. 10
  BY <1>2 DEF NumberList
<1>3. CASE n \in 11 .. 15
  BY <1>3 DEF NumberList
<1>4. QED
  BY <1>1, <1>2, <1>3

LEMMA CountFacts ==
  ASSUME NEW n \in PlayerNums, NEW b \in MayHaveBaron(n)
  PROVE  LET row == NumberList[n]
             c == Counts(n, b)
             two == IF b THEN 2 ELSE 0
             one == IF b THEN 1 ELSE 0 IN
         /\ c[1] = row[1] /\ c[2] = row[2] - one /\ c[3] = row[3] + two /\ c[4] = row[4] - two
         /\ c[1] \in 0 .. 1 /\ c[2] \in 0 .. 3 /\ c[3] \in Nat /\ c[4] \in Nat
         /\ c[4] + 3 <= Cardinality(Townsfolk)
         /\ n \in 1 .. 15 /\ b \in BOOLEAN /\ (b => n > 5)
<1>1. n \in 1 .. 15 /\ b \in BOOLEAN /\ (b => n > 5)
  <2>1. n \in 1 .. 15
    BY DeckAssumption
  <2>2. CASE n <= 5
    BY <2>1, <2>2 DEF MayHaveBaron
  <2>3. CASE n > 5
    BY <2>1, <2>3 DEF MayHaveBaron
  <2>4. QED
    BY <2>1, <2>2, <2>3
<1>2. NumberList[n][4] + 3 <= Cardinality(Townsfolk)
  BY MarginAssumption
<1>3. Cardinality(Townsfolk) \in Nat
  BY DeckAssumption, FS_CardinalityType
<1> DEFINE row == NumberList[n]
<1>4. /\ row[1] \in 0 .. 1 /\ row[2] \in 0 .. 3 /\ row[3] \in 0 .. 2 /\ row[4] \in Nat
      /\ n > 5 => row[2] >= 1 /\ row[4] >= 3
  BY <1>1, Rows
<1>5. CASE b
  <2>1. Counts(n, b) = <<row[1], row[2] - 1, row[3] + 2, row[4] - 2>>
    BY <1>5 DEF Counts
  <2> HIDE DEF row
  <2>2. /\ row[2] - 1 \in 0 .. 3 /\ row[3] + 2 \in Nat /\ row[4] - 2 \in Nat
        /\ row[4] - 2 + 3 <= Cardinality(Townsfolk)
    BY <1>1, <1>2, <1>3, <1>4, <1>5 DEF row
  <2> DEFINE c == Counts(n, b)
  <2>3. /\ c[1] = row[1] /\ c[2] = row[2] - 1
        /\ c[3] = row[3] + 2 /\ c[4] = row[4] - 2
    BY <2>1
  <2>4. row[1] \in 0 .. 1
    BY <1>4 DEF row
  <2> HIDE DEF c
  <2>5. QED
    BY <1>1, <1>5, <2>2, <2>3, <2>4 DEF row, c
<1>6. CASE ~ b
  <2>1. Counts(n, b) = row
    BY <1>6 DEF Counts
  <2> HIDE DEF row
  <2>2. /\ row[2] = row[2] - 0 /\ row[3] = row[3] + 0 /\ row[4] = row[4] - 0
        /\ row[3] \in Nat /\ row[4] + 3 <= Cardinality(Townsfolk)
    BY <1>2, <1>4 DEF row
  <2>3. QED
    BY <1>1, <1>4, <1>6, <2>1, <2>2 DEF row
<1>7. QED
  BY <1>5, <1>6

\* A prefix and an end of a list that is long enough share nothing.
LEMMA SplitsApart ==
  ASSUME NEW list, IsFiniteSet(list), NEW n \in Nat, NEW k \in Nat,
         n + k <= Cardinality(list), NEW d, NEW e, Splits(list, d, e, n, k)
  PROVE  d \cap e = {}
<1>1. IsFiniteSet(d) /\ IsFiniteSet(e) /\ IsFiniteSet(d \cap e)
  BY FS_Subset, FS_Intersection DEF Splits
<1>2. Cardinality(list) \in Nat /\ Cardinality(d \cap e) \in Nat
  BY <1>1, FS_CardinalityType
<1>3. Cardinality(d \cup e) = n + k - Cardinality(d \cap e)
  BY <1>1, FS_Union DEF Splits
<1>4. Cardinality(d \cup e) = n + k
  BY <1>2 DEF Splits, AtMost
<1>5. Cardinality(d \cap e) = 0
  BY <1>2, <1>3, <1>4
<1>6. QED
  BY <1>1, <1>5, FS_EmptySet

LEMMA KindsFinite ==
  /\ IsFiniteSet(Townsfolk) /\ IsFiniteSet(Outsiders) /\ IsFiniteSet(Minions)
  /\ IsFiniteSet({Imp}) /\ Cardinality({Imp}) = 1
BY DeckAssumption, FS_Singleton

LEMMA PartFinite ==
  ASSUME NEW K, IsFiniteSet(K), NEW h
  PROVE  IsFiniteSet(h \cap K) /\ Cardinality(h \cap K) \in Nat
BY FS_Intersection, FS_CardinalityType

LEMMA DisjointUnion ==
  ASSUME NEW S, NEW T, IsFiniteSet(S), IsFiniteSet(T), S \cap T = {}
  PROVE  /\ IsFiniteSet(S \cup T)
         /\ Cardinality(S \cup T) = Cardinality(S) + Cardinality(T)
         /\ Cardinality(S \cup T) \in Nat
<1>1. Cardinality(S \cup T) = Cardinality(S) + Cardinality(T) - Cardinality(S \cap T)
  BY FS_Union
<1>2. IsFiniteSet(S \cup T)
  BY FS_Union
<1>3. Cardinality(S) \in Nat /\ Cardinality(T) \in Nat /\ Cardinality(S \cap T) = 0
  BY FS_CardinalityType, FS_EmptySet
<1>4. QED
  BY <1>1, <1>2, <1>3

\* The cards of a hand are those of the four kinds.
LEMMA HandSum ==
  ASSUME NEW h \in SUBSET Cards
  PROVE  Cardinality(h) = Cardinality(h \cap {Imp}) + Cardinality(h \cap Minions)
                          + Cardinality(h \cap Outsiders) + Cardinality(h \cap Townsfolk)
<1> DEFINE a == h \cap {Imp}
           b == h \cap Minions
           c == h \cap Outsiders
           d == h \cap Townsfolk
<1>1. /\ IsFiniteSet(a) /\ IsFiniteSet(b) /\ IsFiniteSet(c) /\ IsFiniteSet(d)
      /\ Cardinality(a) \in Nat /\ Cardinality(b) \in Nat
      /\ Cardinality(c) \in Nat /\ Cardinality(d) \in Nat
  BY KindsFinite, PartFinite
<1>2. a \cap b = {} /\ (a \cup b) \cap c = {} /\ (a \cup b \cup c) \cap d = {}
  BY DeckAssumption
<1>3. h = a \cup b \cup c \cup d
  BY DEF Cards
<1> HIDE DEF a, b, c, d
<1>5. IsFiniteSet(a \cup b) /\ Cardinality(a \cup b) = Cardinality(a) + Cardinality(b)
  BY <1>1, <1>2, DisjointUnion
<1>6. /\ IsFiniteSet(a \cup b \cup c)
      /\ Cardinality(a \cup b \cup c) = Cardinality(a \cup b) + Cardinality(c)
  BY <1>1, <1>2, <1>5, DisjointUnion
<1>7. Cardinality(h) = Cardinality(a) + Cardinality(b) + Cardinality(c) + Cardinality(d)
  <2>1. Cardinality(a \cup b \cup c \cup d) = Cardinality(a \cup b \cup c) + Cardinality(d)
    BY <1>1, <1>2, <1>6, DisjointUnion
  <2>2. QED
    BY <1>3, <1>5, <1>6, <2>1
<1>8. QED
  BY <1>7 DEF a, b, c, d

-----------------------------------------------------------------------------
(* The invariant: before the Baron is seen to, the hand is as counted and  *)
(* the spare minion is not in it; afterwards it is as drawn.               *)

Held(h, k1, k2, k3, k4) ==
  /\ Cardinality(h \cap {Imp}) = k1
  /\ Cardinality(h \cap Minions) = k2
  /\ Cardinality(h \cap Outsiders) = k3
  /\ Cardinality(h \cap Townsfolk) = k4

AsCounted ==
  LET c == Counts(playerNum, existBaron) IN
  /\ Held(hand, c[1], c[2], c[3], c[4])
  /\ spare \in Minions \ hand

ThreeFree == bluffs \subseteq Townsfolk \ hand /\ Cardinality(bluffs) = 3

DeckInv ==
  /\ stage \in {"deal", "baron"} => demon = NONE
  /\ stage # "deal" => existBaron \in MayHaveBaron(playerNum) /\ ThreeFree
  /\ stage = "baron" => AsCounted
  /\ KindsAsDrawn /\ BaronBringsOutsiders
  /\ told # {} => stage = "done" /\ told = bluffs

LEMMA InitInv == Init => TypeOK /\ DeckInv
BY DeckAssumption DEF Init, TypeOK, DeckInv, KindsAsDrawn, BaronBringsOutsiders, Dealt

LEMMA DealInv ==
  ASSUME TypeOK, DeckInv, Deal
  PROVE  TypeOK' /\ DeckInv'
<1>1. PICK n \in PlayerNums : \E b \in MayHaveBaron(n) :
        /\ playerNum' = n /\ existBaron' = b
        /\ \E m \in SUBSET Minions, s \in Minions :
             /\ Splits(Minions, m, {s}, Counts(n, b)[2], 1)
             /\ spare' = s
             /\ \E o \in SUBSET Outsiders :
                  /\ Cardinality(o) = Counts(n, b)[3]
                  /\ \E t, e \in SUBSET Townsfolk :
                       /\ Splits(Townsfolk, t, e, Counts(n, b)[4], 3)
                       /\ bluffs' = e
                       /\ hand' = (IF Counts(n, b)[1] = 1 THEN {Imp} ELSE {})
                                  \cup m \cup o \cup t
  BY DEF Deal
<1>2. PICK b \in MayHaveBaron(n), m \in SUBSET Minions, o \in SUBSET Outsiders,
           t \in SUBSET Townsfolk :
        /\ playerNum' = n /\ existBaron' = b
        /\ spare' \in Minions /\ Splits(Minions, m, {spare'}, Counts(n, b)[2], 1)
        /\ Cardinality(o) = Counts(n, b)[3]
        /\ bluffs' \in SUBSET Townsfolk /\ Splits(Townsfolk, t, bluffs', Counts(n, b)[4], 3)
        /\ hand' = (IF Counts(n, b)[1] = 1 THEN {Imp} ELSE {}) \cup m \cup o \cup t
  BY <1>1
<1> DEFINE c == Counts(n, b)
           i == IF c[1] = 1 THEN {Imp} ELSE {}
<1>3. /\ c[1] \in 0 .. 1 /\ c[2] \in 0 .. 3 /\ c[4] \in Nat
      /\ c[4] + 3 <= Cardinality(Townsfolk) /\ b \in BOOLEAN
  BY CountFacts
<1>4. /\ stage = "deal" /\ stage' = "baron"
      /\ UNCHANGED <<garbage, demon, isDrunk, newCharacter, told>>
  BY DEF Deal
<1>5. spare' \notin m
  <2>1. c[2] + 1 <= Cardinality(Minions) /\ c[2] \in Nat
    BY <1>3, DeckAssumption
  <2>2. m \cap {spare'} = {}
    BY <1>2, <2>1, KindsFinite, SplitsApart
  <2>3. QED
    BY <2>2
<1>6. t \cap bluffs' = {}
  BY <1>2, <1>3, KindsFinite, SplitsApart
<1>7. /\ hand' \cap {Imp} = i /\ hand' \cap Minions = m
      /\ hand' \cap Outsiders = o /\ hand' \cap Townsfolk = t
  BY <1>2, DeckAssumption
<1>8. Cardinality(i) = c[1]
  BY <1>3, KindsFinite, FS_EmptySet
<1>9. Held(hand', c[1], c[2], c[3], c[4])
  BY <1>2, <1>7, <1>8 DEF Held, Splits
<1>10. AsCounted'
  BY <1>2, <1>5, <1>7, <1>9 DEF AsCounted
<1>11. ThreeFree'
  BY <1>2, <1>6, <1>7 DEF ThreeFree, Splits
<1>12. DeckInv'
  BY <1>2, <1>4, <1>10, <1>11 DEF DeckInv, KindsAsDrawn, BaronBringsOutsiders, Dealt
<1>13. hand' \subseteq Cards
  BY <1>2 DEF Cards
<1>14. QED
  BY <1>2, <1>3, <1>4, <1>12, <1>13 DEF TypeOK, DeckInv

\* One more minion, whichever it is.
LEMMA MinionAdded ==
  ASSUME NEW h \in SUBSET Cards, NEW x \in Minions \ h,
         NEW k1, NEW k2, NEW k3, NEW k4, Held(h, k1, k2, k3, k4)
  PROVE  Held(h \cup {x}, k1, k2 + 1, k3, k4) /\ h \cup {x} \subseteq Cards
<1>1. /\ (h \cup {x}) \cap {Imp} = h \cap {Imp}
      /\ (h \cup {x}) \cap Outsiders = h \cap Outsiders
      /\ (h \cup {x}) \cap Townsfolk = h \cap Townsfolk
      /\ (h \cup {x}) \cap Minions = (h \cap Minions) \cup {x}
  BY DeckAssumption
<1>2. IsFiniteSet(h \cap Minions) /\ x \notin h \cap Minions
  BY KindsFinite, PartFinite
<1>3. Cardinality((h \cap Minions) \cup {x}) = Cardinality(h \cap Minions) + 1
  BY <1>2, FS_AddElement
<1>4. h \cup {x} \subseteq Cards
  BY DEF Cards
<1>5. QED
  BY <1>1, <1>3, <1>4 DEF Held

LEMMA MinionRemoved ==
  ASSUME NEW h \in SUBSET Cards, NEW x \in Minions \cap h,
         NEW k1, NEW k2, NEW k3, NEW k4, Held(h, k1, k2, k3, k4)
  PROVE  Held(h \ {x}, k1, k2 - 1, k3, k4) /\ h \ {x} \subseteq Cards
<1>1. /\ (h \ {x}) \cap {Imp} = h \cap {Imp}
      /\ (h \ {x}) \cap Outsiders = h \cap Outsiders
      /\ (h \ {x}) \cap Townsfolk = h \cap Townsfolk
      /\ (h \ {x}) \cap Minions = (h \cap Minions) \ {x}
  BY DeckAssumption
<1>2. IsFiniteSet(h \cap Minions) /\ x \in h \cap Minions
  BY KindsFinite, PartFinite
<1>3. Cardinality((h \cap Minions) \ {x}) = Cardinality(h \cap Minions) - 1
  BY <1>2, FS_RemoveElement
<1>4. QED
  BY <1>1, <1>3 DEF Held

LEMMA AddBaronInv ==
  ASSUME TypeOK, DeckInv, AddBaron
  PROVE  TypeOK' /\ DeckInv'
<1>1. PICK g \in BOOLEAN :
        garbage' = g /\ hand' = hand \cup {LastCard(g \/ Baron \in hand)}
  BY DEF AddBaron
<1> DEFINE x == LastCard(g \/ Baron \in hand)
           c == Counts(playerNum, existBaron)
<1>2. /\ stage = "baron" /\ stage' = "seat" /\ existBaron = TRUE
      /\ UNCHANGED <<playerNum, existBaron, spare, bluffs, demon, isDrunk, newCharacter, told>>
  BY DEF AddBaron, TypeOK
<1>3. Held(hand, c[1], c[2], c[3], c[4]) /\ spare \in Minions \ hand /\ ThreeFree
  BY <1>2 DEF DeckInv, AsCounted
<1>4. x \in Minions \ hand
  BY <1>3, DeckAssumption DEF LastCard
<1>5. Held(hand', c[1], c[2] + 1, c[3], c[4]) /\ hand' \subseteq Cards
  BY <1>1, <1>3, <1>4, MinionAdded DEF TypeOK
<1>6. KindsAsDrawn'
  <2>1. existBaron \in MayHaveBaron(playerNum) /\ playerNum \in PlayerNums
    BY <1>2 DEF DeckInv, TypeOK
  <2>2. LET row == NumberList[playerNum] IN
        /\ c[1] = row[1] /\ c[2] + 1 = row[2] /\ c[3] = row[3] + 2 /\ c[4] = row[4] - 2
    <3> DEFINE row == NumberList[playerNum]
    <3>1. /\ c[1] = row[1] /\ c[2] = row[2] - 1 /\ c[3] = row[3] + 2 /\ c[4] = row[4] - 2
      BY <1>2, <2>1, CountFacts
    <3>2. row[2] \in 0 .. 3
      BY <2>1, Rows, DeckAssumption
    <3> HIDE DEF c, row
    <3>3. c[2] + 1 = row[2]
      BY <3>1, <3>2
    <3>4. QED
      BY <3>1, <3>3 DEF row
  <2>3. QED
    BY <1>2, <1>5, <2>2 DEF KindsAsDrawn, Held
<1>7. BaronBringsOutsiders'
  BY <1>1, <1>2 DEF BaronBringsOutsiders, LastCard
<1>8. ThreeFree'
  BY <1>1, <1>2, <1>3, <1>4, DeckAssumption DEF ThreeFree
<1>9. DeckInv'
  BY <1>2, <1>6, <1>7, <1>8 DEF DeckInv, MayHaveBaron
<1>10. QED
  BY <1>1, <1>2, <1>5, <1>9 DEF TypeOK

LEMMA RemoveBaronInv ==
  ASSUME TypeOK, DeckInv, RemoveBaron
  PROVE  TypeOK' /\ DeckInv'
<1> DEFINE c == Counts(playerNum, existBaron)
<1>1. /\ stage = "baron" /\ stage' = "seat" /\ existBaron = FALSE
      /\ hand' = Swapped /\ garbage' = FALSE
      /\ UNCHANGED <<playerNum, existBaron, spare, bluffs, demon, isDrunk, newCharacter, told>>
  BY DEF RemoveBaron, TypeOK
<1>2. Held(hand, c[1], c[2], c[3], c[4]) /\ spare \in Minions \ hand /\ ThreeFree
  BY <1>1 DEF DeckInv, AsCounted
<1>3. existBaron \in MayHaveBaron(playerNum) /\ playerNum \in PlayerNums
  BY <1>1 DEF DeckInv, TypeOK
<1>4. LET row == NumberList[playerNum] IN
      c[1] = row[1] /\ c[2] = row[2] /\ c[3] = row[3] + 0 /\ c[4] = row[4] - 0 /\ c[2] \in Nat
  <2> DEFINE row == NumberList[playerNum]
  <2>1. c = row
    BY <1>1 DEF Counts
  <2>2. row[2] \in 0 .. 3 /\ row[3] \in 0 .. 2 /\ row[4] \in Nat
    BY <1>3, Rows, DeckAssumption
  <2>3. QED
    BY <2>1, <2>2
<1>5. Held(hand', c[1], c[2], c[3], c[4]) /\ hand' \subseteq Cards /\ Baron \notin hand'
  <2>1. CASE Baron \in hand
    <3>1. /\ Held(hand \ {Baron}, c[1], c[2] - 1, c[3], c[4])
          /\ hand \ {Baron} \subseteq Cards
      BY <1>2, <2>1, MinionRemoved, DeckAssumption DEF TypeOK
    <3>2. spare \in Minions \ (hand \ {Baron})
      BY <1>2
    <3>3. /\ Held((hand \ {Baron}) \cup {spare}, c[1], c[2] - 1 + 1, c[3], c[4])
          /\ (hand \ {Baron}) \cup {spare} \subseteq Cards
      BY <3>1, <3>2, MinionAdded
    <3>4. c[2] - 1 + 1 = c[2]
      BY <1>4
    <3>5. Held((hand \ {Baron}) \cup {spare}, c[1], c[2], c[3], c[4])
      BY <3>3, <3>4 DEF Held
    <3>6. QED
      BY <1>1, <1>2, <2>1, <3>3, <3>5 DEF Swapped
  <2>2. CASE Baron \notin hand
    BY <1>1, <1>2, <2>2 DEF Swapped, TypeOK
  <2>3. QED
    BY <2>1, <2>2
<1>6. KindsAsDrawn'
  BY <1>1, <1>4, <1>5 DEF KindsAsDrawn, Held
<1>7. ThreeFree'
  BY <1>1, <1>2, DeckAssumption DEF ThreeFree, Swapped
<1>8. DeckInv'
  BY <1>1, <1>5, <1>6, <1>7 DEF DeckInv, BaronBringsOutsiders, MayHaveBaron
<1>9. QED
  BY <1>1, <1>5, <1>8 DEF TypeOK

\* Once the hand is dealt, what is left only reads it.
LEMMA SeatInv ==
  ASSUME TypeOK, DeckInv, SeatPlayers \/ TellDemon
  PROVE  TypeOK' /\ DeckInv'
<1>1. UNCHANGED cards /\ stage \in {"seat", "tell"} /\ stage' \in {"tell", "done"}
  BY DEF SeatPlayers, TellDemon
<1>2. KindsAsDrawn' /\ BaronBringsOutsiders' /\ ThreeFree'
  BY <1>1 DEF KindsAsDrawn, BaronBringsOutsiders, ThreeFree, Dealt, DeckInv
<1>3. playerNum \in 1 .. 15
  BY DeckAssumption DEF TypeOK
<1>4. CASE SeatPlayers
  <2>1. /\ demon' \in 0 .. playerNum - 1 \cup {NONE} /\ isDrunk' \subseteq 0 .. 14
        /\ newCharacter' \in Townsfolk \cup {NONE} /\ told' = told /\ stage' = "tell"
    <3>1. PICK d \in IF Imp \in hand THEN Pids ELSE {NONE} :
            /\ demon' = d
            /\ IF Drunk \in hand
               THEN /\ \E p \in Pids \ {d} : isDrunk' = isDrunk \cup {p}
                    /\ \E c \in Townsfolk : newCharacter' = c
               ELSE isDrunk' = isDrunk /\ newCharacter' = NONE
      BY <1>4 DEF SeatPlayers
    <3>2. Pids \subseteq 0 .. 14
      BY <1>3 DEF Pids
    <3>3. QED
      BY <1>4, <3>1, <3>2 DEF SeatPlayers, TypeOK, Pids
  <2>2. told = {} /\ stage = "seat"
    BY <1>4 DEF SeatPlayers, DeckInv
  <2>3. QED
    BY <1>1, <1>2, <2>1, <2>2 DEF TypeOK, DeckInv
<1>5. CASE TellDemon
  BY <1>1, <1>2, <1>5 DEF TellDemon, TypeOK, DeckInv
<1>6. QED
  BY <1>4, <1>5

LEMMA NextInv == TypeOK /\ DeckInv /\ [Next]_vars => TypeOK' /\ DeckInv'
<1> SUFFICES ASSUME TypeOK, DeckInv, [Next]_vars
             PROVE  TypeOK' /\ DeckInv'
  OBVIOUS
<1>1. CASE NextRound
  BY <1>1 DEF NextRound, TypeOK, DeckInv, KindsAsDrawn, BaronBringsOutsiders, Dealt
<1>2. CASE UNCHANGED vars
  BY <1>2 DEF TypeOK, DeckInv, KindsAsDrawn, BaronBringsOutsiders, ThreeFree, AsCounted,
              Held, Dealt
<1>3. QED
  BY <1>1, <1>2, DealInv, AddBaronInv, RemoveBaronInv, SeatInv DEF Next

LEMMA Invariance == Spec => [](TypeOK /\ DeckInv)
BY InitInv, NextInv, PTL DEF Spec

-----------------------------------------------------------------------------

\* The hand, the spare minion and the seats keep their types.
THEOREM TypeCorrect == Spec => []TypeOK
BY Invariance, PTL

\* Whichever cards were swapped, the kinds are those of the table, and two
\* townsfolk are two outsiders when a Baron was drawn.
THEOREM KindsAreAsDrawn == Spec => []KindsAsDrawn
<1>1. DeckInv => KindsAsDrawn
  BY DEF DeckInv
<1>2. QED
  BY <1>1, Invariance, PTL

\* With one to fifteen players, no card is dealt twice: there is one for
\* each player, also after a minion was put in for the Baron.
THEOREM EveryoneHasACard == Spec => []OneCardEach
<1>1. TypeOK /\ DeckInv => OneCardEach
  <2> SUFFICES ASSUME TypeOK, KindsAsDrawn, Dealt
               PROVE  Cardinality(hand) = playerNum
    BY DEF DeckInv, OneCardEach
  <2> DEFINE row == NumberList[playerNum]
             two == IF existBaron THEN 2 ELSE 0
  <2>1. /\ Cardinality(hand \cap {Imp}) = row[1]
        /\ Cardinality(hand \cap Minions) = row[2]
        /\ Cardinality(hand \cap Outsiders) = row[3] + two
        /\ Cardinality(hand \cap Townsfolk) = row[4] - two
    BY DEF KindsAsDrawn
  <2>2. /\ row[1] \in Int /\ row[2] \in Int /\ row[3] \in Int /\ row[4] \in Int
        /\ row[1] + row[2] + row[3] + row[4] = playerNum /\ two \in Int
    BY Rows, DeckAssumption DEF TypeOK
  <2>3. hand \in SUBSET Cards
    BY DEF TypeOK
  <2>4. Cardinality(hand) = row[1] + row[2] + (row[3] + two) + (row[4] - two)
    BY <2>1, <2>3, HandSum
  <2> HIDE DEF row, two
  <2>5. QED
    BY <2>2, <2>4
<1>2. QED
  BY <1>1, Invariance, PTL

\* The Baron is in play exactly when he was drawn, unless the slot that is
\* read before it is written held his number.
THEOREM BaronAsDrawn == Spec => []BaronBringsOutsiders
<1>1. DeckInv => BaronBringsOutsiders
  BY DEF DeckInv
<1>2. QED
  BY <1>1, Invariance, PTL

\* The three characters the Imp is told are in nobody's hand.
THEOREM BluffsStayFree == Spec => []BluffsAreFree
<1>1. DeckInv => BluffsAreFree
  BY DEF DeckInv, ThreeFree, BluffsAreFree
<1>2. QED
  BY <1>1, Invariance, PTL
=============================================================================
