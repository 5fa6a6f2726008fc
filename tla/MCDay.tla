------------------------------- MODULE MCDay -------------------------------
(* Instances of Day for TLC: mornings of a room of three.                  *)
EXTENDS Day

Morning(a, b, c, deadThen, muteThen) ==
  [characterID |-> [p \in 0 .. 2 |-> CASE p = 0 -> a [] p = 1 -> b [] p = 2 -> c],
   dead |-> deadThen, mute |-> muteThen]

\* A dead player who has a vote, one who has none, and the Virgin among the
\* living.
VoteMornings == {Morning("townsfolk", "imp", "townsfolk", {0}, {}),
                 Morning("townsfolk", "imp", "townsfolk", {0}, {0}),
                 Morning("imp", "townsfolk", "virgin", {}, {})}

\* The Butler above and below the others.
ButlerMornings == {Morning("imp", "townsfolk", "butler", {}, {}),
                   Morning("butler", "imp", "townsfolk", {}, {})}

Pair(a, b) == [characterID |-> [p \in 0 .. 1 |-> IF p = 0 THEN a ELSE b],
               dead |-> {}, mute |-> {}]

\* Who may shoot, nominate the Virgin, and poison the Slayer, in rooms of two.
ShotMornings == {Pair("slayer", "imp"), Pair("poisoner", "slayer"),
                 Pair("slayer", "virgin")}
=============================================================================
