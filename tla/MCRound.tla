------------------------------ MODULE MCRound ------------------------------
(* Instances of Round for TLC.                                             *)
EXTENDS Round

Cast(names, deadThen, drunkThen) ==
  [characterID |-> [p \in Pids |-> names[p + 1]], dead |-> deadThen,
   mute |-> {}, drunk |-> drunkThen, used |-> {}]

\* First rounds: the Imp against Soldier, Mayor and Monk, with a Poisoner,
\* who can reach the Soldier and the Mayor, or the Soldier and the Monk;
\* the Scarlet Woman below and above the Imp, a Drunk who takes himself for a
\* Washerwoman, and those who learn something on the first day.
Casts1 == {Cast(<<"poisoner", "soldier", "imp", "mayor", "monk">>, {}, {}),
           Cast(<<"poisoner", "soldier", "imp", "monk", "chef">>, {}, {}),
           Cast(<<"scarlet_woman", "imp", "slayer", "ravenkeeper", "undertaker">>, {}, {}),
           Cast(<<"imp", "scarlet_woman", "virgin", "washerwoman", "butler">>, {}, {3}),
           Cast(<<"poisoner", "librarian", "investigator", "chef", "imp">>, {}, {})}

\* Later rounds, where somebody is still dead or drunk: the Imp; the only
\* one the Investigator could have shown.
Casts2 == {Cast(<<"poisoner", "fortune_teller", "imp", "spy", "empath">>, {3}, {2}),
           Cast(<<"imp", "investigator", "saint", "mayor", "slayer">>, {2}, {4})}

AnyRound == Casts1 \cup Casts2

Towards(targets) == {[code |-> 1, b1 |-> t, b2 |-> 0] : t \in targets}
                    \cup {[code |-> 1, b1 |-> 0, b2 |-> t] : t \in targets}

\* 5 is a free seat.
SomeArgs == Towards({1, 3}) \cup {[code |-> 1, b1 |-> 0, b2 |-> 5]}
=============================================================================
