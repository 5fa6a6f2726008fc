----------------------------- MODULE DayEffect -----------------------------
(***************************************************************************)
(* What a day may do to a room, whatever happens in its chat and poll      *)
(* phases.  Day implements this; the days of Round are made of it.         *)
(***************************************************************************)
EXTENDS Integers

CONSTANT PlayerNum

VARIABLES seated, characterID, dead, executed

vars == <<seated, characterID, dead, executed>>

NONE == -1
Pids == 0 .. PlayerNum - 1
Evil == {"minion", "poisoner", "imp"}
InPlay(c) == \E p \in Pids : characterID[p] = c

Dies(p) == p \in seated /\ dead' = dead \cup {p}

\* The Slayer shoots somebody evil, dead or alive, as often as he likes.
Shot(p) ==
  /\ InPlay("slayer") /\ characterID[p] \in Evil
  /\ Dies(p)
  /\ UNCHANGED <<seated, characterID, executed>>

\* Somebody alive nominates the Virgin.
Struck(p) ==
  /\ InPlay("virgin") /\ p \notin dead
  /\ Dies(p)
  /\ UNCHANGED <<seated, characterID, executed>>

\* A player leaves, and neither dies nor comes back.
Left(p) ==
  /\ seated' = seated \ {p}
  /\ UNCHANGED <<characterID, dead, executed>>

\* The execution ends the day.  Who has left cannot be killed any more.
Execution(p) ==
  /\ executed' = p
  /\ Dies(p) \/ (p \notin seated /\ UNCHANGED dead)
  /\ UNCHANGED <<seated, characterID>>

Init == /\ seated = Pids
        /\ dead \subseteq Pids
        /\ executed = NONE

Next == executed = NONE /\ \E p \in Pids : Shot(p) \/ Struck(p) \/ Left(p) \/ Execution(p)

Spec == Init /\ [][Next]_vars
=============================================================================
