------------------------------- MODULE MCDeck -------------------------------
(* Instance of Deck for TLC.  Townsfolk differ only in their identity.      *)
EXTENDS Deck, TLC

Symmetry == Permutations(Townsfolk)

\* Bound: rounds are dealt until a third player has isDrunk.
FewDrunks == Cardinality(isDrunk) <= 2
=============================================================================
