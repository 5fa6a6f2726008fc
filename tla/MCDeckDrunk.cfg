SPECIFICATION Spec
CONSTANTS
  Townsfolk = {w, f, e, m, s, v}
  Outsiders = {butler, drunk, recluse, saint}
  Minions = {poisoner, spy, scarlet, baron}
  Imp = imp
  Baron = baron
  Drunk = drunk
  PlayerNums = {5, 6}
  NONE = NONE
SYMMETRY Symmetry
CONSTRAINT FewDrunks
INVARIANT
  ImpIsFound
