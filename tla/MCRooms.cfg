SPECIFICATION Spec
CONSTANTS
  Conns = {c1, w1}
  WebConns = {w1}
  MAX_PLAYERS = 2
  MAX_GAMES = 1
  MAX_PLAYERS_PER_GAME = 2
  MaxStatus = 3
  MaxDrift = 1
  NULL = NULL
CHECK_DEADLOCK FALSE
CONSTRAINT Readable
INVARIANTS
  TypeOK
  KPSeatEmpty
PROPERTY
  PidsStable
