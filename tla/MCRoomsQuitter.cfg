SPECIFICATION Spec
CONSTANTS
  Conns = {c1, w1}
  WebConns = {w1}
  MAX_PLAYERS = 2
  MAX_GAMES = 1
  MAX_PLAYERS_PER_GAME = 3
  MaxStatus = 4
  MaxDrift = 0
  NULL = NULL
CHECK_DEADLOCK FALSE
PROPERTY
  QuitterCountsAsDead
