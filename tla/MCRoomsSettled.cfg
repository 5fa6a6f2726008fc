SPECIFICATION Spec
CONSTANTS
  Conns = {c1, c2, w1}
  WebConns = {w1}
  MAX_PLAYERS = 2
  MAX_GAMES = 2
  MAX_PLAYERS_PER_GAME = 2
  MaxStatus = 3
  MaxDrift = 0
  NULL = NULL
SYMMETRY Symmetry
CHECK_DEADLOCK FALSE
CONSTRAINT StillSettled
INVARIANTS
  RoomsStand
  SeatHolderIsMember
  MemberIsSeated
  OrderlyRunSurvives
PROPERTY
  ImplementsMembership
