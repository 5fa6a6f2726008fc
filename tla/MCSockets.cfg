SPECIFICATION Spec
CONSTANTS
  TcpClients = {t1, t2, t3}
  WebClients = {w1, w2}
  Fds = {1, 2, 3}
  Ptrs = {p1}
  MAX_EVENTS = 2
  MAX_PLAYERS = 3
  MAX_CONNECTION_WEBSOCKET = 2
  ScanLength = 1
  NULL = NULL
SYMMETRY Symmetry
CHECK_DEADLOCK FALSE
INVARIANTS
  TypeOK
  SlotsMatchDescriptors
  HeardAsItself
  WebHeardAsItself
  OrphansWereCut
  ServedUnlessRaced
  SilentIsClosed
