SPECIFICATION Spec
CONSTANTS
  TcpClients = {t1, t2}
  WebClients = {}
  Fds = {5}
  Ptrs = {p1}
  MAX_EVENTS = 2
  MAX_PLAYERS = 3
  MAX_CONNECTION_WEBSOCKET = 1
  ScanLength = 1
  NULL = NULL
CHECK_DEADLOCK FALSE
INVARIANT
  SenderIsFound
