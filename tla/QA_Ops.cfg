SPECIFICATION Spec
CONSTANTS
  a = a
  b = b
  c = c
  Node = {a, b, c}
  Peers <- MCPeers
  Protocols = {"teledata", "telegate"}
  NumQubits = 1
  MaxTxQueue = 2
  QFail = TRUE
  CFail = TRUE
  Lossy = FALSE
  Stops = {}
  MaxMsg <- OneEach
INVARIANTS
  TypeOK
  AssertionsHold
  SingleDriver
  NoOrphan
  NoZombie
  CleanAtRest
  AckReachesHolder
PROPERTIES
  TeleSpec
CHECK_DEADLOCK FALSE
