SPECIFICATION Spec
CONSTANTS
  a = a
  b = b
  c = c
  Node = {a, b, c}
  Peers <- MCPeers
  Protocols = {"teledata", "telegate"}
  NumQubits = 1
  MaxTxQueue = 2
  QFail = FALSE
  CFail = FALSE
  Lossy = TRUE
  Stops = {b}
  MaxMsg <- OneEach
INVARIANTS
  AssertionsHold
CHECK_DEADLOCK FALSE
