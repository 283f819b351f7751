SPECIFICATION Spec
CONSTANTS
  a = a
  b = b
  c = c
  Node = {a, b, c}
  Peers <- MCPeers
  Protocols = {"teledata", "telegate"}
  NumQubits = 2
  MaxTxQueue = 2
  QFail = FALSE
  CFail = FALSE
  Lossy = FALSE
  Stops = {}
  MaxMsg <- TwoAtA
INVARIANTS
  ItemFound
CHECK_DEADLOCK FALSE
