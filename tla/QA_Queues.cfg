SPECIFICATION FairSpec
CONSTANTS
  a = a
  b = b
  c = c
  Node = {a, b, c}
  Peers <- MCPeers
  Protocols = {"teledata"}
  NumQubits = 1
  MaxTxQueue = 2
  QFail = TRUE
  CFail = FALSE
  Lossy = FALSE
  Stops = {}
  MaxMsg <- TwoAtA
INVARIANTS
  WorkConserving
  QubitLimit
PROPERTIES
  TeleSpec
  EveryOperationCompletes
CHECK_DEADLOCK FALSE
