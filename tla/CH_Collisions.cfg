SPECIFICATION Spec
CONSTANTS
  Packet = {p1, p2, p3, p4}
  Spoilt = {p4}
  Channel = {c1, c2}
  Endpoint = {1}
SYMMETRY Symmetry
INVARIANTS
  TypeOK
  FinishFindsPacket
  CollisionExact
  VerdictFinal
CHECK_DEADLOCK FALSE
