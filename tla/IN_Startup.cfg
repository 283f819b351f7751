SPECIFICATION Spec
CONSTANTS
  a = a
  b = b
  s = s
  Node = {a, b, s}
  Links <- MCLinks
  Endpoints = {a, b}
  ReconfigureTime = 1
  SlotDuration = 2
  ScheduleSize = 3
  MaxDelay = 2
  MaxDrift = 1
  MaxTime = 6
INVARIANTS
  TypeOK
  RoutesLead
  InStep
CHECK_DEADLOCK FALSE
