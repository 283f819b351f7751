SPECIFICATION PathSpec
CONSTANTS
  d1 = d1
  d2 = d2
  d3 = d3
  Dev <- MCDev
  Channel = {1}
  NoDev = NoDev
  R = 1
  D = 5
  ScheduleSize = 2
  Propagation = 1
  Id <- MCId
  Durations = {1, 3}
  MaxTime = 9
  MaxAnnounced = 3
  FibreDelay <- Alike
  Length <- Mixed
  Lead = 1
  MaxAhead = 3
INVARIANTS
  BookedApart
  WithinSlot
  PathTypeOK
  SameDirectionApart
  OnlyTailsMeet
PROPERTIES
  RouteHonoured
  SwitchMarksTails
CHECK_DEADLOCK FALSE
