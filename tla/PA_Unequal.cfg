SPECIFICATION PathSpec
CONSTANTS
  d1 = d1
  d2 = d2
  d3 = d3
  Dev <- MCDev
  Channel = {1}
  NoDev = NoDev
  R = 1
  D = 3
  ScheduleSize = 3
  Propagation = 1
  Id <- MCId
  Durations = {1}
  MaxTime = 10
  MaxAnnounced = 3
  FibreDelay <- Longer
  Length <- Short
  Lead = 3
  MaxAhead = 10
INVARIANTS
  SameDirectionApart
CHECK_DEADLOCK FALSE
