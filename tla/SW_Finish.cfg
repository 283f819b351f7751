SPECIFICATION Spec
CONSTANTS
  Dev = {d1, d2, d3}
  Channel = {1}
  NoDev = NoDev
  R = 1
  D = 6
  ScheduleSize = 1
  Propagation = 0
  Id = {i1, i2}
  Durations = {2}
  MaxTime = 7
  MaxAnnounced = 3
SYMMETRY Symmetry
INVARIANTS
  BookedOnce
CHECK_DEADLOCK FALSE
