SPECIFICATION Spec
CONSTANTS
  Unit = 5
  Skew <- MCSkew
  Settings = {}
  MaxReads = 7
  PacketProcessing = 1
  TxControl = 1
  ControlFrameGap = 0
  DataFrameGap = 0
  PacketDelay = 2
  TotalPropagation = 1
  OpticalProcessing = 0
  FibreDelay = 1
  R = 2
  D = 4
  ScheduleSize = 2
  QueueSize = 1
  Durations = {1, 2}
  MaxMessages = 2
  MaxAnswers = 1
  MaxTries = 2
  MaxTime = 11
INVARIANTS
  TypeOK
  LeadKept
  BurstsApart
  NoneCutOff
  OneCopyInFibre
  ErrorBounded
CHECK_DEADLOCK FALSE
