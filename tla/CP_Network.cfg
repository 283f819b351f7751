SPECIFICATION Spec
CONSTANTS
  m1 = m1
  m2 = m2
  m3 = m3
  NodesPerSwitch = 2
  ClusterSize = 2
  NumClusters = 2
  Message <- MCMessage
  Device <- MCDevice
  Path <- MCPath
  Back <- MCBack
  Delay <- MCDelay
  Reach <- MCReach
  Return <- MCReturn
  Tx = 14
  Length = 30
  Processing = 350
  OpticalProcessing = 350
  Gap = 5
  DataGap = 5
  Propagation = 2
  TotalPropagation = 36
  PacketDelay = 2214
  QueueSize = 1
  Refusing = TRUE
  SendTimes = {0, 100, 700}
INVARIANTS
  LateOnlyIfWaited
  RetryOnlyIfWaited
CHECK_DEADLOCK FALSE
