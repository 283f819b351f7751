SPECIFICATION FairSpec
CONSTANTS
  IdSpace = 2
  CanFill = TRUE
  Lossy = TRUE
  MaxMessages = 2
  MaxUnacked = 2
  MaxCopies = 1
INVARIANTS
  TypeOK
  AckedIsDelivered
  StillTried
PROPERTIES
  LinkSpec
  Served
CHECK_DEADLOCK FALSE
