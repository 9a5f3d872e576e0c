SPECIFICATION FairSpec
CONSTANTS
  DOOR_OPEN_TIME = 5
  Requests = {0, 1, 2, 257}
INVARIANTS
  TypeOK
  OpenIsLimited
PROPERTIES
  LocksInTime
