SPECIFICATION Spec
CONSTANTS
  MaxItems = 4
  MaxStorageTime = 1
  KNum = 3
  SkipItems = 2
  MaxNow = 3
  MaxAppends = 6
  Vec <- MCVec
  Query <- MCQuery
INVARIANTS TypeOK InTimeOrder NearestFound LofVerdict
PROPERTIES OldestGo
CHECK_DEADLOCK FALSE
