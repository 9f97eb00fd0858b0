SPECIFICATION FairSpec
CONSTANTS
  m1 = m1
  m2 = m2
  m3 = m3
  Metric <- MCMetric
  EntityOf <- MCEntityOf
  CreatedAt <- MCCreatedAt
  MaxItemsStored = 1
  MaxStorageTime = 1
  MaxFaults = 1
  MaxNow = 3
PROPERTIES OnlyProcessedDeleted KeepsNewest DeletesOnlyOutdated LimitsEnforced
CHECK_DEADLOCK FALSE
