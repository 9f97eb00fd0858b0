SPECIFICATION Spec
CONSTANTS
  a1 = a1
  b1 = b1
  v1 = v1
  w1 = w1
  Metric = {a1, b1}
  Stored = {}
  Worker = {w1, v1}
  EntityOf <- MCEntityOf
  WorksFor <- MCWorksFor
  MinItems = 3
  AllowAppendData = TRUE
  SearchLeaks = TRUE
  AllowAppendOutlier = TRUE
  FlushSize = 2
  MaxWrites = 4
  MaxCrashes = 1
PROPERTIES BulkLoadIsComplete
CHECK_DEADLOCK FALSE
