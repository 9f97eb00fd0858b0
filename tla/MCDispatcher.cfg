SPECIFICATION Spec
CONSTANTS
  a1 = a1
  a2 = a2
  a3 = a3
  b1 = b1
  s1 = s1
  s2 = s2
  v1 = v1
  w1 = w1
  w2 = w2
  Metric = {a1, a2, a3, s1, s2}
  Stored = {s1, s2}
  Worker = {w1, w2}
  EntityOf <- MCEntityOf
  WorksFor <- MCWorksFor
  MinItems = 3
  AllowAppendData = TRUE
  SearchLeaks = FALSE
  AllowAppendOutlier = TRUE
  FlushSize = 2
  MaxWrites = 4
  MaxCrashes = 1
INVARIANTS OnceUntilStop DatasetIsStored WarmUpIsBounded StoredIsFinished
CHECK_DEADLOCK FALSE
