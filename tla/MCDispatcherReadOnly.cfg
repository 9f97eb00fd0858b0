SPECIFICATION FairSpec
CONSTANTS
  a1 = a1
  a2 = a2
  b1 = b1
  s1 = s1
  s2 = s2
  v1 = v1
  w1 = w1
  w2 = w2
  Metric = {a1,a2,b1,s1,s2}
  Stored = {s1, s2}
  Worker = {w1,w2,v1}
  EntityOf <- MCEntityOf
  WorksFor <- MCWorksFor
  MinItems = 3
  AllowAppendData = FALSE
  SearchLeaks = TRUE
  AllowAppendOutlier = FALSE
  FlushSize = 3
  MaxWrites = 3
  MaxCrashes = 0
INVARIANTS TypeOK
PROPERTIES EventuallySettled
CHECK_DEADLOCK FALSE
