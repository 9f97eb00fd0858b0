SPECIFICATION FairSpec
CONSTANTS
  i1 = i1
  i2 = i2
  i3 = i3
  i4 = i4
  Item = {i1, i2, i3, i4}
  TimeOf <- MCTimeOf
  Built = {i2}
  Ages = {i1}
  MaxItems = 1
  w1 = w1
  w2 = w2
  c1 = c1
  s1 = s1
  Worker = {w1, w2}
  Client = {c1, s1}
  Strange = {s1}
INVARIANTS StaleIsCounted LockIsReleased
PROPERTIES RemovedLeaves SizeIsEnforced ImplementsDataset
CHECK_DEADLOCK FALSE
