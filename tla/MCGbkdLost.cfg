SPECIFICATION Spec
CONSTANTS
  i1 = i1
  i2 = i2
  i3 = i3
  i4 = i4
  Item = {i1, i2, i3, i4}
  TimeOf <- MCTimeOf
  Built = {i2}
  Ages = {i1}
  MaxItems = 1
  w1 = w1
  c1 = c1
  Worker = {w1}
  Client = {c1}
  Strange = {}
INVARIANT RetainedIsSearched
CHECK_DEADLOCK FALSE
