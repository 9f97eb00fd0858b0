SPECIFICATION FairSpec
CONSTANTS
  Value = {m1, m2}
  MaxSends = 4
INVARIANTS NothingLost
PROPERTIES ImplementsFIFO DeliversAll SenderNotBlocked
CHECK_DEADLOCK FALSE
