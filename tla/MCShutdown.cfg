SPECIFICATION FairSpec
CONSTANTS
  a1 = a1
  r1 = r1
  w1 = w1
  w2 = w2
  Metric = {a1}
  Reloaded = {r1}
  Worker = {w1, w2}
  EntityOf <- MCEntityOf
  WorksFor <- MCWorksFor
  Outlier = {a1}
  Modes = {"COLLECT", "SCRAPE"}
  MaxStarts = 2
INVARIANTS TypeOK NoSendOnClosed NothingVanishes ScraperEndsFirst
CHECK_DEADLOCK FALSE
PROPERTIES Terminates ImplementsOutbox StoppedIsKept
