SPECIFICATION FairSpec
CONSTANTS
  Coros = {c1}
  Threads = {t1, t2}
  SqEntries = 4
  Batch = 1
  MaxRuns = 1
  RingMayFail = FALSE
  LocalPosts = FALSE
CHECK_DEADLOCK FALSE
PROPERTY PostedIsServed
PROPERTY StopEndsLoop
