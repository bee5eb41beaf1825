SPECIFICATION FairSpec
CONSTANTS
  Coros = {c1}
  Threads = {t1}
  SqEntries = 4
  Batch = 2
  MaxRuns = 1
  RingMayFail = FALSE
  LocalPosts = FALSE
PROPERTY StopIsHonoured
CHECK_DEADLOCK FALSE
