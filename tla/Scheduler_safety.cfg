SPECIFICATION Spec
CONSTANTS
  Coros = {c1, c2}
  Threads = {t1, t2}
  SqEntries = 4
  Batch = 2
  MaxRuns = 1
  RingMayFail = TRUE
  LocalPosts = TRUE
SYMMETRY Symmetry
INVARIANT TypeOK
INVARIANT NoLostWakeup
INVARIANT HandleOwnedOnce
 
PROPERTY ImplementsExecutor
CHECK_DEADLOCK FALSE
