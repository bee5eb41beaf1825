SPECIFICATION FairSpec
CONSTANTS
  MaxTimers = 3
  MaxTime = 2
  Delays = {0, 1, 2}
  SqMayBeFull = TRUE
INVARIANT TypeOK
INVARIANT NoLostTimer
INVARIANT TimerOwnedOnce
INVARIANT NoTimerForgotten
PROPERTY CancelledNotCalled
PROPERTY DueTimerRuns
CHECK_DEADLOCK FALSE
