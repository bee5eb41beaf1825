SPECIFICATION Spec
CONSTANTS
  RollSize = 1
  FlushInterval = 1
  CheckEveryN = 2
  Day = 3
  Lengths = {0, 1, 2}
  MaxTime = 4
  MaxLines = 4
INVARIANT NameReuseNeedsSetBack
INVARIANT OutgrownOnlyBehind
INVARIANT UpkeepInTime
PROPERTY ImplementsSink
CHECK_DEADLOCK FALSE
