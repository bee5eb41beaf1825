SPECIFICATION Spec
CONSTANTS
  MaxWorkers = 4
  MaxPollers = 3
  Cpus = 2
INVARIANT PollersShared
INVARIANT SocketsClosed
INVARIANT EveryWorkerTold
INVARIANT OutlivesWorkers
PROPERTY StopEnds
CHECK_DEADLOCK FALSE
