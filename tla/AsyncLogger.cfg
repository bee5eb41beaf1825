SPECIFICATION FairSpec
CONSTANTS
  Threads = {t1, t2}
  Lines = {l1, l2, l3, l4}
  BufferLines = 1
  Backlog = 2
  MaxStarts = 2
  Racy = FALSE
  Null = Null
INVARIANT NoLineLost
INVARIANT SparesAtTop
PROPERTY StopFlushes
PROPERTY LineReachesDisk
CHECK_DEADLOCK FALSE
