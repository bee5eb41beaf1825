SPECIFICATION Spec
CONSTANTS
  Threads = {t1, t2}
  Lines = {l1, l2}
  BufferLines = 1
  Backlog = 2
  MaxStarts = 1
  Racy = TRUE
  Null = Null
SYMMETRY Symmetry
INVARIANT AppendIsSafe
CHECK_DEADLOCK FALSE
