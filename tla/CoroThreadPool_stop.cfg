SPECIFICATION FairSpec
CONSTANTS
  Workers = {w1, w2}
  Clients = {c1}
  Jobs = {j1}
  Nobody = Nobody
  MaxStarts = 1
CHECK_DEADLOCK FALSE
PROPERTY StopReturns
