SPECIFICATION SubmitSpec
CONSTANTS
  Workers = {w1, w2}
  Clients = {s1, s2}
  Jobs = {j1, j2}
  Nobody = Nobody
  MaxStarts = 2
INVARIANT JobHeldOnce
INVARIANT NoForgottenJob
INVARIANT AwaiterAlive
INVARIANT PostsToLive
PROPERTY StopDrains
PROPERTY Answered
CHECK_DEADLOCK FALSE
