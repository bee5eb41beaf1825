SPECIFICATION Spec
CONSTANTS
  Conns = {c1, c2}
  Fds = {f1, f2}
  BufSlots = 1
  IdleSeconds = 3
  None = None
SYMMETRY Symmetry
INVARIANT ResourcesOwnedOnce
INVARIANT OpsOnOwnSocket
PROPERTY NoEarlyEviction
INVARIANT IdleIsEvicted
CHECK_DEADLOCK FALSE
