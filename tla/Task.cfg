SPECIFICATION Spec
CONSTANTS
  Frames = {f1, f2, f3, f4, f5, f6}
  Loop = Loop
  Noop = Noop
SYMMETRY Symmetry
INVARIANT HandlesLive
INVARIANT AwaitersServed
INVARIANT FramesFreed
INVARIANT StackFlat
CHECK_DEADLOCK FALSE
