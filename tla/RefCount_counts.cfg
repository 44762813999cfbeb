CONSTANTS
  MaxCells = 5
  MaxPending = 2
SPECIFICATION Spec
CHECK_DEADLOCK FALSE
INVARIANTS CountsExact NothingDangles FramesRun
