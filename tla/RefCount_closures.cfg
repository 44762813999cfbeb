CONSTANTS
  MaxCells = 7
  MaxPending = 2
SPECIFICATION Spec
CHECK_DEADLOCK FALSE
INVARIANT CapturedLives
