\* Frames of two slots, filled one object at a time, until memory is out.
CONSTANTS
  t1 = t1
  t2 = t2
  l1 = l1
  None = None
  Threads = {t1, t2}
  Lists = {l1}
  FrameSlots = 2
  Batch = 1
  Room = 5
  MaxOps = 6
SYMMETRY Symmetry
SPECIFICATION Spec
CHECK_DEADLOCK FALSE
INVARIANTS ObjectsOnce FramesOnce FullBehind
PROPERTIES Implements
