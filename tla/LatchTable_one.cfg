\* One thread that pins up to three pages of one bucket at a time.
CONSTANTS
  t1 = t1
  t2 = t2
  p1 = p1
  p2 = p2
  p3 = p3
  None = None
  Threads = {t1}
  Pages = {p1, p2, p3}
  NEntries = 3
  MaxPins = 3
  MaxCalls = 5
SYMMETRY Symmetry
SPECIFICATION Spec
INVARIANTS ChainIsPinned
