\* Two threads and one page.
CONSTANTS
  t1 = t1
  t2 = t2
  p1 = p1
  p2 = p2
  p3 = p3
  None = None
  Threads = {t1, t2}
  Pages = {p1}
  NEntries = 3
  MaxPins = 1
  MaxCalls = 3
SYMMETRY Symmetry
SPECIFICATION Spec
INVARIANTS WriteExclusive
