\* Two threads at the right edge of a tree of three levels.
CONSTANTS
  t1 = t1
  t2 = t2
  None = None
  Threads <- Two
  Clients <- RightEdge
  LeafCap = 2
  NodeCap = 4
  MaxPages = 30
  SplitPoints <- Half
SPECIFICATION FairSpec
INVARIANTS FixesItsFence
