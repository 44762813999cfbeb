\* Two threads fill an empty tree, or insert at the left edge of a tree of three levels.
CONSTANTS
  t1 = t1
  t2 = t2
  None = None
  Threads <- Two
  Clients <- FillAndLeft
  LeafCap = 2
  NodeCap = 3
  MaxPages = 30
  SplitPoints <- Half
SPECIFICATION FairSpec
INVARIANTS SearchAgreesWithScan LeafLinksMatch FencesPosted
PROPERTIES InsertsReturn Implements
