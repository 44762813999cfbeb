\* Two threads with a transaction each, of at most one frame of steps.
CONSTANTS
  t1 = t1
  t2 = t2
  l0 = l0
  l1 = l1
  l2 = l2
  None = None
  Threads = {t1, t2}
  Lists = {l0, l1, l2}
  StepList = l0
  TxnFrame <- TwoFrames
  FrameSlots = 2
  Batch = 2
  Room = 20
  MaxOps = 0
  MaxSteps = 2
  MaxTxns = 1
SPECIFICATION TxnFair
INVARIANTS StepsOnce StepsReturned
PROPERTIES TxnsEnd
