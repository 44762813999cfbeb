\* Three threads: a holder and two contenders, or a group of readers and a writer.
CONSTANT Threads = {t1, t2, t3}
SPECIFICATION FairSpec
INVARIANTS MutualExclusion WaiterCountExact NoLostWakeup IInv
PROPERTIES WriterBarrier Implements GateHolderGetsIn SomebodyGetsIn
