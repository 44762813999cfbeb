------------------------------ MODULE TxnSteps ------------------------------
(***************************************************************************)
(* The steps of a transaction, oldjsdb/jsdb_dbtxn.c: txnStep takes a step  *)
(* object from the free list of its set and adds it to the chain of frames *)
(* of the transaction; txnCommit and txnRollback, which do the same, hand  *)
(* the steps and the frames back.  Every thread has one transaction after  *)
(* another; the free list of steps is shared, as it is by the threads of   *)
(* one set.                                                                *)
(*                                                                         *)
(* Built on Frames, whose lists are StepList, freeTxn[set][Txn_step], and  *)
(* for every thread the txnFrame of its transaction.                       *)
(***************************************************************************)
EXTENDS Frames

CONSTANTS
  StepList,   \* the free list of steps
  TxnFrame,   \* TxnFrame[t]: the list of the steps of thread t's transaction
  MaxSteps,   \* bound on the steps of a transaction
  MaxTxns     \* bound on the transactions of a thread

ASSUME TxnStepsAssumption ==
  /\ StepList \in Lists
  /\ TxnFrame \in [Threads -> Lists \ {StepList}]
  /\ \A t, u \in Threads : TxnFrame[t] = TxnFrame[u] => t = u
  /\ MaxSteps \in Nat /\ MaxTxns \in Nat

VARIABLES
  txn,     \* none, open, or ending: where the transaction of a thread is
  steps,   \* the steps it has had
  addr,    \* addr of txnCommit: the frame after the one it works on
  txns     \* the transactions a thread may still begin

txnVars == <<txn, steps, addr, txns>>
allVars == <<vars, txnVars>>

\* The value of addr at the start of the loop, when it is not NoFrame.
Some == -1

TxnInit ==
  /\ Init
  /\ txn = [t \in Threads |-> "none"]
  /\ steps = [t \in Threads |-> 0]
  /\ addr = [t \in Threads |-> NoFrame]
  /\ txns = [t \in Threads |-> MaxTxns]

TxnBegin(t) ==
  /\ txn[t] = "none" /\ txns[t] > 0
  /\ txn' = [txn EXCEPT ![t] = "open"]
  /\ txns' = [txns EXCEPT ![t] = @ - 1]
  /\ steps' = [steps EXCEPT ![t] = 0]
  /\ UNCHANGED <<vars, addr>>

\* txnStep calls allocObj for the step,
TxnStep(t) ==
  /\ txn[t] = "open" /\ job[t] = Idle /\ owned[t] = {} /\ steps[t] < MaxSteps
  /\ job' = [job EXCEPT ![t] = [Idle EXCEPT !.op = "alloc", !.list = StepList, !.at = "latch"]]
  /\ steps' = [steps EXCEPT ![t] = @ + 1]
  /\ UNCHANGED <<head, latch, poolVars, frameVars, made, owned, ops, lostObjects, txn, addr, txns>>

\* and addSlotToFrame to keep it with the transaction.
TxnStepAdd(t) ==
  /\ txn[t] = "open" /\ job[t] = Idle
  /\ \E o \in owned[t] :
       /\ job' = [job EXCEPT ![t] = [Idle EXCEPT !.op = "add", !.list = TxnFrame[t],
                                       !.at = "latch", !.obj = o]]
       /\ owned' = [owned EXCEPT ![t] = @ \ {o}]
  /\ UNCHANGED <<head, latch, poolVars, frameVars, made, ops, lostObjects, txnVars>>

\* Mutant: the loop starts at the frame after the first.
TxnEndSkips(t) ==
  /\ txn[t] = "open" /\ job[t] = Idle /\ owned[t] = {}
  /\ txn' = [txn EXCEPT ![t] = "ending"]
  /\ addr' = [addr EXCEPT ![t] = IF head[TxnFrame[t]].frame = NoFrame THEN NoFrame
                                  ELSE next[head[TxnFrame[t]].frame]]
  /\ UNCHANGED <<vars, steps, txns>>

\* Call of txnCommit or txnRollback.
TxnEnd(t) ==
  /\ txn[t] = "open" /\ job[t] = Idle /\ owned[t] = {}
  /\ txn' = [txn EXCEPT ![t] = "ending"]
  /\ addr' = [addr EXCEPT ![t] = IF head[TxnFrame[t]].frame = NoFrame THEN NoFrame ELSE Some]
  /\ UNCHANGED <<vars, steps, txns>>

\* The inner loop: a step goes back to the free list.
EndStep(t) ==
  LET l == TxnFrame[t]  h == head[l] IN
  /\ txn[t] = "ending" /\ job[t] = Idle /\ addr[t] # NoFrame /\ h.nslot > 0
  /\ head' = [head EXCEPT ![l].nslot = @ - 1]
  /\ job' = [job EXCEPT ![t] = [Idle EXCEPT !.op = "add", !.list = StepList, !.at = "latch",
                                  !.obj = slots[h.frame][h.nslot]]]
  /\ UNCHANGED <<latch, poolVars, frameVars, made, owned, ops, lostObjects, txnVars>>

\* Mutant: addr is not moved to the next frame.
EndFrameStays(t) ==
  LET h == head[TxnFrame[t]] IN
  /\ txn[t] = "ending" /\ job[t] = Idle /\ addr[t] # NoFrame /\ h.nslot = 0
  /\ job' = [job EXCEPT ![t] = [Idle EXCEPT !.op = "return", !.at = "return", !.frame = h.frame]]
  /\ UNCHANGED <<head, latch, poolVars, frameVars, made, owned, ops, lostObjects,
                 txn, addr, steps, txns>>

\* The outer loop: the frame that is empty now goes back, and the loop goes on
\* if it was not the last one.  txnFrame is not advanced to the next.
EndFrame(t) ==
  LET h == head[TxnFrame[t]] IN
  /\ txn[t] = "ending" /\ job[t] = Idle /\ addr[t] # NoFrame /\ h.nslot = 0
  /\ addr' = [addr EXCEPT ![t] = next[h.frame]]
  /\ job' = [job EXCEPT ![t] = [Idle EXCEPT !.op = "return", !.at = "return", !.frame = h.frame]]
  /\ UNCHANGED <<head, latch, poolVars, frameVars, made, owned, ops, lostObjects,
                 txn, steps, txns>>

\* The Txn is zeroed and its id handed back.
TxnClear(t) ==
  /\ txn[t] = "ending" /\ job[t] = Idle /\ addr[t] = NoFrame
  /\ head' = [head EXCEPT ![TxnFrame[t]] = Addr(NoFrame, 0)]
  /\ txn' = [txn EXCEPT ![t] = "none"]
  /\ UNCHANGED <<latch, poolVars, frameVars, made, job, owned, ops, lostObjects, steps, addr, txns>>

\* A step of a thread inside a call.
TxnRun(t) ==
  \/ Run(t) /\ UNCHANGED txnVars
  \/ TxnStepAdd(t) \/ EndStep(t) \/ EndFrame(t) \/ TxnClear(t)

TxnFinished == (\A t \in Threads : txn[t] = "none" /\ txns[t] = 0) /\ UNCHANGED allVars

TxnNext ==
  \/ \E t \in Threads : TxnRun(t) \/ TxnBegin(t) \/ TxnStep(t) \/ TxnEnd(t)
  \/ TxnFinished

TxnSpec == TxnInit /\ [][TxnNext]_allVars
TxnFair == TxnSpec /\ \A t \in Threads : WF_allVars(TxnRun(t))

-----------------------------------------------------------------------------
(* Properties                                                              *)

\* A frame that txnCommit is done with is still the txnFrame of its Txn: on its
\* way back, or just handed back.
Ended(t) == txn[t] = "ending" /\ (job[t].op = "return" \/ addr[t] = NoFrame)

Live == Lists \ {TxnFrame[t] : t \in {u \in Threads : Ended(u)}}

\* the frames' part of the next
FramesKept ==
  \A f \in Frame :
    Cardinality(FramePlacesIn(Live, f)) = IF f \in lostFrames THEN 0 ELSE 1

\* What a transaction took comes back: between two transactions of all threads every step is
\* on the free list, and at all times a frame is in one place once: in the chain of a list
\* that is not ended, in the chain of empty frames, or in a thread's hand.
StepsReturned ==
  /\ (\A t \in Threads : txn[t] = "none") =>
       \A o \in Object : \E p \in Used(head[StepList]) : slots[p[1]][p[2]] = o
  /\ FramesKept

\* A step belongs to one list, transaction or thread at a time.
StepsOnce == \A o \in Object : Cardinality(PlacesIn(Live, o)) = 1

\* txnCommit and txnRollback return.
TxnsEnd == \A t \in Threads : txn[t] = "ending" ~> txn[t] = "none"
=============================================================================
