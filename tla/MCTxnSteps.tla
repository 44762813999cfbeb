----------------------------- MODULE MCTxnSteps -----------------------------
(* An instance of TxnSteps for TLC.                                         *)
EXTENDS TxnSteps, TLC
CONSTANTS t1, t2, l0, l1, l2
TwoFrames == t1 :> l1 @@ t2 :> l2
=============================================================================
