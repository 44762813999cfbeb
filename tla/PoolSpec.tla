------------------------------ MODULE PoolSpec ------------------------------
(***************************************************************************)
(* What allocObj and addSlotToFrame promise their callers: an allocator.   *)
(* An object is given to one thread at a time, and given again only after  *)
(* it was handed back.                                                     *)
(***************************************************************************)
EXTENDS Naturals

CONSTANT Threads

VARIABLE owned   \* the objects each thread has

PoolInit == owned = [t \in Threads |-> {}]

Give(t) ==
  \E o \in owned'[t] :
    /\ \A u \in Threads : o \notin owned[u]
    /\ owned' = [owned EXCEPT ![t] = @ \union {o}]

Take(t) == \E o \in owned[t] : owned' = [owned EXCEPT ![t] = @ \ {o}]

PoolNext == \E t \in Threads : Give(t) \/ Take(t)

Pool == PoolInit /\ [][PoolNext]_owned
=============================================================================
