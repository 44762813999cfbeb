----------------------------- MODULE BtreeSpec -----------------------------
(***************************************************************************)
(* What the B-link tree promises btreeIndexKey: an ordered set of index    *)
(* keys.  An insertion takes effect at one instant between its call and    *)
(* its return, and no key that is in the set ever leaves it.               *)
(***************************************************************************)
CONSTANT Keys

VARIABLES
  stored,       \* the keys a search of the tree finds
  returned      \* the keys whose btreeInsertKey has returned OK

setVars == <<stored, returned>>

SetInit == stored = {} /\ returned = {}

Store(k) ==
  /\ k \notin stored
  /\ stored' = stored \union {k}
  /\ returned' \in {returned, returned \union {k}}

Return(k) ==
  /\ k \in stored
  /\ returned' = returned \union {k}
  /\ UNCHANGED stored

SetNext == \E k \in Keys : Store(k) \/ Return(k)

SetSpec == SetInit /\ [][SetNext]_setVars
=============================================================================
