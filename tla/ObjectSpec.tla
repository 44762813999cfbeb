----------------------------- MODULE ObjectSpec -----------------------------
(***************************************************************************)
(* What a script expects of an object: a dictionary.  An assignment first  *)
(* names the property on its left, then evaluates its right side, which    *)
(* may hold further assignments, and then gives that property the value.   *)
(***************************************************************************)
EXTENDS Sequences

CONSTANTS Names, Values, Undef

VARIABLES
  props,   \* the value of every name, Undef for a name the object lacks
  lefts    \* the names whose assignment is waiting for its right side

DictInit ==
  /\ props \in [Names -> Values \union {Undef}]
  /\ lefts = <<>>

Left(n) == lefts' = <<n>> \o lefts /\ UNCHANGED props

Right(v) ==
  /\ lefts # <<>>
  /\ props' = [props EXCEPT ![Head(lefts)] = v]
  /\ lefts' = Tail(lefts)

DictNext == (\E n \in Names : Left(n)) \/ (\E v \in Values : Right(v))

Dict == DictInit /\ [][DictNext]_<<props, lefts>>
=============================================================================
