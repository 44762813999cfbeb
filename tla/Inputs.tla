------------------------------- MODULE Inputs -------------------------------
(***************************************************************************)
(* The inputs of the pure algorithms: the name of the algorithm, and the   *)
(* choices its input is put together from, made one at a time.  A property *)
(* of an algorithm speaks of the step that takes the whole input.          *)
(***************************************************************************)
EXTENDS Integers, Sequences

VARIABLES algorithm, input

vars == <<algorithm, input>>

\* the input of the named algorithm has had its n choices
Built(name, n) == algorithm = name /\ Len(input) = n
=============================================================================
