----------------------------- MODULE MCPropHash -----------------------------
(* Instances of PropHash for TLC.                                          *)
EXTENDS PropHash, TLC
CONSTANTS n1, n2, n3, n4, v1, v2

\* n1 and n2 collide in every table, n3 with neither in the smallest, n4 with
\* n1 in a table of three slots and with none in the others.
Hashes == n1 :> 5 @@ n2 :> 5 @@ n3 :> 7 @@ n4 :> 11

Symmetry == Permutations(Values)
=============================================================================
