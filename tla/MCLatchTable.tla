---------------------------- MODULE MCLatchTable ----------------------------
(* Instances of LatchTable for TLC.                                        *)
EXTENDS LatchTable, TLC
CONSTANTS t1, t2, p1, p2, p3
Symmetry == Permutations(Pages)
=============================================================================
