------------------------------ MODULE MCFrames ------------------------------
(* Instances of Frames for TLC.                                            *)
EXTENDS Frames, TLC
CONSTANTS t1, t2, l1
Symmetry == Permutations(Threads)
=============================================================================
