------------------------------ MODULE MCBtree ------------------------------
(* Instances of Btree for TLC.                                             *)
EXTENDS Btree

CONSTANTS t1, t2

Two == {t1, t2}

Half(n) == {n \div 2}

Client(preload, work1, work2) == [preload |-> preload, work |-> (t1 :> work1) @@ (t2 :> work2)]

\* Two threads fill an empty tree.
Fill == Client(<<>>, {1, 3, 5}, {2, 4})

\* A tree of three levels, and two threads at its left edge.
LeftEdge == Client(<<60, 50, 40, 30, 20, 10>>, {2, 6}, {4, 8})

FillAndLeft == {Fill, LeftEdge}

\* The same from the other side: two threads at the right edge.
RightEdge == {Client(<<10, 20, 30, 40, 50, 60>>, {54, 56}, {70, 80})}
=============================================================================
