------------------------------- MODULE Lemmas -------------------------------
(***************************************************************************)
(* What the proofs of the other modules need and the library does not      *)
(* have: the least member of a set of natural numbers, induction stated    *)
(* for a set, that a function defined by recursion along 0..N is one; and  *)
(* chains: what links lead to, how that changes when one is put in front   *)
(* or taken out, and that it is what the models compute turn by turn.      *)
(***************************************************************************)
EXTENDS Integers, FiniteSetsExt, WellFoundedInduction, FiniteSetTheorems, SequenceTheorems, TLAPS

\* A set of natural numbers has a least member.
LEMMA LeastNumber ==
  ASSUME NEW S \in SUBSET Nat, S # {}
  PROVE  \E x \in S : \A y \in S : x <= y
<1> DEFINE R == OpToRel(<, Nat)
<1>1. IsWellFoundedOn(R, Nat)
  BY NatLessThanWellFounded
<1>2. PICK x \in S : \A y \in S : ~(<<y, x>> \in R)
  <2> HIDE DEF R
  <2> QED  BY <1>1, WFMin
<1>3. ASSUME NEW y \in S PROVE x <= y
  <2>1. ~(y < x)
    BY <1>2 DEF OpToRel
  <2> QED  BY <2>1
<1> QED  BY <1>2, <1>3

\* Min gives it.
LEMMA MinLeast ==
  ASSUME NEW S \in SUBSET Nat, S # {}
  PROVE  /\ Min(S) \in S
         /\ \A y \in S : Min(S) <= y
<1>1. \E x \in S : \A y \in S : x =< y
  BY LeastNumber
<1> QED  BY <1>1 DEF Min

\* A set that has 0 and, with a number below N, the next one, has all up to N.
LEMMA SetInduction ==
  ASSUME NEW N \in Nat, NEW S, 0 \in S,
         \A k \in 0..(N - 1) : k \in S => k + 1 \in S
  PROVE  \A k \in 0..N : k \in S
<1> DEFINE T == {k \in 0..N : k \notin S}
<1> SUFFICES ASSUME T # {} PROVE FALSE
  OBVIOUS
<1>1. PICK k \in T : \A j \in T : k <= j
  <2>1. T \in SUBSET Nat
    OBVIOUS
  <2> HIDE DEF T
  <2> QED  BY <2>1, LeastNumber
<1>2. k # 0 /\ k - 1 \in 0..(N - 1) /\ k - 1 \notin T
  BY <1>1
<1> QED  BY <1>1, <1>2

\* f goes from a by the steps g[1], ..., g[N].
Follows(f, N, a, g) == f[0] = a /\ \A k \in 1..N : f[k] = g[k][f[k - 1]]

\* Steps g[1], ..., g[N] on a set, taken from a on, pass through the values of a function.
LEMMA RecursiveFunction ==
  ASSUME NEW N \in Nat, NEW S, NEW a \in S, NEW g \in [1..N -> [S -> S]]
  PROVE  \E f \in [0..N -> S] : Follows(f, N, a, g)
<1> DEFINE Upto(m) == \E f \in [0..m -> S] : f[0] = a /\ \A k \in 1..m : f[k] = g[k][f[k - 1]]
           Good == {m \in 0..N : Upto(m)}
<1>1. Upto(0)
  <2> DEFINE h == [k \in 0..0 |-> a]
  <2>1. h \in [0..0 -> S] /\ h[0] = a
    OBVIOUS
  <2>2. \A k \in 1..0 : h[k] = g[k][h[k - 1]]
    OBVIOUS
  <2> HIDE DEF h
  <2> QED  BY <2>1, <2>2
<1>2. ASSUME NEW m \in 0..(N - 1), Upto(m) PROVE Upto(m + 1)
  <2>1. PICK f \in [0..m -> S] : f[0] = a /\ \A k \in 1..m : f[k] = g[k][f[k - 1]]
    BY <1>2
  <2> DEFINE h == [k \in 0..(m + 1) |-> IF k = m + 1 THEN g[m + 1][f[m]] ELSE f[k]]
  <2>2. g[m + 1] \in [S -> S] /\ f[m] \in S
    OBVIOUS
  <2>3. h \in [0..(m + 1) -> S]
    BY <2>2
  <2>4. h[0] = a
    BY <2>1
  <2>5. ASSUME NEW k \in 1..(m + 1) PROVE h[k] = g[k][h[k - 1]]
    BY <2>1
  <2> HIDE DEF h
  <2> QED  BY <2>3, <2>4, <2>5
<1>3. \A m \in 0..N : m \in Good
  <2>1. 0 \in Good
    BY <1>1
  <2>2. ASSUME NEW m \in 0..(N - 1), m \in Good PROVE m + 1 \in Good
    <3>1. Upto(m) /\ m + 1 \in 0..N
      BY <2>2
    <3>2. Upto(m + 1)
      <4> HIDE DEF Upto
      <4> QED  BY <3>1, <1>2
    <3> QED  BY <3>1, <3>2
  <2> HIDE DEF Good
  <2> QED  BY <2>1, <2>2, SetInduction
<1> QED  BY <1>3 DEF Follows

-----------------------------------------------------------------------------
(* Chains.  Reach(nx, f) is what the links nx lead to from f on: the least *)
(* set with f that is closed under them.  0 is no link.                    *)

Links(nx) == nx \in Seq(Nat) /\ \A f \in 1..Len(nx) : nx[f] \in 0..Len(nx)

Closed(nx, f, S) ==
  /\ S \subseteq 1..Len(nx)
  /\ f # 0 => f \in S
  /\ \A g \in S : nx[g] # 0 => nx[g] \in S

Reach(nx, f) == {g \in 1..Len(nx) : \A S \in SUBSET (1..Len(nx)) : Closed(nx, f, S) => g \in S}

LEMMA ReachClosed ==
  ASSUME NEW nx, Links(nx), NEW f \in 0..Len(nx)
  PROVE  Closed(nx, f, Reach(nx, f))
<1>1. Len(nx) \in Nat
  BY DEF Links
<1>2. f # 0 => f \in Reach(nx, f)
  BY <1>1 DEF Reach, Closed
<1>3. ASSUME NEW g \in Reach(nx, f), nx[g] # 0 PROVE nx[g] \in Reach(nx, f)
  <2>1. nx[g] \in 1..Len(nx)
    BY <1>1, <1>3 DEF Reach, Links
  <2> QED  BY <1>3, <2>1 DEF Reach, Closed
<1> QED  BY <1>2, <1>3 DEF Reach, Closed

LEMMA ReachLeast ==
  ASSUME NEW nx, NEW f, NEW S, Closed(nx, f, S)
  PROVE  Reach(nx, f) \subseteq S
BY DEF Reach, Closed

LEMMA ReachNone ==
  ASSUME NEW nx PROVE Reach(nx, 0) = {}
<1>1. Closed(nx, 0, {})
  BY DEF Closed
<1> QED  BY <1>1, ReachLeast

LEMMA ReachFrames ==
  ASSUME NEW nx, NEW f PROVE Reach(nx, f) \subseteq 1..Len(nx)
BY DEF Reach

\* the first and what follows it
LEMMA ReachNext ==
  ASSUME NEW nx, Links(nx), NEW f \in 1..Len(nx)
  PROVE  Reach(nx, f) = {f} \union Reach(nx, nx[f])
<1>1. nx[f] \in 0..Len(nx) /\ f # 0 /\ f \in 0..Len(nx)
  BY DEF Links
<1>2. Closed(nx, f, Reach(nx, f)) /\ Closed(nx, nx[f], Reach(nx, nx[f]))
  BY <1>1, ReachClosed
<1>3. Closed(nx, f, {f} \union Reach(nx, nx[f]))
  BY <1>2 DEF Closed
<1>4. Closed(nx, nx[f], Reach(nx, f))
  BY <1>1, <1>2 DEF Closed
<1>5. Reach(nx, f) \subseteq {f} \union Reach(nx, nx[f])
  BY <1>3, ReachLeast
<1>6. Reach(nx, nx[f]) \subseteq Reach(nx, f)
  BY <1>4, ReachLeast
<1> QED  BY <1>1, <1>2, <1>5, <1>6 DEF Closed

\* whatever is reached leads no further
LEMMA ReachInner ==
  ASSUME NEW nx, Links(nx), NEW f \in 0..Len(nx), NEW g \in Reach(nx, f)
  PROVE  Reach(nx, g) \subseteq Reach(nx, f) /\ Reach(nx, nx[g]) \subseteq Reach(nx, f)
<1>1. Closed(nx, f, Reach(nx, f))
  BY ReachClosed
<1>2. Closed(nx, g, Reach(nx, f)) /\ Closed(nx, nx[g], Reach(nx, f))
  BY <1>1 DEF Closed
<1> QED  BY <1>2, ReachLeast

\* links that differ elsewhere, or are more, lead to the same
LEMMA ReachSame ==
  ASSUME NEW nx, Links(nx), NEW ny, Links(ny), Len(nx) <= Len(ny), NEW f \in 0..Len(nx),
         \A g \in Reach(nx, f) : ny[g] = nx[g]
  PROVE  Reach(ny, f) = Reach(nx, f)
<1>1. Len(nx) \in Nat /\ Len(ny) \in Nat /\ f \in 0..Len(ny)
  BY DEF Links
<1>2. Closed(nx, f, Reach(nx, f)) /\ Closed(ny, f, Reach(ny, f))
  BY <1>1, ReachClosed
<1>3. Closed(ny, f, Reach(nx, f))
  BY <1>1, <1>2 DEF Closed
<1>4. Closed(nx, f, Reach(nx, f) \intersect Reach(ny, f))
  BY <1>2 DEF Closed
<1>5. Reach(ny, f) \subseteq Reach(nx, f)
  BY <1>3, ReachLeast
<1>6. Reach(nx, f) \subseteq Reach(nx, f) \intersect Reach(ny, f)
  BY <1>4, ReachLeast
<1> QED  BY <1>5, <1>6

\* Nothing a chain leads to leads back to itself.
Acyclic(nx, f) == \A g \in Reach(nx, f) : g \notin Reach(nx, nx[g])

LEMMA AcyclicSame ==
  ASSUME NEW nx, Links(nx), NEW ny, Links(ny), Len(nx) <= Len(ny), NEW f \in 0..Len(nx),
         \A g \in Reach(nx, f) : ny[g] = nx[g], Acyclic(nx, f)
  PROVE  Acyclic(ny, f)
<1>1. Reach(ny, f) = Reach(nx, f)
  BY ReachSame
<1>2. ASSUME NEW g \in Reach(nx, f) PROVE Reach(ny, ny[g]) = Reach(nx, nx[g])
  <2>1. nx[g] \in 0..Len(nx) /\ Reach(nx, nx[g]) \subseteq Reach(nx, f)
    BY ReachInner, ReachFrames DEF Links
  <2>2. \A h \in Reach(nx, nx[g]) : ny[h] = nx[h]
    BY <2>1
  <2>3. Reach(ny, nx[g]) = Reach(nx, nx[g])
    BY <2>1, <2>2, ReachSame
  <2> QED  BY <2>3
<1> QED  BY <1>1, <1>2 DEF Acyclic

LEMMA AcyclicNext ==
  ASSUME NEW nx, Links(nx), NEW f \in 1..Len(nx), Acyclic(nx, f)
  PROVE  /\ f \in Reach(nx, f)
         /\ nx[f] \in 0..Len(nx)
         /\ Reach(nx, nx[f]) = Reach(nx, f) \ {f}
         /\ Acyclic(nx, nx[f])
BY ReachNext DEF Acyclic, Links

\* one put in front
LEMMA ReachPushed ==
  ASSUME NEW nx, Links(nx), NEW f \in 0..Len(nx), NEW g \in 1..Len(nx), g \notin Reach(nx, f),
         Acyclic(nx, f)
  PROVE  LET ny == [nx EXCEPT ![g] = f]
         IN /\ Links(ny) /\ Len(ny) = Len(nx)
            /\ Reach(ny, g) = {g} \union Reach(nx, f)
            /\ Acyclic(ny, g)
<1> DEFINE ny == [nx EXCEPT ![g] = f]
<1>1. Links(ny) /\ Len(ny) = Len(nx) /\ ny[g] = f /\ \A h \in 1..Len(nx) : h # g => ny[h] = nx[h]
  BY DEF Links
<1> HIDE DEF ny
<1>2. \A h \in Reach(nx, f) : ny[h] = nx[h]
  BY <1>1, ReachFrames
<1>3. Len(nx) \in Nat
  BY DEF Links
<1>4. Reach(ny, f) = Reach(nx, f) /\ Acyclic(ny, f)
  BY <1>1, <1>2, <1>3, ReachSame, AcyclicSame
<1>5. Reach(ny, g) = {g} \union Reach(ny, f)
  BY <1>1, ReachNext
<1>6. Acyclic(ny, g)
  BY <1>1, <1>4, <1>5 DEF Acyclic
<1> QED  BY <1>1, <1>4, <1>5, <1>6 DEF ny

\* of two that a chain leads to, one leads to the other
LEMMA ReachOrder ==
  ASSUME NEW nx, Links(nx), NEW f \in 0..Len(nx), NEW d \in Reach(nx, f), NEW g \in Reach(nx, f)
  PROVE  g \in Reach(nx, d) \/ d \in Reach(nx, g)
<1> DEFINE S == {h \in Reach(nx, f) : h \in Reach(nx, d) \/ d \in Reach(nx, h)}
<1>1. Closed(nx, f, Reach(nx, f)) /\ Reach(nx, f) \subseteq 1..Len(nx)
  BY ReachClosed, ReachFrames
<1>2. Closed(nx, d, Reach(nx, d))
  BY <1>1, ReachClosed
<1>3. f # 0 => f \in S
  BY <1>1 DEF Closed
<1>4. ASSUME NEW h \in S, nx[h] # 0 PROVE nx[h] \in S
  <2>1. nx[h] \in Reach(nx, f)
    BY <1>1, <1>4 DEF Closed
  <2>2. CASE h \in Reach(nx, d)
    BY <1>2, <1>4, <2>1, <2>2 DEF Closed
  <2>3. CASE d \in Reach(nx, h)
    <3>1. d = h \/ d \in Reach(nx, nx[h])
      BY <1>1, <2>3, ReachNext
    <3>2. d = h => nx[h] \in Reach(nx, d)
      BY <1>1, <1>2, <1>4 DEF Closed
    <3> QED  BY <2>1, <3>1, <3>2
  <2> QED  BY <2>2, <2>3
<1>5. Closed(nx, f, S)
  BY <1>1, <1>3, <1>4 DEF Closed
<1> HIDE DEF S
<1>6. g \in S
  BY <1>5, ReachLeast
<1> QED  BY <1>6 DEF S

\* one behind d taken out
Unlinks(nx, f, d, e, ny) ==
  /\ Links(nx) /\ f \in 0..Len(nx) /\ Acyclic(nx, f)
  /\ d \in Reach(nx, f) /\ e = nx[d] /\ e # 0
  /\ ny = [nx EXCEPT ![d] = nx[e]]

LEMMA ReachUnlinked ==
  ASSUME NEW nx, NEW f, NEW d, NEW e, NEW ny, Unlinks(nx, f, d, e, ny)
  PROVE  /\ Links(ny) /\ Len(ny) = Len(nx)
         /\ e # f /\ e \in Reach(nx, f)
         /\ Reach(ny, f) = Reach(nx, f) \ {e}
         /\ Acyclic(ny, f)
<1> USE DEF Unlinks
<1> DEFINE R == Reach(nx, f)
<1>1. Closed(nx, f, R) /\ R \subseteq 1..Len(nx) /\ d \in R
  BY ReachClosed, ReachFrames
<1>2. e \in R /\ e \in 1..Len(nx) /\ nx[e] \in 0..Len(nx) /\ d # e
  <2>1. e \in R /\ e \in 1..Len(nx) /\ nx[e] \in 0..Len(nx)
    BY <1>1 DEF Closed, Links
  <2>2. d \notin Reach(nx, e) /\ e \in Reach(nx, e)
    BY <2>1, ReachNext DEF Acyclic
  <2> QED  BY <2>1, <2>2
<1>3. Links(ny) /\ Len(ny) = Len(nx) /\ ny[d] = nx[e] /\ \A g \in 1..Len(nx) : g # d => ny[g] = nx[g]
  BY <1>1, <1>2 DEF Links
<1>4. ASSUME NEW g \in R, nx[g] = e PROVE g = d
  <2>1. g \notin Reach(nx, e) /\ d \notin Reach(nx, e) /\ g \in 1..Len(nx) /\ d \in 1..Len(nx)
    BY <1>1, <1>4 DEF Acyclic
  <2>2. Reach(nx, g) = {g} \union Reach(nx, e) /\ Reach(nx, d) = {d} \union Reach(nx, e)
    BY <1>4, <2>1, ReachNext
  <2>3. g \in Reach(nx, d) \/ d \in Reach(nx, g)
    BY ReachOrder
  <2> QED  BY <2>1, <2>2, <2>3
<1>5. e # f
  <2>1. ASSUME e = f PROVE FALSE
    <3>1. d \in Reach(nx, e) /\ d \notin Reach(nx, nx[d])
      BY <2>1 DEF Acyclic
    <3> QED  BY <3>1
  <2> QED  BY <2>1
\* what is left leads no further, and d is still reached
<1>6. Closed(ny, f, R \ {e})
  <2>1. ASSUME NEW g \in R \ {e}, ny[g] # 0 PROVE ny[g] \in R \ {e}
    <3>1. CASE g = d
      <4>1. nx[e] \in R
        BY <1>1, <1>2, <1>3, <2>1, <3>1 DEF Closed
      <4>2. nx[e] # e
        BY <1>2, ReachNext DEF Acyclic
      <4> QED  BY <3>1, <4>1, <4>2, <1>3
    <3>2. CASE g # d
      BY <1>1, <1>3, <1>4, <2>1, <3>2 DEF Closed
    <3> QED  BY <3>1, <3>2
  <2> QED  BY <1>1, <1>3, <1>5, <2>1 DEF Closed
<1>7. Reach(ny, f) \subseteq R \ {e}
  BY <1>6, ReachLeast
<1>8. Closed(ny, f, Reach(ny, f))
  BY <1>3, ReachClosed
<1>9. d \in Reach(ny, f)
  <2>1. ASSUME d \notin Reach(ny, f) PROVE FALSE
    <3>1. \A g \in Reach(ny, f) : g \in 1..Len(nx) /\ ny[g] = nx[g]
      BY <1>1, <1>3, <1>7, <2>1
    <3>2. Closed(nx, f, Reach(ny, f))
      BY <1>3, <1>8, <3>1 DEF Closed
    <3>3. R \subseteq Reach(ny, f)
      BY <3>2, ReachLeast
    <3> QED  BY <1>1, <2>1, <3>3
  <2> QED  BY <2>1
<1>10. Closed(nx, f, Reach(ny, f) \union {e})
  <2>1. ASSUME NEW g \in Reach(ny, f) \union {e}, nx[g] # 0 PROVE nx[g] \in Reach(ny, f) \union {e}
    <3>1. CASE g = e
      BY <1>3, <1>8, <1>9, <2>1, <3>1 DEF Closed
    <3>2. CASE g = d
      BY <3>2
    <3>3. CASE g # e /\ g # d
      <4>1. g \in Reach(ny, f) /\ ny[g] = nx[g]
        BY <1>1, <1>3, <1>7, <2>1, <3>3
      <4> QED  BY <1>8, <2>1, <4>1 DEF Closed
    <3> QED  BY <3>1, <3>2, <3>3
  <2> QED  BY <1>2, <1>3, <1>8, <2>1 DEF Closed
<1>11. Reach(ny, f) = R \ {e}
  <2>1. R \subseteq Reach(ny, f) \union {e}
    BY <1>10, ReachLeast
  <2> QED  BY <1>7, <2>1
\* nothing leads further than it did
<1>12. ASSUME NEW h \in 0..Len(nx), Reach(nx, h) \subseteq R PROVE Reach(ny, h) \subseteq Reach(nx, h)
  <2>1. Closed(nx, h, Reach(nx, h))
    BY ReachClosed
  <2>2. ASSUME NEW g \in Reach(nx, h), ny[g] # 0 PROVE ny[g] \in Reach(nx, h)
    <3>1. CASE g = d
      BY <1>3, <2>1, <2>2, <3>1 DEF Closed
    <3>2. CASE g # d
      BY <1>1, <1>12, <1>3, <2>1, <2>2, <3>2 DEF Closed
    <3> QED  BY <3>1, <3>2
  <2>3. Closed(ny, h, Reach(nx, h))
    BY <1>3, <2>1, <2>2 DEF Closed
  <2> QED  BY <2>3, ReachLeast
<1>13. Acyclic(ny, f)
  <2> SUFFICES ASSUME NEW g \in R, g # e PROVE g \notin Reach(ny, ny[g])
    BY <1>11 DEF Acyclic
  <2>1. g \in 1..Len(nx) /\ nx[g] \in 0..Len(nx) /\ g \notin Reach(nx, nx[g])
    BY <1>1 DEF Acyclic, Links
  <2>2. Reach(nx, nx[g]) \subseteq R
    BY ReachInner
  <2>3. CASE g # d
    BY <1>3, <1>12, <2>1, <2>2, <2>3
  <2>4. CASE g = d
    <3>1. Reach(nx, nx[e]) \subseteq Reach(nx, e)
      BY <1>2, ReachNext
    <3>2. Reach(nx, nx[e]) \subseteq R
      BY <2>2, <2>4, <3>1
    <3>3. Reach(ny, nx[e]) \subseteq Reach(nx, nx[e])
      BY <1>2, <1>12, <3>2
    <3> QED  BY <1>3, <2>1, <2>4, <3>1, <3>3
  <2> QED  BY <2>3, <2>4
<1> QED  BY <1>2, <1>3, <1>5, <1>11, <1>13

-----------------------------------------------------------------------------
(* ChainOf, computed by as many turns as there are links, is Reach.        *)

ChainOf(nx, f) ==
  LET upTo[n \in 0..Len(nx)] ==
        IF n = 0 THEN {f} \ {0}
        ELSE upTo[n - 1] \union ({nx[g] : g \in upTo[n - 1]} \ {0})
  IN  upTo[Len(nx)]

LEMMA FirstNumbers ==
  ASSUME NEW N \in Nat PROVE IsFiniteSet(1..N) /\ Cardinality(1..N) = N
<1>1. 1 \in Int /\ N \in Int
  OBVIOUS
<1>2. IsFiniteSet(1..N) /\ Cardinality(1..N) = IF 1 > N THEN 0 ELSE N - 1 + 1
  BY <1>1, FS_Interval, Zenon
<1> QED  BY <1>2

\* Sets that grow by one turn of the links after another end with all that the
\* links lead to.
LEMMA TurnsReach ==
  ASSUME NEW nx, Links(nx), NEW f \in 0..Len(nx), NEW upTo, upTo[0] = {f} \ {0},
         \A n \in 1..Len(nx) : upTo[n] = upTo[n - 1] \union ({nx[g] : g \in upTo[n - 1]} \ {0})
  PROVE  upTo[Len(nx)] = Reach(nx, f)
<1> DEFINE N == Len(nx)
           Sets == SUBSET (1..N)
           First == {f} \ {0}
           Onward(T) == T \union ({nx[g] : g \in T} \ {0})
<1>1. N \in Nat /\ First \in Sets
  BY DEF Links
<1>2. \A T \in Sets : Onward(T) \in Sets /\ T \subseteq Onward(T)
  <2> SUFFICES ASSUME NEW T \in Sets PROVE Onward(T) \in Sets
    OBVIOUS
  <2>1. ASSUME NEW g \in T PROVE nx[g] \in 0..N
    BY DEF Links
  <2>2. \A x \in 0..N : x # 0 => x \in 1..N
    BY <1>1
  <2> QED  BY <2>1, <2>2
<1>3. upTo[0] = First /\ \A n \in 1..N : upTo[n] = Onward(upTo[n - 1])
  OBVIOUS
<1>4. Closed(nx, f, Reach(nx, f))
  BY ReachClosed
\* every turn stays within Reach
<1> DEFINE Within == {n \in 0..N : upTo[n] \subseteq Reach(nx, f)}
<1>5. N \in Within
  <2>1. 0 \in Within
    BY <1>1, <1>3, <1>4 DEF Closed
  <2>2. ASSUME NEW n \in 0..(N - 1), n \in Within PROVE n + 1 \in Within
    <3>1. upTo[n + 1] = Onward(upTo[n]) /\ n + 1 \in 0..N
      <4> HIDE DEF Onward
      <4> QED  BY <1>1, <1>3
    <3> QED  BY <1>4, <2>2, <3>1 DEF Closed
  <2> HIDE DEF Within
  <2>3. \A n \in 0..N : n \in Within
    BY <1>1, <2>1, <2>2, SetInduction
  <2> QED  BY <1>1, <2>3
\* every turn adds one until one adds none
<1> DEFINE Done(T) == Onward(T) = T
           Grown == {n \in 0..N : /\ upTo[n] \in Sets /\ First \subseteq upTo[n]
                                 /\ (Done(upTo[n]) \/ Cardinality(upTo[n]) >= n + 1)}
<1>6. \A T \in Sets : IsFiniteSet(T) /\ Cardinality(T) \in 0..N
  <2>1. IsFiniteSet(1..N) /\ Cardinality(1..N) = N
    BY <1>1, FirstNumbers
  <2> SUFFICES ASSUME NEW T \in Sets PROVE IsFiniteSet(T) /\ Cardinality(T) \in 0..N
    OBVIOUS
  <2>2. IsFiniteSet(T) /\ Cardinality(T) <= Cardinality(1..N)
    BY <2>1, FS_Subset
  <2>3. Cardinality(T) \in Nat
    BY <2>2, FS_CardinalityType
  <2> QED  BY <1>1, <2>1, <2>2, <2>3
<1>7. N \in Grown
  <2>1. 0 \in Grown
    <3>1. CASE f = 0
      BY <1>1, <1>3, <3>1
    <3>2. CASE f # 0
      <4>1. Cardinality({f}) = 1
        BY FS_Singleton
      <4>2. upTo[0] = {f}
        BY <1>3, <3>2
      <4> DEFINE x == Cardinality(upTo[0])
      <4>3. x = 1
        BY <4>1, <4>2, Zenon
      <4>4. upTo[0] \in Sets /\ First \subseteq upTo[0]
        BY <1>1, <1>3
      <4> HIDE DEF x
      <4>5. x >= 0 + 1
        BY <4>3
      <4>6. 0 \in 0..N
        BY <1>1
      <4> HIDE DEF Done, First, Sets
      <4> QED  BY <4>4, <4>5, <4>6, Zenon DEF x
    <3> QED  BY <3>1, <3>2
  <2>2. ASSUME NEW n \in 0..(N - 1), n \in Grown PROVE n + 1 \in Grown
    <3>1. upTo[n + 1] = Onward(upTo[n]) /\ n + 1 \in 0..N /\ n \in 0..N
      <4> HIDE DEF Onward
      <4> QED  BY <1>1, <1>3
    <3>2. upTo[n] \in Sets /\ upTo[n + 1] \in Sets /\ upTo[n] \subseteq upTo[n + 1] /\ First \subseteq upTo[n + 1]
      <4> HIDE DEF Onward, Sets, First, Done
      <4>1. upTo[n] \in Sets /\ First \subseteq upTo[n]
        BY <2>2
      <4> QED  BY <1>2, <3>1, <4>1
    <3>3. CASE Done(upTo[n])
      BY <2>2, <3>1, <3>2, <3>3
    <3>4. CASE ~Done(upTo[n])
      <4>1. PICK g : g \in upTo[n + 1] /\ g \notin upTo[n]
        BY <3>1, <3>2, <3>4
      <4>2. Cardinality(upTo[n] \union {g}) = Cardinality(upTo[n]) + 1
        BY <1>6, <3>2, <4>1, FS_AddElement
      <4>3. Cardinality(upTo[n] \union {g}) <= Cardinality(upTo[n + 1])
        <5>1. upTo[n] \union {g} \in SUBSET upTo[n + 1]
          BY <3>2, <4>1
        <5> QED  BY <1>6, <3>2, <5>1, FS_Subset
      <4>4. Cardinality(upTo[n]) \in Nat /\ Cardinality(upTo[n + 1]) \in Nat
        BY <1>6, <3>2
      <4>5. Cardinality(upTo[n]) >= n + 1
        BY <2>2, <3>4
      <4>6. Cardinality(upTo[n + 1]) >= (n + 1) + 1
        BY <4>2, <4>3, <4>4, <4>5
      <4> HIDE DEF Done, First, Sets
      <4> QED  BY <3>1, <3>2, <4>6
    <3> QED  BY <3>3, <3>4
  <2> HIDE DEF Grown
  <2>3. \A n \in 0..N : n \in Grown
    BY <1>1, <2>1, <2>2, SetInduction
  <2> QED  BY <1>1, <2>3
<1>8. Closed(nx, f, upTo[N])
  <2>1. Done(upTo[N])
    <3>1. Cardinality(upTo[N]) \in 0..N
      BY <1>6, <1>7
    <3> HIDE DEF Done
    <3> QED  BY <1>1, <1>7, <3>1
  <2> QED  BY <1>7, <2>1 DEF Closed
<1>9. Reach(nx, f) \subseteq upTo[N]
  BY <1>8, ReachLeast
<1> QED  BY <1>5, <1>9

\* A chain computed turn by turn is all that its links lead to.
THEOREM ChainOfReach ==
  ASSUME NEW nx, Links(nx), NEW f \in 0..Len(nx)
  PROVE  ChainOf(nx, f) = Reach(nx, f)
<1> DEFINE N == Len(nx)
           Sets == SUBSET (1..N)
           First == {f} \ {0}
           Onward(T) == T \union ({nx[g] : g \in T} \ {0})
           step == [n \in 1..N |-> [T \in Sets |-> Onward(T)]]
           Turns(upTo) == [n \in 0..N |-> IF n = 0 THEN First ELSE Onward(upTo[n - 1])]
           upTo == CHOOSE upTo : upTo = Turns(upTo)
<1>1. N \in Nat /\ First \in Sets
  BY DEF Links
<1>2. \A T \in Sets : Onward(T) \in Sets /\ T \subseteq Onward(T)
  <2> SUFFICES ASSUME NEW T \in Sets PROVE Onward(T) \in Sets
    OBVIOUS
  <2>1. ASSUME NEW g \in T PROVE nx[g] \in 0..N
    BY DEF Links
  <2>2. \A x \in 0..N : x # 0 => x \in 1..N
    BY <1>1
  <2> QED  BY <2>1, <2>2
<1>3. step \in [1..N -> [Sets -> Sets]]
  BY <1>2
<1>4. PICK h \in [0..N -> Sets] : Follows(h, N, First, step)
  <2> HIDE DEF Sets, step, N, First
  <2> QED  BY <1>1, <1>3, RecursiveFunction
<1>5. h = Turns(h)
  <2>1. ASSUME NEW n \in 1..N PROVE h[n] = Onward(h[n - 1])
    <3>1. h[n - 1] \in Sets
      OBVIOUS
    <3> HIDE DEF Sets, Onward
    <3>2. step[n][h[n - 1]] = Onward(h[n - 1])
      BY <3>1
    <3> QED  BY <1>4, <3>2 DEF Follows
  <2>2. \A n \in 0..N : n = 0 \/ n \in 1..N
    BY <1>1
  <2> HIDE DEF step, Sets, N, First, Onward
  <2> QED  BY <1>4, <2>1, <2>2 DEF Follows
<1>6. upTo = Turns(upTo)
  <2> HIDE DEF Turns
  <2> QED  BY <1>5
<1>7. ChainOf(nx, f) = upTo[N]
  BY DEF ChainOf
<1> HIDE DEF upTo
<1>8. upTo[0] = First /\ \A n \in 1..N : upTo[n] = Onward(upTo[n - 1])
  <2> HIDE DEF First, Onward
  <2> QED  BY <1>1, <1>6
<1>9. upTo[N] = Reach(nx, f)
  <2> HIDE DEF N
  <2>1. upTo[0] = {f} \ {0}
    BY <1>8
  <2>2. \A n \in 1..Len(nx) : upTo[n] = upTo[n - 1] \union ({nx[g] : g \in upTo[n - 1]} \ {0})
    BY <1>8 DEF N
  <2> QED  BY <2>1, <2>2, TurnsReach DEF N
<1> QED  BY <1>7, <1>9

=============================================================================
