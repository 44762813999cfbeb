--------------------------- MODULE PropHashProofs ---------------------------
(***************************************************************************)
(* Proofs about the properties of an object, for every set of names and    *)
(* every hash of them, literals of any length and any nesting of           *)
(* assignments.                                                            *)
(***************************************************************************)
EXTENDS PropHash, Lemmas

-----------------------------------------------------------------------------
(* Slots: a probe starts at the name's own and comes to every one.         *)

LEMMA ModIs ==
  ASSUME NEW m \in Nat \ {0}, NEW x \in 0..(2 * m - 1)
  PROVE  x % m = IF x < m THEN x ELSE x - m
OBVIOUS

LEMMA ModRange ==
  ASSUME NEW m \in Nat \ {0}, NEW h \in Nat
  PROVE  h % m \in 0..(m - 1)
OBVIOUS

\* A table of m slots.
Sized(tab, m) == DOMAIN tab = 0..(m - 1)

LEMMA SlotIs ==
  ASSUME NEW m \in Nat \ {0}, NEW tab, Sized(tab, m), NEW n \in Names, NEW d \in 0..(m - 1)
  PROVE  /\ Slot(tab, n, d) = ((HashOf[n] % m) + d) % m
         /\ Slot(tab, n, d) \in 0..(m - 1)
<1>1. Cardinality(DOMAIN tab) = m
  BY FS_Interval DEF Sized
<1>2. HashOf[n] \in Nat
  BY HashAssumption
<1>3. HashOf[n] % m \in 0..(m - 1)
  BY <1>2, ModRange
<1>4. (HashOf[n] % m) + d \in Nat
  BY <1>3
<1> QED  BY <1>1, <1>4, ModRange DEF Slot

LEMMA SlotReached ==
  ASSUME NEW m \in Nat \ {0}, NEW tab, Sized(tab, m), NEW n \in Names, NEW s \in 0..(m - 1)
  PROVE  \E d \in 0..(m - 1) : Slot(tab, n, d) = s
<1> DEFINE h == HashOf[n] % m
           d == IF s >= h THEN s - h ELSE s - h + m
<1>1. h \in 0..(m - 1)
  BY HashAssumption, ModRange
<1> HIDE DEF h
<1>2. d \in 0..(m - 1) /\ h + d = IF s >= h THEN s ELSE s + m
  BY <1>1
<1>3. (h + d) % m = s
  BY <1>1, <1>2, ModIs
<1> QED  BY <1>2, <1>3, SlotIs DEF h

-----------------------------------------------------------------------------
(* What a table says of the pairs entered in it. *)

\* Pair i is in the probe sequence of its name, after older pairs only.
Placed(tab, ps, i) ==
  \E d \in DOMAIN tab :
    /\ tab[Slot(tab, ps[i].name, d)] = i
    /\ \A e \in 0..(d - 1) : tab[Slot(tab, ps[i].name, e)] \in 1..(i - 1)

\* A table of m slots with the first k pairs, each of them once.
TableOf(tab, ps, k, m) ==
  /\ tab \in [0..(m - 1) -> 0..k]
  /\ \A i \in 1..k : Placed(tab, ps, i)
  /\ \A r, s \in 0..(m - 1) : tab[r] = tab[s] /\ tab[r] # 0 => r = s

\* A table of more slots than pairs has a free one.
LEMMA FreeSlot ==
  ASSUME NEW m \in Nat, NEW k \in Nat, k < m, NEW tab, NEW ps, TableOf(tab, ps, k, m)
  PROVE  \E s \in 0..(m - 1) : tab[s] = 0
<1> SUFFICES ASSUME \A s \in 0..(m - 1) : tab[s] # 0 PROVE FALSE
  OBVIOUS
<1>1. tab \in [0..(m - 1) -> 1..k]
  BY DEF TableOf
<1>2. /\ IsFiniteSet(0..(m - 1)) /\ Cardinality(0..(m - 1)) = m
      /\ IsFiniteSet(1..k) /\ Cardinality(1..k) = k
  <2>1. 0 \in Int /\ 1 \in Int /\ m - 1 \in Int /\ k \in Int
    OBVIOUS
  <2>2. /\ IsFiniteSet(0..(m - 1))
        /\ Cardinality(0..(m - 1)) = IF 0 > m - 1 THEN 0 ELSE (m - 1) - 0 + 1
    BY <2>1, FS_Interval, Zenon
  <2>3. Cardinality(1..k) = k /\ IsFiniteSet(1..k)
    BY <2>1, FS_Interval
  <2> QED  BY <2>2, <2>3
<1>3. \E r, s \in 0..(m - 1) : r # s /\ tab[r] = tab[s]
  BY <1>1, <1>2, FS_PigeonHole
<1> QED  BY <1>3 DEF TableOf

\* A free slot stops every probe.
LEMMA FreeStops ==
  ASSUME NEW m \in Nat, NEW k \in Nat, NEW tab, NEW ps, TableOf(tab, ps, k, m),
         NEW n \in Names, NEW held, NEW s \in 0..(m - 1), tab[s] = 0
  PROVE  Stops(tab, held, n) # {}
<1>1. m # 0 /\ Sized(tab, m)
  BY DEF TableOf, Sized
<1>2. PICK d \in 0..(m - 1) : Slot(tab, n, d) = s
  BY <1>1, SlotReached
<1> QED  BY <1>1, <1>2 DEF Stops, Sized

\* Where a probe stops, and what it passed.
LEMMA ProbeIs ==
  ASSUME NEW m \in Nat, NEW tab, Sized(tab, m),
         NEW n \in Names, NEW held, Stops(tab, held, n) # {}
  PROVE  \E d \in 0..(m - 1) :
           /\ StopSlot(tab, held, n) = Slot(tab, n, d)
           /\ Slot(tab, n, d) \in 0..(m - 1)
           /\ tab[Slot(tab, n, d)] \in held \union {0}
           /\ \A e \in 0..(d - 1) : /\ Slot(tab, n, e) \in 0..(m - 1)
                                   /\ tab[Slot(tab, n, e)] \notin held \union {0}
<1> DEFINE S == Stops(tab, held, n)
           d == Min(S)
<1>1. S \in SUBSET Nat /\ S # {} /\ S \subseteq 0..(m - 1) /\ m # 0
  BY DEF Stops, Sized
<1>2. d \in S /\ \A e \in S : d <= e
  <2> HIDE DEF S
  <2> QED  BY <1>1, MinLeast
<1>3. d \in 0..(m - 1) /\ StopSlot(tab, held, n) = Slot(tab, n, d)
  BY <1>1, <1>2 DEF StopSlot
<1>4. tab[Slot(tab, n, d)] \in held \union {0}
  BY <1>2 DEF Stops
<1>5. Slot(tab, n, d) \in 0..(m - 1)
  BY <1>1, <1>3, SlotIs
<1>6. ASSUME NEW e \in 0..(d - 1)
      PROVE  Slot(tab, n, e) \in 0..(m - 1) /\ tab[Slot(tab, n, e)] \notin held \union {0}
  <2>1. e \in 0..(m - 1) /\ e \notin S
    BY <1>1, <1>2
  <2> QED  BY <1>1, <2>1, SlotIs DEF Stops, Sized
<1> QED  BY <1>3, <1>4, <1>5, <1>6

\* Only the names of the pairs matter.
LEMMA SameNames ==
  ASSUME NEW m \in Nat, NEW k \in Nat, NEW tab, NEW ps, NEW qs, TableOf(tab, ps, k, m),
         \A i \in 1..k : ps[i].name = qs[i].name
  PROVE  TableOf(tab, qs, k, m)
BY DEF TableOf, Placed

\* hashing one pair more
LEMMA EnteredTable ==
  ASSUME NEW m \in Nat, NEW k \in Nat, k < m, NEW tab, NEW ps, TableOf(tab, ps, k, m),
         \A i \in 1..(k + 1) : ps[i].name \in Names
  PROVE  TableOf(Entered(tab, ps[k + 1].name, k + 1), ps, k + 1, m)
<1> DEFINE n == ps[k + 1].name
           new == Entered(tab, n, k + 1)
<1>1. Sized(tab, m) /\ tab \in [0..(m - 1) -> 0..k] /\ m # 0
  BY DEF TableOf, Sized
<1>2. PICK s \in 0..(m - 1) : tab[s] = 0
  BY FreeSlot
<1>3. Stops(tab, {}, n) # {}
  BY <1>2, FreeStops
<1>4. PICK d \in 0..(m - 1) :
        /\ StopSlot(tab, {}, n) = Slot(tab, n, d)
        /\ Slot(tab, n, d) \in 0..(m - 1)
        /\ tab[Slot(tab, n, d)] = 0
        /\ \A e \in 0..(d - 1) : Slot(tab, n, e) \in 0..(m - 1) /\ tab[Slot(tab, n, e)] # 0
  <2> HIDE DEF n
  <2>1. \E d \in 0..(m - 1) :
           /\ StopSlot(tab, {}, n) = Slot(tab, n, d)
           /\ Slot(tab, n, d) \in 0..(m - 1)
           /\ tab[Slot(tab, n, d)] \in {} \union {0}
           /\ \A e \in 0..(d - 1) : /\ Slot(tab, n, e) \in 0..(m - 1)
                                   /\ tab[Slot(tab, n, e)] \notin {} \union {0}
    BY <1>1, <1>3, ProbeIs, SMTT(30) DEF n
  <2> QED  BY <2>1
<1> DEFINE free == Slot(tab, n, d)
<1>5. new = [tab EXCEPT ![free] = k + 1]
  BY <1>4 DEF Entered
<1>6. /\ new \in [0..(m - 1) -> 0..(k + 1)] /\ Sized(new, m) /\ DOMAIN new = DOMAIN tab
      /\ new[free] = k + 1 /\ free \in 0..(m - 1) /\ tab[free] = 0
      /\ \A r \in 0..(m - 1) : r # free => new[r] = tab[r]
  <2> HIDE DEF free, new
  <2>1. free \in 0..(m - 1) /\ tab[free] = 0
    BY <1>4 DEF free
  <2> QED  BY <1>1, <1>5, <2>1 DEF Sized
<1>7. \A q, e : Slot(new, q, e) = Slot(tab, q, e)
  BY <1>6 DEF Slot
<1> HIDE DEF free, new
<1>8. ASSUME NEW i \in 1..k PROVE Placed(new, ps, i)
  <2> DEFINE p == ps[i].name
  <2>1. PICK c \in 0..(m - 1) :
          /\ tab[Slot(tab, p, c)] = i
          /\ \A e \in 0..(c - 1) : tab[Slot(tab, p, e)] \in 1..(i - 1)
    BY <1>1 DEF TableOf, Placed
  <2>2. p \in Names
    OBVIOUS
  <2> HIDE DEF p
  <2>3. \A e \in 0..(m - 1) : Slot(tab, p, e) \in 0..(m - 1)
    BY <1>1, <2>2, SlotIs
  <2>4. \A e \in 0..c : Slot(tab, p, e) \in 0..(m - 1) /\ tab[Slot(tab, p, e)] # 0
    <3>1. \A e \in 0..c : e \in 0..(m - 1) /\ (e = c \/ e \in 0..(c - 1))
      OBVIOUS
    <3> QED  BY <2>1, <2>3, <3>1
  <2>5. \A e \in 0..c : new[Slot(new, p, e)] = tab[Slot(tab, p, e)]
    BY <1>6, <1>7, <2>4
  <2>6. c \in DOMAIN new /\ new[Slot(new, p, c)] = i
    BY <1>6, <2>1, <2>5
  <2>7. \A e \in 0..(c - 1) : new[Slot(new, p, e)] \in 1..(i - 1)
    BY <2>1, <2>5
  <2> QED  BY <2>6, <2>7 DEF Placed, p
<1>9. Placed(new, ps, k + 1)
  <2>1. ASSUME NEW e \in 0..(d - 1) PROVE new[Slot(new, n, e)] \in 1..k
    <3> HIDE DEF n
    <3>1. Slot(tab, n, e) \in 0..(m - 1) /\ tab[Slot(tab, n, e)] # 0
      BY <1>4
    <3>2. tab[Slot(tab, n, e)] \in 0..k
      BY <1>1, <3>1
    <3>3. new[Slot(new, n, e)] = tab[Slot(tab, n, e)]
      BY <1>6, <1>7, <3>1
    <3> QED  BY <3>1, <3>2, <3>3
  <2>2. new[Slot(new, n, d)] = k + 1
    BY <1>6, <1>7 DEF free
  <2>3. d \in DOMAIN new
    BY <1>6
  <2> QED  BY <2>1, <2>2, <2>3 DEF Placed
<1>10. \A r, s1 \in 0..(m - 1) : new[r] = new[s1] /\ new[r] # 0 => r = s1
  <2>1. \A r, s1 \in 0..(m - 1) : tab[r] = tab[s1] /\ tab[r] # 0 => r = s1
    BY DEF TableOf
  <2>2. \A r \in 0..(m - 1) : tab[r] \in 0..k /\ tab[r] # k + 1
    BY <1>1
  <2>3. SUFFICES ASSUME NEW r \in 0..(m - 1), NEW s1 \in 0..(m - 1), new[r] = new[s1], new[r] # 0
                 PROVE  r = s1
    OBVIOUS
  <2>4. CASE r = free \/ s1 = free
    BY <1>6, <2>2, <2>3, <2>4
  <2>5. CASE r # free /\ s1 # free
    BY <1>6, <2>1, <2>3, <2>5
  <2> QED  BY <2>4, <2>5
<1>11. \A i \in 1..(k + 1) : Placed(new, ps, i)
  BY <1>8, <1>9
<1> QED  BY <1>6, <1>10, <1>11 DEF TableOf, new

\* hashing the pairs of a vector anew
LEMMA HashedTable ==
  ASSUME NEW c \in Nat, NEW ps \in Seq(Pair), Len(ps) <= HashMod(c)
  PROVE  TableOf(Hashed(ps, c), ps, Len(ps), HashMod(c))
<1> DEFINE m == HashMod(c)
           N == Len(ps)
           S == [0..(m - 1) -> Nat]
           g == [k \in 1..N |-> [tab \in S |-> Entered(tab, ps[k].name, k)]]
           Filled(upTo) == [k \in 0..N |-> IF k = 0 THEN FreeTable(c) ELSE Entered(upTo[k - 1], ps[k].name, k)]
           upTo == CHOOSE upTo : upTo = Filled(upTo)
<1>1. m \in Nat /\ N \in Nat /\ FreeTable(c) \in S
  BY DEF HashMod, FreeTable
<1>2. g \in [1..N -> [S -> S]]
  <2>1. ASSUME NEW k \in 1..N, NEW tab \in S PROVE Entered(tab, ps[k].name, k) \in S
    <3> DEFINE s == StopSlot(tab, {}, ps[k].name)
    <3>1. Entered(tab, ps[k].name, k) = [tab EXCEPT ![s] = k]
      BY DEF Entered
    <3>2. k \in Nat
      BY <1>1
    <3> HIDE DEF s, m
    <3> QED  BY <3>1, <3>2
  <2> QED  BY <2>1
<1>3. PICK f \in [0..N -> S] : Follows(f, N, FreeTable(c), g)
  <2>1. N \in Nat /\ FreeTable(c) \in S
    BY <1>1
  <2> HIDE DEF S, g, m, N
  <2> QED  BY <1>2, <2>1, RecursiveFunction
<1>4. f = Filled(f)
  <2>1. ASSUME NEW k \in 1..N PROVE f[k] = Entered(f[k - 1], ps[k].name, k)
    <3>1. k - 1 \in 0..N
      OBVIOUS
    <3>2. f[k - 1] \in S
      BY <3>1
    <3> HIDE DEF S
    <3>3. g[k][f[k - 1]] = Entered(f[k - 1], ps[k].name, k)
      BY <3>2
    <3> QED  BY <1>3, <3>3 DEF Follows
  <2>2. \A k \in 0..N : k = 0 \/ k \in 1..N
    BY <1>1
  <2> HIDE DEF g, S, N
  <2> QED  BY <1>3, <2>1, <2>2 DEF Follows
<1>5. upTo = Filled(upTo)
  <2> HIDE DEF Filled
  <2> QED  BY <1>4
<1>6. Hashed(ps, c) = upTo[N]
  BY DEF Hashed
<1> HIDE DEF upTo
<1>7. upTo[0] = FreeTable(c) /\ \A k \in 1..N : upTo[k] = Entered(upTo[k - 1], ps[k].name, k)
  BY <1>5
<1> DEFINE Good == {k \in 0..N : TableOf(upTo[k], ps, k, m)}
<1>8. 0 \in Good
  <2>1. TableOf(FreeTable(c), ps, 0, m)
    BY <1>1 DEF TableOf, FreeTable
  <2> QED  BY <1>7, <2>1
<1>9. \A k \in 0..(N - 1) : k \in Good => k + 1 \in Good
  <2> SUFFICES ASSUME NEW k \in 0..(N - 1), TableOf(upTo[k], ps, k, m)
               PROVE  TableOf(upTo[k + 1], ps, k + 1, m)
    OBVIOUS
  <2>1. upTo[k + 1] = Entered(upTo[k], ps[k + 1].name, k + 1)
    BY <1>7
  <2>2. k < m
    BY <1>1
  <2>3. ASSUME NEW i \in 1..(k + 1) PROVE ps[i].name \in Names
    <3>1. i \in 1..Len(ps) /\ ps[i] \in Pair
      OBVIOUS
    <3> QED  BY <3>1 DEF Pair
  <2> HIDE DEF m
  <2> QED  BY <1>1, <2>1, <2>2, <2>3, EnteredTable
<1>10. N \in Good
  <2>1. N \in Nat
    BY <1>1
  <2> HIDE DEF Good, N
  <2>2. \A k \in 0..N : k \in Good
    BY <1>8, <1>9, <2>1, SetInduction
  <2> QED  BY <2>1, <2>2
<1> QED  BY <1>6, <1>10

\* What a probe finds: the oldest pair of the name, or none.
LEMMA Found ==
  ASSUME NEW m \in Nat, NEW tab, NEW ps \in Seq(Pair), TableOf(tab, ps, Len(ps), m),
         NEW n \in Names
  PROVE  /\ Held(ps, n) # {} => /\ Stops(tab, Held(ps, n), n) # {}
                                /\ tab[StopSlot(tab, Held(ps, n), n)] = Min(Held(ps, n))
         /\ Held(ps, n) = {} /\ Stops(tab, Held(ps, n), n) # {} =>
              tab[StopSlot(tab, Held(ps, n), n)] = 0
<1> DEFINE held == Held(ps, n)
<1>1. Sized(tab, m) /\ tab \in [0..(m - 1) -> 0..Len(ps)]
  BY DEF TableOf, Sized
<1>2. CASE held = {}
  BY <1>1, <1>2, ProbeIs
<1>3. CASE held # {}
  <2> DEFINE i == Min(held)
  <2>1. i \in held /\ (\A j \in held : i <= j) /\ i \in 1..Len(ps) /\ ps[i].name = n
    <3>1. held \in SUBSET Nat
      BY DEF Held
    <3>2. i \in held /\ \A j \in held : i <= j
      <4> HIDE DEF held
      <4> QED  BY <1>3, <3>1, MinLeast
    <3> QED  BY <3>2 DEF Held
  <2> HIDE DEF i
  <2>2. Placed(tab, ps, i)
    BY <2>1 DEF TableOf
  <2>3. PICK c \in 0..(m - 1) : /\ tab[Slot(tab, n, c)] = i
                               /\ \A e \in 0..(c - 1) : tab[Slot(tab, n, e)] \in 1..(i - 1)
    BY <1>1, <2>1, <2>2 DEF Placed
  <2>4. c \in Stops(tab, held, n)
    BY <1>1, <2>1, <2>3 DEF Stops
  <2>5. \A e \in 0..(c - 1) : tab[Slot(tab, n, e)] \notin held \union {0}
    BY <2>1, <2>3
  <2> HIDE DEF held
  <2>6. PICK d \in 0..(m - 1) :
           /\ StopSlot(tab, held, n) = Slot(tab, n, d)
           /\ Slot(tab, n, d) \in 0..(m - 1)
           /\ tab[Slot(tab, n, d)] \in held \union {0}
           /\ \A e \in 0..(d - 1) : /\ Slot(tab, n, e) \in 0..(m - 1)
                                   /\ tab[Slot(tab, n, e)] \notin held \union {0}
    BY <1>1, <2>4, ProbeIs
  <2>7. tab[Slot(tab, n, c)] \in held \union {0}
    BY <2>1, <2>3
  <2>8. ~(c < d) /\ ~(d < c)
    BY <2>5, <2>6, <2>7
  <2>9. c = d
    BY <2>8
  <2> QED  BY <1>3, <2>3, <2>4, <2>6, <2>9 DEF held, i
<1> QED  BY <1>2, <1>3

-----------------------------------------------------------------------------
(* The left sides.  One that is live leads to the oldest pair of its name. *)

LeftsOK(ls, ps) ==
  /\ ls \in Seq([name : Names, pair : 1..Len(ps), live : BOOLEAN])
  /\ \A k \in DOMAIN ls : ls[k].live =>
       /\ ps[ls[k].pair].name = ls[k].name
       /\ \A j \in Held(ps, ls[k].name) : ls[k].pair <= j
  /\ MaxNest <= 1 => Len(ls) <= 1 /\ \A k \in DOMAIN ls : ls[k].live

LEMMA LeftsType ==
  ASSUME NEW ps, NEW ls, LeftsOK(ls, ps)
  PROVE  /\ Len(ls) \in Nat /\ DOMAIN ls = 1..Len(ls)
         /\ \A k \in DOMAIN ls : /\ ls[k] \in [name : Names, pair : 1..Len(ps), live : BOOLEAN]
                                 /\ ls[k].pair \in 1..Len(ps)
<1> DEFINE L == [name : Names, pair : 1..Len(ps), live : BOOLEAN]
<1>1. ls \in Seq(L)
  BY DEF LeftsOK
<1>2. \A l \in L : l.pair \in 1..Len(ps)
  OBVIOUS
<1> HIDE DEF L
<1>3. Len(ls) \in Nat /\ DOMAIN ls = 1..Len(ls) /\ \A k \in DOMAIN ls : ls[k] \in L
  BY <1>1
<1> QED  BY <1>2, <1>3 DEF L

LEMMA LeftsPointed ==
  ASSUME NEW ps \in Seq(Pair), NEW ls, LeftsOK(ls, ps), MaxNest <= 1 => ls = <<>>,
         NEW n \in Names, NEW i \in Held(ps, n), \A j \in Held(ps, n) : i <= j
  PROVE  LeftsOK(<<[name |-> n, pair |-> i, live |-> TRUE]>> \o ls, ps)
<1> DEFINE L == [name : Names, pair : 1..Len(ps), live : BOOLEAN]
           l == [name |-> n, pair |-> i, live |-> TRUE]
           new == <<l>> \o ls
<1>1. ls \in Seq(L) /\ l \in L /\ ps[i].name = n
  BY DEF LeftsOK, Held
<1>2. /\ new \in Seq(L) /\ Len(new) = Len(ls) + 1 /\ new[1] = l
      /\ \A k \in 2..Len(new) : k - 1 \in DOMAIN ls /\ new[k] = ls[k - 1]
  <2> HIDE DEF L, l
  <2> QED  BY <1>1
<1>3. MaxNest <= 1 => Len(new) <= 1 /\ \A k \in DOMAIN new : new[k].live
  <2>1. ls = <<>> => Len(new) = 1
    BY <1>2
  <2> HIDE DEF new
  <2> QED  BY <1>2, <2>1
<1>4. \A k \in DOMAIN new : new[k].live =>
         /\ ps[new[k].pair].name = new[k].name
         /\ \A j \in Held(ps, new[k].name) : new[k].pair <= j
  <2> HIDE DEF new
  <2> SUFFICES ASSUME NEW k \in DOMAIN new, new[k].live
               PROVE  /\ ps[new[k].pair].name = new[k].name
                      /\ \A j \in Held(ps, new[k].name) : new[k].pair <= j
    OBVIOUS
  <2>1. CASE k = 1
    BY <1>1, <1>2, <2>1
  <2>2. CASE k # 1
    <3>1. k - 1 \in DOMAIN ls /\ new[k] = ls[k - 1]
      <4> HIDE DEF L
      <4> QED  BY <1>2, <2>2
    <3> QED  BY <3>1 DEF LeftsOK
  <2> QED  BY <2>1, <2>2
<1> HIDE DEF new
<1> QED  BY <1>2, <1>3, <1>4 DEF LeftsOK, new

\* a pair appended
LEMMA LeftsAppended ==
  ASSUME NEW ps \in Seq(Pair), NEW p \in Pair, NEW ls, LeftsOK(ls, ps)
  PROVE  LeftsOK(ls, Append(ps, p))
<1> DEFINE qs == Append(ps, p)
<1>1. qs \in Seq(Pair) /\ Len(qs) = Len(ps) + 1 /\ \A i \in 1..Len(ps) : qs[i] = ps[i]
  OBVIOUS
<1>2. \A n : \A j \in Held(qs, n) : j \in Held(ps, n) \/ j = Len(ps) + 1
  BY <1>1 DEF Held
<1> HIDE DEF qs
<1>3. ls \in Seq([name : Names, pair : 1..Len(qs), live : BOOLEAN])
  <2> DEFINE L == [name : Names, pair : 1..Len(ps), live : BOOLEAN]
             M == [name : Names, pair : 1..Len(qs), live : BOOLEAN]
  <2>1. L \subseteq M
    BY <1>1
  <2>2. ls \in Seq(L)
    BY DEF LeftsOK
  <2> HIDE DEF L, M
  <2>3. ls \in Seq(M)
    BY <2>1, <2>2
  <2> QED  BY <2>3 DEF M
<1>4. \A k \in DOMAIN ls : ls[k].pair \in 1..Len(ps)
  BY LeftsType
<1>5. ASSUME NEW k \in DOMAIN ls, ls[k].live
      PROVE  qs[ls[k].pair].name = ls[k].name /\ \A j \in Held(qs, ls[k].name) : ls[k].pair <= j
  BY <1>1, <1>2, <1>4, <1>5 DEF LeftsOK
<1> QED  BY <1>3, <1>5 DEF LeftsOK, qs

\* the vector they point into freed
LEMMA LeftsFreed ==
  ASSUME NEW ps \in Seq(Pair), NEW ls, LeftsOK(ls, ps), MaxNest <= 1 => ls = <<>>
  PROVE  LeftsOK([k \in DOMAIN ls |-> [ls[k] EXCEPT !.live = FALSE]], ps)
<1> DEFINE L == [name : Names, pair : 1..Len(ps), live : BOOLEAN]
           new == [k \in DOMAIN ls |-> [ls[k] EXCEPT !.live = FALSE]]
<1>1. ls \in Seq(L)
  BY DEF LeftsOK
<1>2. ASSUME NEW k \in DOMAIN ls PROVE new[k] \in L /\ ~new[k].live
  <2>1. ls[k] \in L
    BY LeftsType
  <2> QED  BY <2>1
<1>3. new \in Seq(L) /\ DOMAIN new = DOMAIN ls /\ Len(new) = Len(ls)
  BY <1>1, <1>2
<1>4. MaxNest <= 1 => Len(ls) = 0 /\ DOMAIN ls = {}
  BY <1>1
<1> HIDE DEF new
<1> QED  BY <1>2, <1>3, <1>4 DEF LeftsOK, new

\* one of them assigned to, or a value
LEMMA LeftsSame ==
  ASSUME NEW ps, NEW qs, NEW ls, LeftsOK(ls, ps), Len(ps) \in Nat, Len(qs) = Len(ps),
         DOMAIN ps = 1..Len(ps), DOMAIN qs = 1..Len(ps), \A i \in 1..Len(ps) : qs[i].name = ps[i].name
  PROVE  LeftsOK(ls, qs)
<1>1. \A n : Held(qs, n) = Held(ps, n)
  BY DEF Held
<1>2. \A k \in DOMAIN ls : ls[k].pair \in 1..Len(ps)
  BY LeftsType
<1> QED  BY <1>1, <1>2 DEF LeftsOK

LEMMA LeftsTail ==
  ASSUME NEW ps, NEW ls, LeftsOK(ls, ps), ls # <<>>
  PROVE  LeftsOK(Tail(ls), ps)
<1> DEFINE L == [name : Names, pair : 1..Len(ps), live : BOOLEAN]
<1>1. ls \in Seq(L)
  BY DEF LeftsOK
<1>2. /\ Tail(ls) \in Seq(L) /\ Len(Tail(ls)) = Len(ls) - 1
      /\ \A k \in DOMAIN Tail(ls) : k + 1 \in DOMAIN ls /\ Tail(ls)[k] = ls[k + 1]
  <2> HIDE DEF L
  <2> QED  BY <1>1
<1> QED  BY <1>2 DEF LeftsOK

-----------------------------------------------------------------------------
(* The inductive invariant: the vector, its table and the left sides.  The *)
(* modifiable object's vector never has room for just one pair, so its     *)
(* table has more slots than the vector has pairs.                         *)

VectorInv ==
  /\ pairs \in Seq(Pair)
  /\ cap \in Nat /\ Len(pairs) <= cap
  /\ marshaled \in BOOLEAN /\ running \in BOOLEAN
  /\ IF marshaled THEN cap = Len(pairs) ELSE cap # 1

IInv ==
  /\ VectorInv
  /\ TableOf(table, pairs, Len(pairs), HashMod(cap))
  /\ LeftsOK(lvals, pairs)

LEMMA HashModIs ==
  ASSUME NEW c \in Nat
  PROVE  HashMod(c) \in Nat /\ c <= HashMod(c) /\ (c >= 2 => c < HashMod(c)) /\ (HashMod(c) = 0 <=> c = 0)
BY DEF HashMod

LEMMA InitInv == Init => IInv
<1> SUFFICES ASSUME Init PROVE IInv
  OBVIOUS
<1>1. PICK k \in 0..MaxLiteral : pairs \in [1..k -> [name : Names, value : Values]]
  BY DEF Init
<1>2. pairs \in Seq(Pair) /\ Len(pairs) \in Nat
  <2>1. k \in Nat
    OBVIOUS
  <2>2. [name : Names, value : Values] \subseteq Pair
    BY DEF Pair
  <2>3. pairs \in [1..k -> Pair]
    BY <1>1, <2>2
  <2> QED  BY <2>1, <2>3
<1>3. cap \in Nat /\ Len(pairs) <= cap /\ cap # 1 /\ Len(pairs) <= HashMod(cap)
  <2>1. cap \in Nat /\ Len(pairs) <= cap /\ cap # 1
    <3>1. CASE pairs = <<>>
      BY <3>1 DEF Init
    <3>2. CASE pairs # <<>>
      BY <1>2, <3>2, CapAssumption DEF Init, Larger
    <3> QED  BY <3>1, <3>2
  <2>2. cap <= HashMod(cap) /\ HashMod(cap) \in Nat
    BY <2>1, HashModIs
  <2> QED  BY <1>2, <2>1, <2>2
<1>4. VectorInv
  BY <1>2, <1>3 DEF Init, VectorInv
<1>5. TableOf(table, pairs, Len(pairs), HashMod(cap))
  BY <1>2, <1>3, HashedTable DEF Init
<1>6. LeftsOK(lvals, pairs)
  <2>1. lvals = <<>>
    BY DEF Init
  <2> QED  BY <2>1 DEF LeftsOK
<1> QED  BY <1>4, <1>5, <1>6 DEF IInv

\* The vector an assignment works on, a copy when the object is marshaled.
LEMMA WorkIs ==
  ASSUME IInv
  PROVE  /\ WorkCap \in Nat /\ WorkCap # 1 /\ Len(pairs) <= WorkCap
         /\ TableOf(WorkTable, pairs, Len(pairs), HashMod(WorkCap))
<1>1. pairs \in Seq(Pair) /\ Len(pairs) \in Nat
  BY DEF IInv, VectorInv
<1>2. CASE marshaled
  <2>1. CloneCap \in Nat /\ CloneCap >= 2 /\ Len(pairs) <= CloneCap
    BY <1>1, CapAssumption DEF CloneCap, Larger
  <2>2. Len(pairs) <= HashMod(CloneCap)
    BY <1>1, <2>1, HashModIs
  <2>3. TableOf(Hashed(pairs, CloneCap), pairs, Len(pairs), HashMod(CloneCap))
    BY <1>1, <2>1, <2>2, HashedTable
  <2> QED  BY <1>2, <2>1, <2>3 DEF WorkCap, WorkTable
<1>3. CASE ~marshaled
  BY <1>3 DEF IInv, VectorInv, WorkCap, WorkTable
<1> QED  BY <1>2, <1>3

\* The pair a new name is given is the only one of the name.
LEMMA NewPair ==
  ASSUME NEW ps \in Seq(Pair), NEW n \in Names, Held(ps, n) = {}
  PROVE  LET qs == Append(ps, [name |-> n, value |-> Undef])
         IN /\ qs \in Seq(Pair) /\ Len(qs) = Len(ps) + 1
            /\ \A i \in 1..Len(ps) : qs[i] = ps[i]
            /\ qs[Len(ps) + 1] = [name |-> n, value |-> Undef]
            /\ Held(qs, n) = {Len(ps) + 1}
            /\ \A x \in Names \ {n} : Held(qs, x) = Held(ps, x)
<1> DEFINE p == [name |-> n, value |-> Undef]
           qs == Append(ps, p)
<1>1. p \in Pair /\ p.name = n
  BY DEF Pair
<1> HIDE DEF p
<1>2. /\ qs \in Seq(Pair) /\ Len(qs) = Len(ps) + 1 /\ qs[Len(ps) + 1] = p
      /\ Len(ps) \in Nat /\ DOMAIN qs = 1..(Len(ps) + 1) /\ DOMAIN ps = 1..Len(ps)
      /\ \A i \in 1..Len(ps) : qs[i] = ps[i]
  BY <1>1
<1> HIDE DEF qs
<1>3. Held(qs, n) = {Len(ps) + 1}
  BY <1>1, <1>2 DEF Held
<1>4. ASSUME NEW x \in Names \ {n} PROVE Held(qs, x) = Held(ps, x)
  BY <1>1, <1>2 DEF Held
<1> QED  BY <1>2, <1>3, <1>4 DEF p, qs

\* Without nesting, no left side is waiting when one is evaluated.
LEMMA NoneWaits == IInv /\ Len(lvals) < MaxNest => (MaxNest <= 1 => lvals = <<>>)
<1> SUFFICES ASSUME IInv, Len(lvals) < MaxNest, MaxNest <= 1 PROVE lvals = <<>>
  OBVIOUS
<1>1. Len(lvals) = 0
  BY LeftsType, BoundsAssumption DEF IInv
<1>2. lvals \in Seq([name : Names, pair : 1..Len(pairs), live : BOOLEAN])
  BY DEF IInv, LeftsOK
<1> HIDE DEF IInv
<1> QED  BY <1>1, <1>2

LEMMA LeftHeldInv ==
  ASSUME IInv, NEW n \in Names, Len(lvals) < MaxNest, LeftHeld(n), marshaled' = FALSE, UNCHANGED running
  PROVE  IInv'
<1> DEFINE i == WorkTable[StopSlot(WorkTable, Held(pairs, n), n)]
<1>1. pairs \in Seq(Pair)
  BY DEF IInv, VectorInv
<1>2. i = Min(Held(pairs, n))
  BY <1>1, WorkIs, Found, HashModIs, SMTT(30) DEF LeftHeld
<1>3. i \in Held(pairs, n) /\ \A j \in Held(pairs, n) : i <= j
  <2>1. Held(pairs, n) \in SUBSET Nat /\ Held(pairs, n) # {}
    BY <1>1 DEF Held, LeftHeld
  <2> QED  BY <1>2, <2>1, MinLeast
<1>4. MaxNest <= 1 => lvals = <<>>
  BY NoneWaits
<1>5. lvals' = <<[name |-> n, pair |-> i, live |-> TRUE]>> \o lvals
  BY DEF LeftHeld, Point
<1> HIDE DEF i
<1>6. LeftsOK(lvals', pairs)
  BY <1>1, <1>3, <1>4, <1>5, LeftsPointed DEF IInv
<1>7. pairs' = pairs /\ cap' = WorkCap /\ table' = WorkTable
  BY DEF LeftHeld
<1> QED  BY <1>6, <1>7, WorkIs DEF IInv, VectorInv

LEMMA LeftAppendedInv ==
  ASSUME IInv, NEW n \in Names, Len(lvals) < MaxNest, LeftAppended(n), marshaled' = FALSE, UNCHANGED running
  PROVE  IInv'
<1> DEFINE N == Len(pairs)
           m == HashMod(WorkCap)
<1>1. pairs \in Seq(Pair) /\ N \in Nat
  BY DEF IInv, VectorInv
<1>2. Held(pairs, n) = {} /\ pairs' = Append(pairs, [name |-> n, value |-> Undef])
  BY DEF LeftAppended
<1>3. /\ pairs' \in Seq(Pair) /\ Len(pairs') = N + 1
      /\ \A i \in 1..N : pairs'[i] = pairs[i]
      /\ pairs'[N + 1].name = n
      /\ Held(pairs', n) = {N + 1}
  BY <1>1, <1>2, NewPair
<1>4. WorkCap \in Nat /\ N + 1 < WorkCap /\ cap' = WorkCap
  BY WorkIs DEF LeftAppended
<1>5. TableOf(table', pairs', N + 1, m)
  <2>1. m \in Nat /\ N < m
    BY <1>1, <1>4, HashModIs
  <2>2. TableOf(WorkTable, pairs', N, m)
    BY <1>1, <1>3, <2>1, WorkIs, SameNames
  <2>3. ASSUME NEW i \in 1..(N + 1) PROVE pairs'[i].name \in Names
    <3>1. pairs'[i] \in Pair
      BY <1>1, <1>3
    <3> QED  BY <3>1 DEF Pair
  <2>4. table' = Entered(WorkTable, pairs'[N + 1].name, N + 1)
    BY <1>3 DEF LeftAppended
  <2> HIDE DEF m, N
  <2> QED  BY <1>1, <2>1, <2>2, <2>3, <2>4, EnteredTable
<1>6. LeftsOK(lvals', pairs')
  <2>1. LeftsOK(lvals, pairs')
    BY <1>1, <1>2, LeftsAppended DEF IInv, Pair
  <2>2. MaxNest <= 1 => lvals = <<>>
    BY NoneWaits
  <2>3. N + 1 \in Held(pairs', n) /\ \A j \in Held(pairs', n) : N + 1 <= j
    BY <1>1, <1>3
  <2>4. lvals' = <<[name |-> n, pair |-> N + 1, live |-> TRUE]>> \o lvals
    BY DEF LeftAppended, Point
  <2> HIDE DEF N
  <2> QED  BY <1>3, <2>1, <2>2, <2>3, <2>4, LeftsPointed
<1>7. VectorInv'
  <2>1. running' \in BOOLEAN
    BY DEF IInv, VectorInv
  <2>2. cap' \in Nat /\ Len(pairs') <= cap' /\ cap' # 1
    BY <1>1, <1>3, <1>4
  <2> QED  BY <1>3, <2>1, <2>2 DEF VectorInv
<1> QED  BY <1>3, <1>4, <1>5, <1>6, <1>7 DEF IInv

LEMMA LeftGrownInv ==
  ASSUME IInv, NEW n \in Names, Len(lvals) < MaxNest, LeftGrown(n), marshaled' = FALSE, UNCHANGED running
  PROVE  IInv'
<1> DEFINE N == Len(pairs)
           freed == [k \in DOMAIN lvals |-> [lvals[k] EXCEPT !.live = FALSE]]
<1>1. pairs \in Seq(Pair) /\ N \in Nat
  BY DEF IInv, VectorInv
<1>2. Held(pairs, n) = {} /\ pairs' = Append(pairs, [name |-> n, value |-> Undef])
  BY DEF LeftGrown
<1>3. pairs' \in Seq(Pair) /\ Len(pairs') = N + 1 /\ Held(pairs', n) = {N + 1}
  BY <1>1, <1>2, NewPair
<1>4. cap' \in Nat /\ cap' >= 2 /\ N + 1 <= cap'
  BY <1>1, WorkIs, CapAssumption DEF LeftGrown, Grown, Larger
<1>5. TableOf(table', pairs', N + 1, HashMod(cap'))
  <2>1. N + 1 <= HashMod(cap')
    BY <1>1, <1>4, HashModIs
  <2>2. table' = Hashed(pairs', cap')
    BY DEF LeftGrown
  <2> QED  BY <1>3, <1>4, <2>1, <2>2, HashedTable
<1>6. LeftsOK(lvals', pairs')
  <2>1. LeftsOK(lvals, pairs')
    BY <1>1, <1>2, LeftsAppended DEF IInv, Pair
  <2>2. MaxNest <= 1 => lvals = <<>>
    BY NoneWaits
  <2>3. LeftsOK(freed, pairs')
    BY <1>3, <2>1, <2>2, LeftsFreed
  <2>4. MaxNest <= 1 => freed = <<>>
    BY <2>2
  <2>5. N + 1 \in Held(pairs', n) /\ \A j \in Held(pairs', n) : N + 1 <= j
    BY <1>1, <1>3
  <2>6. lvals' = <<[name |-> n, pair |-> N + 1, live |-> TRUE]>> \o freed
    BY DEF LeftGrown, Point
  <2> HIDE DEF N, freed
  <2> QED  BY <1>3, <2>3, <2>4, <2>5, <2>6, LeftsPointed
<1>7. VectorInv'
  <2>1. running' \in BOOLEAN
    BY DEF IInv, VectorInv
  <2>2. cap' \in Nat /\ Len(pairs') <= cap' /\ cap' # 1
    BY <1>1, <1>3, <1>4
  <2> QED  BY <1>3, <2>1, <2>2 DEF VectorInv
<1> QED  BY <1>3, <1>5, <1>6, <1>7 DEF IInv

\* The vector after an assignment.
LEMMA AssignedPairs ==
  ASSUME IInv, NEW v \in Values, Assign(v)
  PROVE  /\ pairs' \in Seq(Pair) /\ Len(pairs') = Len(pairs) /\ Len(pairs) \in Nat
         /\ \A i \in 1..Len(pairs) : /\ pairs'[i].name = pairs[i].name
                                     /\ pairs'[i].value = IF Head(lvals).live /\ i = Head(lvals).pair THEN v
                                                                                         ELSE pairs[i].value
<1>1. pairs \in Seq(Pair) /\ Len(pairs) \in Nat
  BY DEF IInv, VectorInv
<1>2. CASE Head(lvals).live
  <2> DEFINE j == Head(lvals).pair
  <2>1. j \in 1..Len(pairs)
    BY LeftsType DEF IInv, Assign
  <2>2. pairs' = [pairs EXCEPT ![j].value = v]
    BY <1>2 DEF Assign
  <2> HIDE DEF j
  <2>3. DOMAIN pairs' = 1..Len(pairs) /\ DOMAIN pairs = 1..Len(pairs)
    BY <1>1, <2>2
  <2>4. ASSUME NEW i \in 1..Len(pairs)
        PROVE  /\ pairs'[i] \in Pair
               /\ pairs'[i].name = pairs[i].name
               /\ pairs'[i].value = IF i = j THEN v ELSE pairs[i].value
    <3>1. pairs[i] \in Pair
      BY <1>1
    <3>2. pairs'[i] = IF i = j THEN [pairs[i] EXCEPT !.value = v] ELSE pairs[i]
      BY <2>2, <2>3
    <3> HIDE DEF j
    <3> QED  BY <3>1, <3>2 DEF Pair
  <2>5. pairs' \in Seq(Pair) /\ Len(pairs') = Len(pairs)
    <3>1. pairs' = [i \in 1..Len(pairs) |-> pairs'[i]]
      BY <2>2, <2>3
    <3>2. pairs' \in [1..Len(pairs) -> Pair]
      BY <2>3, <2>4, <3>1
    <3> QED  BY <1>1, <3>2
  <2> QED  BY <1>1, <1>2, <2>4, <2>5 DEF j
<1>3. CASE ~Head(lvals).live
  BY <1>1, <1>3 DEF Assign
<1> QED  BY <1>2, <1>3

LEMMA NextInv == IInv /\ [Next]_vars => IInv'
<1> SUFFICES ASSUME IInv, [Next]_vars PROVE IInv'
  OBVIOUS
<1>1. ASSUME NEW n \in Names, LVal(n) PROVE IInv'
  BY <1>1, LeftHeldInv, LeftAppendedInv, LeftGrownInv DEF LVal
<1>2. ASSUME NEW n \in Names, Read(n) PROVE IInv'
  BY <1>2 DEF Read, IInv, VectorInv
<1>3. ASSUME NEW v \in Values, Assign(v) PROVE IInv'
  <2>1. /\ pairs' \in Seq(Pair) /\ Len(pairs') = Len(pairs) /\ Len(pairs) \in Nat
        /\ \A i \in 1..Len(pairs) : pairs'[i].name = pairs[i].name
    BY <1>3, AssignedPairs
  <2>2. VectorInv' /\ cap' = cap
    BY <1>3, <2>1 DEF IInv, VectorInv, Assign
  <2>3. TableOf(table', pairs', Len(pairs'), HashMod(cap'))
    <3>1. table' = table
      BY <1>3 DEF Assign
    <3>2. HashMod(cap) \in Nat
      BY HashModIs DEF IInv, VectorInv
    <3> QED  BY <2>1, <2>2, <3>1, <3>2, SameNames DEF IInv
  <2>4. LeftsOK(lvals', pairs')
    <3>1. lvals # <<>> /\ lvals' = Tail(lvals)
      BY <1>3 DEF Assign
    <3>2. LeftsOK(Tail(lvals), pairs)
      BY <3>1, LeftsTail DEF IInv
    <3>3. DOMAIN pairs = 1..Len(pairs) /\ DOMAIN pairs' = 1..Len(pairs)
      BY <2>1 DEF IInv, VectorInv
    <3> QED  BY <2>1, <3>1, <3>2, <3>3, LeftsSame
  <2> QED  BY <2>2, <2>3, <2>4 DEF IInv
<1>4. CASE Marshal
  <2>1. pairs \in Seq(Pair) /\ Len(pairs) \in Nat
    BY DEF IInv, VectorInv
  <2>2. Len(pairs) <= HashMod(Len(pairs))
    BY <2>1, HashModIs
  <2>3. TableOf(Hashed(pairs, Len(pairs)), pairs, Len(pairs), HashMod(Len(pairs)))
    BY <2>1, <2>2, HashedTable
  <2> QED  BY <1>4, <2>1, <2>3 DEF Marshal, IInv, VectorInv
<1>5. CASE UNCHANGED vars
  BY <1>5 DEF vars, IInv, VectorInv
<1> QED  BY <1>1, <1>2, <1>3, <1>4, <1>5 DEF Next

-----------------------------------------------------------------------------
(* What the invariant says to a reader of a property. *)

LEMMA PairsAreOnce == IInv => PairsOnce
<1> SUFFICES ASSUME IInv, NEW i \in DOMAIN pairs
             PROVE  \E s \in DOMAIN table : \A r \in DOMAIN table : table[r] = i <=> r = s
  BY DEF PairsOnce
<1>1. i \in 1..Len(pairs) /\ i # 0
  BY DEF IInv, VectorInv
<1> DEFINE m == HashMod(cap)
<1>2. table \in [0..(m - 1) -> 0..Len(pairs)] /\ m \in Nat
  BY HashModIs DEF IInv, VectorInv, TableOf
<1>3. PICK d \in DOMAIN table : table[Slot(table, pairs[i].name, d)] = i
  BY <1>1 DEF IInv, TableOf, Placed
<1>4. pairs[i].name \in Names
  <2>1. pairs[i] \in Pair
    BY DEF IInv, VectorInv
  <2> QED  BY <2>1 DEF Pair
<1>5. Slot(table, pairs[i].name, d) \in DOMAIN table
  BY <1>2, <1>3, <1>4, SlotIs DEF Sized
<1>6. \A r, s \in DOMAIN table : table[r] = table[s] /\ table[r] # 0 => r = s
  BY <1>2 DEF IInv, TableOf
<1> QED  BY <1>1, <1>3, <1>5, <1>6

LEMMA IndexIs ==
  ASSUME IInv, NEW n \in Names
  PROVE  /\ Held(pairs, n) # {} => ~Overflows(n) /\ DOMAIN table # {}
         /\ ~Overflows(n) => Index(n) = IF Held(pairs, n) = {} THEN 0 ELSE Min(Held(pairs, n))
         /\ Held(pairs, n) # {} => Min(Held(pairs, n)) \in DOMAIN pairs /\ Min(Held(pairs, n)) # 0
<1> DEFINE m == HashMod(cap)
<1>1. pairs \in Seq(Pair) /\ m \in Nat /\ TableOf(table, pairs, Len(pairs), m)
  BY HashModIs DEF IInv, VectorInv
<1> HIDE DEF m
<1>2. /\ Held(pairs, n) # {} => /\ Stops(table, Held(pairs, n), n) # {}
                                /\ table[StopSlot(table, Held(pairs, n), n)] = Min(Held(pairs, n))
      /\ Held(pairs, n) = {} /\ Stops(table, Held(pairs, n), n) # {} =>
           table[StopSlot(table, Held(pairs, n), n)] = 0
  BY <1>1, Found
<1>3. DOMAIN table = {} => Stops(table, Held(pairs, n), n) = {}
  BY DEF Stops
<1>4. Held(pairs, n) # {} => Min(Held(pairs, n)) \in DOMAIN pairs /\ Min(Held(pairs, n)) # 0
  <2>1. Held(pairs, n) \in SUBSET (DOMAIN pairs) /\ DOMAIN pairs = 1..Len(pairs) /\ Len(pairs) \in Nat
    BY <1>1 DEF Held
  <2>2. Held(pairs, n) \in SUBSET Nat
    BY <2>1
  <2>3. Held(pairs, n) # {} => Min(Held(pairs, n)) \in Held(pairs, n)
    BY <2>2, MinLeast
  <2> QED  BY <2>1, <2>3
<1> QED  BY <1>2, <1>3, <1>4 DEF Overflows, Index

LEMMA PropIs ==
  IInv => \A n \in Names :
    Prop(n) = IF Held(pairs, n) = {} THEN Undef ELSE pairs[Min(Held(pairs, n))].value
BY IndexIs DEF Prop

LEMMA PropNext ==
  IInv' => \A n \in Names :
    Prop(n)' = IF Held(pairs', n) = {} THEN Undef ELSE pairs'[Min(Held(pairs', n))].value
<1>1. (IInv => \A n \in Names :
         Prop(n) = IF Held(pairs, n) = {} THEN Undef ELSE pairs[Min(Held(pairs, n))].value)'
  BY PropIs, PTL
<1> QED  BY <1>1

LEMMA InvTypeOK == IInv => TypeOK
<1> SUFFICES ASSUME IInv PROVE TypeOK
  OBVIOUS
<1>1. DOMAIN pairs = 1..Len(pairs)
  BY DEF IInv, VectorInv
<1>2. \A k \in DOMAIN lvals : lvals[k] \in [name : Names, pair : DOMAIN pairs, live : BOOLEAN]
  BY <1>1, LeftsType DEF IInv
<1> QED  BY <1>2 DEF IInv, VectorInv, TableOf, TypeOK

LEMMA InvProbesEnd == IInv => ProbesEnd
<1> SUFFICES ASSUME IInv, NEW n \in Names, Overflows(n) PROVE marshaled /\ Len(pairs) = 1
  BY DEF ProbesEnd
<1> DEFINE m == HashMod(cap)
<1>1. m \in Nat /\ TableOf(table, pairs, Len(pairs), m) /\ Len(pairs) \in Nat
  BY HashModIs DEF IInv, VectorInv
<1>2. DOMAIN table = 0..(m - 1)
  BY DEF IInv, TableOf
<1>3. m # 0
  BY <1>1, <1>2 DEF Overflows
<1>4. ~(Len(pairs) < m)
  <2> SUFFICES ASSUME Len(pairs) < m PROVE FALSE
    OBVIOUS
  <2> HIDE DEF m
  <2>1. PICK s \in 0..(m - 1) : table[s] = 0
    BY <1>1, FreeSlot
  <2> QED  BY <1>1, <2>1, FreeStops DEF Overflows
<1>5. cap \in Nat /\ Len(pairs) <= cap /\ ~(cap < m)
  BY <1>1, <1>4 DEF IInv, VectorInv
<1>6. cap = 1
  BY <1>3, <1>5, HashModIs
<1> QED  BY <1>1, <1>3, <1>4, <1>5, <1>6, HashModIs DEF IInv, VectorInv

-----------------------------------------------------------------------------
(* The object as a dictionary: evaluating a left side changes no property, *)
(* and an assignment whose left side is live changes the one named.        *)

LEMMA LeftKeeps ==
  ASSUME IInv, IInv', NEW n \in Names, LVal(n), NEW x \in Names
  PROVE  Prop(x)' = Prop(x)
<1>1. Prop(x)' = IF Held(pairs', x) = {} THEN Undef ELSE pairs'[Min(Held(pairs', x))].value
  BY PropNext
<1>2. CASE LeftHeld(n)
  BY <1>1, <1>2, PropIs DEF LeftHeld
<1>3. CASE LeftAppended(n) \/ LeftGrown(n)
  <2>1. pairs \in Seq(Pair) /\ Len(pairs) \in Nat
    BY DEF IInv, VectorInv
  <2>2. Held(pairs, n) = {} /\ pairs' = Append(pairs, [name |-> n, value |-> Undef])
    BY <1>3 DEF LeftAppended, LeftGrown
  <2>3. /\ \A i \in 1..Len(pairs) : pairs'[i] = pairs[i]
        /\ pairs'[Len(pairs) + 1] = [name |-> n, value |-> Undef]
        /\ Held(pairs', n) = {Len(pairs) + 1}
        /\ \A y \in Names \ {n} : Held(pairs', y) = Held(pairs, y)
    BY <2>1, <2>2, NewPair
  <2>4. CASE x = n
    <3>1. {Len(pairs) + 1} \in SUBSET Nat
      BY <2>1
    <3>2. Min(Held(pairs', x)) = Len(pairs) + 1
      BY <2>3, <2>4, <3>1, MinLeast
    <3> QED  BY <1>1, <2>2, <2>3, <2>4, <3>2, PropIs
  <2>5. CASE x # n
    <3>1. Held(pairs', x) = Held(pairs, x)
      BY <2>3, <2>5
    <3>2. Held(pairs, x) # {} => Min(Held(pairs, x)) \in 1..Len(pairs)
      BY <2>1, IndexIs
    <3> QED  BY <1>1, <2>3, <3>1, <3>2, PropIs
  <2> QED  BY <2>4, <2>5
<1> QED  BY <1>2, <1>3 DEF LVal

LEMMA AssignGives ==
  ASSUME IInv, IInv', NEW v \in Values, Assign(v), Head(lvals).live, NEW x \in Names
  PROVE  /\ Head(lvals).name \in Names
         /\ Prop(x)' = IF x = Head(lvals).name THEN v ELSE Prop(x)
<1> DEFINE l == Head(lvals)
           j == l.pair
<1>1. pairs \in Seq(Pair) /\ DOMAIN pairs = 1..Len(pairs) /\ Len(pairs) \in Nat
  BY DEF IInv, VectorInv
<1>2. l = lvals[1] /\ 1 \in DOMAIN lvals
  BY LeftsType DEF IInv, Assign
<1>3. /\ l.name \in Names /\ j \in 1..Len(pairs) /\ pairs[j].name = l.name
      /\ \A i \in Held(pairs, l.name) : j <= i
  <2>1. lvals[1] \in [name : Names, pair : 1..Len(pairs), live : BOOLEAN]
    BY <1>2, LeftsType DEF IInv
  <2>2. l.name \in Names /\ j \in 1..Len(pairs) /\ l.live
    BY <1>2, <2>1
  <2>3. LeftsOK(lvals, pairs)
    BY DEF IInv
  <2> QED  BY <1>2, <2>2, <2>3 DEF LeftsOK
<1> HIDE DEF l
<1>4. /\ DOMAIN pairs' = 1..Len(pairs)
      /\ \A i \in 1..Len(pairs) : /\ pairs'[i].name = pairs[i].name
                                  /\ pairs'[i].value = IF i = j THEN v ELSE pairs[i].value
  <2>1. pairs' \in Seq(Pair) /\ Len(pairs') = Len(pairs)
    BY AssignedPairs
  <2> QED  BY <2>1, AssignedPairs DEF l
<1>5. Held(pairs', x) = Held(pairs, x)
  BY <1>1, <1>4 DEF Held
<1>6. j \in Held(pairs, l.name) /\ Min(Held(pairs, l.name)) = j
  <2>1. j \in Held(pairs, l.name) /\ Held(pairs, l.name) \in SUBSET Nat
    BY <1>1, <1>3 DEF Held
  <2>2. Min(Held(pairs, l.name)) \in Held(pairs, l.name) /\ Min(Held(pairs, l.name)) <= j
    BY <2>1, MinLeast
  <2>3. Min(Held(pairs, l.name)) \in Nat /\ j \in Nat
    BY <2>1, <2>2
  <2> QED  BY <1>3, <2>1, <2>2, <2>3
<1>7. Prop(x)' = IF Held(pairs', x) = {} THEN Undef ELSE pairs'[Min(Held(pairs', x))].value
  BY PropNext
<1>8. CASE x = l.name
  BY <1>3, <1>4, <1>5, <1>6, <1>7, <1>8 DEF l
<1>9. CASE x # l.name
  <2>1. Held(pairs, x) # {} => Min(Held(pairs, x)) \in 1..Len(pairs) /\ Min(Held(pairs, x)) \in Held(pairs, x)
    <3>1. Held(pairs, x) \in SUBSET Nat
      BY <1>1 DEF Held
    <3> QED  BY <1>1, <3>1, MinLeast, IndexIs
  <2>2. Held(pairs, x) # {} => Min(Held(pairs, x)) # j
    BY <1>3, <1>9, <2>1 DEF Held
  <2> QED  BY <1>3, <1>4, <1>5, <1>7, <1>9, <2>1, <2>2, PropIs DEF l
<1> QED  BY <1>8, <1>9, <1>3 DEF l

LEMMA DictStart == Init /\ IInv => Object!DictInit
<1> SUFFICES ASSUME Init, IInv PROVE Object!DictInit
  OBVIOUS
<1>1. ASSUME NEW n \in Names PROVE Prop(n) \in Values \union {Undef}
  <2>1. Held(pairs, n) # {} => pairs[Min(Held(pairs, n))] \in Pair
    BY IndexIs DEF IInv, VectorInv
  <2> QED  BY <2>1, PropIs DEF Pair
<1>2. [k \in DOMAIN lvals |-> lvals[k].name] = <<>>
  BY DEF Init
<1> QED  BY <1>1, <1>2 DEF Object!DictInit

LEMMA DictStep ==
  ASSUME MaxNest <= 1, IInv, IInv', [Next]_vars
  PROVE  [Object!DictNext]_<<[n \in Names |-> Prop(n)], [k \in DOMAIN lvals |-> lvals[k].name]>>
<1> DEFINE props == [n \in Names |-> Prop(n)]
           lefts == [k \in DOMAIN lvals |-> lvals[k].name]
<1>1. ASSUME NEW n \in Names, LVal(n) PROVE Object!Left(n)
  <2>1. props' = props
    BY <1>1, LeftKeeps
  <2>2. lvals = <<>>
    BY <1>1, NoneWaits DEF LVal
  <2>3. \E i : lvals' = <<[name |-> n, pair |-> i, live |-> TRUE]>>
    <3>1. DOMAIN lvals = {}
      BY <2>2
    <3>2. [k \in DOMAIN lvals |-> [lvals[k] EXCEPT !.live = FALSE]] = <<>>
      BY <3>1
    <3> QED  BY <1>1, <2>2, <3>2 DEF LVal, LeftHeld, LeftAppended, LeftGrown, Point
  <2>4. lefts = <<>> /\ lefts' = <<n>>
    BY <2>2, <2>3
  <2> HIDE DEF props, lefts
  <2>5. lefts' = <<n>> \o lefts
    BY <2>4
  <2> QED  BY <2>1, <2>5 DEF Object!Left, props, lefts
<1>2. ASSUME NEW v \in Values, Assign(v) PROVE Object!Right(v)
  <2>1. Len(lvals) = 1 /\ Head(lvals) = lvals[1] /\ Head(lvals).live /\ DOMAIN lvals = {1}
    <3>1. lvals # <<>> /\ Len(lvals) <= 1 /\ Len(lvals) \in Nat /\ DOMAIN lvals = 1..Len(lvals)
      BY <1>2, LeftsType DEF IInv, LeftsOK, Assign
    <3>2. Len(lvals) = 1
      BY <3>1, LeftsType DEF IInv, LeftsOK
    <3> QED  BY <3>1, <3>2 DEF IInv, LeftsOK
  <2>2. lefts # <<>> /\ Head(lefts) = Head(lvals).name
    BY <2>1
  <2>3. lefts' = Tail(lefts)
    <3>1. lvals' = <<>>
      <4> DEFINE L == [name : Names, pair : 1..Len(pairs), live : BOOLEAN]
      <4>1. lvals \in Seq(L) /\ lvals' = Tail(lvals) /\ lvals # <<>>
        BY <1>2 DEF IInv, LeftsOK, Assign
      <4> HIDE DEF L
      <4>2. Tail(lvals) \in Seq(L) /\ Len(Tail(lvals)) = 0
        BY <2>1, <4>1
      <4> QED  BY <4>1, <4>2
    <3>2. lefts' = <<>>
      BY <3>1
    <3>3. lefts = <<Head(lvals).name>>
      BY <2>1
    <3> QED  BY <3>2, <3>3
  <2>4. props' = [props EXCEPT ![Head(lvals).name] = v]
    <3>1. \A n \in Names : Prop(n)' = IF n = Head(lvals).name THEN v ELSE Prop(n)
      BY <1>2, <2>1, AssignGives
    <3> QED  BY <3>1
  <2> HIDE DEF props, lefts
  <2> QED  BY <2>2, <2>3, <2>4 DEF Object!Right, props, lefts
<1>3. CASE (\E n \in Names : Read(n)) \/ Marshal \/ UNCHANGED vars
  <2>1. pairs' = pairs /\ lvals' = lvals
    BY <1>3 DEF Read, Marshal, vars
  <2>2. \A n \in Names : Prop(n)' = IF Held(pairs', n) = {} THEN Undef ELSE pairs'[Min(Held(pairs', n))].value
    BY PropNext
  <2>3. \A n \in Names : Prop(n)' = Prop(n)
    BY <2>1, <2>2, PropIs
  <2> QED  BY <2>1, <2>3
<1> QED  BY <1>1, <1>2, <1>3 DEF Next, Object!DictNext

-----------------------------------------------------------------------------
(* The theorems *)

\* The vector, its table and the left sides stay as IInv has them.
THEOREM Invariance == Spec => []IInv
<1> QED  BY InitInv, NextInv, PTL DEF Spec

\* lookupValue finds the oldest pair of a name and no other, and the table leads to each
\* pair once, whatever was appended, grown, cloned and marshaled before.
THEOREM Lookup == Spec => []LookupExact
<1>1. IInv => LookupExact
  BY PairsAreOnce, IndexIs, InvTypeOK DEF LookupExact
<1> QED  BY <1>1, Invariance, PTL

\* The exit in lookupValue is taken for a document's object of one pair at most.
THEOREM Probes == Spec => []ProbesEnd
<1> QED  BY InvProbesEnd, Invariance, PTL

\* Without an assignment inside another, the object is a dictionary: no table, growth,
\* clone or marshaling shows.
THEOREM Dictionary == MaxNest <= 1 => (Spec => Implements)
<1> SUFFICES ASSUME MaxNest <= 1 PROVE Spec => Implements
  OBVIOUS
<1>1. Init /\ IInv => Object!DictInit
  BY DictStart
<1>2. IInv /\ IInv' /\ [Next]_vars =>
        [Object!DictNext]_<<[n \in Names |-> Prop(n)], [k \in DOMAIN lvals |-> lvals[k].name]>>
  BY DictStep
<1> QED  BY <1>1, <1>2, Invariance, PTL DEF Spec, Implements, Object!Dict

\* Nested or not, an assignment whose left side still points into the object's vector gives
\* the property on its left the value of its right side and changes no other.
LivesLand ==
  [][\A v \in Values : Assign(v) /\ Head(lvals).live =>
       \A n \in Names : Prop(n)' = IF n = Head(lvals).name THEN v ELSE Prop(n)]_vars

THEOREM LiveLeftSides == Spec => LivesLand
<1>1. IInv /\ IInv' /\ [Next]_vars =>
        [\A v \in Values : Assign(v) /\ Head(lvals).live =>
           \A n \in Names : Prop(n)' = IF n = Head(lvals).name THEN v ELSE Prop(n)]_vars
  BY AssignGives
<1> QED  BY <1>1, Invariance, PTL DEF Spec, LivesLand

\* So every assignment lands while none is inside another: what a nested one loses, it loses
\* to the vector its right side freed.
THEOREM FlatAssigns == MaxNest <= 1 => (Spec => AssignLands)
<1> SUFFICES ASSUME MaxNest <= 1 PROVE Spec => AssignLands
  OBVIOUS
<1>1. ASSUME IInv, NEW v \in Values, Assign(v) PROVE Head(lvals).live
  <2>1. LeftsOK(lvals, pairs) /\ lvals # <<>>
    BY <1>1 DEF IInv, Assign
  <2> QED  BY <2>1, LeftsType DEF LeftsOK
<1>2. IInv /\ IInv' /\ [Next]_vars =>
        [\A v \in Values : Assign(v) => \A n \in Names : n = Head(lvals).name => Prop(n)' = v]_vars
  BY <1>1, AssignGives
<1> QED  BY <1>2, Invariance, PTL DEF Spec, AssignLands

=============================================================================
