---------------------------- MODULE LatchProofs ----------------------------
(***************************************************************************)
(* Proofs about LatchTable.  A bucket is released twice when the entry at  *)
(* its front is taken off: by the store of the next link, which clears the *)
(* mutex bit, and by the unlockLatch that follows.  That is all that is    *)
(* wrong with the table: for any number of threads, as long as nobody      *)
(* enters the bucket between the two, the chain holds the pinned pages and *)
(* write locks exclude each other.  One thread alone never does.           *)
(***************************************************************************)
EXTENDS LatchTable, Lemmas

\* Nobody is in the bucket while another thread has yet to release it again.
ReleasedOnce ==
  \A t, u \in Threads : t # u /\ pc[t] = "drop free" => pc[u] \in {"idle", "pin", "unpin"}

-----------------------------------------------------------------------------
(* The invariant                                                           *)

\* Where a thread is inside the bucket.
Inside == {"find", "install", "unlock", "drop", "drop unlock", "drop free"}

TypesOK ==
  /\ mutex \in BOOLEAN
  /\ first \in 0..NEntries /\ next \in [Entries -> 0..NEntries]
  /\ pageNo \in [Entries -> Pages \union {None}]
  /\ pinCnt \in [Entries -> Nat]
  /\ unused \subseteq Entries
  /\ wlock \in [Entries -> Threads \union {None}]
  /\ pc \in [Threads -> Inside \union {"idle", "pin", "unpin"}]
  /\ page \in [Threads -> Pages \union {None}]
  /\ entry \in [Threads -> 0..NEntries]
  /\ pins \in [Threads -> Seq(Entries)]

Exclusive ==
  /\ \A t \in Threads : pc[t] \in Inside \ {"drop free"} => mutex
  /\ \A t, u \in Threads : pc[t] \in Inside /\ pc[u] \in Inside => t = u

\* A thread that pins a page has room for it.
RoomOK ==
  \A t \in Threads :
    /\ Len(pins[t]) <= MaxPins
    /\ pc[t] \in {"pin", "find", "install", "unlock"} => Len(pins[t]) < MaxPins

\* The entries on the chain.
Linked == Reach(next, first)

\* The pins of an entry that its count must have, with the one that a thread is
\* about to hold or to give up.
Held(e) ==
  {p \in Threads \X (0..MaxPins) :
     IF p[2] = 0 THEN pc[p[1]] \in {"unlock", "unpin", "drop"} /\ entry[p[1]] = e
                 ELSE p[2] <= Len(pins[p[1]]) /\ pins[p[1]][p[2]] = e}

CountsOK ==
  \A e \in Entries :
    /\ e \in Linked <=> Held(e) # {}
    /\ e \in Linked => pinCnt[e] = Cardinality(Held(e))

ChainOK ==
  /\ Acyclic(next, first)
  /\ \A d, e \in Linked : pageNo[d] = pageNo[e] => d = e

\* The entry a thread has in hand.
HandOK(t) ==
  /\ pc[t] \in {"install", "unlock", "unpin", "drop", "drop free"} => entry[t] \in Entries
  /\ pc[t] = "install" => /\ entry[t] \notin Linked
                          /\ next[entry[t]] = first /\ pinCnt[entry[t]] = 1
                          /\ pageNo[entry[t]] = page[t]
                          /\ \A d \in Linked : pageNo[d] # page[t]
  /\ pc[t] = "drop free" => entry[t] \notin Linked

HandsOK == \A t \in Threads : HandOK(t)

UnusedOK ==
  \A e \in Entries :
    e \in unused <=> /\ e \notin Linked
                     /\ \A t \in Threads : pc[t] \in {"install", "drop free"} => entry[t] # e

\* A thread has write locks of pages it has pinned only.
WritesOK ==
  \A e \in Entries, t \in Threads :
    wlock[e] = t => \E i \in 1..Len(pins[t]) : pins[t][i] = e

IInv ==
  /\ TypesOK /\ Exclusive /\ RoomOK /\ CountsOK /\ ChainOK /\ HandsOK /\ UnusedOK /\ WritesOK

-----------------------------------------------------------------------------
(* The chain and the pins                                                  *)

LEMMA TableLinks ==
  ASSUME NEW nx \in [Entries -> 0..NEntries]
  PROVE  Links(nx) /\ Len(nx) = NEntries
<1>1. NEntries \in Nat
  BY LatchTableAssumption
<1>2. nx \in [1..NEntries -> 0..NEntries]
  BY DEF Entries
<1>3. nx \in Seq(Nat) /\ Len(nx) = NEntries
  BY <1>1, <1>2, SMTT(20)
<1> QED  BY <1>2, <1>3 DEF Links

LEMMA Table ==
  ASSUME TypesOK
  PROVE  /\ Links(next) /\ Len(next) = NEntries /\ first \in 0..Len(next)
         /\ NEntries \in Nat /\ MaxPins \in Nat /\ None \notin Threads
         /\ Closed(next, first, Linked) /\ Linked \subseteq Entries
<1>1. NEntries \in Nat /\ MaxPins \in Nat /\ None \notin Threads
  BY LatchTableAssumption
<1>2. Links(next) /\ Len(next) = NEntries /\ first \in 0..NEntries
  BY TableLinks DEF TypesOK
<1>3. Closed(next, first, Linked) /\ Linked \subseteq 1..Len(next)
  BY <1>2, ReachClosed, ReachFrames DEF Linked
<1> QED  BY <1>1, <1>2, <1>3 DEF Entries

LEMMA ChainIsLinked == TypesOK => Chain = Linked
<1> SUFFICES ASSUME TypesOK PROVE Chain = Linked
  OBVIOUS
<1>1. ChainOf(next, first) = Reach(next, first)
  BY Table, ChainOfReach
<1>2. Chain = ChainOf(next, first)
  <2>1. NEntries = Len(next) /\ Nil = 0
    BY Table DEF Nil
  <2> QED  BY <2>1, Zenon DEF Chain, ChainOf
<1> QED  BY <1>1, <1>2 DEF Linked

LEMMA HeldFinite ==
  ASSUME NEW e
  PROVE  IsFiniteSet(Held(e)) /\ Cardinality(Held(e)) \in Nat
<1>1. IsFiniteSet(Threads) /\ MaxPins \in Nat
  BY LatchTableAssumption
<1>2. IsFiniteSet(0..MaxPins)
  <2>1. 0 \in Int /\ MaxPins \in Int
    BY <1>1
  <2> QED  BY <2>1, FS_Interval
<1>3. IsFiniteSet(Threads \X (0..MaxPins))
  BY <1>1, <1>2, FS_Product
<1>4. Held(e) \in SUBSET (Threads \X (0..MaxPins))
  BY DEF Held
<1> QED  BY <1>3, <1>4, FS_Subset, FS_CardinalityType

\* The pin thread t is about to hold or to give up.
InHand(t, e) == pc[t] \in {"unlock", "unpin", "drop"} /\ entry[t] = e

LEMMA HeldSame ==
  ASSUME UNCHANGED pins, NEW e, \A t \in Threads : InHand(t, e)' <=> InHand(t, e)
  PROVE  Held(e)' = Held(e)
BY DEF Held, InHand

LEMMA HandKept ==
  ASSUME NEW t \in Threads, HandOK(t),
         pc'[t] = pc[t], page'[t] = page[t], entry'[t] = entry[t],
         UNCHANGED <<next, first, pinCnt, pageNo>>
  PROVE  HandOK(t)'
<1>1. Linked' = Linked
  BY DEF Linked
<1> QED  BY <1>1 DEF HandOK

\* An entry that is pinned is on the chain.
LEMMA PinnedIsLinked ==
  ASSUME TypesOK, RoomOK, CountsOK, NEW t \in Threads
  PROVE  /\ \A i \in 1..Len(pins[t]) : pins[t][i] \in Entries /\ pins[t][i] \in Linked
         /\ \A e \in Entries : InHand(t, e) => e \in Linked /\ <<t, 0>> \in Held(e)
<1>1. pins[t] \in Seq(Entries) /\ Len(pins[t]) \in Nat /\ Len(pins[t]) <= MaxPins /\ MaxPins \in Nat
  BY LatchTableAssumption DEF TypesOK, RoomOK
<1>2. ASSUME NEW i \in 1..Len(pins[t]) PROVE pins[t][i] \in Entries /\ pins[t][i] \in Linked
  <2> DEFINE e == pins[t][i]
  <2>1. e \in Entries
    BY <1>1
  <2>2. i \in 0..MaxPins /\ i # 0 /\ i <= Len(pins[t])
    BY <1>1
  <2>3. <<t, i>> \in Held(e)
    BY <2>2 DEF Held
  <2> HIDE DEF e
  <2>4. e \in Linked
    BY <2>1, <2>3 DEF CountsOK
  <2> QED  BY <2>1, <2>4 DEF e
<1>3. ASSUME NEW e \in Entries, InHand(t, e) PROVE e \in Linked /\ <<t, 0>> \in Held(e)
  <2>1. 0 \in 0..MaxPins
    BY <1>1
  <2>2. <<t, 0>> \in Held(e)
    BY <1>3, <2>1 DEF Held, InHand
  <2> QED  BY <2>2 DEF CountsOK
<1> QED  BY <1>2, <1>3

\* What a thread is about to hold or to give up changes.
LEMMA HeldToken ==
  ASSUME UNCHANGED pins, NEW t \in Threads, NEW e,
         \A u \in Threads \ {t} : InHand(u, e)' <=> InHand(u, e)
  PROVE  /\ <<t, 0>> \in Held(e) <=> InHand(t, e)
         /\ Held(e)' = IF InHand(t, e)' THEN Held(e) \union {<<t, 0>>} ELSE Held(e) \ {<<t, 0>>}
<1>1. 0 \in 0..MaxPins
  BY LatchTableAssumption
<1>2. <<t, 0>> \in Held(e) <=> InHand(t, e)
  BY <1>1 DEF Held, InHand
<1>3. <<t, 0>> \in Held(e)' <=> InHand(t, e)'
  BY <1>1 DEF Held, InHand
<1>4. ASSUME NEW u \in Threads, NEW i \in 0..MaxPins, <<u, i>> # <<t, 0>>
      PROVE  <<u, i>> \in Held(e)' <=> <<u, i>> \in Held(e)
  <2>1. CASE i = 0
    <3>1. u # t
      BY <1>4, <2>1
    <3>2. InHand(u, e)' <=> InHand(u, e)
      BY <3>1
    <3> QED  BY <2>1, <3>2 DEF Held, InHand
  <2>2. CASE i # 0
    BY <2>2 DEF Held
  <2> QED  BY <2>1, <2>2
<1>5. Held(e) \subseteq Threads \X (0..MaxPins) /\ Held(e)' \subseteq Threads \X (0..MaxPins)
  BY DEF Held
<1>6. ASSUME NEW p, p # <<t, 0>> PROVE p \in Held(e)' <=> p \in Held(e)
  BY <1>4, <1>5, <1>6
<1> QED  BY <1>2, <1>3, <1>6

\* A pin that a thread has in hand becomes its last one.
LEMMA HeldAppend ==
  ASSUME TypesOK, NEW t \in Threads, Len(pins[t]) < MaxPins, NEW x \in Entries,
         pins' = [pins EXCEPT ![t] = Append(@, x)],
         \A u \in Threads \ {t} : pc'[u] = pc[u] /\ entry'[u] = entry[u],
         pc'[t] = "idle", NEW e
  PROVE  LET n == <<t, Len(pins[t]) + 1>>
         IN /\ n \notin Held(e) /\ n # <<t, 0>>
            /\ Held(e)' = IF e = x THEN (Held(e) \ {<<t, 0>>}) \union {n} ELSE Held(e) \ {<<t, 0>>}
<1> DEFINE k == Len(pins[t])
<1>1. /\ pins[t] \in Seq(Entries) /\ k \in Nat /\ k < MaxPins /\ MaxPins \in Nat
      /\ pins \in [Threads -> Seq(Entries)]
  BY LatchTableAssumption DEF TypesOK
<1>2. /\ Len(pins'[t]) = k + 1 /\ pins'[t][k + 1] = x
      /\ \A i \in 1..k : pins'[t][i] = pins[t][i]
  BY <1>1
<1>3. \A u \in Threads \ {t} : pins'[u] = pins[u]
  BY <1>1
<1> HIDE DEF k
<1>4. k + 1 \in 0..MaxPins /\ k + 1 # 0 /\ ~(k + 1 <= k)
  BY <1>1
<1>5. <<t, k + 1>> \notin Held(e)
  BY <1>4 DEF Held, k
<1>6. ASSUME NEW u \in Threads, NEW i \in 0..MaxPins, u # t
      PROVE  <<u, i>> \in Held(e)' <=> <<u, i>> \in Held(e)
  BY <1>3, <1>6 DEF Held
<1>7. ASSUME NEW i \in 0..MaxPins
      PROVE  <<t, i>> \in Held(e)' <=> (i = k + 1 /\ e = x) \/ (i # 0 /\ <<t, i>> \in Held(e))
  <2>1. CASE i = 0
    BY <1>4, <2>1 DEF Held
  <2>2. CASE i = k + 1
    <3>1. <<t, i>> \in Held(e)' <=> x = e
      BY <1>2, <1>4, <2>2 DEF Held
    <3> QED  BY <1>5, <2>2, <3>1
  <2>3. CASE i # 0 /\ i # k + 1
    <3>1. i <= k + 1 <=> i \in 1..k
      BY <1>1, <2>3
    <3>2. i <= k <=> i \in 1..k
      BY <1>1, <2>3
    <3>3. <<t, i>> \in Held(e)' <=> i \in 1..k /\ pins'[t][i] = e
      BY <1>2, <2>3, <3>1 DEF Held
    <3>4. <<t, i>> \in Held(e) <=> i \in 1..k /\ pins[t][i] = e
      BY <2>3, <3>2 DEF Held, k
    <3> QED  BY <1>2, <2>3, <3>3, <3>4
  <2> QED  BY <2>1, <2>2, <2>3
<1>8. Held(e) \subseteq Threads \X (0..MaxPins) /\ Held(e)' \subseteq Threads \X (0..MaxPins)
  BY DEF Held
<1>9. ASSUME NEW p \in Threads \X (0..MaxPins)
      PROVE  p \in Held(e)' <=> (p = <<t, k + 1>> /\ e = x) \/ (p # <<t, 0>> /\ p \in Held(e))
  <2>1. PICK u \in Threads, i \in 0..MaxPins : p = <<u, i>>
    OBVIOUS
  <2>2. CASE u = t
    BY <1>7, <2>1, <2>2
  <2>3. CASE u # t
    BY <1>6, <2>1, <2>3
  <2> QED  BY <2>2, <2>3
<1>10. <<t, k + 1>> \in Threads \X (0..MaxPins)
  BY <1>4
<1>11. Held(e)' = IF e = x THEN (Held(e) \ {<<t, 0>>}) \union {<<t, k + 1>>} ELSE Held(e) \ {<<t, 0>>}
  BY <1>8, <1>9, <1>10
<1>12. <<t, k + 1>> # <<t, 0>>
  BY <1>4
<1> QED  BY <1>5, <1>11, <1>12 DEF k

\* A pin is taken in hand to be given up: those behind it move one down.
LEMMA HeldTaken ==
  ASSUME TypesOK, RoomOK, NEW t \in Threads, NEW i \in 1..Len(pins[t]), pc[t] = "idle",
         pins' = [pins EXCEPT ![t] = SubSeq(@, 1, i - 1) \o SubSeq(@, i + 1, Len(@))],
         pc' = [pc EXCEPT ![t] = "unpin"], entry' = [entry EXCEPT ![t] = pins[t][i]],
         NEW e
  PROVE  /\ Cardinality(Held(e)') = Cardinality(Held(e))
         /\ Held(e)' = {} <=> Held(e) = {}
         /\ Len(pins'[t]) = Len(pins[t]) - 1
         /\ \A j \in 1..Len(pins[t]) : j # i => \E h \in 1..Len(pins'[t]) : pins'[t][h] = pins[t][j]
<1> DEFINE s == pins[t]
           k == Len(s)
           w == pins'[t]
           M == 0..MaxPins
<1>1. /\ s \in Seq(Entries) /\ k \in Nat /\ k <= MaxPins /\ MaxPins \in Nat
      /\ pins \in [Threads -> Seq(Entries)] /\ i \in 1..k
  BY LatchTableAssumption DEF TypesOK, RoomOK
<1>2. /\ Len(w) = k - 1
      /\ \A j \in 1..k - 1 : w[j] = IF j < i THEN s[j] ELSE s[j + 1]
  <2> DEFINE a == SubSeq(s, 1, i - 1)
             b == SubSeq(s, i + 1, k)
  <2>1. w = a \o b
    BY <1>1
  <2>2. a \in Seq(Entries) /\ Len(a) = i - 1 /\ \A j \in 1..i - 1 : a[j] = s[j]
    BY <1>1
  <2>3. b \in Seq(Entries) /\ Len(b) = k - i /\ \A j \in 1..k - i : b[j] = s[j + i]
    BY <1>1
  <2> HIDE DEF a, b, s, k, w
  <2>4. Len(w) = k - 1
    <3>1. Len(a \o b) = Len(a) + Len(b)
      BY <2>2, <2>3, ConcatProperties
    <3>2. i \in Nat /\ (i - 1) + (k - i) = k - 1
      BY <1>1
    <3> QED  BY <2>1, <2>2, <2>3, <3>1, <3>2
  <2>5. ASSUME NEW j \in 1..k - 1 PROVE w[j] = IF j < i THEN s[j] ELSE s[j + 1]
    <3>1. w[j] = IF j <= i - 1 THEN a[j] ELSE b[j - (i - 1)]
      BY <1>1, <2>1, <2>2, <2>3
    <3>2. CASE j < i
      <4>1. j \in 1..i - 1 /\ j <= i - 1
        BY <1>1, <3>2
      <4> QED  BY <3>1, <3>2, <4>1, <2>2
    <3>3. CASE ~(j < i)
      <4>1. j - (i - 1) \in 1..k - i /\ ~(j <= i - 1) /\ (j - (i - 1)) + i = j + 1
        BY <1>1, <3>3
      <4> QED  BY <3>1, <3>3, <4>1, <2>3
    <3> QED  BY <3>2, <3>3
  <2> QED  BY <2>4, <2>5
<1>3. /\ \A u \in Threads \ {t} : pins'[u] = pins[u] /\ pc'[u] = pc[u] /\ entry'[u] = entry[u]
      /\ pc'[t] = "unpin" /\ entry'[t] = s[i]
  BY <1>1 DEF TypesOK
<1> HIDE DEF s, k, w
\* Where pin j of thread t goes to, and where it comes from.
<1> DEFINE to(j)   == IF j = i THEN 0 ELSE IF j > i THEN j - 1 ELSE j
           from(j) == IF j = 0 THEN i ELSE IF j >= i THEN j + 1 ELSE j
<1>4. ASSUME NEW j \in M
      PROVE  /\ <<t, j>> \in Held(e) <=> j \in 1..k /\ s[j] = e
             /\ <<t, j>> \in Held(e)' <=> (j = 0 /\ s[i] = e) \/ (j \in 1..k - 1 /\ w[j] = e)
  <2>1. CASE j = 0
    <3>1. <<t, j>> \notin Held(e)
      BY <2>1 DEF Held
    <3>2. <<t, j>> \in Held(e)' <=> s[i] = e
      BY <1>3, <2>1 DEF Held
    <3> QED  BY <2>1, <3>1, <3>2, <1>1
  <2>2. CASE j # 0
    <3>1. (j <= k <=> j \in 1..k) /\ (j <= k - 1 <=> j \in 1..k - 1)
      BY <1>1, <2>2
    <3>2. <<t, j>> \in Held(e) <=> j \in 1..k /\ s[j] = e
      BY <2>2, <3>1 DEF Held, k, s
    <3>3. <<t, j>> \in Held(e)' <=> j \in 1..k - 1 /\ w[j] = e
      BY <1>2, <2>2, <3>1 DEF Held, w
    <3> QED  BY <2>2, <3>2, <3>3
  <2> QED  BY <2>1, <2>2
<1>5. ASSUME NEW j \in M, <<t, j>> \in Held(e)
      PROVE  to(j) \in M /\ <<t, to(j)>> \in Held(e)' /\ from(to(j)) = j
  <2>1. j \in 1..k /\ s[j] = e
    BY <1>4, <1>5
  <2>2. CASE j = i
    BY <1>1, <1>4, <2>1, <2>2
  <2>3. CASE j < i
    <3>1. j \in 1..k - 1 /\ j # i /\ ~(j > i) /\ j # 0 /\ ~(j >= i)
      BY <1>1, <2>1, <2>3
    <3>2. w[j] = s[j]
      BY <1>2, <2>3, <3>1
    <3>3. to(j) = j /\ from(j) = j
      BY <3>1
    <3> HIDE DEF to, from
    <3> QED  BY <1>4, <2>1, <3>1, <3>2, <3>3
  <2>4. CASE j > i
    <3>1. to(j) = j - 1 /\ j - 1 \in 1..k - 1 /\ j - 1 \in M /\ from(j - 1) = j /\ ~(j - 1 < i) /\ (j - 1) + 1 = j
      BY <1>1, <2>1, <2>4
    <3>2. w[j - 1] = s[j]
      BY <1>2, <3>1
    <3> QED  BY <1>4, <2>1, <3>1, <3>2
  <2> QED  BY <1>1, <2>1, <2>2, <2>3, <2>4
<1>6. ASSUME NEW j \in M, <<t, j>> \in Held(e)'
      PROVE  from(j) \in M /\ <<t, from(j)>> \in Held(e) /\ to(from(j)) = j
  <2>1. CASE j = 0 /\ s[i] = e
    <3>1. from(j) = i /\ i \in M /\ to(i) = j
      BY <1>1, <2>1
    <3> QED  BY <1>1, <1>4, <2>1, <3>1
  <2>2. CASE j \in 1..k - 1 /\ w[j] = e /\ j < i
    <3>1. j \in 1..k /\ j # i /\ ~(j > i) /\ j # 0 /\ ~(j >= i)
      BY <1>1, <2>2
    <3>2. s[j] = e
      BY <1>2, <2>2
    <3>3. to(j) = j /\ from(j) = j
      BY <3>1
    <3> HIDE DEF to, from
    <3> QED  BY <1>4, <3>1, <3>2, <3>3
  <2>3. CASE j \in 1..k - 1 /\ w[j] = e /\ ~(j < i)
    <3>1. /\ j + 1 \in 1..k /\ j + 1 \in M /\ j # 0 /\ j >= i
          /\ j + 1 # i /\ j + 1 > i /\ (j + 1) - 1 = j
      BY <1>1, <2>3
    <3>2. s[j + 1] = e
      BY <1>2, <2>3
    <3>3. from(j) = j + 1 /\ to(j + 1) = j
      BY <3>1
    <3> HIDE DEF to, from
    <3> QED  BY <1>4, <3>1, <3>2, <3>3
  <2> QED  BY <1>4, <1>6, <2>1, <2>2, <2>3
<1> HIDE DEF to, from
<1>7. ASSUME NEW u \in Threads, NEW j \in M, u # t
      PROVE  <<u, j>> \in Held(e)' <=> <<u, j>> \in Held(e)
  BY <1>3, <1>7 DEF Held
<1>8. Held(e) \subseteq Threads \X M /\ Held(e)' \subseteq Threads \X M
  BY DEF Held
<1> DEFINE H  == Held(e)
           G  == Held(e)'
           To(p)   == IF p[1] = t THEN <<t, to(p[2])>> ELSE p
           From(p) == IF p[1] = t THEN <<t, from(p[2])>> ELSE p
           f  == [p \in H |-> To(p)]
<1>9. ASSUME NEW p \in H PROVE To(p) \in G /\ From(To(p)) = p
  <2>1. PICK u \in Threads, j \in M : p = <<u, j>>
    BY <1>8
  <2>2. CASE u = t
    BY <1>5, <2>1, <2>2
  <2>3. CASE u # t
    BY <1>7, <2>1, <2>3
  <2> QED  BY <2>2, <2>3
<1>10. ASSUME NEW p \in G PROVE From(p) \in H /\ To(From(p)) = p
  <2>1. PICK u \in Threads, j \in M : p = <<u, j>>
    BY <1>8
  <2>2. CASE u = t
    BY <1>6, <2>1, <2>2
  <2>3. CASE u # t
    BY <1>7, <2>1, <2>3
  <2> QED  BY <2>2, <2>3
<1>11. IsFiniteSet(H)
  BY HeldFinite
<1> HIDE DEF H, G, To, From
<1>12. f \in Bijection(H, G)
  <2>1. f \in [H -> G]
    BY <1>9
  <2>2. \A p, q \in H : f[p] = f[q] => p = q
    BY <1>9
  <2>3. \A p \in G : \E q \in H : f[q] = p
    BY <1>10
  <2> HIDE DEF f
  <2> QED  BY <2>1, <2>2, <2>3 DEF Bijection, Injection, Surjection, IsInjective
<1>13. Cardinality(G) = Cardinality(H)
  <2>1. ExistsBijection(H, G)
    BY <1>12 DEF ExistsBijection
  <2> QED  BY <1>11, <2>1, FS_Bijection
<1>14. G = {} <=> H = {}
  BY <1>9, <1>10
<1>15. ASSUME NEW j \in 1..k, j # i PROVE \E h \in 1..Len(w) : w[h] = s[j]
  <2>1. CASE j < i
    <3>1. j \in 1..k - 1
      BY <1>1, <2>1
    <3> QED  BY <1>2, <2>1, <3>1
  <2>2. CASE j > i
    <3>1. j - 1 \in 1..k - 1 /\ ~(j - 1 < i) /\ (j - 1) + 1 = j
      BY <1>1, <2>2
    <3> QED  BY <1>2, <3>1
  <2> QED  BY <1>1, <1>15, <2>1, <2>2
<1> QED  BY <1>2, <1>13, <1>14, <1>15 DEF H, G, s, k, w

-----------------------------------------------------------------------------
(* The steps                                                               *)

LEMMA InitIInv == Init => IInv
<1> SUFFICES ASSUME Init PROVE IInv
  OBVIOUS
<1>1. /\ mutex = FALSE /\ first = 0 /\ next = [e \in Entries |-> 0]
      /\ pageNo = [e \in Entries |-> None] /\ pinCnt = [e \in Entries |-> 0]
      /\ unused = Entries /\ wlock = [e \in Entries |-> None]
      /\ pc = [t \in Threads |-> "idle"] /\ page = [t \in Threads |-> None]
      /\ entry = [t \in Threads |-> 0] /\ pins = [t \in Threads |-> <<>>]
  BY DEF Init, Nil
<1>2. NEntries \in Nat /\ MaxPins \in Nat /\ None \notin Threads
  BY LatchTableAssumption
<1>3. \A t \in Threads : pc[t] = "idle" /\ pins[t] = <<>> /\ Len(pins[t]) = 0
  BY <1>1
<1>4. TypesOK
  <2>1. <<>> \in Seq(Entries)
    OBVIOUS
  <2>2. 0 \in 0..NEntries
    BY <1>2
  <2> QED  BY <1>1, <2>1, <2>2 DEF TypesOK
<1>5. Linked = {}
  BY <1>1, ReachNone DEF Linked
<1>6. \A e \in Entries : Held(e) = {}
  BY <1>2, <1>3 DEF Held
<1>7. CountsOK
  BY <1>5, <1>6 DEF CountsOK
<1>8. ChainOK
  BY <1>5 DEF ChainOK, Acyclic, Linked
<1>9. Exclusive /\ RoomOK /\ HandsOK
  <2>1. \A t \in Threads : pc[t] \notin Inside
    BY <1>3 DEF Inside
  <2>2. Exclusive
    BY <2>1 DEF Exclusive
  <2>3. RoomOK
    BY <1>2, <1>3 DEF RoomOK
  <2>4. HandsOK
    BY <1>3 DEF HandsOK, HandOK
  <2> QED  BY <2>2, <2>3, <2>4
<1>10. UnusedOK
  BY <1>1, <1>3, <1>5 DEF UnusedOK
<1>11. WritesOK
  BY <1>1, <1>2 DEF WritesOK
<1> QED  BY <1>4, <1>7, <1>8, <1>9, <1>10, <1>11 DEF IInv

LEMMA PinKeeps ==
  ASSUME IInv, NEW t \in Threads, NEW p \in Pages, Pin(t, p)
  PROVE  IInv'
<1>1. /\ pc[t] = "idle" /\ pc' = [pc EXCEPT ![t] = "pin"] /\ Len(pins[t]) < MaxPins
      /\ page' = [page EXCEPT ![t] = p]
      /\ UNCHANGED <<mutex, first, next, pageNo, pinCnt, unused, wlock, entry, pins>>
  BY DEF Pin, Goto
<1>2. TypesOK /\ pc \in [Threads -> Inside \union {"idle", "pin", "unpin"}]
  BY DEF IInv, TypesOK
<1>3. TypesOK'
  BY <1>1, <1>2 DEF TypesOK
<1>4. Linked' = Linked
  BY <1>1 DEF Linked
<1>5. \A e \in Entries : Held(e)' = Held(e)
  BY <1>1, <1>2, HeldSame DEF InHand
<1>6. CountsOK'
  BY <1>1, <1>4, <1>5 DEF IInv, CountsOK
<1>7. ChainOK'
  BY <1>1, <1>4 DEF IInv, ChainOK
<1>8. Exclusive' /\ RoomOK'
  BY <1>1, <1>2 DEF IInv, Exclusive, RoomOK, Inside
<1>9. HandsOK'
  <2>1. pc'[t] = "pin" /\ \A u \in Threads \ {t} : pc'[u] = pc[u] /\ page'[u] = page[u]
    BY <1>1, <1>2 DEF TypesOK
  <2>2. ASSUME NEW u \in Threads, u # t PROVE HandOK(u)'
    BY <1>1, <1>4, <2>1, <2>2, HandKept DEF IInv, HandsOK
  <2>3. HandOK(t)'
    BY <2>1 DEF HandOK
  <2> QED  BY <2>2, <2>3 DEF HandsOK
<1>10. UnusedOK'
  BY <1>1, <1>2, <1>4 DEF IInv, UnusedOK
<1>11. WritesOK'
  BY <1>1 DEF IInv, WritesOK
<1> QED  BY <1>3, <1>6, <1>7, <1>8, <1>9, <1>10, <1>11 DEF IInv

\* The mutex bit keeps threads out, but for the one that releases it twice.
LEMMA LockKeeps ==
  ASSUME IInv, ReleasedOnce', NEW t \in Threads, Lock(t)
  PROVE  IInv'
<1> DEFINE label == IF pc[t] = "pin" THEN "find" ELSE "drop"
<1>1. /\ pc[t] \in {"pin", "unpin"} /\ ~mutex /\ mutex' = TRUE
      /\ pc' = [pc EXCEPT ![t] = label]
      /\ UNCHANGED <<first, next, pageNo, pinCnt, unused, wlock, page, entry, pins>>
  BY DEF Lock, Goto
<1>2. TypesOK /\ pc \in [Threads -> Inside \union {"idle", "pin", "unpin"}]
  BY DEF IInv, TypesOK
<1>3. TypesOK'
  BY <1>1, <1>2 DEF TypesOK, Inside
<1>4. Linked' = Linked
  BY <1>1 DEF Linked
<1>5. \A e \in Entries : Held(e)' = Held(e)
  BY <1>1, <1>2, HeldSame DEF InHand
<1>6. CountsOK'
  BY <1>1, <1>4, <1>5 DEF IInv, CountsOK
<1>7. ChainOK'
  BY <1>1, <1>4 DEF IInv, ChainOK
<1>8. Exclusive'
  <2>1. pc'[t] \in {"find", "drop"} /\ \A u \in Threads \ {t} : pc'[u] = pc[u]
    BY <1>1, <1>2
  <2>2. \A u \in Threads \ {t} : pc[u] # "drop free"
    BY <2>1 DEF ReleasedOnce
  <2>3. \A u \in Threads \ {t} : pc[u] \notin Inside
    BY <1>1, <2>2 DEF IInv, Exclusive
  <2> QED  BY <1>1, <2>1, <2>3 DEF Exclusive
<1>9. RoomOK'
  BY <1>1, <1>2 DEF IInv, RoomOK
<1>10. HandsOK'
  BY <1>1, <1>2, <1>4 DEF IInv, HandsOK, HandOK
<1>11. UnusedOK'
  BY <1>1, <1>2, <1>4 DEF IInv, UnusedOK
<1>12. WritesOK'
  BY <1>1 DEF IInv, WritesOK
<1> QED  BY <1>3, <1>6, <1>7, <1>8, <1>9, <1>10, <1>11, <1>12 DEF IInv

LEMMA LockWriteKeeps ==
  ASSUME IInv, NEW t \in Threads, LockWrite(t)
  PROVE  IInv'
<1>1. PICK i \in 1..Len(pins[t]) :
        /\ wlock' = [wlock EXCEPT ![pins[t][i]] = t]
        /\ UNCHANGED <<mutex, first, next, pageNo, pinCnt, unused, pc, page, entry, pins>>
  BY DEF LockWrite
<1>2. TypesOK
  BY DEF IInv
<1>3. TypesOK'
  BY <1>1, <1>2 DEF TypesOK
<1>4. Linked' = Linked
  BY <1>1 DEF Linked
<1>5. \A e \in Entries : Held(e)' = Held(e)
  BY <1>1, HeldSame DEF InHand
<1>6. CountsOK'
  BY <1>1, <1>4, <1>5 DEF IInv, CountsOK
<1>7. ChainOK'
  BY <1>1, <1>4 DEF IInv, ChainOK
<1>8. UnusedOK'
  BY <1>1, <1>4 DEF IInv, UnusedOK
<1>9. HandsOK'
  BY <1>1, <1>4 DEF IInv, HandsOK, HandOK
<1>10. Exclusive' /\ RoomOK'
  BY <1>1 DEF IInv, Exclusive, RoomOK
<1>11. WritesOK'
  <2> DEFINE e == pins[t][i]
  <2>1. e \in Entries
    BY <1>2 DEF TypesOK
  <2>2. \A d \in Entries : wlock'[d] = IF d = e THEN t ELSE wlock[d]
    BY <1>1, <1>2 DEF TypesOK
  <2> QED  BY <1>1, <2>2 DEF IInv, WritesOK
<1> QED  BY <1>3, <1>6, <1>7, <1>9, <1>10, <1>11, <1>8 DEF IInv

\* A thread in the bucket is alone there.
LEMMA Alone ==
  ASSUME IInv, NEW t \in Threads, pc[t] \in Inside
  PROVE  \A u \in Threads \ {t} : /\ pc[u] \in {"idle", "pin", "unpin"}
                                  /\ pc[u] = "unpin" => entry[u] \in Entries
<1> SUFFICES ASSUME NEW u \in Threads, u # t
             PROVE  pc[u] \in {"idle", "pin", "unpin"} /\ (pc[u] = "unpin" => entry[u] \in Entries)
  OBVIOUS
<1>1. pc[u] \in Inside \union {"idle", "pin", "unpin"}
  BY DEF IInv, TypesOK
<1>2. pc[u] \notin Inside
  BY DEF IInv, Exclusive
<1>3. pc[u] = "unpin" => entry[u] \in Entries
  BY DEF IInv, HandsOK, HandOK
<1> QED  BY <1>1, <1>2, <1>3

\* What the others have in hand does not depend on the table.
LEMMA OthersHands ==
  ASSUME NEW t \in Threads, HandOK(t)',
         \A u \in Threads \ {t} :
           /\ pc'[u] = pc[u] /\ entry'[u] = entry[u]
           /\ pc[u] \in {"idle", "pin", "unpin"} /\ (pc[u] = "unpin" => entry[u] \in Entries)
  PROVE  HandsOK'
<1>1. ASSUME NEW u \in Threads, u # t PROVE HandOK(u)'
  BY <1>1 DEF HandOK
<1> QED  BY <1>1 DEF HandsOK

LEMMA FindOldKeeps ==
  ASSUME IInv, NEW t \in Threads, pc[t] = "find", NEW e \in Chain, pageNo[e] = page[t],
         pinCnt' = [pinCnt EXCEPT ![e] = @ + 1], entry' = [entry EXCEPT ![t] = e],
         pc' = [pc EXCEPT ![t] = "unlock"],
         UNCHANGED <<mutex, first, next, pageNo, unused, wlock, page, pins>>
  PROVE  IInv'
<1>1. /\ TypesOK /\ pc \in [Threads -> Inside \union {"idle", "pin", "unpin"}]
      /\ entry \in [Threads -> 0..NEntries] /\ pinCnt \in [Entries -> Nat]
  BY DEF IInv, TypesOK
<1>2. e \in Linked /\ e \in Entries /\ e \in 0..NEntries
  BY <1>1, ChainIsLinked, Table DEF Entries
<1>3. TypesOK'
  <2> DEFINE c == pinCnt[e] + 1
  <2>1. c \in Nat
    BY <1>1, <1>2
  <2> HIDE DEF c
  <2>2. pinCnt' = [pinCnt EXCEPT ![e] = c]
    BY DEF c
  <2>3. pinCnt' \in [Entries -> Nat]
    BY <1>1, <2>1, <2>2
  <2> QED  BY <1>1, <1>2, <2>3 DEF TypesOK, Inside
<1>4. Linked' = Linked
  BY DEF Linked
<1>5. /\ pc'[t] = "unlock" /\ entry'[t] = e
      /\ \A u \in Threads \ {t} : pc'[u] = pc[u] /\ entry'[u] = entry[u]
  BY <1>1
<1>6. \A u \in Threads \ {t} : /\ pc[u] \in {"idle", "pin", "unpin"}
                               /\ pc[u] = "unpin" => entry[u] \in Entries
  BY Alone DEF Inside
<1>7. ASSUME NEW d \in Entries
      PROVE  /\ <<t, 0>> \notin Held(d)
             /\ Held(d)' = IF d = e THEN Held(d) \union {<<t, 0>>} ELSE Held(d)
  <2>1. \A u \in Threads \ {t} : InHand(u, d)' <=> InHand(u, d)
    BY <1>5 DEF InHand
  <2>2. ~InHand(t, d) /\ (InHand(t, d)' <=> d = e)
    BY <1>5 DEF InHand
  <2>3. /\ <<t, 0>> \in Held(d) <=> InHand(t, d)
        /\ Held(d)' = IF InHand(t, d)' THEN Held(d) \union {<<t, 0>>} ELSE Held(d) \ {<<t, 0>>}
    BY <2>1, HeldToken
  <2> QED  BY <2>2, <2>3
<1>8. CountsOK'
  <2> SUFFICES ASSUME NEW d \in Entries
               PROVE  /\ d \in Linked <=> Held(d)' # {}
                      /\ d \in Linked => pinCnt'[d] = Cardinality(Held(d)')
    BY <1>4 DEF CountsOK
  <2>1. CASE d = e
    <3>1. Cardinality(Held(d) \union {<<t, 0>>}) = Cardinality(Held(d)) + 1
      BY <1>7, HeldFinite, FS_AddElement
    <3>2. pinCnt[d] = Cardinality(Held(d))
      BY <1>2, <2>1 DEF IInv, CountsOK
    <3>3. pinCnt'[d] = pinCnt[d] + 1
      BY <1>1, <2>1
    <3> QED  BY <1>2, <1>7, <2>1, <3>1, <3>2, <3>3
  <2>2. CASE d # e
    BY <1>1, <1>7, <2>2 DEF IInv, CountsOK
  <2> QED  BY <2>1, <2>2
<1>9. ChainOK'
  BY <1>4 DEF IInv, ChainOK
<1>10. Exclusive'
  BY <1>5, ZenonT(60) DEF IInv, Exclusive, Inside
<1>11. RoomOK'
  BY <1>5 DEF IInv, RoomOK
<1>12. HandsOK'
  <2>1. HandOK(t)'
    BY <1>2, <1>5 DEF HandOK
  <2> QED  BY <1>5, <1>6, <2>1, OthersHands
<1>13. UnusedOK'
  BY <1>4, <1>5, <1>6 DEF IInv, UnusedOK
<1>14. WritesOK'
  BY DEF IInv, WritesOK
<1> QED  BY <1>3, <1>8, <1>9, <1>10, <1>11, <1>12, <1>13, <1>14 DEF IInv

LEMMA FindNewKeeps ==
  ASSUME IInv, NEW t \in Threads, pc[t] = "find", {e \in Chain : pageNo[e] = page[t]} = {},
         NEW e \in unused, unused' = unused \ {e}, entry' = [entry EXCEPT ![t] = e],
         next' = [next EXCEPT ![e] = first], pageNo' = [pageNo EXCEPT ![e] = page[t]],
         pinCnt' = [pinCnt EXCEPT ![e] = 1], pc' = [pc EXCEPT ![t] = "install"],
         UNCHANGED <<mutex, first, wlock, page, pins>>
  PROVE  IInv'
<1>1. /\ TypesOK /\ pc \in [Threads -> Inside \union {"idle", "pin", "unpin"}]
      /\ entry \in [Threads -> 0..NEntries] /\ pinCnt \in [Entries -> Nat]
      /\ next \in [Entries -> 0..NEntries] /\ first \in 0..NEntries
      /\ pageNo \in [Entries -> Pages \union {None}] /\ page[t] \in Pages \union {None}
      /\ unused \subseteq Entries
  BY DEF IInv, TypesOK
<1>2. e \in Entries /\ e \in 0..NEntries /\ e \notin Linked
  <2>1. e \in Entries
    BY <1>1
  <2>2. e \in 0..NEntries
    BY <1>1, <2>1, Table DEF Entries
  <2>3. e \notin Linked
    BY <2>1 DEF IInv, UnusedOK
  <2> QED  BY <2>1, <2>2, <2>3
<1>3. TypesOK'
  <2>1. pinCnt' \in [Entries -> Nat] /\ next' \in [Entries -> 0..NEntries]
    BY <1>1
  <2>2. pageNo' \in [Entries -> Pages \union {None}] /\ entry' \in [Threads -> 0..NEntries]
    BY <1>1, <1>2
  <2> QED  BY <1>1, <2>1, <2>2 DEF TypesOK, Inside
<1>4. /\ pc'[t] = "install" /\ entry'[t] = e
      /\ \A u \in Threads \ {t} : pc'[u] = pc[u] /\ entry'[u] = entry[u]
  BY <1>1
<1>5. \A u \in Threads \ {t} : /\ pc[u] \in {"idle", "pin", "unpin"}
                               /\ pc[u] = "unpin" => entry[u] \in Entries
  BY Alone DEF Inside
<1>6. /\ Links(next) /\ Links(next)' /\ Len(next') = Len(next)
      /\ first \in 0..Len(next) /\ Linked \subseteq Entries
  <2>1. next' \in [Entries -> 0..NEntries]
    BY <1>3 DEF TypesOK
  <2>2. Links(next') /\ Len(next') = NEntries
    BY <2>1, TableLinks
  <2> QED  BY <1>1, <2>2, Table DEF Links
<1>7. \A d \in Linked : next'[d] = next[d] /\ pageNo'[d] = pageNo[d] /\ pinCnt'[d] = pinCnt[d]
  BY <1>1, <1>2, <1>6
<1>8. Linked' = Linked /\ Acyclic(next', first)
  <2>1. Len(next) <= Len(next') /\ Acyclic(next, first)
    BY <1>1, <1>6, Table DEF IInv, ChainOK
  <2>2. \A g \in Reach(next, first) : next'[g] = next[g]
    BY <1>7 DEF Linked
  <2>3. Links(next')
    BY <1>6 DEF Links
  <2>4. Reach(next', first) = Reach(next, first) /\ Acyclic(next', first)
    BY <1>6, <2>1, <2>2, <2>3, ReachSame, AcyclicSame
  <2> QED  BY <2>4 DEF Linked
<1>9. ASSUME NEW d \in Entries PROVE Held(d)' = Held(d)
  BY <1>4, HeldSame DEF InHand
<1>10. CountsOK'
  BY <1>7, <1>8, <1>9 DEF IInv, CountsOK
<1>11. ChainOK'
  BY <1>7, <1>8 DEF IInv, ChainOK
<1>12. Exclusive'
  BY <1>4 DEF IInv, Exclusive, Inside
<1>13. RoomOK'
  BY <1>4 DEF IInv, RoomOK
<1>14. HandsOK'
  <2>1. next'[e] = first /\ pinCnt'[e] = 1 /\ pageNo'[e] = page[t]
    BY <1>1, <1>2
  <2>2. \A d \in Linked : pageNo'[d] # page[t]
    BY <1>1, <1>7, ChainIsLinked
  <2>3. HandOK(t)'
    BY <1>2, <1>4, <1>8, <2>1, <2>2 DEF HandOK
  <2> QED  BY <1>4, <1>5, <2>3, OthersHands
<1>15. UnusedOK'
  <2> SUFFICES ASSUME NEW d \in Entries
               PROVE  d \in unused \ {e} <=>
                        /\ d \notin Linked
                        /\ \A u \in Threads : pc'[u] \in {"install", "drop free"} => entry'[u] # d
    BY <1>8 DEF UnusedOK
  <2>1. d \in unused <=> d \notin Linked
    BY <1>5 DEF IInv, UnusedOK
  <2>2. (\A u \in Threads : pc'[u] \in {"install", "drop free"} => entry'[u] # d) <=> d # e
    BY <1>4, <1>5
  <2> QED  BY <2>1, <2>2
<1>16. WritesOK'
  BY DEF IInv, WritesOK
<1> QED  BY <1>3, <1>10, <1>11, <1>12, <1>13, <1>14, <1>15, <1>16 DEF IInv

LEMMA FindKeeps ==
  ASSUME IInv, NEW t \in Threads, Find(t)
  PROVE  IInv'
<1>1. pc[t] = "find" /\ UNCHANGED <<mutex, first, wlock, page, pins>>
  BY DEF Find
<1>2. CASE \E e \in {d \in Chain : pageNo[d] = page[t]} :
             /\ pinCnt' = [pinCnt EXCEPT ![e] = @ + 1]
             /\ entry' = [entry EXCEPT ![t] = e]
             /\ Goto(t, "unlock")
             /\ UNCHANGED <<next, pageNo, unused>>
  BY <1>1, <1>2, FindOldKeeps DEF Goto
<1>3. CASE /\ {d \in Chain : pageNo[d] = page[t]} = {}
           /\ \E e \in unused :
                /\ unused' = unused \ {e}
                /\ entry' = [entry EXCEPT ![t] = e]
                /\ next' = [next EXCEPT ![e] = first]
                /\ pageNo' = [pageNo EXCEPT ![e] = page[t]]
                /\ pinCnt' = [pinCnt EXCEPT ![e] = 1]
           /\ Goto(t, "install")
  BY <1>1, <1>3, FindNewKeeps DEF Goto
<1> QED  BY <1>2, <1>3 DEF Find

\* What a pin more means for room and write locks.
LEMMA AppendKeeps ==
  ASSUME IInv, NEW t \in Threads, pc[t] \in {"install", "unlock"}, NEW x \in Entries,
         pins' = [pins EXCEPT ![t] = Append(@, x)], UNCHANGED wlock,
         \A u \in Threads \ {t} : pc'[u] = pc[u], pc'[t] = "idle"
  PROVE  pins' \in [Threads -> Seq(Entries)] /\ Len(pins[t]) < MaxPins /\ RoomOK' /\ WritesOK'
<1> DEFINE k == Len(pins[t])
<1>1. /\ pins \in [Threads -> Seq(Entries)] /\ pins[t] \in Seq(Entries) /\ k \in Nat
      /\ k < MaxPins /\ MaxPins \in Nat
  BY LatchTableAssumption DEF IInv, TypesOK, RoomOK
<1>2. Len(pins'[t]) = k + 1 /\ \A i \in 1..k : pins'[t][i] = pins[t][i]
  BY <1>1
<1>3. pins' \in [Threads -> Seq(Entries)] /\ \A u \in Threads \ {t} : pins'[u] = pins[u]
  BY <1>1
<1> HIDE DEF k
<1>4. RoomOK'
  <2>1. ASSUME NEW u \in Threads
        PROVE  /\ Len(pins'[u]) <= MaxPins
               /\ pc'[u] \in {"pin", "find", "install", "unlock"} => Len(pins'[u]) < MaxPins
    <3>1. CASE u = t
      BY <1>1, <1>2, <3>1
    <3>2. CASE u # t
      BY <1>3, <3>2 DEF IInv, RoomOK
    <3> QED  BY <3>1, <3>2
  <2> QED  BY <2>1 DEF RoomOK
<1>5. WritesOK'
  <2> SUFFICES ASSUME NEW e \in Entries, NEW u \in Threads, wlock[e] = u
               PROVE  \E i \in 1..Len(pins'[u]) : pins'[u][i] = e
    BY DEF WritesOK
  <2>1. PICK i \in 1..Len(pins[u]) : pins[u][i] = e
    BY DEF IInv, WritesOK
  <2>2. CASE u = t
    <3>1. i \in 1..k /\ i \in 1..k + 1
      BY <1>1, <2>1, <2>2 DEF k
    <3> QED  BY <1>2, <2>1, <2>2, <3>1
  <2>3. CASE u # t
    BY <1>3, <2>1, <2>3
  <2> QED  BY <2>2, <2>3
<1> QED  BY <1>1, <1>3, <1>4, <1>5 DEF k

LEMMA InstallKeeps ==
  ASSUME IInv, NEW t \in Threads, Install(t)
  PROVE  IInv'
<1> DEFINE x == entry[t]
           n == <<t, Len(pins[t]) + 1>>
<1>1. /\ pc[t] = "install" /\ first' = x /\ mutex' = FALSE
      /\ pins' = [pins EXCEPT ![t] = Append(@, x)] /\ entry' = [entry EXCEPT ![t] = 0]
      /\ page' = [page EXCEPT ![t] = None] /\ pc' = [pc EXCEPT ![t] = "idle"]
      /\ UNCHANGED <<next, pageNo, pinCnt, unused, wlock>>
  BY DEF Install, Pinned, Goto, Nil
<1>2. /\ TypesOK /\ pc \in [Threads -> Inside \union {"idle", "pin", "unpin"}]
      /\ entry \in [Threads -> 0..NEntries] /\ page \in [Threads -> Pages \union {None}]
  BY DEF IInv, TypesOK
<1>3. /\ x \in Entries /\ x \notin Linked /\ next[x] = first /\ pinCnt[x] = 1
      /\ \A d \in Linked : pageNo[d] # pageNo[x]
  <2>1. HandOK(t)
    BY DEF IInv, HandsOK
  <2> QED  BY <1>1, <2>1 DEF HandOK
<1>4. /\ pc'[t] = "idle" /\ \A u \in Threads \ {t} : pc'[u] = pc[u] /\ entry'[u] = entry[u]
  BY <1>1, <1>2
<1> HIDE DEF x
<1>5. /\ pins' \in [Threads -> Seq(Entries)] /\ Len(pins[t]) < MaxPins /\ RoomOK' /\ WritesOK'
  BY <1>1, <1>3, <1>4, AppendKeeps
<1>6. TypesOK'
  <2>1. x \in 0..NEntries
    BY <1>2 DEF x
  <2>2. 0 \in 0..NEntries
    BY LatchTableAssumption
  <2>3. entry' \in [Threads -> 0..NEntries] /\ page' \in [Threads -> Pages \union {None}]
    BY <1>1, <1>2, <2>2
  <2> QED  BY <1>1, <1>2, <1>5, <2>1, <2>3 DEF TypesOK
<1>7. \A u \in Threads \ {t} : /\ pc[u] \in {"idle", "pin", "unpin"}
                               /\ pc[u] = "unpin" => entry[u] \in Entries
  BY <1>1, Alone DEF Inside
<1>8. Linked' = {x} \union Linked
  <2>1. x \in 1..Len(next) /\ Links(next)
    BY <1>2, <1>3, Table DEF Entries
  <2>2. Reach(next, x) = {x} \union Reach(next, next[x])
    BY <2>1, ReachNext
  <2> QED  BY <1>1, <1>3, <2>2 DEF Linked
<1>9. ASSUME NEW e \in Entries
      PROVE  Held(e)' = IF e = x THEN {n} ELSE Held(e)
  <2>1. <<t, 0>> \notin Held(e)
    BY <1>1 DEF Held
  <2>2. e = x => Held(e) = {}
    BY <1>3 DEF IInv, CountsOK
  <2>3. x \in Entries
    BY <1>3
  <2>4. /\ n \notin Held(e)
        /\ Held(e)' = IF e = x THEN (Held(e) \ {<<t, 0>>}) \union {n} ELSE Held(e) \ {<<t, 0>>}
    BY <1>1, <1>2, <1>4, <1>5, <2>3, HeldAppend, ZenonT(60)
  <2> HIDE DEF n
  <2> QED  BY <2>1, <2>2, <2>4
<1> HIDE DEF n
<1>10. CountsOK'
  <2> SUFFICES ASSUME NEW e \in Entries
               PROVE  /\ e \in {x} \union Linked <=> Held(e)' # {}
                      /\ e \in {x} \union Linked => pinCnt[e] = Cardinality(Held(e)')
    BY <1>1, <1>8 DEF CountsOK
  <2>1. CASE e = x
    <3>1. Cardinality({n}) = 1
      BY FS_Singleton
    <3> QED  BY <1>3, <1>9, <2>1, <3>1
  <2>2. CASE e # x
    BY <1>9, <2>2 DEF IInv, CountsOK
  <2> QED  BY <2>1, <2>2
<1>11. ChainOK'
  <2>1. Acyclic(next', first')
    <3>1. ASSUME NEW g \in {x} \union Linked PROVE g \notin Reach(next, next[g])
      <4>1. CASE g = x
        BY <1>3, <4>1 DEF Linked
      <4>2. CASE g # x
        BY <3>1, <4>2 DEF IInv, ChainOK, Acyclic, Linked
      <4> QED  BY <4>1, <4>2
    <3>2. Reach(next', first') = {x} \union Linked
      BY <1>8 DEF Linked
    <3> QED  BY <1>1, <3>1, <3>2 DEF Acyclic
  <2>2. \A d, e \in Linked' : pageNo'[d] = pageNo'[e] => d = e
    BY <1>1, <1>3, <1>8 DEF IInv, ChainOK
  <2> QED  BY <2>1, <2>2 DEF ChainOK
<1>12. Exclusive'
  BY <1>4, <1>7 DEF Exclusive, Inside
<1>13. HandsOK'
  <2>1. HandOK(t)'
    BY <1>4 DEF HandOK
  <2> QED  BY <1>4, <1>7, <2>1, OthersHands
<1>14. UnusedOK'
  <2> SUFFICES ASSUME NEW d \in Entries
               PROVE  d \in unused <=>
                        /\ d \notin {x} \union Linked
                        /\ \A u \in Threads : pc'[u] \in {"install", "drop free"} => entry'[u] # d
    BY <1>1, <1>8 DEF UnusedOK
  <2>1. d \in unused <=> d \notin Linked /\ d # x
    BY <1>1, <1>7 DEF IInv, UnusedOK, x
  <2>2. \A u \in Threads : pc'[u] \notin {"install", "drop free"}
    BY <1>4, <1>7
  <2> QED  BY <2>1, <2>2
<1> QED  BY <1>5, <1>6, <1>10, <1>11, <1>12, <1>13, <1>14 DEF IInv

LEMMA UnlockKeeps ==
  ASSUME IInv, NEW t \in Threads, Unlock(t)
  PROVE  IInv'
<1> DEFINE x == entry[t]
           n == <<t, Len(pins[t]) + 1>>
<1>1. /\ pc[t] = "unlock" /\ mutex' = FALSE
      /\ pins' = [pins EXCEPT ![t] = Append(@, x)] /\ entry' = [entry EXCEPT ![t] = 0]
      /\ page' = [page EXCEPT ![t] = None] /\ pc' = [pc EXCEPT ![t] = "idle"]
      /\ UNCHANGED <<first, next, pageNo, pinCnt, unused, wlock>>
  BY DEF Unlock, Pinned, Goto, Nil
<1>2. /\ TypesOK /\ pc \in [Threads -> Inside \union {"idle", "pin", "unpin"}]
      /\ entry \in [Threads -> 0..NEntries] /\ page \in [Threads -> Pages \union {None}]
  BY DEF IInv, TypesOK
<1>3. x \in Entries
  BY <1>1 DEF IInv, HandsOK, HandOK
<1>4. /\ pc'[t] = "idle" /\ \A u \in Threads \ {t} : pc'[u] = pc[u] /\ entry'[u] = entry[u]
  BY <1>1, <1>2
<1>5. \A e \in Entries : <<t, 0>> \in Held(e) <=> e = x
  <2>1. 0 \in 0..MaxPins
    BY LatchTableAssumption
  <2> QED  BY <1>1, <2>1 DEF Held
<1> HIDE DEF x
<1>6. /\ pins' \in [Threads -> Seq(Entries)] /\ Len(pins[t]) < MaxPins /\ RoomOK' /\ WritesOK'
  BY <1>1, <1>3, <1>4, AppendKeeps
<1>7. TypesOK'
  <2>1. 0 \in 0..NEntries
    BY LatchTableAssumption
  <2>2. entry' \in [Threads -> 0..NEntries] /\ page' \in [Threads -> Pages \union {None}]
    BY <1>1, <1>2, <2>1
  <2> QED  BY <1>1, <1>2, <1>6, <2>2 DEF TypesOK
<1>8. \A u \in Threads \ {t} : /\ pc[u] \in {"idle", "pin", "unpin"}
                               /\ pc[u] = "unpin" => entry[u] \in Entries
  BY <1>1, Alone DEF Inside
<1>9. Linked' = Linked
  BY <1>1 DEF Linked
<1>10. ASSUME NEW e \in Entries
       PROVE  /\ n \notin Held(e)
              /\ Held(e)' = IF e = x THEN (Held(e) \ {<<t, 0>>}) \union {n} ELSE Held(e)
  <2>1. /\ n \notin Held(e)
        /\ Held(e)' = IF e = x THEN (Held(e) \ {<<t, 0>>}) \union {n} ELSE Held(e) \ {<<t, 0>>}
    BY <1>1, <1>2, <1>3, <1>4, <1>6, HeldAppend, ZenonT(60)
  <2> HIDE DEF n
  <2> QED  BY <1>5, <2>1
<1> HIDE DEF n
<1>11. CountsOK'
  <2> SUFFICES ASSUME NEW e \in Entries
               PROVE  /\ Held(e)' # {} <=> Held(e) # {}
                      /\ Cardinality(Held(e)') = Cardinality(Held(e))
    BY <1>1, <1>9 DEF IInv, CountsOK
  <2>1. CASE e = x
    <3> DEFINE H == Held(e)
               G == H \ {<<t, 0>>}
    <3>1. <<t, 0>> \in H /\ n \notin G /\ Held(e)' = G \union {n}
      BY <1>5, <1>10, <2>1
    <3>2. IsFiniteSet(H) /\ Cardinality(H) \in Nat
      BY HeldFinite
    <3> HIDE DEF H
    <3>3. IsFiniteSet(G) /\ Cardinality(G) = Cardinality(H) - 1
      BY <3>1, <3>2, FS_RemoveElement
    <3> HIDE DEF G
    <3>4. Cardinality(G \union {n}) = Cardinality(G) + 1
      BY <3>1, <3>3, FS_AddElement
    <3>5. Cardinality(Held(e)') = Cardinality(H)
      BY <3>1, <3>2, <3>3, <3>4
    <3> QED  BY <3>1, <3>5 DEF H
  <2>2. CASE e # x
    BY <1>10, <2>2
  <2> QED  BY <2>1, <2>2
<1>12. ChainOK'
  BY <1>1, <1>9 DEF IInv, ChainOK
<1>13. Exclusive'
  BY <1>4, <1>8 DEF Exclusive, Inside
<1>14. HandsOK'
  <2>1. HandOK(t)'
    BY <1>4 DEF HandOK
  <2> QED  BY <1>4, <1>8, <2>1, OthersHands
<1>15. UnusedOK'
  <2>1. \A u \in Threads : pc[u] \notin {"install", "drop free"} /\ pc'[u] \notin {"install", "drop free"}
    BY <1>1, <1>4, <1>8
  <2> QED  BY <1>1, <1>9, <2>1 DEF IInv, UnusedOK
<1> QED  BY <1>6, <1>7, <1>11, <1>12, <1>13, <1>14, <1>15 DEF IInv

LEMMA UnpinKeeps ==
  ASSUME IInv, NEW t \in Threads, Unpin(t)
  PROVE  IInv'
<1>1. PICK i \in 1..Len(pins[t]) :
        /\ pc[t] = "idle" /\ pc' = [pc EXCEPT ![t] = "unpin"]
        /\ wlock' = [wlock EXCEPT ![pins[t][i]] = IF @ = t THEN None ELSE @]
        /\ pins' = [pins EXCEPT ![t] = SubSeq(@, 1, i - 1) \o SubSeq(@, i + 1, Len(@))]
        /\ entry' = [entry EXCEPT ![t] = pins[t][i]]
        /\ UNCHANGED <<mutex, first, next, pageNo, pinCnt, unused, page>>
  BY DEF Unpin, Goto
<1> DEFINE e == pins[t][i]
           v == IF wlock[e] = t THEN None ELSE wlock[e]
           w == SubSeq(pins[t], 1, i - 1) \o SubSeq(pins[t], i + 1, Len(pins[t]))
<1>2. /\ TypesOK /\ RoomOK /\ pc \in [Threads -> Inside \union {"idle", "pin", "unpin"}]
      /\ entry \in [Threads -> 0..NEntries] /\ pins \in [Threads -> Seq(Entries)]
      /\ wlock \in [Entries -> Threads \union {None}] /\ None \notin Threads
  BY LatchTableAssumption DEF IInv, TypesOK
<1>3. e \in Entries /\ e \in 0..NEntries
  <2>1. e \in Entries
    BY <1>2
  <2> HIDE DEF e
  <2>2. e \in 0..NEntries
    BY <1>2, <2>1, Table DEF Entries
  <2> QED  BY <2>1, <2>2
<1>4. v \in Threads \union {None} /\ v # t
  BY <1>2, <1>3
<1>5. w \in Seq(Entries)
  <2>1. SubSeq(pins[t], 1, i - 1) \in Seq(Entries) /\ SubSeq(pins[t], i + 1, Len(pins[t])) \in Seq(Entries)
    BY <1>2
  <2> QED  BY <2>1
<1>6. wlock' = [wlock EXCEPT ![e] = v] /\ pins' = [pins EXCEPT ![t] = w]
  BY <1>1
<1>7. /\ pc'[t] = "unpin" /\ entry'[t] = e
      /\ \A u \in Threads \ {t} : pc'[u] = pc[u] /\ entry'[u] = entry[u] /\ pins'[u] = pins[u]
  BY <1>1, <1>2
<1>8. /\ \A d : /\ Cardinality(Held(d)') = Cardinality(Held(d))
                /\ Held(d)' = {} <=> Held(d) = {}
      /\ Len(pins'[t]) = Len(pins[t]) - 1
      /\ \A j \in 1..Len(pins[t]) : j # i => \E h \in 1..Len(pins'[t]) : pins'[t][h] = pins[t][j]
  BY <1>1, <1>2, HeldTaken
<1>9. TypesOK'
  <2> HIDE DEF e, v, w
  <2>1. wlock' \in [Entries -> Threads \union {None}] /\ pins' \in [Threads -> Seq(Entries)]
    BY <1>2, <1>4, <1>5, <1>6
  <2>2. entry' \in [Threads -> 0..NEntries]
    BY <1>1, <1>2, <1>3 DEF e
  <2>3. pc' \in [Threads -> Inside \union {"idle", "pin", "unpin"}]
    BY <1>1, <1>2
  <2> QED  BY <1>1, <1>2, <2>1, <2>2, <2>3 DEF TypesOK
<1>10. Linked' = Linked
  BY <1>1 DEF Linked
<1>11. CountsOK'
  BY <1>1, <1>8, <1>10 DEF IInv, CountsOK
<1>12. ChainOK'
  BY <1>1, <1>10 DEF IInv, ChainOK
<1>13. Exclusive'
  BY <1>1, <1>7 DEF IInv, Exclusive, Inside
<1>14. RoomOK'
  <2> SUFFICES ASSUME NEW u \in Threads
               PROVE  /\ Len(pins'[u]) <= MaxPins
                      /\ pc'[u] \in {"pin", "find", "install", "unlock"} => Len(pins'[u]) < MaxPins
    BY DEF RoomOK
  <2>1. CASE u = t
    <3>1. Len(pins[t]) \in Nat /\ Len(pins[t]) <= MaxPins /\ MaxPins \in Nat
      BY <1>2, LatchTableAssumption DEF RoomOK
    <3> QED  BY <1>7, <1>8, <2>1, <3>1
  <2>2. CASE u # t
    BY <1>2, <1>7, <2>2 DEF RoomOK
  <2> QED  BY <2>1, <2>2
<1>15. HandsOK'
  <2>1. HandOK(t)'
    BY <1>3, <1>7 DEF HandOK
  <2>2. ASSUME NEW u \in Threads, u # t PROVE HandOK(u)'
    BY <1>1, <1>7, <2>2, HandKept DEF IInv, HandsOK
  <2> QED  BY <2>1, <2>2 DEF HandsOK
<1>16. UnusedOK'
  <2>1. \A u \in Threads, d \in Entries : (pc'[u] \in {"install", "drop free"} => entry'[u] # d)
                                      <=> (pc[u] \in {"install", "drop free"} => entry[u] # d)
    BY <1>1, <1>7
  <2> QED  BY <1>1, <1>10, <2>1 DEF IInv, UnusedOK
<1>17. WritesOK'
  <2> SUFFICES ASSUME NEW d \in Entries, NEW u \in Threads, wlock'[d] = u
               PROVE  \E h \in 1..Len(pins'[u]) : pins'[u][h] = d
    BY DEF WritesOK
  <2> HIDE DEF v
  <2>1. CASE u = t
    <3>1. d # e /\ wlock[d] = t
      <4> HIDE DEF e
      <4> QED  BY <1>2, <1>4, <1>6, <2>1
    <3>2. PICK j \in 1..Len(pins[t]) : pins[t][j] = d
      BY <3>1 DEF IInv, WritesOK
    <3> QED  BY <1>8, <2>1, <3>1, <3>2, ZenonT(60)
  <2>2. CASE u # t
    <3>1. wlock[d] = u
      <4>1. v = u => wlock[e] = u
        BY <1>2 DEF v
      <4> HIDE DEF e
      <4> QED  BY <1>2, <1>6, <4>1
    <3> QED  BY <1>7, <2>2, <3>1 DEF IInv, WritesOK
  <2> QED  BY <2>1, <2>2
<1> QED  BY <1>9, <1>11, <1>12, <1>13, <1>14, <1>15, <1>16, <1>17 DEF IInv

LEMMA OneLess == \A c \in Nat \ {0} : c - 1 \in Nat /\ (c - 1 = 0 <=> c = 1)
OBVIOUS

\* The pin given up is no longer counted.
LEMMA DropHeld ==
  ASSUME IInv, NEW t \in Threads, pc[t] = "drop", NEW e, e = entry[t],
         pc'[t] \in {"drop unlock", "drop free"},
         \A u \in Threads \ {t} : pc'[u] = pc[u], UNCHANGED <<entry, pins>>
  PROVE  /\ e \in Entries /\ e \in Linked
         /\ pinCnt[e] \in Nat \ {0}
         /\ Cardinality(Held(e)') = pinCnt[e] - 1
         /\ Held(e)' = {} <=> pinCnt[e] = 1
         /\ \A d \in Entries \ {e} : Held(d)' = Held(d)
<1> DEFINE H == Held(e)
           G == Held(e)'
           c == Cardinality(H)
<1>1. e \in Entries /\ InHand(t, e)
  <2>1. HandOK(t)
    BY DEF IInv, HandsOK
  <2> QED  BY <2>1 DEF HandOK, InHand
<1>2. e \in Linked /\ <<t, 0>> \in H
  BY <1>1, PinnedIsLinked DEF IInv
<1>3. pinCnt[e] = c
  BY <1>1, <1>2 DEF IInv, CountsOK
<1>4. ASSUME NEW d \in Entries PROVE Held(d)' = IF d = e THEN H \ {<<t, 0>>} ELSE Held(d)
  <2>1. \A u \in Threads \ {t} : InHand(u, d)' <=> InHand(u, d)
    BY DEF InHand
  <2>2. ~InHand(t, d)' /\ (InHand(t, d) <=> d = e)
    BY DEF InHand
  <2>3. /\ <<t, 0>> \in Held(d) <=> InHand(t, d)
        /\ Held(d)' = IF InHand(t, d)' THEN Held(d) \union {<<t, 0>>} ELSE Held(d) \ {<<t, 0>>}
    BY <2>1, HeldToken
  <2> QED  BY <2>2, <2>3
<1>5. G = H \ {<<t, 0>>}
  BY <1>1, <1>4
<1>6. IsFiniteSet(H) /\ c \in Nat /\ IsFiniteSet(G)
  <2>1. IsFiniteSet(H) /\ c \in Nat
    BY HeldFinite
  <2> HIDE DEF H, G
  <2>2. IsFiniteSet(G)
    BY <1>5, <2>1, FS_Subset
  <2> QED  BY <2>1, <2>2
<1> HIDE DEF H, G
<1>7. Cardinality(G) = c - 1
  BY <1>2, <1>5, <1>6, FS_RemoveElement
<1>8. c # 0 /\ (G = {} <=> Cardinality(G) = 0)
  BY <1>2, <1>6, FS_EmptySet
<1>9. \A d \in Entries \ {e} : Held(d)' = Held(d)
  BY <1>4
<1> HIDE DEF c
<1>10. c \in Nat \ {0} /\ (G = {} <=> c = 1)
  BY <1>6, <1>7, <1>8, OneLess, Zenon
<1> QED  BY <1>1, <1>2, <1>3, <1>7, <1>9, <1>10 DEF G

\* What is left of a drop: the chain without the entry whose last pin was given
\* up, or the same chain.
LEMMA DropRest ==
  ASSUME IInv, NEW t \in Threads, pc[t] = "drop", NEW e, e = entry[t],
         NEW label \in {"drop unlock", "drop free"}, pc' = [pc EXCEPT ![t] = label],
         pinCnt' = [pinCnt EXCEPT ![e] = @ - 1], pinCnt[e] = 1 <=> label = "drop free",
         next' \in [Entries -> 0..NEntries], first' \in 0..NEntries,
         Acyclic(next', first'),
         Linked' = IF label = "drop free" THEN Linked \ {e} ELSE Linked,
         mutex' \in BOOLEAN, label = "drop unlock" => mutex',
         UNCHANGED <<pageNo, unused, wlock, page, entry, pins>>
  PROVE  IInv'
<1>1. /\ TypesOK /\ pc \in [Threads -> Inside \union {"idle", "pin", "unpin"}]
      /\ entry \in [Threads -> 0..NEntries] /\ pinCnt \in [Entries -> Nat]
  BY DEF IInv, TypesOK
<1>2. pc'[t] = label /\ \A u \in Threads \ {t} : pc'[u] = pc[u]
  BY <1>1
<1>3. /\ e \in Entries /\ e \in Linked
      /\ pinCnt[e] \in Nat \ {0}
      /\ Cardinality(Held(e)') = pinCnt[e] - 1
      /\ Held(e)' = {} <=> pinCnt[e] = 1
      /\ \A d \in Entries \ {e} : Held(d)' = Held(d)
  BY <1>2, DropHeld
<1>4. \A u \in Threads \ {t} : /\ pc[u] \in {"idle", "pin", "unpin"}
                               /\ pc[u] = "unpin" => entry[u] \in Entries
  BY Alone DEF Inside
<1> DEFINE c == pinCnt[e] - 1
<1>5. c \in Nat /\ pinCnt' = [pinCnt EXCEPT ![e] = c]
  <2>1. pinCnt[e] \in Nat \ {0}
    BY <1>3
  <2>2. c \in Nat
    BY <2>1, OneLess, Zenon
  <2> QED  BY <2>2
<1> HIDE DEF c
<1>6. TypesOK'
  <2>1. pinCnt' \in [Entries -> Nat]
    BY <1>1, <1>5
  <2>2. pc' \in [Threads -> Inside \union {"idle", "pin", "unpin"}]
    BY <1>1 DEF Inside
  <2> QED  BY <1>1, <2>1, <2>2 DEF TypesOK
<1>7. CountsOK'
  <2> SUFFICES ASSUME NEW d \in Entries
               PROVE  /\ d \in Linked' <=> Held(d)' # {}
                      /\ d \in Linked' => pinCnt'[d] = Cardinality(Held(d)')
    BY DEF CountsOK
  <2>1. CASE d = e
    <3>1. pinCnt'[d] = pinCnt[e] - 1
      BY <1>1, <1>5, <2>1 DEF c
    <3> QED  BY <1>3, <2>1, <3>1
  <2>2. CASE d # e
    <3>1. pinCnt'[d] = pinCnt[d] /\ Held(d)' = Held(d) /\ (d \in Linked' <=> d \in Linked)
      BY <1>1, <1>3, <1>5, <2>2
    <3> QED  BY <3>1 DEF IInv, CountsOK
  <2> QED  BY <2>1, <2>2
<1>8. ChainOK'
  <2>1. Linked' \subseteq Linked
    OBVIOUS
  <2> QED  BY <2>1 DEF IInv, ChainOK
<1>9. Exclusive'
  <2>1. \A u \in Threads \ {t} : pc'[u] \notin Inside
    BY <1>2, <1>4 DEF Inside
  <2> QED  BY <1>2, <2>1 DEF Exclusive, Inside
<1>10. RoomOK'
  BY <1>2 DEF IInv, RoomOK
<1>11. HandsOK'
  <2>1. HandOK(t)'
    BY <1>2, <1>3 DEF HandOK
  <2> QED  BY <1>2, <1>4, <2>1, OthersHands
<1>12. UnusedOK'
  <2> SUFFICES ASSUME NEW d \in Entries
               PROVE  d \in unused <=>
                        /\ d \notin Linked'
                        /\ \A u \in Threads : pc'[u] \in {"install", "drop free"} => entry[u] # d
    BY DEF UnusedOK
  <2>1. d \in unused <=> d \notin Linked
    BY <1>4 DEF IInv, UnusedOK
  <2>2. \A u \in Threads : pc'[u] \in {"install", "drop free"} => u = t /\ label = "drop free"
    BY <1>2, <1>4
  <2>3. (\A u \in Threads : pc'[u] \in {"install", "drop free"} => entry[u] # d)
          <=> ~(label = "drop free" /\ d = e)
    BY <1>2, <2>2
  <2> QED  BY <1>3, <2>1, <2>3
<1>13. WritesOK'
  BY DEF IInv, WritesOK
<1> QED  BY <1>6, <1>7, <1>8, <1>9, <1>10, <1>11, <1>12, <1>13 DEF IInv

LEMMA DropKeeps ==
  ASSUME IInv, NEW t \in Threads, Drop(t)
  PROVE  IInv'
<1>1. PICK e : e = entry[t]
  OBVIOUS
<1>2. /\ pc[t] = "drop" /\ pinCnt' = [pinCnt EXCEPT ![e] = @ - 1]
      /\ UNCHANGED <<pageNo, unused, wlock, page, entry, pins>>
  BY <1>1 DEF Drop
<1>3. /\ TypesOK /\ pc \in [Threads -> Inside \union {"idle", "pin", "unpin"}]
      /\ next \in [Entries -> 0..NEntries] /\ first \in 0..NEntries /\ mutex = TRUE
      /\ Acyclic(next, first)
  BY <1>2 DEF IInv, TypesOK, Exclusive, Inside, ChainOK
<1>4. e \in Entries /\ e \in Linked /\ pinCnt[e] \in Nat \ {0}
  <2>1. HandOK(t)
    BY DEF IInv, HandsOK
  <2>2. e \in Entries /\ InHand(t, e)
    BY <1>1, <1>2, <2>1 DEF HandOK, InHand
  <2>3. e \in Linked /\ <<t, 0>> \in Held(e)
    BY <2>2, PinnedIsLinked DEF IInv
  <2>4. pinCnt[e] = Cardinality(Held(e))
    BY <2>2, <2>3 DEF IInv, CountsOK
  <2>5. Cardinality(Held(e)) # 0 /\ Cardinality(Held(e)) \in Nat
    BY <2>3, HeldFinite, FS_EmptySet
  <2> QED  BY <2>2, <2>3, <2>4, <2>5
<1>5. Links(next) /\ Len(next) = NEntries /\ e \in 1..Len(next) /\ first \in 0..Len(next)
  BY <1>3, <1>4, Table DEF Entries
<1>6. CASE pinCnt[e] > 1
  <2>1. pc' = [pc EXCEPT ![t] = "drop unlock"] /\ UNCHANGED <<first, next, mutex>>
    <3>1. ~(pinCnt[entry[t]] <= 1)
      BY <1>1, <1>4, <1>6
    <3> QED  BY <1>1, <3>1 DEF Drop, Goto
  <2>2. Linked' = Linked
    BY <2>1 DEF Linked
  <2>3. pinCnt[e] # 1
    BY <1>4, <1>6
  <2> QED  BY <1>1, <1>2, <1>3, <2>1, <2>2, <2>3, DropRest
<1>7. CASE ~(pinCnt[e] > 1)
  <2>1. pinCnt[e] = 1
    BY <1>4, <1>7
  <2>2. pc' = [pc EXCEPT ![t] = "drop free"]
    BY <1>1, <1>7 DEF Drop, Goto
  <2>3. CASE first = e
    <3>1. first' = next[e] /\ mutex' = FALSE /\ UNCHANGED next
      BY <1>1, <1>7, <2>3 DEF Drop
    <3>2. /\ Reach(next, next[e]) = Reach(next, e) \ {e} /\ Acyclic(next, next[e])
          /\ next[e] \in 0..NEntries
      BY <1>3, <1>5, <2>3, AcyclicNext
    <3>3. Linked' = Linked \ {e}
      BY <2>3, <3>1, <3>2 DEF Linked
    <3> QED  BY <1>1, <1>2, <1>3, <2>1, <2>2, <3>1, <3>2, <3>3, DropRest
  <2>4. CASE first # e
    <3>1. PICK d \in Chain : next[d] = e /\ next' = [next EXCEPT ![d] = next[e]]
      BY <1>1, <1>7, <2>4 DEF Drop
    <3>2. UNCHANGED <<first, mutex>>
      BY <1>1, <1>7, <2>4 DEF Drop
    <3>3. d \in Reach(next, first) /\ e # 0
      BY <1>3, <1>5, ChainIsLinked DEF Linked
    <3>4. Reach(next', first) = Reach(next, first) \ {e} /\ Acyclic(next', first)
      <4>1. Unlinks(next, first, d, e, next')
        BY <1>3, <1>5, <3>1, <3>3 DEF Unlinks
      <4> QED  BY <4>1, ReachUnlinked
    <3>5. Linked' = Linked \ {e}
      BY <3>2, <3>4 DEF Linked
    <3>6. next' \in [Entries -> 0..NEntries]
      BY <1>3, <1>4, <3>1
    <3> QED  BY <1>1, <1>2, <1>3, <2>1, <2>2, <3>2, <3>4, <3>5, <3>6, DropRest
  <2> QED  BY <2>3, <2>4
<1> QED  BY <1>6, <1>7

LEMMA DropUnlockKeeps ==
  ASSUME IInv, NEW t \in Threads, DropUnlock(t)
  PROVE  IInv'
<1> DEFINE x == entry[t]
<1>1. /\ pc[t] \in {"drop unlock", "drop free"} /\ mutex' = FALSE
      /\ unused' = IF pc[t] = "drop free" THEN unused \union {x} ELSE unused
      /\ entry' = [entry EXCEPT ![t] = 0] /\ pc' = [pc EXCEPT ![t] = "idle"]
      /\ UNCHANGED <<first, next, pageNo, pinCnt, wlock, page, pins>>
  BY DEF DropUnlock, Goto, Nil
<1>2. /\ TypesOK /\ pc \in [Threads -> Inside \union {"idle", "pin", "unpin"}]
      /\ entry \in [Threads -> 0..NEntries] /\ unused \subseteq Entries
  BY DEF IInv, TypesOK
<1>3. pc[t] = "drop free" => x \in Entries /\ x \notin Linked
  BY DEF IInv, HandsOK, HandOK
<1>4. pc'[t] = "idle" /\ \A u \in Threads \ {t} : pc'[u] = pc[u] /\ entry'[u] = entry[u]
  BY <1>1, <1>2
<1>5. \A u \in Threads \ {t} : /\ pc[u] \in {"idle", "pin", "unpin"}
                               /\ pc[u] = "unpin" => entry[u] \in Entries
  BY <1>1, Alone DEF Inside
<1>6. TypesOK'
  <2>1. 0 \in 0..NEntries
    BY LatchTableAssumption
  <2>2. entry' \in [Threads -> 0..NEntries] /\ unused' \subseteq Entries
    BY <1>1, <1>2, <1>3, <2>1
  <2> QED  BY <1>1, <1>2, <2>2 DEF TypesOK
<1>7. Linked' = Linked
  BY <1>1 DEF Linked
<1>8. \A e \in Entries : Held(e)' = Held(e)
  <2>1. ASSUME NEW e \in Entries, NEW u \in Threads PROVE InHand(u, e)' <=> InHand(u, e)
    BY <1>1, <1>4 DEF InHand
  <2> QED  BY <1>1, <2>1, HeldSame
<1>9. CountsOK'
  BY <1>1, <1>7, <1>8 DEF IInv, CountsOK
<1>10. ChainOK'
  BY <1>1, <1>7 DEF IInv, ChainOK
<1>11. Exclusive'
  BY <1>4, <1>5 DEF Exclusive, Inside
<1>12. RoomOK'
  BY <1>1, <1>4 DEF IInv, RoomOK
<1>13. HandsOK'
  <2>1. HandOK(t)'
    BY <1>4 DEF HandOK
  <2> QED  BY <1>4, <1>5, <2>1, OthersHands
<1>14. UnusedOK'
  <2> SUFFICES ASSUME NEW d \in Entries
               PROVE  d \in unused' <=>
                        /\ d \notin Linked
                        /\ \A u \in Threads : pc'[u] \in {"install", "drop free"} => entry'[u] # d
    BY <1>7 DEF UnusedOK
  <2>1. \A u \in Threads : pc'[u] \notin {"install", "drop free"}
    BY <1>4, <1>5
  <2>2. d \in unused <=> d \notin Linked /\ (pc[t] = "drop free" => x # d)
    BY <1>1, <1>5 DEF IInv, UnusedOK
  <2> QED  BY <1>1, <1>3, <2>1, <2>2
<1>15. WritesOK'
  BY <1>1 DEF IInv, WritesOK
<1> QED  BY <1>6, <1>9, <1>10, <1>11, <1>12, <1>13, <1>14, <1>15 DEF IInv

LEMMA StepIInv == IInv /\ ReleasedOnce' /\ [Next]_vars => IInv'
<1> SUFFICES ASSUME IInv, ReleasedOnce', [Next]_vars PROVE IInv'
  OBVIOUS
<1>1. ASSUME NEW t \in Threads, NEW p \in Pages, Pin(t, p) PROVE IInv'
  BY <1>1, PinKeeps
<1>2. ASSUME NEW t \in Threads, Lock(t) PROVE IInv'
  BY <1>2, LockKeeps
<1>3. ASSUME NEW t \in Threads, Find(t) PROVE IInv'
  BY <1>3, FindKeeps
<1>4. ASSUME NEW t \in Threads, Install(t) PROVE IInv'
  BY <1>4, InstallKeeps
<1>5. ASSUME NEW t \in Threads, Unlock(t) PROVE IInv'
  BY <1>5, UnlockKeeps
<1>6. ASSUME NEW t \in Threads, LockWrite(t) PROVE IInv'
  BY <1>6, LockWriteKeeps
<1>7. ASSUME NEW t \in Threads, Unpin(t) PROVE IInv'
  BY <1>7, UnpinKeeps
<1>8. ASSUME NEW t \in Threads, Drop(t) PROVE IInv'
  BY <1>8, DropKeeps
<1>9. ASSUME NEW t \in Threads, DropUnlock(t) PROVE IInv'
  BY <1>9, DropUnlockKeeps
<1>10. CASE UNCHANGED vars
  <2>1. UNCHANGED <<mutex, first, next, pageNo, pinCnt, unused, wlock, pc, page, entry, pins>>
    BY <1>10 DEF vars
  <2>2. Linked' = Linked /\ \A e : Held(e)' = Held(e)
    BY <2>1 DEF Linked, Held
  <2>3. TypesOK' /\ Exclusive' /\ RoomOK'
    BY <2>1 DEF IInv, TypesOK, Exclusive, RoomOK
  <2>4. CountsOK'
    BY <2>1, <2>2 DEF IInv, CountsOK
  <2>5. ChainOK'
    BY <2>1, <2>2 DEF IInv, ChainOK
  <2>6. UnusedOK' /\ WritesOK'
    BY <2>1, <2>2 DEF IInv, UnusedOK, WritesOK
  <2>7. HandsOK'
    BY <2>1, <2>2 DEF IInv, HandsOK, HandOK
  <2> QED  BY <2>3, <2>4, <2>5, <2>6, <2>7 DEF IInv
<1> QED
  BY <1>1, <1>2, <1>3, <1>4, <1>5, <1>6, <1>7, <1>8, <1>9, <1>10 DEF Next, Finished

\* The invariant holds as long as nobody enters the bucket between the two
\* releases of btreeUnpinLatch.
THEOREM AlwaysIInv == Spec /\ []ReleasedOnce => []IInv
<1>1. Init => IInv
  BY InitIInv
<1>2. IInv /\ ReleasedOnce' /\ [Next]_vars => IInv'
  BY StepIInv
<1> QED  BY <1>1, <1>2, PTL DEF Spec

-----------------------------------------------------------------------------
(* The properties                                                          *)

LEMMA QuietChain == IInv => ChainIsPinned
<1> SUFFICES ASSUME IInv, \A t \in Threads : pc[t] \in {"idle", "pin"}
             PROVE  /\ Chain = {e \in Entries : Pins(e) # {}}
                    /\ \A e \in Chain : pinCnt[e] = Cardinality(Pins(e))
                    /\ unused = Entries \ Chain
                    /\ \A d, e \in Chain : pageNo[d] = pageNo[e] => d = e
  BY DEF ChainIsPinned
<1>1. TypesOK /\ Chain = Linked /\ Linked \subseteq Entries /\ MaxPins \in Nat /\ unused \subseteq Entries
  BY ChainIsLinked, Table DEF IInv, TypesOK
\* Nobody has a pin in hand.
<1>2. ASSUME NEW e \in Entries PROVE Pins(e) = Held(e)
  <2>1. ASSUME NEW t \in Threads, NEW i \in 0..MaxPins
        PROVE  <<t, i>> \in Held(e) <=> i \in 1..MaxPins /\ i <= Len(pins[t]) /\ pins[t][i] = e
    <3>1. i = 0 <=> i \notin 1..MaxPins
      BY <1>1
    <3>2. pc[t] \notin {"unlock", "unpin", "drop"}
      OBVIOUS
    <3> QED  BY <3>1, <3>2 DEF Held
  <2>2. 1..MaxPins \subseteq 0..MaxPins
    BY <1>1
  <2>3. Held(e) \subseteq Threads \X (0..MaxPins) /\ Pins(e) \subseteq Threads \X (1..MaxPins)
    BY DEF Held, Pins
  <2>4. ASSUME NEW t \in Threads, NEW i \in 1..MaxPins
        PROVE  <<t, i>> \in Pins(e) <=> i <= Len(pins[t]) /\ pins[t][i] = e
    BY DEF Pins
  <2>5. Held(e) \subseteq Pins(e)
    BY <2>1, <2>3, <2>4
  <2>6. Pins(e) \subseteq Held(e)
    BY <2>1, <2>2, <2>3, <2>4
  <2> QED  BY <2>5, <2>6
<1>3. \A e \in Entries : /\ e \in Chain <=> Pins(e) # {}
                         /\ e \in Chain => pinCnt[e] = Cardinality(Pins(e))
  BY <1>1, <1>2 DEF IInv, CountsOK
<1>4. \A e \in Entries : e \in unused <=> e \notin Chain
  BY <1>1 DEF IInv, UnusedOK
<1>5. \A d, e \in Chain : pageNo[d] = pageNo[e] => d = e
  BY <1>1 DEF IInv, ChainOK
<1> QED  BY <1>1, <1>3, <1>4, <1>5

\* While nobody is in the bucket of btreePinLatch and btreeUnpinLatch, its chain
\* holds the pinned pages, each once and with the number of its pins, and the
\* other entries are free -- as long as nobody has entered it between the two
\* releases of btreeUnpinLatch, the store of the next link into the bucket and
\* unlockLatch.
THEOREM ChainKept == Spec /\ []ReleasedOnce => []ChainIsPinned
<1>1. IInv => ChainIsPinned
  BY QuietChain
<1> QED  BY <1>1, AlwaysIInv, PTL

LEMMA OneWriter == IInv => WriteExclusive
<1> SUFFICES ASSUME IInv, NEW d \in Entries, NEW e \in Entries,
                    wlock[d] # None, wlock[e] # None, pageNo[d] = pageNo[e]
             PROVE  wlock[d] = wlock[e]
  BY DEF WriteExclusive
<1>1. ASSUME NEW x \in Entries, wlock[x] # None PROVE x \in Linked
  <2>1. wlock[x] \in Threads
    BY <1>1 DEF IInv, TypesOK
  <2>2. PICK i \in 1..Len(pins[wlock[x]]) : pins[wlock[x]][i] = x
    BY <2>1 DEF IInv, WritesOK
  <2> QED  BY <2>1, <2>2, PinnedIsLinked DEF IInv
<1>2. d \in Linked /\ e \in Linked
  BY <1>1
<1>3. d = e
  BY <1>2 DEF IInv, ChainOK
<1> QED  BY <1>3

\* The write lock of a page is taken through the entry that btreePinLatch finds
\* for it: two threads never have it, as long as nobody has entered the bucket
\* between the two releases of btreeUnpinLatch.  With such a thread they may.
THEOREM WritersExclude == Spec /\ []ReleasedOnce => []WriteExclusive
<1>1. IInv => WriteExclusive
  BY OneWriter
<1> QED  BY <1>1, AlwaysIInv, PTL

\* A process with one thread: nobody can enter the bucket between the releases
\* of btreeUnpinLatch, and the chain is right whatever it pins and unpins.
THEOREM OneThread ==
  ASSUME \A t, u \in Threads : t = u
  PROVE  Spec => []ChainIsPinned
<1>1. ReleasedOnce
  BY DEF ReleasedOnce
<1>2. []ReleasedOnce
  BY <1>1, PTL
<1> QED  BY <1>2, ChainKept, PTL

=============================================================================
