--------------------------- MODULE RefCountProofs ---------------------------
(***************************************************************************)
(* Proofs about the reference counts of the interpreter, for heaps and     *)
(* programs of any size.                                                   *)
(***************************************************************************)
EXTENDS RefCount, Lemmas

-----------------------------------------------------------------------------
(* The inductive invariant.                                                *)

Valued == {"object", "args", "closure"}

HeapType == [kind : [Cell -> Kinds], count : [Cell -> Int],
             held : [Cell -> [Slots -> Cell \union {Nil}]], bad : BOOLEAN]

All == Cell \X Slots

Refs(h, D, v) == {p \in D : h.held[p[1]][p[2]] = v}

\* Which cells hold something, and where.
Places(h) ==
  \A c \in Cell, s \in Slots : h.held[c][s] # Nil =>
    \/ s = "p" /\ h.kind[c] \in {"object", "args"}
    \/ s # "p" /\ h.kind[c] = "frame"

\* The counts of h are those of the slots of D, and of X for what is elsewhere.
Exact(h, D, X) == \A v \in Cell : h.count[v] = Cardinality(Refs(h, D, v)) + X[v]

Zero(h) == \A v \in Cell : h.kind[v] \notin Valued => h.count[v] = 0

Well(h, D, X) ==
  /\ h \in HeapType /\ ~h.bad
  /\ D \subseteq All /\ X \in [Cell -> Nat]
  /\ Places(h) /\ Exact(h, D, X) /\ Zero(h)

\* One for each cell of L.
Extra(L) == [c \in Cell |-> IF c \in L THEN 1 ELSE 0]

PendingType == [op : {"assign", "literal", "call"}, cell : Cell, slot : Slots]

EnvType == [frame : Cell, closure : Cell \union {Nil}, lits : Seq(Cell), pending : Seq(PendingType)]

Lits(e) == {e.lits[i] : i \in 1..Len(e.lits)}

\* The cells of literals and argument lists that are being made, and those
\* that are being assigned to.
News(e) == {e.pending[i].cell : i \in {j \in 1..Len(e.pending) : e.pending[j].op # "assign"}}

Assigns(e) == {e.pending[i].cell : i \in {j \in 1..Len(e.pending) : e.pending[j].op = "assign"}}

\* A cell under construction is not counted yet and holds nothing.
PendingOK(h, q) ==
  \/ q.op = "assign" /\ q.slot = "p" /\ h.kind[q.cell] \in {"object", "freed"}
  \/ q.op = "assign" /\ q.slot \in {"x", "y"} /\ h.kind[q.cell] \in {"frame", "freed"}
  \/ /\ q.op # "assign" /\ h.kind[q.cell] = (IF q.op = "literal" THEN "object" ELSE "args")
     /\ h.count[q.cell] = 0 /\ h.held[q.cell] = Nothing

EnvOK(h, e) ==
  /\ h.kind[e.frame] = "frame"
  /\ e.closure # Nil => h.kind[e.closure] \in {"closure", "freed"}
  /\ \A i \in 1..Len(e.lits) : h.kind[e.lits[i]] = "object"
  /\ \A i, j \in 1..Len(e.lits) : i # j => e.lits[i] # e.lits[j]
  /\ \A i \in 1..Len(e.pending) : PendingOK(h, e.pending[i])
  /\ \A i, j \in 1..Len(e.pending) :
       i # j /\ e.pending[i].op # "assign" => e.pending[i].cell # e.pending[j].cell

Apart(e, d) ==
  /\ e.frame # d.frame
  /\ Lits(e) \intersect Lits(d) = {}
  /\ News(e) \intersect (News(d) \union Assigns(d)) = {}

EnvsOK(h, es) ==
  /\ es \in Seq(EnvType) /\ es # <<>>
  /\ \A k \in 1..Len(es) : EnvOK(h, es[k])
  /\ \A k, l \in 1..Len(es) : k # l => Apart(es[k], es[l])

\* A frame is that of a call, which has not returned a value yet.
FramesOK(h, es) ==
  \A c \in Cell : h.kind[c] = "frame" =>
    h.held[c]["ret"] = Nil /\ \E k \in 1..Len(es) : es[k].frame = c

AllLits(es) == UNION {Lits(es[k]) : k \in 1..Len(es)}

\* What is counted and is not in a slot.
Listed(es, lk) == AllLits(es) \union lk \union {Declared}

LeakedOK(h, es, lk) == lk \subseteq Cell /\ lk \intersect AllLits(es) = {} /\ \A c \in lk : h.kind[c] = "object"

CapturedOK(h, cp) ==
  /\ cp \in [Cell -> Cell \union {Nil}]
  /\ \A c \in Cell : cp[c] # Nil => h.kind[cp[c]] \in {"frame", "freed"}

ValueOK(h, es, v) ==
  /\ v # Nil => h.kind[v] \in Valued \union {"freed"}
  /\ \A k \in 1..Len(es) : v \notin News(es[k])

Good ==
  /\ Well(heap, All, Extra(Listed(envs, leaked)))
  /\ EnvsOK(heap, envs) /\ FramesOK(heap, envs)
  /\ LeakedOK(heap, envs, leaked) /\ CapturedOK(heap, captured) /\ ValueOK(heap, envs, value)
  /\ heap.kind[Declared] = "closure"
  /\ mode = "expression" => value = Nil

Typed ==
  /\ heap \in HeapType /\ captured \in [Cell -> Cell \union {Nil}]
  /\ envs \in Seq(EnvType)
  /\ mode \in {"expression", "value", "stopped"} /\ value \in Cell \union {Nil}
  /\ heap.bad <=> mode = "stopped"

IInv == Typed /\ (~heap.bad => Good)

-----------------------------------------------------------------------------
(* Counting.                                                               *)

LEMMA Cells == 0 \notin Cell /\ Global \in Cell /\ Declared \in Cell /\ Nil \notin Cell
BY BoundAssumption DEF Cell, Global, Declared, Nil

LEMMA RefsFinite ==
  ASSUME NEW D \in SUBSET All, NEW h, NEW v
  PROVE  IsFiniteSet(Refs(h, D, v)) /\ Cardinality(Refs(h, D, v)) \in Nat
<1>1. IsFiniteSet(Cell)
  BY BoundAssumption, FS_Interval DEF Cell
<1>2. IsFiniteSet(Slots)
  <2>1. IsFiniteSet({"x"})
    BY FS_Singleton
  <2>2. IsFiniteSet({"x"} \union {"y"})
    BY <2>1, FS_AddElement
  <2>3. IsFiniteSet(({"x"} \union {"y"}) \union {"ret"})
    BY <2>2, FS_AddElement
  <2>4. IsFiniteSet((({"x"} \union {"y"}) \union {"ret"}) \union {"args"})
    BY <2>3, FS_AddElement
  <2>5. IsFiniteSet(((({"x"} \union {"y"}) \union {"ret"}) \union {"args"}) \union {"p"})
    BY <2>4, FS_AddElement
  <2>6. Slots = (((({"x"} \union {"y"}) \union {"ret"}) \union {"args"}) \union {"p"})
    BY DEF Slots
  <2> QED  BY <2>5, <2>6
<1>3. IsFiniteSet(All)
  BY <1>1, <1>2, FS_Product DEF All
<1>4. Refs(h, D, v) \in SUBSET All
  BY DEF Refs
<1> QED  BY <1>3, <1>4, FS_Subset, FS_CardinalityType

Plus(X, v) == IF v = Nil THEN X ELSE [X EXCEPT ![v] = @ + 1]

LEMMA PlusIs ==
  ASSUME NEW X \in [Cell -> Nat], NEW v \in Cell \union {Nil}
  PROVE  /\ Plus(X, v) \in [Cell -> Nat]
         /\ \A c \in Cell : Plus(X, v)[c] = IF c = v THEN X[c] + 1 ELSE X[c]
BY Cells DEF Plus

\* What a counted reference leads to.
LEMMA Referred ==
  ASSUME NEW h, NEW D, NEW X, Well(h, D, X), NEW v \in Cell
  PROVE  /\ h.count[v] \in Nat
         /\ (X[v] > 0 => h.count[v] > 0)
         /\ \A p \in D : h.held[p[1]][p[2]] = v => h.count[v] > 0
         /\ (h.count[v] > 0 => h.kind[v] \in Valued)
         /\ (h.count[v] = 0 => X[v] = 0 /\ Refs(h, D, v) = {})
<1>1. /\ IsFiniteSet(Refs(h, D, v)) /\ Cardinality(Refs(h, D, v)) \in Nat
      /\ h.count[v] = Cardinality(Refs(h, D, v)) + X[v] /\ X[v] \in Nat
  BY RefsFinite DEF Well, Exact
<1>2. Cardinality(Refs(h, D, v)) = 0 => Refs(h, D, v) = {}
  BY <1>1, FS_EmptySet
<1>3. \A p \in D : h.held[p[1]][p[2]] = v => p \in Refs(h, D, v)
  BY DEF Refs
<1> QED  BY <1>1, <1>2, <1>3 DEF Well, Zero

\* A slot that is no longer looked at: its reference is held elsewhere.
LEMMA Mask ==
  ASSUME NEW h, NEW D, NEW X, Well(h, D, X), NEW p \in D
  PROVE  /\ h.held[p[1]][p[2]] \in Cell \union {Nil}
         /\ Well(h, D \ {p}, Plus(X, h.held[p[1]][p[2]]))
<1> DEFINE q == h.held[p[1]][p[2]]
<1>1. q \in Cell \union {Nil}
  BY DEF Well, HeapType, All
<1>2. Plus(X, q) \in [Cell -> Nat] /\ \A c \in Cell : Plus(X, q)[c] = IF c = q THEN X[c] + 1 ELSE X[c]
  BY <1>1, PlusIs DEF Well
<1>3. ASSUME NEW v \in Cell PROVE h.count[v] = Cardinality(Refs(h, D \ {p}, v)) + Plus(X, q)[v]
  <2>1. /\ IsFiniteSet(Refs(h, D, v)) /\ Cardinality(Refs(h, D, v)) \in Nat
        /\ h.count[v] = Cardinality(Refs(h, D, v)) + X[v] /\ X[v] \in Nat
    BY RefsFinite DEF Well, Exact
  <2>2. Refs(h, D \ {p}, v) = Refs(h, D, v) \ {p} /\ (p \in Refs(h, D, v) <=> v = q)
    BY DEF Refs
  <2>3. Cardinality(Refs(h, D \ {p}, v)) = IF v = q THEN Cardinality(Refs(h, D, v)) - 1 ELSE Cardinality(Refs(h, D, v))
    BY <2>1, <2>2, FS_RemoveElement
  <2> HIDE DEF q
  <2> QED  BY <1>2, <2>1, <2>3
<1>4. Well(h, D \ {p}, Plus(X, q))
  <2> HIDE DEF q
  <2> QED  BY <1>2, <1>3 DEF Well, Exact
<1> QED  BY <1>1, <1>4

\* The other way round: a slot is written with a reference held elsewhere.
Held(h, c, s, v) == [h EXCEPT !.held[c][s] = v]

LEMMA HeldIs ==
  ASSUME NEW h \in HeapType, NEW c \in Cell, NEW s \in Slots, NEW v \in Cell \union {Nil}
  PROVE  /\ Held(h, c, s, v) \in HeapType
         /\ Held(h, c, s, v).kind = h.kind /\ Held(h, c, s, v).count = h.count
         /\ Held(h, c, s, v).bad = h.bad
         /\ \A d \in Cell, r \in Slots :
              Held(h, c, s, v).held[d][r] = IF d = c /\ r = s THEN v ELSE h.held[d][r]
         /\ \A d \in Cell : d # c => Held(h, c, s, v).held[d] = h.held[d]
<1> DEFINE row == [h.held[c] EXCEPT ![s] = v]
           k == [h.held EXCEPT ![c] = row]
<1>1. h.held \in [Cell -> [Slots -> Cell \union {Nil}]]
  BY DEF HeapType
<1>2. row \in [Slots -> Cell \union {Nil}] /\ \A r \in Slots : row[r] = IF r = s THEN v ELSE h.held[c][r]
  BY <1>1
<1>3. /\ k \in [Cell -> [Slots -> Cell \union {Nil}]] /\ k[c] = row
      /\ \A d \in Cell : d # c => k[d] = h.held[d]
  <2> HIDE DEF row
  <2> QED  BY <1>1, <1>2
<1>4. Held(h, c, s, v) = [h EXCEPT !.held = k]
  BY DEF Held, HeapType
<1> HIDE DEF k, row
<1>5. [h EXCEPT !.held = k] \in HeapType
  BY <1>3 DEF HeapType
<1> QED  BY <1>2, <1>3, <1>4, <1>5 DEF HeapType

LEMMA Store ==
  ASSUME NEW h, NEW D, NEW X \in [Cell -> Nat], NEW c \in Cell, NEW s \in Slots, NEW v \in Cell \union {Nil},
         Well(h, D, Plus(X, v)), <<c, s>> \notin D,
         \/ s = "p" /\ h.kind[c] \in {"object", "args"}
         \/ s # "p" /\ h.kind[c] = "frame"
  PROVE  Well(Held(h, c, s, v), D \union {<<c, s>>}, X)
<1> DEFINE g == Held(h, c, s, v)
           p == <<c, s>>
<1>1. /\ g \in HeapType /\ g.kind = h.kind /\ g.count = h.count /\ g.bad = h.bad
      /\ \A d \in Cell, r \in Slots : g.held[d][r] = IF d = c /\ r = s THEN v ELSE h.held[d][r]
  BY HeldIs DEF Well
<1>2. \A d \in Cell : Plus(X, v)[d] = IF d = v THEN X[d] + 1 ELSE X[d]
  BY PlusIs
<1> HIDE DEF g
<1>3. ASSUME NEW w \in Cell PROVE g.count[w] = Cardinality(Refs(g, D \union {p}, w)) + X[w]
  <2>1. /\ IsFiniteSet(Refs(h, D, w)) /\ Cardinality(Refs(h, D, w)) \in Nat
        /\ h.count[w] = Cardinality(Refs(h, D, w)) + Plus(X, v)[w] /\ X[w] \in Nat
    BY RefsFinite DEF Well, Exact
  <2>2. \A q \in D : q \in All /\ q # p
    BY DEF Well
  <2>3. \A q \in D : g.held[q[1]][q[2]] = h.held[q[1]][q[2]]
    <3> SUFFICES ASSUME NEW d \in Cell, NEW r \in Slots, <<d, r>> \in D PROVE g.held[d][r] = h.held[d][r]
      BY <2>2 DEF All
    <3> QED  BY <1>1, <2>2
  <2>4. Refs(g, D \union {p}, w) = IF w = v THEN Refs(h, D, w) \union {p} ELSE Refs(h, D, w)
    BY <1>1, <2>3 DEF Refs
  <2>5. p \notin Refs(h, D, w)
    BY DEF Refs
  <2>6. Cardinality(Refs(g, D \union {p}, w)) = IF w = v THEN Cardinality(Refs(h, D, w)) + 1 ELSE Cardinality(Refs(h, D, w))
    BY <2>1, <2>4, <2>5, FS_AddElement
  <2> QED  BY <1>1, <1>2, <2>1, <2>6
<1>4. Places(g)
  BY <1>1 DEF Places, Well
<1>5. Zero(g) /\ ~g.bad /\ D \union {p} \subseteq All
  BY <1>1 DEF Zero, Well, All
<1>6. Well(g, D \union {p}, X)
  BY <1>1, <1>3, <1>4, <1>5 DEF Well, Exact
<1> QED  BY <1>6 DEF g

-----------------------------------------------------------------------------
(* Adding a reference and taking one away.                                 *)

\* A heap of which only counts are not those of h.
Recounted(h, g) ==
  /\ g \in HeapType /\ g.kind = h.kind /\ g.held = h.held
  /\ h.bad => g.bad

LEMMA IncrIs ==
  ASSUME NEW h \in HeapType, NEW v \in Cell \union {Nil}
  PROVE  /\ Recounted(h, Incr(h, v))
         /\ ~Incr(h, v).bad =>
              /\ ~h.bad /\ (v # Nil => Allocated(h, v))
              /\ \A c \in Cell : Incr(h, v).count[c] = IF c = v THEN h.count[c] + 1 ELSE h.count[c]
<1>1. CASE v = Nil
  BY <1>1, Cells DEF Incr, Recounted
<1>2. CASE v # Nil /\ Allocated(h, v)
  <2> DEFINE k == [h.count EXCEPT ![v] = @ + 1]
  <2>1. Incr(h, v) = [h EXCEPT !.count = k]
    BY <1>2 DEF Incr, HeapType
  <2>2. k \in [Cell -> Int] /\ \A c \in Cell : k[c] = IF c = v THEN h.count[c] + 1 ELSE h.count[c]
    BY <1>2 DEF HeapType
  <2> HIDE DEF k
  <2> QED  BY <1>2, <2>1, <2>2 DEF Recounted, HeapType
<1>3. CASE v # Nil /\ ~Allocated(h, v)
  <2>1. Incr(h, v) = [h EXCEPT !.bad = TRUE]
    BY <1>3 DEF Incr, Bad
  <2> QED  BY <2>1 DEF Recounted, HeapType
<1> QED  BY <1>1, <1>2, <1>3

LEMMA UncountIs ==
  ASSUME NEW h \in HeapType, NEW v \in Cell \union {Nil}
  PROVE  /\ Recounted(h, Uncount(h, v))
         /\ ~Uncount(h, v).bad =>
              /\ ~h.bad /\ (v # Nil => Allocated(h, v))
              /\ \A c \in Cell : Uncount(h, v).count[c] = IF c = v THEN h.count[c] - 1 ELSE h.count[c]
         /\ v # Nil /\ Allocated(h, v) => Uncount(h, v).bad = h.bad
<1>1. CASE v = Nil
  BY <1>1, Cells DEF Uncount, Recounted
<1>2. CASE v # Nil /\ Allocated(h, v)
  <2> DEFINE k == [h.count EXCEPT ![v] = @ - 1]
  <2>1. Uncount(h, v) = [h EXCEPT !.count = k]
    BY <1>2 DEF Uncount, HeapType
  <2>2. k \in [Cell -> Int] /\ \A c \in Cell : k[c] = IF c = v THEN h.count[c] - 1 ELSE h.count[c]
    BY <1>2 DEF HeapType
  <2> HIDE DEF k
  <2> QED  BY <1>2, <2>1, <2>2 DEF Recounted, HeapType
<1>3. CASE v # Nil /\ ~Allocated(h, v)
  <2>1. Uncount(h, v) = [h EXCEPT !.bad = TRUE]
    BY <1>3 DEF Uncount, Bad
  <2> QED  BY <1>3, <2>1 DEF Recounted, HeapType
<1> QED  BY <1>1, <1>2, <1>3

LEMMA SameRefs ==
  ASSUME NEW h, NEW g, g.held = h.held, NEW D, NEW v
  PROVE  Refs(g, D, v) = Refs(h, D, v)
BY DEF Refs

LEMMA IncrWell ==
  ASSUME NEW h, NEW D, NEW X, Well(h, D, X), NEW v \in Cell \union {Nil},
         v # Nil => h.kind[v] \in Valued \union {"freed"}, ~Incr(h, v).bad
  PROVE  Well(Incr(h, v), D, Plus(X, v)) /\ (v # Nil => h.kind[v] \in Valued)
<1> DEFINE g == Incr(h, v)
<1>1. /\ g \in HeapType /\ g.kind = h.kind /\ g.held = h.held
      /\ \A c \in Cell : g.count[c] = IF c = v THEN h.count[c] + 1 ELSE h.count[c]
  BY IncrIs DEF Well, Recounted
<1>2. v # Nil => h.kind[v] \in Valued
  BY IncrIs DEF Well, Allocated
<1>3. /\ Plus(X, v) \in [Cell -> Nat]
      /\ \A c \in Cell : Plus(X, v)[c] = IF c = v THEN X[c] + 1 ELSE X[c]
  BY PlusIs DEF Well
<1> HIDE DEF g
<1>4. ASSUME NEW w \in Cell PROVE g.count[w] = Cardinality(Refs(g, D, w)) + Plus(X, v)[w]
  <2>1. /\ Cardinality(Refs(h, D, w)) \in Nat /\ X[w] \in Nat
        /\ h.count[w] = Cardinality(Refs(h, D, w)) + X[w]
    BY RefsFinite DEF Well, Exact
  <2>2. Refs(g, D, w) = Refs(h, D, w)
    BY <1>1, SameRefs
  <2> QED  BY <1>1, <1>3, <2>1, <2>2
<1>5. Zero(g) /\ Places(g)
  BY <1>1, <1>2, Cells DEF Zero, Places, Well
<1>6. Well(g, D, Plus(X, v))
  BY <1>1, <1>3, <1>4, <1>5 DEF Well, Exact, g
<1> QED  BY <1>2, <1>6 DEF g

LEMMA UncountWell ==
  ASSUME NEW h, NEW D, NEW X \in [Cell -> Nat], NEW v \in Cell \union {Nil}, Well(h, D, Plus(X, v))
  PROVE  /\ Well(Uncount(h, v), D, X) /\ (v # Nil => h.kind[v] \in Valued)
         /\ \A c \in Cell : Uncount(h, v).count[c] = IF c = v THEN h.count[c] - 1 ELSE h.count[c]
<1> DEFINE g == Uncount(h, v)
<1>1. \A c \in Cell : Plus(X, v)[c] = IF c = v THEN X[c] + 1 ELSE X[c]
  BY PlusIs
<1>2. v # Nil => h.kind[v] \in Valued /\ Allocated(h, v)
  BY <1>1, Referred DEF Allocated, Valued
<1>3. ~g.bad
  BY <1>2, UncountIs DEF Well, Uncount
<1>4. /\ g \in HeapType /\ g.kind = h.kind /\ g.held = h.held
      /\ \A c \in Cell : g.count[c] = IF c = v THEN h.count[c] - 1 ELSE h.count[c]
  BY <1>3, UncountIs DEF Well, Recounted
<1> HIDE DEF g
<1>5. ASSUME NEW w \in Cell PROVE g.count[w] = Cardinality(Refs(g, D, w)) + X[w]
  <2>1. /\ Cardinality(Refs(h, D, w)) \in Nat /\ X[w] \in Nat
        /\ h.count[w] = Cardinality(Refs(h, D, w)) + Plus(X, v)[w]
    BY RefsFinite DEF Well, Exact
  <2>2. Refs(g, D, w) = Refs(h, D, w)
    BY <1>4, SameRefs
  <2> QED  BY <1>1, <1>4, <2>1, <2>2
<1>6. Zero(g) /\ Places(g)
  BY <1>2, <1>4, Cells DEF Zero, Places, Well
<1>7. Well(g, D, X)
  BY <1>3, <1>4, <1>5, <1>6 DEF Well, Exact
<1> QED  BY <1>2, <1>4, <1>7 DEF g

-----------------------------------------------------------------------------
(* Giving memory back.                                                     *)

LEMMA FreeIs ==
  ASSUME NEW h \in HeapType, NEW c \in Cell
  PROVE  /\ Free(h, c) \in HeapType /\ Free(h, c).bad = h.bad
         /\ \A d \in Cell : /\ Free(h, c).kind[d] = IF d = c THEN "freed" ELSE h.kind[d]
                            /\ Free(h, c).count[d] = IF d = c THEN 0 ELSE h.count[d]
                            /\ Free(h, c).held[d] = IF d = c THEN Nothing ELSE h.held[d]
<1> DEFINE k == [h.kind EXCEPT ![c] = "freed"]
           n == [h.count EXCEPT ![c] = 0]
           w == [h.held EXCEPT ![c] = Nothing]
<1>1. Free(h, c) = [[[h EXCEPT !.kind = k] EXCEPT !.count = n] EXCEPT !.held = w]
  BY DEF Free, HeapType
<1>2. k \in [Cell -> Kinds] /\ \A d \in Cell : k[d] = IF d = c THEN "freed" ELSE h.kind[d]
  BY DEF HeapType, Kinds
<1>3. n \in [Cell -> Int] /\ \A d \in Cell : n[d] = IF d = c THEN 0 ELSE h.count[d]
  BY DEF HeapType
<1>4. Nothing \in [Slots -> Cell \union {Nil}]
  BY DEF Nothing
<1>5. /\ w \in [Cell -> [Slots -> Cell \union {Nil}]]
      /\ \A d \in Cell : w[d] = IF d = c THEN Nothing ELSE h.held[d]
  <2> HIDE DEF k, n
  <2> QED  BY <1>4 DEF HeapType
<1> HIDE DEF k, n, w
<1> QED  BY <1>1, <1>2, <1>3, <1>5 DEF HeapType

LEMMA FreeWell ==
  ASSUME NEW h, NEW D, NEW X, Well(h, D, X), NEW c \in Cell, h.count[c] = 0,
         \A s \in Slots : <<c, s>> \in D => h.held[c][s] = Nil,
         NEW E \in SUBSET ({c} \X Slots)
  PROVE  Well(Free(h, c), D \union E, X)
<1> DEFINE g == Free(h, c)
<1>1. /\ g \in HeapType /\ g.bad = h.bad
      /\ \A d \in Cell : /\ g.kind[d] = IF d = c THEN "freed" ELSE h.kind[d]
                         /\ g.count[d] = IF d = c THEN 0 ELSE h.count[d]
                         /\ g.held[d] = IF d = c THEN Nothing ELSE h.held[d]
  BY FreeIs DEF Well
<1> HIDE DEF g
<1>2. D \union E \subseteq All
  BY DEF Well, All
<1>3. ASSUME NEW w \in Cell PROVE Refs(g, D \union E, w) = Refs(h, D, w)
  <2>1. ASSUME NEW d \in Cell, NEW s \in Slots
        PROVE  <<d, s>> \in Refs(g, D \union E, w) <=> <<d, s>> \in Refs(h, D, w)
    <3>1. CASE d = c
      <4>1. g.held[d][s] = Nil /\ Nil # w
        BY <1>1, <3>1, Cells DEF Nothing
      <4> QED  BY <3>1, <4>1 DEF Refs
    <3>2. CASE d # c
      <4>1. <<d, s>> \notin E /\ g.held[d] = h.held[d]
        BY <1>1, <3>2
      <4> QED  BY <4>1 DEF Refs
    <3> QED  BY <3>1, <3>2
  <2>2. Refs(g, D \union E, w) \subseteq All /\ Refs(h, D, w) \subseteq All
    BY <1>2 DEF Refs, Well
  <2>3. \A q \in All : q[1] \in Cell /\ q[2] \in Slots /\ q = <<q[1], q[2]>>
    BY DEF All
  <2>4. \A q \in All : q \in Refs(g, D \union E, w) <=> q \in Refs(h, D, w)
    BY <2>1, <2>3
  <2> QED  BY <2>2, <2>4
<1>4. \A w \in Cell : g.count[w] = h.count[w]
  BY <1>1
<1>5. Places(g)
  <2> SUFFICES ASSUME NEW d \in Cell, NEW s \in Slots, g.held[d][s] # Nil
               PROVE  \/ s = "p" /\ g.kind[d] \in {"object", "args"}
                      \/ s # "p" /\ g.kind[d] = "frame"
    BY DEF Places
  <2>1. d # c
    BY <1>1 DEF Nothing
  <2> QED  BY <1>1, <2>1 DEF Well, Places
<1>6. Zero(g) /\ ~g.bad
  BY <1>1 DEF Well, Zero
<1>7. Well(g, D \union E, X)
  BY <1>1, <1>2, <1>3, <1>4, <1>5, <1>6 DEF Well, Exact
<1> QED  BY <1>7 DEF g

\* What a heap becomes when memory is given back: cells that nothing counts stay as they
\* are, those of S aside.
Later(h, g, S) ==
  \A c \in Cell :
    /\ g.kind[c] = h.kind[c] \/ (h.kind[c] \in Valued /\ g.kind[c] = "freed")
    /\ g.kind[c] = h.kind[c] => g.held[c] = h.held[c]
    /\ h.count[c] = 0 /\ c \notin S => g.kind[c] = h.kind[c] /\ g.count[c] = 0

LEMMA LaterAgain ==
  ASSUME NEW h, NEW g, NEW i, NEW S, NEW T, Later(h, g, S), Later(g, i, T)
  PROVE  Later(h, i, S \union T)
BY DEF Later, Valued

\* An object or an argument list whose slot is not in D is not freed.
Keeps(h, D) == \A c \in Cell : <<c, "p">> \notin D => Allocated(h, c)

\* One turn of deleteValue: c goes, and what it held is let go of.
LEMMA DeleteOne ==
  ASSUME NEW h, NEW D, NEW X, Well(h, D, X), NEW c \in Cell, h.kind[c] \in Valued, h.count[c] = 0,
         NEW q, q = h.held[c]["p"], NEW g, g = Uncount(Free(h, c), q), ~g.bad, Keeps(g, D)
  PROVE  /\ Well(g, D, X) /\ Later(h, g, {c})
         /\ q \in Cell \union {Nil}
         /\ (q # Nil => g.kind[q] \in Valued /\ h.count[q] > 0)
<1> DEFINE p == <<c, "p">>
           e == Free(h, c)
           E == D \ {p}
<1>0. "p" \in Slots
  BY DEF Slots
<1>1. q \in Cell \union {Nil} /\ h \in HeapType
  BY <1>0 DEF Well, HeapType
<1>2. /\ e \in HeapType
      /\ \A d \in Cell : /\ e.kind[d] = IF d = c THEN "freed" ELSE h.kind[d]
                         /\ e.count[d] = IF d = c THEN 0 ELSE h.count[d]
                         /\ e.held[d] = IF d = c THEN Nothing ELSE h.held[d]
  BY <1>1, FreeIs
<1> HIDE DEF e
<1>3. g.kind = e.kind /\ g.held = e.held
  BY <1>1, <1>2, UncountIs DEF Recounted, e
<1>4. p \in D
  <2>1. p \in All /\ ~Allocated(g, c)
    BY <1>0, <1>2, <1>3 DEF All, Allocated
  <2> QED  BY <2>1 DEF Keeps
<1>5. Well(h, E, Plus(X, q))
  BY <1>4, Mask
<1>6. \A s \in Slots : <<c, s>> \in E => h.held[c][s] = Nil
  <2> SUFFICES ASSUME NEW s \in Slots, <<c, s>> \in E PROVE h.held[c][s] = Nil
    OBVIOUS
  <2>1. s # "p"
    OBVIOUS
  <2> QED  BY <2>1 DEF Well, Places, Valued
<1>7. Well(e, E \union {p}, Plus(X, q))
  <2>1. {p} \in SUBSET ({c} \X Slots)
    BY <1>0
  <2> HIDE DEF E, p
  <2> QED  BY <1>5, <1>6, <2>1, FreeWell DEF e
<1>8. E \union {p} = D
  BY <1>4
<1>9. /\ Well(g, D, X) /\ (q # Nil => e.kind[q] \in Valued)
      /\ \A d \in Cell : g.count[d] = IF d = q THEN e.count[d] - 1 ELSE e.count[d]
  <2>1. X \in [Cell -> Nat] /\ Well(e, D, Plus(X, q)) /\ g = Uncount(e, q)
    BY <1>7, <1>8 DEF Well, e
  <2> QED  BY <1>1, <2>1, UncountWell
<1>10. q # Nil => h.count[q] > 0
  <2> SUFFICES ASSUME q # Nil PROVE h.count[q] > 0
    OBVIOUS
  <2>1. h.held[p[1]][p[2]] = q
    OBVIOUS
  <2> QED  BY <1>1, <1>4, <2>1, Referred
<1>11. Later(h, g, {c})
  <2> SUFFICES ASSUME NEW d \in Cell
               PROVE  /\ g.kind[d] = h.kind[d] \/ (h.kind[d] \in Valued /\ g.kind[d] = "freed")
                      /\ g.kind[d] = h.kind[d] => g.held[d] = h.held[d]
                      /\ h.count[d] = 0 /\ d # c => g.kind[d] = h.kind[d] /\ g.count[d] = 0
    BY DEF Later
  <2>1. h.kind[c] # "freed"
    BY DEF Valued
  <2>2. d # q \/ h.count[d] > 0
    BY <1>10, Cells
  <2>3. h.count[d] = 0 => d # q
    BY <2>2
  <2>4. h.count[d] = 0 /\ d # c => g.count[d] = 0
    BY <1>2, <1>9, <2>3
  <2> QED  BY <1>2, <1>3, <2>1, <2>4
<1> QED  BY <1>1, <1>3, <1>9, <1>10, <1>11

\* The turns of deleteValue.
Turn(r) ==
  LET c == r.next
      q == r.to.held[c]["p"]
      g == Uncount(Free(r.to, c), q)
  IN IF c = Nil THEN r
     ELSE [to |-> g, next |-> IF q # Nil /\ Allocated(g, q) /\ g.count[q] = 0 THEN q ELSE Nil]

TurnType == [to : HeapType, next : Cell \union {Nil}]

LEMMA TurnIs ==
  ASSUME NEW r \in TurnType
  PROVE  Turn(r) \in TurnType /\ (r.to.bad => Turn(r).to.bad)
<1> DEFINE c == r.next
           h == r.to
           q == h.held[c]["p"]
           g == Uncount(Free(h, c), q)
<1>1. CASE c = Nil
  BY <1>1 DEF Turn
<1>2. CASE c # Nil
  <2>1. h \in HeapType /\ c \in Cell /\ q \in Cell \union {Nil}
    BY <1>2 DEF TurnType, HeapType, Slots
  <2>2. Free(h, c) \in HeapType /\ Free(h, c).bad = h.bad
    BY <2>1, FreeIs
  <2>3. g \in HeapType /\ (h.bad => g.bad)
    BY <2>1, <2>2, UncountIs DEF Recounted
  <2>4. Turn(r) = [to |-> g, next |-> IF q # Nil /\ Allocated(g, q) /\ g.count[q] = 0 THEN q ELSE Nil]
    BY <1>2 DEF Turn
  <2> HIDE DEF g, q
  <2> QED  BY <2>1, <2>3, <2>4 DEF TurnType
<1> QED  BY <1>1, <1>2

LEMMA DeleteTurns ==
  ASSUME NEW h \in HeapType, NEW v \in Cell \union {Nil}
  PROVE  \E f \in [0..MaxCells -> TurnType] :
           /\ f[0] = [to |-> h, next |-> v]
           /\ \A k \in 1..MaxCells : f[k] = Turn(f[k - 1])
           /\ Delete(h, v) = f[MaxCells].to
<1> DEFINE N == MaxCells
           a == [to |-> h, next |-> v]
           g == [k \in 1..N |-> [r \in TurnType |-> Turn(r)]]
           Turns(down) == [k \in 0..N |-> IF k = 0 THEN a ELSE Turn(down[k - 1])]
           down == CHOOSE down : down = Turns(down)
<1>1. N \in Nat /\ a \in TurnType
  BY BoundAssumption DEF TurnType
<1>2. g \in [1..N -> [TurnType -> TurnType]]
  BY TurnIs
<1>3. PICK f \in [0..N -> TurnType] : Follows(f, N, a, g)
  <2> HIDE DEF g, a, N
  <2> QED  BY <1>1, <1>2, RecursiveFunction
<1>4. f[0] = a /\ \A k \in 1..N : f[k] = Turn(f[k - 1])
  <2>1. \A k \in 1..N : f[k - 1] \in TurnType
    BY <1>1
  <2> QED  BY <1>3, <2>1 DEF Follows
<1>5. f = Turns(f)
  BY <1>1, <1>4
<1>6. down = Turns(down)
  <2> HIDE DEF Turns
  <2> QED  BY <1>5
<1>7. \A k \in 0..N : down[k] = f[k]
  <2> DEFINE S == {k \in 0..N : down[k] = f[k]}
  <2>1. 0 \in S
    <3>1. 0 \in 0..N
      BY <1>1
    <3> HIDE DEF down, a
    <3>2. down[0] = a
      BY <1>6, <3>1
    <3> QED  BY <1>4, <3>1, <3>2
  <2>2. ASSUME NEW k \in 0..(N - 1), k \in S PROVE k + 1 \in S
    <3>1. k + 1 \in 0..N /\ k + 1 # 0 /\ (k + 1) - 1 = k /\ k + 1 \in 1..N
      BY <1>1
    <3>2. down[k + 1] = Turn(down[k])
      BY <1>6, <3>1
    <3>3. f[k + 1] = Turn(f[k])
      BY <1>4, <3>1
    <3> QED  BY <2>2, <3>1, <3>2, <3>3
  <2> HIDE DEF S, N, down
  <2>3. \A k \in 0..N : k \in S
    BY <1>1, <2>1, <2>2, SetInduction
  <2> QED  BY <2>3 DEF S
<1>8. Delete(h, v) = down[N].to
  BY Zenon DEF Delete, Turn
<1>9. Delete(h, v) = f[N].to
  <2> HIDE DEF down
  <2> QED  BY <1>1, <1>7, <1>8
<1> QED  BY <1>4, <1>9

\* Up to a turn of deleteValue: either freed memory was used, or a slot that is not in
\* D was given back, or the counts are right, and what goes next is not counted.
TurnOK(h, D, X, v, r) ==
  ~r.to.bad /\ Keeps(r.to, D) =>
    /\ Well(r.to, D, X) /\ Later(h, r.to, {v})
    /\ r.next # Nil => /\ r.to.kind[r.next] \in Valued /\ r.to.count[r.next] = 0
                       /\ r.next = v \/ h.count[r.next] # 0

LEMMA TurnStep ==
  ASSUME NEW h, NEW D, NEW X, NEW v \in Cell, h.kind[v] \in Valued, NEW r \in TurnType,
         TurnOK(h, D, X, v, r)
  PROVE  TurnOK(h, D, X, v, Turn(r))
<1> DEFINE c == r.next
           i == r.to
           q == i.held[c]["p"]
           g == Uncount(Free(i, c), q)
<1>1. CASE c = Nil
  BY <1>1 DEF Turn
<1>2. CASE c # Nil
  <2> DEFINE n == IF q # Nil /\ Allocated(g, q) /\ g.count[q] = 0 THEN q ELSE Nil
  <2>1. Turn(r) = [to |-> g, next |-> n] /\ c \in Cell /\ i \in HeapType /\ q \in Cell \union {Nil}
    BY <1>2 DEF Turn, TurnType, HeapType, Slots
  <2> SUFFICES ASSUME ~g.bad, Keeps(g, D)
               PROVE  /\ Well(g, D, X) /\ Later(h, g, {v})
                      /\ n # Nil => /\ g.kind[n] \in Valued /\ g.count[n] = 0
                                    /\ n = v \/ h.count[n] # 0
    <3> HIDE DEF g, n
    <3> QED  BY <2>1 DEF TurnOK
  <2>2. ~i.bad /\ Keeps(i, D)
    <3>1. /\ Free(i, c) \in HeapType /\ Free(i, c).bad = i.bad
          /\ \A d \in Cell : Free(i, c).kind[d] = IF d = c THEN "freed" ELSE i.kind[d]
      BY <2>1, FreeIs
    <3>2. g.kind = Free(i, c).kind /\ (Free(i, c).bad => g.bad)
      <4> HIDE DEF q
      <4>1. Recounted(Free(i, c), Uncount(Free(i, c), q))
        BY <2>1, <3>1, UncountIs
      <4> QED  BY <4>1 DEF Recounted
    <3>3. \A d \in Cell : Allocated(g, d) => Allocated(i, d)
      BY <3>1, <3>2 DEF Allocated
    <3> QED  BY <3>1, <3>2, <3>3 DEF Keeps
  <2>3. /\ Well(i, D, X) /\ Later(h, i, {v}) /\ i.kind[c] \in Valued /\ i.count[c] = 0
        /\ c = v \/ h.count[c] # 0
    BY <1>2, <2>2 DEF TurnOK
  <2>4. Well(g, D, X) /\ Later(i, g, {c}) /\ (q # Nil => g.kind[q] \in Valued /\ i.count[q] > 0)
    BY <2>1, <2>3, DeleteOne
  <2>5. Later(h, g, {v})
    <3> HIDE DEF g
    <3> QED  BY <2>3, <2>4 DEF Later, Valued
  <2>6. n # Nil => n = v \/ h.count[n] # 0
    <3> SUFFICES ASSUME n # Nil, n # v, n = q PROVE h.count[n] # 0
      OBVIOUS
    <3>1. n \in Cell /\ n # v /\ i.count[n] > 0
      <4> HIDE DEF g, q
      <4> QED  BY <2>1, <2>4
    <3> HIDE DEF n, g, q
    <3>2. h.count[n] = 0 => i.count[n] = 0
      BY <2>3, <3>1 DEF Later
    <3> QED  BY <3>1, <3>2
  <2> QED  BY <2>4, <2>5, <2>6
<1> QED  BY <1>1, <1>2

\* deleteValue of a value that nothing counts.
LEMMA DeleteWell ==
  ASSUME NEW h, NEW D, NEW X, Well(h, D, X), NEW v \in Cell, h.kind[v] \in Valued, h.count[v] = 0,
         ~Delete(h, v).bad, Keeps(Delete(h, v), D)
  PROVE  Well(Delete(h, v), D, X) /\ Later(h, Delete(h, v), {v})
<1>1. PICK f \in [0..MaxCells -> TurnType] :
        /\ f[0] = [to |-> h, next |-> v]
        /\ \A k \in 1..MaxCells : f[k] = Turn(f[k - 1])
        /\ Delete(h, v) = f[MaxCells].to
  BY DeleteTurns DEF Well
<1> DEFINE S == {k \in 0..MaxCells : TurnOK(h, D, X, v, f[k])}
<1>2. MaxCells \in Nat
  BY BoundAssumption
<1>3. 0 \in S
  <2>1. Later(h, h, {v})
    BY DEF Later
  <2>2. f[0].to = h /\ f[0].next = v
    BY <1>1
  <2>3. TurnOK(h, D, X, v, f[0])
    BY <2>1, <2>2 DEF TurnOK
  <2> QED  BY <1>2, <2>3
<1>4. ASSUME NEW k \in 0..(MaxCells - 1), k \in S PROVE k + 1 \in S
  <2>1. k + 1 \in 1..MaxCells /\ k + 1 \in 0..MaxCells /\ (k + 1) - 1 = k /\ k \in 0..MaxCells
    BY <1>2
  <2>2. f[k + 1] = Turn(f[k]) /\ f[k] \in TurnType
    BY <1>1, <2>1
  <2>3. TurnOK(h, D, X, v, f[k + 1])
    BY <1>4, <2>2, TurnStep
  <2> QED  BY <2>1, <2>3
<1>5. MaxCells \in S
  <2> HIDE DEF S
  <2>1. \A k \in 0..MaxCells : k \in S
    BY <1>2, <1>3, <1>4, SetInduction
  <2> QED  BY <1>2, <2>1
<1> QED  BY <1>1, <1>5 DEF TurnOK

\* Whatever happens, the result is a heap, and freed memory once used stays used.
LEMMA DeleteIs ==
  ASSUME NEW h \in HeapType, NEW v \in Cell \union {Nil}
  PROVE  Delete(h, v) \in HeapType /\ (h.bad => Delete(h, v).bad)
<1>1. PICK f \in [0..MaxCells -> TurnType] :
        /\ f[0] = [to |-> h, next |-> v]
        /\ \A k \in 1..MaxCells : f[k] = Turn(f[k - 1])
        /\ Delete(h, v) = f[MaxCells].to
  BY DeleteTurns
<1> DEFINE S == {k \in 0..MaxCells : h.bad => f[k].to.bad}
<1>2. MaxCells \in Nat
  BY BoundAssumption
<1>3. 0 \in S
  BY <1>1, <1>2
<1>4. ASSUME NEW k \in 0..(MaxCells - 1), k \in S PROVE k + 1 \in S
  <2>1. k + 1 \in 1..MaxCells /\ k + 1 \in 0..MaxCells /\ (k + 1) - 1 = k /\ k \in 0..MaxCells
    BY <1>2
  <2>2. f[k + 1] = Turn(f[k]) /\ f[k] \in TurnType
    BY <1>1, <2>1
  <2>3. f[k].to.bad => f[k + 1].to.bad
    BY <2>2, TurnIs
  <2> QED  BY <1>4, <2>1, <2>3
<1>5. MaxCells \in S
  <2> HIDE DEF S
  <2>1. \A k \in 0..MaxCells : k \in S
    BY <1>2, <1>3, <1>4, SetInduction
  <2> QED  BY <1>2, <2>1
<1>6. f[MaxCells].to \in HeapType
  BY <1>1, <1>2 DEF TurnType
<1> QED  BY <1>1, <1>5, <1>6

LEMMA PlusNil == ASSUME NEW X PROVE Plus(X, Nil) = X
BY DEF Plus

\* decrRefCnt: the reference that went is accounted for elsewhere.
LEMMA DecrIs ==
  ASSUME NEW h \in HeapType, NEW v \in Cell \union {Nil}
  PROVE  Decr(h, v) \in HeapType /\ (h.bad => Decr(h, v).bad)
<1> DEFINE g == Uncount(h, v)
<1>1. g \in HeapType /\ (h.bad => g.bad)
  BY UncountIs DEF Recounted
<1>2. Decr(h, v) \in {Delete(g, v), g}
  BY DEF Decr
<1> HIDE DEF g
<1>3. Delete(g, v) \in HeapType /\ (g.bad => Delete(g, v).bad)
  BY <1>1, DeleteIs
<1> QED  BY <1>1, <1>2, <1>3

LEMMA DecrWell ==
  ASSUME NEW h, NEW D, NEW X \in [Cell -> Nat], NEW v \in Cell \union {Nil}, Well(h, D, Plus(X, v)),
         ~Decr(h, v).bad, Keeps(Decr(h, v), D)
  PROVE  Well(Decr(h, v), D, X) /\ Later(h, Decr(h, v), {})
<1> DEFINE g == Uncount(h, v)
<1>1. CASE v = Nil
  <2>1. Decr(h, v) = h /\ Plus(X, v) = X
    BY <1>1, PlusNil DEF Decr, Uncount
  <2> QED  BY <2>1 DEF Later
<1>2. CASE v # Nil
  <2>0. h \in HeapType
    BY DEF Well
  <2>1. /\ Well(g, D, X) /\ h.kind[v] \in Valued /\ h \in HeapType
        /\ \A c \in Cell : g.count[c] = IF c = v THEN h.count[c] - 1 ELSE h.count[c]
    BY <1>2, <2>0, UncountWell
  <2>2. g.kind = h.kind /\ g.held = h.held
    BY <2>1, UncountIs DEF Recounted
  <2>3. h.count[v] # 0 /\ v \in Cell
    <3>1. v \in Cell /\ X[v] \in Nat /\ Plus(X, v)[v] = X[v] + 1
      BY <1>2, PlusIs
    <3>2. Plus(X, v)[v] > 0
      BY <3>1
    <3> QED  BY <3>1, <3>2, Referred
  <2> HIDE DEF g
  <2>4. CASE Decr(h, v) = g
    <3>1. Later(h, g, {})
      BY <2>1, <2>2, <2>3 DEF Later
    <3> QED  BY <2>1, <2>4, <3>1
  <2>5. CASE Decr(h, v) = Delete(g, v) /\ g.count[v] = 0
    <3>1. Well(Delete(g, v), D, X) /\ Later(g, Delete(g, v), {v})
      BY <2>1, <2>2, <2>3, <2>5, DeleteWell
    <3>2. Later(h, Delete(g, v), {})
      <4> SUFFICES ASSUME NEW c \in Cell
                   PROVE  /\ \/ Delete(g, v).kind[c] = h.kind[c]
                             \/ h.kind[c] \in Valued /\ Delete(g, v).kind[c] = "freed"
                          /\ Delete(g, v).kind[c] = h.kind[c] => Delete(g, v).held[c] = h.held[c]
                          /\ h.count[c] = 0 => Delete(g, v).kind[c] = h.kind[c] /\ Delete(g, v).count[c] = 0
        BY DEF Later
      <4>1. h.count[c] = 0 => c # v /\ g.count[c] = 0
        BY <2>1, <2>3
      <4> QED  BY <2>2, <3>1, <4>1 DEF Later
    <3> QED  BY <2>5, <3>1, <3>2
  <2> QED  BY <2>4, <2>5 DEF Decr, g
<1> QED  BY <1>1, <1>2

LEMMA Everything == ASSUME NEW h PROVE Keeps(h, All)
BY DEF Keeps, All, Slots

\* abandonValue.
LEMMA AbandonIs ==
  ASSUME NEW h \in HeapType, NEW v \in Cell \union {Nil}
  PROVE  Abandon(h, v) \in HeapType /\ (h.bad => Abandon(h, v).bad)
<1>1. Abandon(h, v) \in {h, Bad(h), Delete(h, v)}
  BY DEF Abandon
<1>2. Bad(h) \in HeapType /\ Bad(h).bad
  BY DEF Bad, HeapType
<1> QED  BY <1>1, <1>2, DeleteIs

LEMMA AbandonWell ==
  ASSUME NEW h, NEW X, Well(h, All, X), NEW v \in Cell \union {Nil},
         v # Nil => h.kind[v] \in Valued \union {"freed"}, ~Abandon(h, v).bad
  PROVE  Well(Abandon(h, v), All, X) /\ Later(h, Abandon(h, v), {v})
<1>1. CASE v = Nil \/ (h.count[v] # 0 /\ Allocated(h, v))
  <2>1. Abandon(h, v) = h
    BY <1>1 DEF Abandon
  <2> QED  BY <2>1 DEF Later
<1>2. CASE v # Nil /\ ~Allocated(h, v)
  <2>1. Abandon(h, v) = Bad(h)
    BY <1>2 DEF Abandon
  <2>2. Bad(h).bad
    BY DEF Bad, Well, HeapType
  <2> QED  BY <2>1, <2>2
<1>3. CASE v # Nil /\ Allocated(h, v) /\ h.count[v] = 0
  <2>1. Abandon(h, v) = Delete(h, v) /\ v \in Cell /\ h.kind[v] \in Valued
    BY <1>3 DEF Abandon, Allocated
  <2>2. Keeps(Delete(h, v), All) /\ ~Delete(h, v).bad
    BY <2>1, Everything
  <2>3. Well(Delete(h, v), All, X) /\ Later(h, Delete(h, v), {v})
    BY <1>3, <2>1, <2>2, DeleteWell
  <2> QED  BY <2>1, <2>3
<1> QED  BY <1>1, <1>2, <1>3

-----------------------------------------------------------------------------
(* Storing.                                                                *)

\* Where a slot is.
Slot(h, c, s) ==
  \/ s = "p" /\ h.kind[c] \in {"object", "args"}
  \/ s # "p" /\ h.kind[c] = "frame"

\* replaceSlot.
LEMMA ReplaceSlotIs ==
  ASSUME NEW h \in HeapType, NEW c \in Cell, NEW s \in Slots, NEW v \in Cell \union {Nil}
  PROVE  /\ ReplaceSlot(h, c, s, v) \in HeapType
         /\ h.bad => ReplaceSlot(h, c, s, v).bad
<1> DEFINE g == Incr(h, v)
<1>1. g \in HeapType /\ (h.bad => g.bad)
  BY IncrIs DEF Recounted
<1>2. ReplaceSlot(h, c, s, v) = Held(g, c, s, v)
  BY DEF ReplaceSlot, Held
<1> HIDE DEF g
<1> QED  BY <1>1, <1>2, HeldIs

LEMMA ReplaceSlotWell ==
  ASSUME NEW h, NEW X, Well(h, All, X), NEW c \in Cell, NEW s \in Slots, NEW v \in Cell \union {Nil},
         v # Nil => h.kind[v] \in Valued \union {"freed"}, Slot(h, c, s), h.held[c][s] = Nil,
         NEW g, g = ReplaceSlot(h, c, s, v), ~g.bad
  PROVE  /\ Well(g, All, X) /\ g.kind = h.kind
         /\ \A d \in Cell : g.count[d] = IF d = v THEN h.count[d] + 1 ELSE h.count[d]
         /\ \A d \in Cell, r \in Slots : g.held[d][r] = IF d = c /\ r = s THEN v ELSE h.held[d][r]
         /\ \A d \in Cell : d # c => g.held[d] = h.held[d]
<1> DEFINE i == Incr(h, v)
           p == <<c, s>>
<1>1. i \in HeapType /\ i.kind = h.kind /\ i.held = h.held
  BY IncrIs DEF Well, Recounted
<1>2. g = Held(i, c, s, v)
  BY DEF ReplaceSlot, Held
<1>3. /\ g \in HeapType /\ g.kind = i.kind /\ g.count = i.count /\ g.bad = i.bad
      /\ \A d \in Cell, r \in Slots : g.held[d][r] = IF d = c /\ r = s THEN v ELSE i.held[d][r]
      /\ \A d \in Cell : d # c => g.held[d] = i.held[d]
  <2> HIDE DEF i
  <2>1. i \in HeapType
    BY <1>1
  <2> DEFINE w == Held(i, c, s, v)
  <2>2. /\ w \in HeapType /\ w.kind = i.kind /\ w.count = i.count /\ w.bad = i.bad
        /\ \A d \in Cell, r \in Slots : w.held[d][r] = IF d = c /\ r = s THEN v ELSE i.held[d][r]
        /\ \A d \in Cell : d # c => w.held[d] = i.held[d]
    BY <2>1, HeldIs, SMTT(30)
  <2>3. g = w
    BY <1>2
  <2> HIDE DEF w
  <2> QED  BY <2>2, <2>3
<1>4. \A d \in Cell : i.count[d] = IF d = v THEN h.count[d] + 1 ELSE h.count[d]
  BY <1>3, IncrIs DEF Well
<1>5. Well(i, All, Plus(X, v))
  BY <1>3, IncrWell
<1>6. p \in All /\ i.held[p[1]][p[2]] = Nil
  BY <1>1 DEF All
<1>7. Well(i, All \ {p}, Plus(X, v))
  <2>1. Well(i, All \ {p}, Plus(Plus(X, v), Nil))
    <3> HIDE DEF i, p
    <3> QED  BY <1>5, <1>6, Mask
  <2> QED  BY <2>1, PlusNil
<1>8. X \in [Cell -> Nat] /\ p \notin All \ {p} /\ (All \ {p}) \union {p} = All
  BY <1>6 DEF Well
<1>9. \/ s = "p" /\ i.kind[c] \in {"object", "args"}
      \/ s # "p" /\ i.kind[c] = "frame"
  BY <1>1 DEF Slot
<1>10. Well(g, All, X)
  <2> HIDE DEF i
  <2>1. Well(Held(i, c, s, v), (All \ {p}) \union {p}, X)
    BY <1>7, <1>8, <1>9, Store
  <2> QED  BY <2>1, <1>2, <1>8
<1> QED  BY <1>1, <1>3, <1>4, <1>10

\* replaceValue.
LEMMA ReplaceValueIs ==
  ASSUME NEW h \in HeapType, NEW c \in Cell, NEW s \in Slots, NEW v \in Cell \union {Nil}
  PROVE  /\ ReplaceValue(h, c, s, v) \in HeapType
         /\ h.bad => ReplaceValue(h, c, s, v).bad
         /\ ~ReplaceValue(h, c, s, v).bad =>
              LET g == Decr(Incr(h, v), h.held[c][s])
              IN  Allocated(h, c) /\ Allocated(g, c) /\ ReplaceValue(h, c, s, v) = Held(g, c, s, v)
<1> DEFINE i == Incr(h, v)
           o == h.held[c][s]
           g == Decr(i, o)
<1>1. o \in Cell \union {Nil} /\ i \in HeapType /\ (h.bad => i.bad)
  BY IncrIs DEF HeapType, Recounted
<1>2. g \in HeapType /\ (h.bad => g.bad)
  <2> HIDE DEF i, o
  <2> QED  BY <1>1, DecrIs
<1>3. \/ ReplaceValue(h, c, s, v) = Bad(h)
      \/ Allocated(h, c) /\ ReplaceValue(h, c, s, v) = Bad(g)
      \/ Allocated(h, c) /\ Allocated(g, c) /\ ReplaceValue(h, c, s, v) = Held(g, c, s, v)
  BY DEF ReplaceValue, Held
<1>4. Bad(h) \in HeapType /\ Bad(h).bad
  BY DEF Bad, HeapType
<1> HIDE DEF g
<1>5. Bad(g) \in HeapType /\ Bad(g).bad
  BY <1>2 DEF Bad, HeapType
<1>6. Held(g, c, s, v) \in HeapType /\ (g.bad => Held(g, c, s, v).bad)
  BY <1>2, HeldIs
<1> QED  BY <1>2, <1>3, <1>4, <1>5, <1>6 DEF g

LEMMA ReplaceValueWell ==
  ASSUME NEW h, NEW X, Well(h, All, X), NEW c \in Cell, NEW s \in Slots, NEW v \in Cell \union {Nil},
         v # Nil => h.kind[v] \in Valued \union {"freed"},
         Slot(h, c, s) \/ h.kind[c] = "freed",
         NEW g, g = ReplaceValue(h, c, s, v), ~g.bad
  PROVE  /\ Well(g, All, X) /\ h.kind[c] # "freed"
         /\ \A d \in Cell :
              /\ g.kind[d] = h.kind[d] \/ (h.kind[d] \in Valued /\ g.kind[d] = "freed")
              /\ g.kind[d] = h.kind[d] => \A r \in Slots : <<d, r>> # <<c, s>> => g.held[d][r] = h.held[d][r]
              /\ g.kind[d] = h.kind[d] /\ d # c => g.held[d] = h.held[d]
              /\ h.count[d] = 0 /\ d # v => g.kind[d] = h.kind[d] /\ g.count[d] = 0
<1> DEFINE i == Incr(h, v)
           o == h.held[c][s]
           j == Decr(i, o)
           p == <<c, s>>
<1>0. h \in HeapType
  BY DEF Well
<1>1. Allocated(h, c) /\ Allocated(j, c) /\ g = Held(j, c, s, v)
  BY <1>0, ReplaceValueIs
<1>2. i \in HeapType /\ i.kind = h.kind /\ i.held = h.held
  BY <1>0, IncrIs DEF Recounted
<1>3. o \in Cell \union {Nil}
  BY <1>0 DEF HeapType
<1>4. j \in HeapType /\ (i.bad => j.bad)
  <2> HIDE DEF i, o
  <2> QED  BY <1>2, <1>3, DecrIs
<1> HIDE DEF j
<1>5. /\ g \in HeapType /\ g.kind = j.kind /\ g.count = j.count /\ g.bad = j.bad
      /\ \A d \in Cell, r \in Slots : g.held[d][r] = IF d = c /\ r = s THEN v ELSE j.held[d][r]
      /\ \A d \in Cell : d # c => g.held[d] = j.held[d]
  <2> DEFINE w == Held(j, c, s, v)
  <2>1. /\ w \in HeapType /\ w.kind = j.kind /\ w.count = j.count /\ w.bad = j.bad
        /\ \A d \in Cell, r \in Slots : w.held[d][r] = IF d = c /\ r = s THEN v ELSE j.held[d][r]
        /\ \A d \in Cell : d # c => w.held[d] = j.held[d]
    BY <1>4, HeldIs, SMTT(30)
  <2>2. g = w
    BY <1>1
  <2> HIDE DEF w
  <2> QED  BY <2>1, <2>2
<1>6. \A d \in Cell : i.count[d] = IF d = v THEN h.count[d] + 1 ELSE h.count[d]
  BY <1>0, <1>4, <1>5, IncrIs
<1>7. Well(i, All, Plus(X, v)) /\ (v # Nil => h.kind[v] \in Valued)
  BY <1>4, <1>5, IncrWell
<1>8. p \in All /\ i.held[p[1]][p[2]] = o
  BY <1>2 DEF All
<1>9. Well(i, All \ {p}, Plus(Plus(X, v), o))
  <2> HIDE DEF i, p, o
  <2> QED  BY <1>7, <1>8, Mask
<1>10. Keeps(j, All \ {p})
  <2> SUFFICES ASSUME NEW d \in Cell, <<d, "p">> \notin All \ {p} PROVE Allocated(j, d)
    BY DEF Keeps
  <2>1. <<d, "p">> \in All
    BY DEF All, Slots
  <2> QED  BY <1>1, <2>1
<1>11. X \in [Cell -> Nat] /\ Plus(X, v) \in [Cell -> Nat]
  BY PlusIs DEF Well
<1>12. Well(j, All \ {p}, Plus(X, v)) /\ Later(i, j, {})
  <2>1. ~Decr(i, o).bad /\ Keeps(Decr(i, o), All \ {p}) /\ j = Decr(i, o)
    BY <1>5, <1>10 DEF j
  <2> HIDE DEF i, o, p
  <2> QED  BY <1>3, <1>9, <1>11, <2>1, DecrWell
<1>13. p \notin All \ {p} /\ (All \ {p}) \union {p} = All
  BY <1>8
<1>14. /\ h.kind[c] # "freed" /\ j.kind[c] = h.kind[c]
       /\ \/ s = "p" /\ j.kind[c] \in {"object", "args"}
          \/ s # "p" /\ j.kind[c] = "frame"
  BY <1>1, <1>2, <1>12 DEF Slot, Later, Allocated
<1>15. Well(g, All, X)
  <2>1. Well(Held(j, c, s, v), (All \ {p}) \union {p}, X)
    BY <1>11, <1>12, <1>13, <1>14, Store
  <2> QED  BY <2>1, <1>1, <1>13
<1>16. ASSUME NEW d \in Cell
       PROVE  /\ g.kind[d] = h.kind[d] \/ (h.kind[d] \in Valued /\ g.kind[d] = "freed")
              /\ g.kind[d] = h.kind[d] => j.held[d] = h.held[d]
              /\ h.count[d] = 0 /\ d # v => g.kind[d] = h.kind[d] /\ g.count[d] = 0
  <2> HIDE DEF i
  <2> QED  BY <1>2, <1>5, <1>6, <1>12 DEF Later
<1> QED  BY <1>5, <1>14, <1>15, <1>16

\* A heap of which v was written to the empty slot s of c.
Written(h, g, X, c, s, v) ==
  /\ Well(g, All, X) /\ g.kind = h.kind
  /\ \A d \in Cell : g.count[d] = IF d = v THEN h.count[d] + 1 ELSE h.count[d]
  /\ \A d \in Cell, r \in Slots : g.held[d][r] = IF d = c /\ r = s THEN v ELSE h.held[d][r]
  /\ \A d \in Cell : d # c => g.held[d] = h.held[d]

LEMMA SlotWritten ==
  ASSUME NEW h, NEW X, Well(h, All, X), NEW c \in Cell, NEW s \in Slots, NEW v \in Cell \union {Nil},
         v # Nil => h.kind[v] \in Valued \union {"freed"}, Slot(h, c, s), h.held[c][s] = Nil,
         NEW g, g = ReplaceSlot(h, c, s, v), ~g.bad
  PROVE  Written(h, g, X, c, s, v)
BY ReplaceSlotWell DEF Written

\* A heap of which slot s of c, if c is live, has v instead of what it held.
Rewritten(h, g, X, c, s, v) ==
  /\ Well(g, All, X) /\ h.kind[c] # "freed"
  /\ \A d \in Cell :
       /\ g.kind[d] = h.kind[d] \/ (h.kind[d] \in Valued /\ g.kind[d] = "freed")
       /\ g.kind[d] = h.kind[d] => \A r \in Slots : (d # c \/ r # s) => g.held[d][r] = h.held[d][r]
       /\ g.kind[d] = h.kind[d] /\ d # c => g.held[d] = h.held[d]
       /\ h.count[d] = 0 /\ d # v => g.kind[d] = h.kind[d] /\ g.count[d] = 0

LEMMA SlotRewritten ==
  ASSUME NEW h, NEW X, Well(h, All, X), NEW c \in Cell, NEW s \in Slots, NEW v \in Cell \union {Nil},
         v # Nil => h.kind[v] \in Valued \union {"freed"},
         Slot(h, c, s) \/ h.kind[c] = "freed",
         NEW g, g = ReplaceValue(h, c, s, v), ~g.bad
  PROVE  Rewritten(h, g, X, c, s, v)
BY ReplaceValueWell DEF Rewritten

-----------------------------------------------------------------------------
(* Cells of memory.                                                        *)

\* A new cell.
LEMMA FreshIs ==
  ASSUME NEW h \in HeapType, {c \in Cell : h.kind[c] = "unused"} # {}
  PROVE  Fresh(h) \in Cell /\ h.kind[Fresh(h)] = "unused"
<1>1. {c \in Cell : h.kind[c] = "unused"} \in SUBSET Nat
  BY BoundAssumption DEF Cell
<1>2. Fresh(h) \in {c \in Cell : h.kind[c] = "unused"}
  BY <1>1, MinLeast DEF Fresh
<1> QED  BY <1>2

LEMMA AllocWell ==
  ASSUME NEW h, NEW X, Well(h, All, X), NEW k \in Valued \union {"frame"},
         {c \in Cell : h.kind[c] = "unused"} # {}
  PROVE  /\ Fresh(h) \in Cell /\ h.kind[Fresh(h)] = "unused"
         /\ Alloc(h, k) \in HeapType /\ Alloc(h, k).bad = h.bad
         /\ Well(Alloc(h, k), All, X)
         /\ Alloc(h, k).count = h.count /\ Alloc(h, k).held = h.held
         /\ \A c \in Cell : Alloc(h, k).kind[c] = IF c = Fresh(h) THEN k ELSE h.kind[c]
         /\ h.count[Fresh(h)] = 0 /\ h.held[Fresh(h)] = Nothing
<1> DEFINE f == Fresh(h)
           n == [h.kind EXCEPT ![f] = k]
           g == [h EXCEPT !.kind = n]
<1>1. f \in Cell /\ h.kind[f] = "unused" /\ h \in HeapType
  BY FreshIs DEF Well
<1>2. k \in Kinds
  BY DEF Valued, Kinds
<1>3. Alloc(h, k) = g
  BY <1>1 DEF Alloc, HeapType
<1> HIDE DEF f
<1>4. n \in [Cell -> Kinds] /\ \A c \in Cell : n[c] = IF c = f THEN k ELSE h.kind[c]
  BY <1>1, <1>2 DEF HeapType
<1> HIDE DEF n
<1>5. /\ g \in HeapType /\ g.kind = n /\ g.count = h.count /\ g.held = h.held /\ g.bad = h.bad
  BY <1>1, <1>4 DEF HeapType
<1> HIDE DEF g
<1>6. h.count[f] = 0
  BY <1>1 DEF Well, Zero, Valued
<1>7. \A s \in Slots : h.held[f][s] = Nil
  BY <1>1 DEF Well, Places
<1>8. h.held[f] = Nothing
  BY <1>1, <1>7 DEF HeapType, Nothing
<1>9. Places(g)
  <2> SUFFICES ASSUME NEW c \in Cell, NEW s \in Slots, g.held[c][s] # Nil
               PROVE  (s = "p" /\ g.kind[c] \in {"object", "args"}) \/ (s # "p" /\ g.kind[c] = "frame")
    BY DEF Places
  <2>1. c # f
    BY <1>5, <1>7
  <2> QED  BY <1>4, <1>5, <2>1 DEF Well, Places
<1>10. Zero(g)
  BY <1>4, <1>5, <1>6 DEF Well, Zero
<1>11. Exact(g, All, X)
  BY <1>5, SameRefs DEF Well, Exact
<1>12. Well(g, All, X)
  BY <1>5, <1>9, <1>10, <1>11 DEF Well
<1> QED  BY <1>1, <1>3, <1>4, <1>5, <1>6, <1>8, <1>12 DEF f

-----------------------------------------------------------------------------
(* Abandoning literals and scopes.                                         *)

LEMMA ExtraIs ==
  ASSUME NEW L
  PROVE  Extra(L) \in [Cell -> Nat] /\ \A c \in Cell : Extra(L)[c] = IF c \in L THEN 1 ELSE 0
BY DEF Extra

LEMMA ExtraPlus ==
  ASSUME NEW L, NEW v \in Cell, v \notin L
  PROVE  Plus(Extra(L), v) = Extra(L \union {v})
<1> DEFINE a == Plus(Extra(L), v)
           b == Extra(L \union {v})
<1>1. a \in [Cell -> Nat] /\ \A c \in Cell : a[c] = IF c = v THEN Extra(L)[c] + 1 ELSE Extra(L)[c]
  BY ExtraIs, PlusIs
<1>2. b \in [Cell -> Nat] /\ \A c \in Cell : b[c] = IF c \in L \union {v} THEN 1 ELSE 0
  BY ExtraIs
<1>3. \A c \in Cell : Extra(L)[c] = IF c \in L THEN 1 ELSE 0
  BY ExtraIs
<1> HIDE DEF a, b
<1>4. \A c \in Cell : a[c] = b[c]
  BY <1>1, <1>2, <1>3
<1>5. a = b
  BY <1>1, <1>2, <1>4
<1> QED  BY <1>5 DEF a, b

LEMMA DropTurns ==
  ASSUME NEW h \in HeapType, NEW lits \in Seq(Cell)
  PROVE  \E f \in [0..Len(lits) -> HeapType] :
           /\ f[0] = h
           /\ \A k \in 1..Len(lits) : f[k] = Decr(f[k - 1], lits[Len(lits) - k + 1])
           /\ DropLiterals(h, lits) = f[Len(lits)]
<1> DEFINE N == Len(lits)
           g == [k \in 1..N |-> [r \in HeapType |-> Decr(r, lits[N - k + 1])]]
           Turns(drop) == [k \in 0..N |-> IF k = 0 THEN h ELSE Decr(drop[k - 1], lits[N - k + 1])]
           drop == CHOOSE drop : drop = Turns(drop)
<1>1. N \in Nat /\ \A k \in 1..N : lits[N - k + 1] \in Cell
  OBVIOUS
<1>2. g \in [1..N -> [HeapType -> HeapType]]
  BY <1>1, DecrIs
<1>3. PICK f \in [0..N -> HeapType] : Follows(f, N, h, g)
  <2> HIDE DEF g, N
  <2> QED  BY <1>1, <1>2, RecursiveFunction
<1>4. f[0] = h /\ \A k \in 1..N : f[k] = Decr(f[k - 1], lits[N - k + 1])
  <2>1. \A k \in 1..N : f[k - 1] \in HeapType
    BY <1>1
  <2> QED  BY <1>3, <2>1 DEF Follows
<1>5. f = Turns(f)
  BY <1>1, <1>4
<1>6. drop = Turns(drop)
  <2> HIDE DEF Turns
  <2> QED  BY <1>5
<1>7. \A k \in 0..N : drop[k] = f[k]
  <2> DEFINE S == {k \in 0..N : drop[k] = f[k]}
  <2>1. 0 \in S
    <3>1. 0 \in 0..N
      BY <1>1
    <3> HIDE DEF drop, N
    <3>2. drop[0] = h
      BY <1>6, <3>1
    <3> QED  BY <1>4, <3>1, <3>2
  <2>2. ASSUME NEW k \in 0..(N - 1), k \in S PROVE k + 1 \in S
    <3>1. k + 1 \in 0..N /\ k + 1 # 0 /\ (k + 1) - 1 = k /\ k + 1 \in 1..N
      BY <1>1
    <3> HIDE DEF drop, N
    <3>2. drop[k + 1] = Decr(drop[k], lits[N - (k + 1) + 1])
      BY <1>6, <3>1
    <3>3. f[k + 1] = Decr(f[k], lits[N - (k + 1) + 1])
      BY <1>4, <3>1
    <3> QED  BY <2>2, <3>1, <3>2, <3>3
  <2> HIDE DEF S, N, drop
  <2>3. \A k \in 0..N : k \in S
    BY <1>1, <2>1, <2>2, SetInduction
  <2> QED  BY <2>3 DEF S
<1>8. DropLiterals(h, lits) = drop[N]
  BY Zenon DEF DropLiterals
<1>9. DropLiterals(h, lits) = f[N]
  <2> HIDE DEF drop
  <2> QED  BY <1>1, <1>7, <1>8
<1> QED  BY <1>4, <1>9

LEMMA DropIs ==
  ASSUME NEW h \in HeapType, NEW lits \in Seq(Cell)
  PROVE  DropLiterals(h, lits) \in HeapType /\ (h.bad => DropLiterals(h, lits).bad)
<1> DEFINE N == Len(lits)
<1>1. PICK f \in [0..N -> HeapType] :
        /\ f[0] = h
        /\ \A k \in 1..N : f[k] = Decr(f[k - 1], lits[N - k + 1])
        /\ DropLiterals(h, lits) = f[N]
  BY DropTurns
<1> DEFINE S == {k \in 0..N : h.bad => f[k].bad}
<1>2. N \in Nat /\ \A k \in 1..N : lits[N - k + 1] \in Cell
  OBVIOUS
<1> HIDE DEF N
<1>3. 0 \in S
  BY <1>1, <1>2
<1>4. ASSUME NEW k \in 0..(N - 1), k \in S PROVE k + 1 \in S
  <2>1. k + 1 \in 1..N /\ k + 1 \in 0..N /\ (k + 1) - 1 = k /\ k \in 0..N
    BY <1>2
  <2>2. f[k + 1] = Decr(f[k], lits[N - (k + 1) + 1]) /\ f[k] \in HeapType /\ lits[N - (k + 1) + 1] \in Cell
    BY <1>1, <1>2, <2>1
  <2>3. f[k].bad => f[k + 1].bad
    BY <2>2, DecrIs
  <2> QED  BY <1>4, <2>1, <2>3
<1>5. N \in S
  <2> HIDE DEF S
  <2>1. \A k \in 0..N : k \in S
    BY <1>2, <1>3, <1>4, SetInduction
  <2> QED  BY <1>2, <2>1
<1>6. f[N] \in HeapType
  BY <1>1, <1>2
<1> QED  BY <1>1, <1>5, <1>6

\* abandonLiterals.
LEMMA DropWell ==
  ASSUME NEW h, NEW L, Well(h, All, Extra(L)), NEW lits \in Seq(Cell),
         \A i \in 1..Len(lits) : lits[i] \in L,
         \A i, j \in 1..Len(lits) : i # j => lits[i] # lits[j],
         ~DropLiterals(h, lits).bad
  PROVE  /\ Well(DropLiterals(h, lits), All, Extra(L \ {lits[i] : i \in 1..Len(lits)}))
         /\ Later(h, DropLiterals(h, lits), {})
<1> DEFINE N == Len(lits)
           Left(k) == L \ {lits[i] : i \in (N - k + 1)..N}
<1>0. N \in Nat /\ \A k \in 1..N : lits[N - k + 1] \in Cell
  OBVIOUS
<1>1. PICK f \in [0..N -> HeapType] :
        /\ f[0] = h
        /\ \A k \in 1..N : f[k] = Decr(f[k - 1], lits[N - k + 1])
        /\ DropLiterals(h, lits) = f[N]
  BY DropTurns DEF Well
<1> DEFINE P(k) == ~f[k].bad => Well(f[k], All, Extra(Left(k))) /\ Later(h, f[k], {})
           S == {k \in 0..N : P(k)}
<1>2. P(0)
  <2>1. Left(0) = L
    BY <1>0
  <2>2. Later(h, h, {})
    BY DEF Later
  <2> HIDE DEF Left
  <2> QED  BY <1>1, <2>1, <2>2
<1>3. ASSUME NEW k \in 0..(N - 1), P(k) PROVE P(k + 1)
  <2> DEFINE v == lits[N - k]
  <2>1. k + 1 \in 1..N /\ (k + 1) - 1 = k /\ k \in 0..N /\ N - (k + 1) + 1 = N - k /\ N - k \in 1..N
    BY <1>0
  <2>2. f[k + 1] = Decr(f[k], v) /\ f[k] \in HeapType /\ v \in Cell
    BY <1>0, <1>1, <2>1
  <2>3. v \in Left(k) /\ v \notin Left(k + 1) /\ Left(k) = Left(k + 1) \union {v}
    <3>1. \A i \in (N - k + 1)..N : i \in 1..N /\ i # N - k
      <4>1. N \in Nat /\ k \in Nat /\ k + 1 <= N
        BY <1>0
      <4> HIDE DEF N
      <4> QED  BY <4>1
    <3>2. v \in L /\ v \notin {lits[i] : i \in (N - k + 1)..N}
      BY <2>1, <3>1
    <3>3. (N - (k + 1) + 1)..N = (N - k + 1)..N \union {N - k}
      BY <2>1
    <3> QED  BY <3>2, <3>3
  <2> HIDE DEF v, Left
  <2>4. Plus(Extra(Left(k + 1)), v) = Extra(Left(k))
    BY <2>2, <2>3, ExtraPlus
  <2> SUFFICES ASSUME ~f[k + 1].bad PROVE Well(f[k + 1], All, Extra(Left(k + 1))) /\ Later(h, f[k + 1], {})
    OBVIOUS
  <2>5. ~f[k].bad
    BY <2>2, DecrIs
  <2>6. Well(f[k], All, Plus(Extra(Left(k + 1)), v)) /\ Later(h, f[k], {})
    BY <1>3, <2>4, <2>5
  <2>7. Keeps(f[k + 1], All) /\ Extra(Left(k + 1)) \in [Cell -> Nat]
    BY Everything, ExtraIs
  <2>8. Well(f[k + 1], All, Extra(Left(k + 1))) /\ Later(f[k], f[k + 1], {})
    <3>1. ~Decr(f[k], v).bad /\ Keeps(Decr(f[k], v), All)
      BY <2>2, <2>7
    <3>2. Well(Decr(f[k], v), All, Extra(Left(k + 1))) /\ Later(f[k], Decr(f[k], v), {})
      BY <2>2, <2>6, <2>7, <3>1, DecrWell
    <3> QED  BY <2>2, <3>2
  <2>9. Later(h, f[k + 1], {} \union {})
    BY <2>6, <2>8, LaterAgain
  <2> QED  BY <2>8, <2>9
<1>4. P(N)
  <2> HIDE DEF P, N
  <2>1. 0 \in S /\ \A k \in 0..(N - 1) : k \in S => k + 1 \in S
    BY <1>0, <1>2, <1>3
  <2> HIDE DEF S
  <2>2. \A k \in 0..N : k \in S
    BY <1>0, <2>1, SetInduction
  <2> QED  BY <1>0, <2>2 DEF S
<1>5. Left(N) = L \ {lits[i] : i \in 1..N}
  BY <1>0
<1> HIDE DEF Left
<1> QED  BY <1>1, <1>4, <1>5

\* abandonScope: what the return value counts is in no slot then.
LEMMA ScopeIs ==
  ASSUME NEW h \in HeapType, NEW f \in Cell
  PROVE  AbandonScope(h, f) \in HeapType /\ (h.bad => AbandonScope(h, f).bad)
<1>1. \A s \in Slots : h.held[f][s] \in Cell \union {Nil}
  BY DEF HeapType
<1>2. {"x", "y", "args"} \subseteq Slots
  BY DEF Slots
<1> DEFINE a == Decr(h, h.held[f]["x"])
           b == Decr(a, h.held[f]["y"])
           c == Decr(b, h.held[f]["args"])
<1>3. a \in HeapType /\ (h.bad => a.bad)
  BY <1>1, <1>2, DecrIs
<1> HIDE DEF a
<1>4. b \in HeapType /\ (a.bad => b.bad)
  BY <1>1, <1>2, <1>3, DecrIs
<1> HIDE DEF b
<1>5. c \in HeapType /\ (b.bad => c.bad)
  BY <1>1, <1>2, <1>4, DecrIs
<1>6. AbandonScope(h, f) = Free(c, f)
  BY DEF AbandonScope, a, b
<1> HIDE DEF c
<1>7. Free(c, f) \in HeapType /\ Free(c, f).bad = c.bad
  BY <1>5, FreeIs
<1> QED  BY <1>3, <1>4, <1>5, <1>6, <1>7

\* As Later, but for the cells of S alone.
LaterOn(h, g, S) ==
  \A c \in S :
    /\ g.kind[c] = h.kind[c] \/ (h.kind[c] \in Valued /\ g.kind[c] = "freed")
    /\ g.kind[c] = h.kind[c] => g.held[c] = h.held[c]
    /\ h.count[c] = 0 => g.kind[c] = h.kind[c] /\ g.count[c] = 0

\* One variable after the other.
LEMMA ScopeSlot ==
  ASSUME NEW h, NEW D \in SUBSET All, NEW X \in [Cell -> Nat], NEW v \in Cell \union {Nil},
         Well(h, D, Plus(X, v)), \A c \in Cell : <<c, "p">> \in D,
         NEW g, g = Decr(h, v), ~g.bad
  PROVE  Well(g, D, X) /\ Later(h, g, {})
<1>1. Keeps(Decr(h, v), D)
  BY DEF Keeps
<1>2. Well(Decr(h, v), D, X) /\ Later(h, Decr(h, v), {})
  BY <1>1, DecrWell
<1> QED  BY <1>2

LEMMA ScopeWell ==
  ASSUME NEW h, NEW X, Well(h, All, X), NEW f \in Cell, h.kind[f] = "frame",
         NEW r, r = h.held[f]["ret"], NEW g, g = AbandonScope(h, f), ~g.bad
  PROVE  /\ Well(g, All, Plus(X, r)) /\ r \in Cell \union {Nil}
         /\ g.kind[f] = "freed" /\ LaterOn(h, g, Cell \ {f})
<1> DEFINE x == h.held[f]["x"]
           y == h.held[f]["y"]
           l == h.held[f]["args"]
           D1 == All \ {<<f, "x">>}
           D2 == D1 \ {<<f, "y">>}
           D3 == D2 \ {<<f, "args">>}
           D4 == D3 \ {<<f, "ret">>}
           X1 == Plus(X, r)
           X2 == Plus(X1, l)
           X3 == Plus(X2, y)
           E == {<<f, "x">>, <<f, "y">>, <<f, "args">>, <<f, "ret">>}
<1>1. x \in Cell \union {Nil} /\ y \in Cell \union {Nil} /\ l \in Cell \union {Nil} /\ r \in Cell \union {Nil}
  <2>1. \A s \in Slots : h.held[f][s] \in Cell \union {Nil}
    BY DEF Well, HeapType
  <2> QED  BY <2>1 DEF Slots
<1>2. X1 \in [Cell -> Nat]
  BY <1>1, PlusIs DEF Well
<1> HIDE DEF X1
<1>3. X2 \in [Cell -> Nat]
  BY <1>1, <1>2, PlusIs
<1> HIDE DEF X2
<1>4. X3 \in [Cell -> Nat]
  BY <1>1, <1>3, PlusIs
<1> HIDE DEF X3
<1>5. /\ <<f, "ret">> \in All /\ <<f, "args">> \in All \ {<<f, "ret">>}
      /\ <<f, "y">> \in (All \ {<<f, "ret">>}) \ {<<f, "args">>}
      /\ <<f, "x">> \in ((All \ {<<f, "ret">>}) \ {<<f, "args">>}) \ {<<f, "y">>}
      /\ D4 = (((All \ {<<f, "ret">>}) \ {<<f, "args">>}) \ {<<f, "y">>}) \ {<<f, "x">>}
      /\ D4 \in SUBSET All /\ E \in SUBSET ({f} \X Slots) /\ D4 \union E = All
      /\ \A c \in Cell : <<c, "p">> \in D4
      /\ \A s \in Slots : <<f, s>> \in D4 => s = "p"
  BY DEF All, Slots
<1> HIDE DEF D4, E
<1>6. Well(h, D4, Plus(X3, x))
  <2>1. Well(h, All \ {<<f, "ret">>}, X1)
    <3>1. h.held[<<f, "ret">>[1]][<<f, "ret">>[2]] = r
      OBVIOUS
    <3> QED  BY <1>5, <3>1, Mask DEF X1
  <2>2. Well(h, (All \ {<<f, "ret">>}) \ {<<f, "args">>}, X2)
    <3>1. h.held[<<f, "args">>[1]][<<f, "args">>[2]] = l
      OBVIOUS
    <3> HIDE DEF l
    <3> QED  BY <1>5, <2>1, <3>1, Mask DEF X2
  <2>3. Well(h, ((All \ {<<f, "ret">>}) \ {<<f, "args">>}) \ {<<f, "y">>}, X3)
    <3>1. h.held[<<f, "y">>[1]][<<f, "y">>[2]] = y
      OBVIOUS
    <3> HIDE DEF y
    <3> QED  BY <1>5, <2>2, <3>1, Mask DEF X3
  <2>4. Well(h, (((All \ {<<f, "ret">>}) \ {<<f, "args">>}) \ {<<f, "y">>}) \ {<<f, "x">>}, Plus(X3, x))
    <3>1. h.held[<<f, "x">>[1]][<<f, "x">>[2]] = x
      OBVIOUS
    <3> HIDE DEF x
    <3> QED  BY <1>5, <2>3, <3>1, Mask
  <2> QED  BY <1>5, <2>4
<1> DEFINE a == Decr(h, x)
           b == Decr(a, y)
           c == Decr(b, l)
<1>7. g = Free(c, f)
  BY DEF AbandonScope
<1> HIDE DEF x, y, l
<1>8. h \in HeapType /\ a \in HeapType
  BY <1>1, DecrIs DEF Well
<1> HIDE DEF a
<1>9. b \in HeapType /\ (a.bad => b.bad)
  BY <1>1, <1>8, DecrIs
<1> HIDE DEF b
<1>10. c \in HeapType /\ (b.bad => c.bad)
  BY <1>1, <1>9, DecrIs
<1> HIDE DEF c
<1>11. /\ g \in HeapType /\ g.bad = c.bad
       /\ \A d \in Cell : /\ g.kind[d] = IF d = f THEN "freed" ELSE c.kind[d]
                          /\ g.count[d] = IF d = f THEN 0 ELSE c.count[d]
                          /\ g.held[d] = IF d = f THEN Nothing ELSE c.held[d]
  BY <1>7, <1>10, FreeIs
<1>12. ~a.bad /\ ~b.bad /\ ~c.bad
  BY <1>9, <1>10, <1>11
<1>13. Well(a, D4, X3) /\ Later(h, a, {})
  BY <1>1, <1>4, <1>5, <1>6, <1>12, ScopeSlot DEF a
<1>14. Well(b, D4, X2) /\ Later(a, b, {})
  BY <1>1, <1>3, <1>5, <1>12, <1>13, ScopeSlot DEF b, X3
<1>15. Well(c, D4, X1) /\ Later(b, c, {})
  BY <1>1, <1>2, <1>5, <1>12, <1>14, ScopeSlot DEF c, X2
<1>16. Later(h, c, {})
  <2>1. Later(h, b, {} \union {})
    BY <1>13, <1>14, LaterAgain
  <2>2. Later(h, c, ({} \union {}) \union {})
    BY <1>15, <2>1, LaterAgain
  <2> QED  BY <2>2
<1>17. c.kind[f] = "frame"
  BY <1>16 DEF Later, Valued
<1>18. Well(Free(c, f), D4 \union E, X1)
  <2>1. c.count[f] = 0
    BY <1>15, <1>17 DEF Well, Zero, Valued
  <2>2. \A s \in Slots : <<f, s>> \in D4 => c.held[f][s] = Nil
    BY <1>5, <1>15, <1>17 DEF Well, Places
  <2> QED  BY <1>5, <1>15, <2>1, <2>2, FreeWell
<1>19. Well(g, All, X1)
  BY <1>5, <1>7, <1>18
<1>20. LaterOn(h, g, Cell \ {f})
  BY <1>11, <1>16 DEF Later, LaterOn
<1> QED  BY <1>1, <1>11, <1>19, <1>20 DEF X1

\* Leaving a call: the scope, the count of the return value, the closure that ran.
Left(h, f, r, c) == Abandon(Uncount(AbandonScope(h, f), r), c)

LEMMA LeftIs ==
  ASSUME NEW h \in HeapType, NEW f \in Cell, NEW r \in Cell \union {Nil}, NEW c \in Cell \union {Nil}
  PROVE  Left(h, f, r, c) \in HeapType /\ (h.bad => Left(h, f, r, c).bad)
<1> DEFINE a == AbandonScope(h, f)
           b == Uncount(a, r)
<1>1. a \in HeapType /\ (h.bad => a.bad)
  BY ScopeIs
<1> HIDE DEF a
<1>2. b \in HeapType /\ (a.bad => b.bad)
  BY <1>1, UncountIs DEF Recounted
<1>3. Left(h, f, r, c) = Abandon(b, c)
  BY DEF Left, a
<1> HIDE DEF b
<1> QED  BY <1>1, <1>2, <1>3, AbandonIs

LeftOK(h, g, X, f, r, c) ==
  /\ Well(g, All, X) /\ r \in Cell \union {Nil}
  /\ r # Nil => h.kind[r] \in Valued /\ h.count[r] # 0
  /\ g.kind[f] = "freed" /\ LaterOn(h, g, Cell \ {f, c})
  /\ \A d \in Cell \ {f} : g.kind[d] = h.kind[d] \/ (h.kind[d] \in Valued /\ g.kind[d] = "freed")

LEMMA LeftWell ==
  ASSUME NEW h, NEW X, Well(h, All, X), NEW f \in Cell, h.kind[f] = "frame",
         NEW c \in Cell \union {Nil}, c # Nil => h.kind[c] \in {"closure", "freed"},
         NEW r, r = h.held[f]["ret"], NEW g, g = Left(h, f, r, c), ~g.bad
  PROVE  LeftOK(h, g, X, f, r, c)
<1> DEFINE a == AbandonScope(h, f)
           b == Uncount(a, r)
<1>1. h \in HeapType /\ a \in HeapType
  BY ScopeIs DEF Well
<1>2. r \in Cell \union {Nil}
  BY <1>1 DEF HeapType, Slots
<1>3. g = Abandon(b, c)
  BY DEF Left
<1> HIDE DEF a
<1>4. b \in HeapType /\ (a.bad => b.bad) /\ b.kind = a.kind /\ b.held = a.held
  BY <1>1, <1>2, UncountIs DEF Recounted
<1> HIDE DEF b
<1>5. ~b.bad /\ ~a.bad
  BY <1>3, <1>4, AbandonIs
<1>6. Well(a, All, Plus(X, r)) /\ a.kind[f] = "freed" /\ LaterOn(h, a, Cell \ {f})
  BY <1>5, ScopeWell DEF a
<1>7. /\ Well(b, All, X)
      /\ \A d \in Cell : b.count[d] = IF d = r THEN a.count[d] - 1 ELSE a.count[d]
  <2>1. X \in [Cell -> Nat]
    BY DEF Well
  <2>2. /\ Well(Uncount(a, r), All, X)
        /\ \A d \in Cell : Uncount(a, r).count[d] = IF d = r THEN a.count[d] - 1 ELSE a.count[d]
    <3>1. Well(a, All, Plus(X, r))
      BY <1>6
    <3>2. Well(Uncount(a, r), All, X)
      BY <1>2, <2>1, <3>1, UncountWell
    <3>3. \A d \in Cell : Uncount(a, r).count[d] = IF d = r THEN a.count[d] - 1 ELSE a.count[d]
      BY <1>1, <1>2, <1>5, UncountIs DEF b
    <3> QED  BY <3>2, <3>3
  <2> QED  BY <2>2 DEF b
<1>8. r # Nil => h.kind[r] \in Valued /\ h.count[r] # 0
  <2> SUFFICES ASSUME r # Nil PROVE h.kind[r] \in Valued /\ h.count[r] # 0
    OBVIOUS
  <2>1. <<f, "ret">> \in All /\ r \in Cell
    BY <1>2 DEF All, Slots
  <2>2. h.held[<<f, "ret">>[1]][<<f, "ret">>[2]] = r
    OBVIOUS
  <2>3. h.count[r] > 0
    BY <2>1, <2>2, Referred
  <2> QED  BY <2>1, <2>3, Referred
<1>9. c # f
  BY Cells
<1>10. c # Nil => b.kind[c] \in Valued \union {"freed"}
  BY <1>4, <1>6, <1>9 DEF LaterOn, Valued
<1>11. Well(g, All, X) /\ Later(b, g, {c})
  BY <1>3, <1>7, <1>10, AbandonWell
<1>12. g.kind[f] = "freed"
  BY <1>4, <1>6, <1>11 DEF Later
<1>13. LaterOn(h, g, Cell \ {f, c})
  <2> SUFFICES ASSUME NEW d \in Cell, d # f, d # c
               PROVE  /\ g.kind[d] = h.kind[d] \/ (h.kind[d] \in Valued /\ g.kind[d] = "freed")
                      /\ g.kind[d] = h.kind[d] => g.held[d] = h.held[d]
                      /\ h.count[d] = 0 => g.kind[d] = h.kind[d] /\ g.count[d] = 0
    BY DEF LaterOn
  <2>1. h.count[d] = 0 => d # r
    BY <1>8, Cells
  <2>2. h.count[d] = 0 => b.kind[d] = h.kind[d] /\ b.count[d] = 0
    BY <1>4, <1>6, <1>7, <2>1 DEF LaterOn
  <2>3. /\ b.kind[d] = h.kind[d] \/ (h.kind[d] \in Valued /\ b.kind[d] = "freed")
        /\ b.kind[d] = h.kind[d] => b.held[d] = h.held[d]
    BY <1>4, <1>6 DEF LaterOn
  <2> QED  BY <1>11, <2>2, <2>3 DEF Later, Valued
<1>14. \A d \in Cell \ {f} : g.kind[d] = h.kind[d] \/ (h.kind[d] \in Valued /\ g.kind[d] = "freed")
  BY <1>4, <1>6, <1>11 DEF Later, LaterOn, Valued
<1> QED  BY <1>2, <1>8, <1>11, <1>12, <1>13, <1>14 DEF LeftOK

-----------------------------------------------------------------------------
(* Environments.                                                           *)

Changed(es, e) == <<e>> \o Tail(es)

LEMMA ChangedIs ==
  ASSUME NEW es \in Seq(EnvType), es # <<>>, NEW e \in EnvType
  PROVE  /\ Changed(es, e) \in Seq(EnvType) /\ Changed(es, e) # <<>>
         /\ Len(Changed(es, e)) = Len(es) /\ Changed(es, e)[1] = e
         /\ \A k \in 2..Len(es) : Changed(es, e)[k] = es[k]
<1> DEFINE t == Tail(es)
<1>1. t \in Seq(EnvType) /\ Len(t) = Len(es) - 1 /\ \A k \in 1..Len(t) : t[k] = es[k + 1]
  OBVIOUS
<1>2. <<e>> \in Seq(EnvType) /\ Len(<<e>>) = 1
  OBVIOUS
<1> HIDE DEF t
<1>3. <<e>> \o t \in Seq(EnvType) /\ Len(<<e>> \o t) = Len(es)
  BY <1>1, <1>2
<1>4. Len(es) \in Nat /\ Len(es) >= 1
  OBVIOUS
<1>5. (<<e>> \o t)[1] = e
  BY <1>1, <1>2
<1>6. ASSUME NEW k \in 2..Len(es) PROVE (<<e>> \o t)[k] = es[k]
  BY <1>1, <1>2, <1>4
<1> QED  BY <1>3, <1>4, <1>5, <1>6 DEF Changed, t

LEMMA TailIs ==
  ASSUME NEW es \in Seq(EnvType), es # <<>>
  PROVE  /\ Head(es) = es[1] /\ es[1] \in EnvType /\ Len(es) \in Nat \ {0}
         /\ Tail(es) \in Seq(EnvType) /\ Len(Tail(es)) = Len(es) - 1
         /\ \A k \in 1..Len(Tail(es)) : Tail(es)[k] = es[k + 1]
OBVIOUS

\* How a heap may change under the environments.  S has the cells a step is about.
Ages(h, g, S) ==
  \A c \in Cell :
    /\ h.kind[c] # "unused" => g.kind[c] \in {h.kind[c], "freed"}
    /\ c \notin S =>
         /\ h.kind[c] = "frame" => g.kind[c] = "frame" /\ g.held[c]["ret"] = h.held[c]["ret"]
         /\ g.kind[c] = "frame" => h.kind[c] = "frame"
         /\ h.kind[c] \in Valued /\ h.count[c] = 0 =>
              g.kind[c] = h.kind[c] /\ g.count[c] = 0 /\ g.held[c] = h.held[c]

LEMMA AgesAgain ==
  ASSUME NEW h, NEW g, NEW i, NEW S, NEW T, Ages(h, g, S), Ages(g, i, T)
  PROVE  Ages(h, i, S \union T)
<1> SUFFICES ASSUME NEW c \in Cell
             PROVE  /\ h.kind[c] # "unused" => i.kind[c] \in {h.kind[c], "freed"}
                    /\ c \notin S \union T =>
                         /\ h.kind[c] = "frame" => i.kind[c] = "frame" /\ i.held[c]["ret"] = h.held[c]["ret"]
                         /\ i.kind[c] = "frame" => h.kind[c] = "frame"
                         /\ h.kind[c] \in Valued /\ h.count[c] = 0 =>
                              i.kind[c] = h.kind[c] /\ i.count[c] = 0 /\ i.held[c] = h.held[c]
  BY DEF Ages
<1>1. h.kind[c] # "unused" => i.kind[c] \in {h.kind[c], "freed"}
  BY DEF Ages
<1>2. ASSUME c \notin S \union T
      PROVE  /\ h.kind[c] = "frame" => i.kind[c] = "frame" /\ i.held[c]["ret"] = h.held[c]["ret"]
             /\ i.kind[c] = "frame" => h.kind[c] = "frame"
  BY <1>2 DEF Ages
<1>3. ASSUME c \notin S \union T, h.kind[c] \in Valued, h.count[c] = 0
      PROVE  i.kind[c] = h.kind[c] /\ i.count[c] = 0 /\ i.held[c] = h.held[c]
  <2>1. g.kind[c] = h.kind[c] /\ g.count[c] = 0 /\ g.held[c] = h.held[c]
    BY <1>3 DEF Ages
  <2> QED  BY <1>3, <2>1 DEF Ages
<1> QED  BY <1>1, <1>2, <1>3

LEMMA AgesMore == ASSUME NEW h, NEW g, NEW S, NEW T, Ages(h, g, S), S \subseteq T PROVE Ages(h, g, T)
BY DEF Ages

LEMMA AgesLater == ASSUME NEW h, NEW g, NEW S, Later(h, g, S) PROVE Ages(h, g, S)
<1> SUFFICES ASSUME NEW c \in Cell
             PROVE  /\ h.kind[c] # "unused" => g.kind[c] \in {h.kind[c], "freed"}
                    /\ c \notin S =>
                         /\ h.kind[c] = "frame" => g.kind[c] = "frame" /\ g.held[c]["ret"] = h.held[c]["ret"]
                         /\ g.kind[c] = "frame" => h.kind[c] = "frame"
                         /\ h.kind[c] \in Valued /\ h.count[c] = 0 =>
                              g.kind[c] = h.kind[c] /\ g.count[c] = 0 /\ g.held[c] = h.held[c]
  BY DEF Ages
<1> QED  BY DEF Later, Valued

\* What holds between two steps, the value in flight aside.
State(h, es, lk, cp) ==
  /\ Well(h, All, Extra(Listed(es, lk)))
  /\ EnvsOK(h, es) /\ FramesOK(h, es)
  /\ LeakedOK(h, es, lk) /\ CapturedOK(h, cp)
  /\ h.kind[Declared] = "closure"

LEMMA ListedIs ==
  ASSUME NEW h, NEW L, Well(h, All, Extra(L)), NEW c \in Cell, c \in L
  PROVE  h.kind[c] \in Valued /\ h.count[c] > 0
<1>1. Extra(L)[c] = 1
  BY ExtraIs
<1> QED  BY <1>1, Referred

\* The cells an environment has to do with.
LEMMA EnvCells ==
  ASSUME NEW h, NEW es, NEW lk, NEW cp, State(h, es, lk, cp), NEW k \in 1..Len(es)
  PROVE  /\ es[k] \in EnvType /\ EnvOK(h, es[k])
         /\ es[k].frame \in Cell /\ h.kind[es[k].frame] = "frame"
         /\ \A c \in Lits(es[k]) : c \in Cell /\ h.kind[c] = "object" /\ h.count[c] > 0 /\ c \in Listed(es, lk)
         /\ \A c \in News(es[k]) : c \in Cell /\ h.kind[c] \in {"object", "args"} /\ h.count[c] = 0 /\ h.held[c] = Nothing
         /\ \A c \in Assigns(es[k]) : c \in Cell /\ h.kind[c] \in {"object", "frame", "freed"}
<1> DEFINE e == es[k]
<1>0. e \in EnvType /\ EnvOK(h, e)
  BY DEF State, EnvsOK
<1> HIDE DEF e
<1>1. e \in EnvType /\ EnvOK(h, e) /\ e.lits \in Seq(Cell) /\ e.pending \in Seq(PendingType) /\ e.frame \in Cell
  BY <1>0 DEF EnvType
<1>2. ASSUME NEW i \in 1..Len(e.pending)
      PROVE  e.pending[i] \in PendingType /\ PendingOK(h, e.pending[i]) /\ e.pending[i].cell \in Cell
  <2>1. e.pending[i] \in PendingType
    BY <1>1
  <2>2. PendingOK(h, e.pending[i])
    BY <1>1 DEF EnvOK
  <2> QED  BY <2>1, <2>2 DEF PendingType
<1>3. ASSUME NEW c \in News(e)
      PROVE  c \in Cell /\ h.kind[c] \in {"object", "args"} /\ h.count[c] = 0 /\ h.held[c] = Nothing
  <2>1. PICK i \in 1..Len(e.pending) : e.pending[i].op # "assign" /\ c = e.pending[i].cell
    BY DEF News
  <2> QED  BY <1>2, <2>1 DEF PendingOK
<1>4. ASSUME NEW c \in Assigns(e) PROVE c \in Cell /\ h.kind[c] \in {"object", "frame", "freed"}
  <2>1. PICK i \in 1..Len(e.pending) : e.pending[i].op = "assign" /\ c = e.pending[i].cell
    BY DEF Assigns
  <2> QED  BY <1>2, <2>1 DEF PendingOK
<1>5. ASSUME NEW c \in Lits(e)
      PROVE  c \in Cell /\ h.kind[c] = "object" /\ h.count[c] > 0 /\ c \in Listed(es, lk)
  <2>1. PICK i \in 1..Len(e.lits) : c = e.lits[i]
    BY DEF Lits
  <2>2. c \in Cell /\ h.kind[c] = "object"
    BY <1>1, <2>1 DEF EnvOK
  <2>3. c \in Listed(es, lk)
    BY DEF Listed, AllLits, e
  <2>4. Well(h, All, Extra(Listed(es, lk)))
    BY DEF State
  <2>5. h.count[c] > 0
    BY <2>2, <2>3, <2>4, ListedIs
  <2> QED  BY <2>2, <2>3, <2>5
<1>6. h.kind[e.frame] = "frame"
  BY <1>1 DEF EnvOK
<1> QED  BY <1>1, <1>3, <1>4, <1>5, <1>6 DEF e

LEMMA EnvStays ==
  ASSUME NEW h, NEW g, NEW S, Ages(h, g, S), NEW e \in EnvType, EnvOK(h, e),
         S \intersect News(e) = {}, e.frame \notin S, NEW L, Well(g, All, Extra(L)), Lits(e) \subseteq L
  PROVE  EnvOK(g, e)
<1>1. /\ e.frame \in Cell /\ e.closure \in Cell \union {Nil}
      /\ e.lits \in Seq(Cell) /\ e.pending \in Seq(PendingType)
  BY DEF EnvType
<1>2. g.kind[e.frame] = "frame"
  BY <1>1 DEF EnvOK, Ages
<1>3. e.closure # Nil => g.kind[e.closure] \in {"closure", "freed"}
  BY <1>1 DEF EnvOK, Ages
<1>4. ASSUME NEW i \in 1..Len(e.lits) PROVE g.kind[e.lits[i]] = "object"
  <2> DEFINE c == e.lits[i]
  <2>1. c \in Cell /\ c \in L /\ h.kind[c] = "object"
    BY <1>1 DEF EnvOK, Lits
  <2> HIDE DEF c
  <2>2. g.kind[c] \in Valued
    BY <2>1, ListedIs
  <2>3. g.kind[c] = "object"
    BY <2>1, <2>2 DEF Ages, Valued
  <2> QED  BY <2>3 DEF c
<1>5. ASSUME NEW i \in 1..Len(e.pending) PROVE PendingOK(g, e.pending[i])
  <2> DEFINE q == e.pending[i]
  <2>0. q \in PendingType /\ PendingOK(h, q)
    BY <1>1 DEF EnvOK
  <2>1. q.op # "assign" => q.cell \notin S
    BY DEF News
  <2> SUFFICES PendingOK(g, q)
    OBVIOUS
  <2> HIDE DEF q
  <2>2. q.cell \in Cell
    BY <2>0 DEF PendingType
  <2>3. CASE q.op = "assign"
    BY <2>0, <2>2, <2>3 DEF PendingOK, Ages
  <2>4. CASE q.op # "assign"
    <3>1. q.cell \notin S /\ h.kind[q.cell] \in Valued /\ h.count[q.cell] = 0
      BY <2>0, <2>1, <2>4 DEF PendingOK, Valued
    <3>2. /\ g.kind[q.cell] = h.kind[q.cell] /\ g.count[q.cell] = 0
          /\ g.held[q.cell] = h.held[q.cell]
      BY <2>2, <3>1 DEF Ages
    <3> QED  BY <2>0, <2>4, <3>2 DEF PendingOK
  <2> QED  BY <2>3, <2>4
<1> QED  BY <1>2, <1>3, <1>4, <1>5 DEF EnvOK

LEMMA Others ==
  ASSUME NEW h, NEW es, NEW lk, NEW cp, State(h, es, lk, cp), NEW g, NEW S, Ages(h, g, S),
         NEW L, Well(g, All, Extra(L)), Declared \in L
  PROVE  /\ CapturedOK(g, cp) /\ g.kind[Declared] = "closure"
         /\ \A c \in Cell : c \in L /\ h.kind[c] = "object" => g.kind[c] = "object"
<1>1. CapturedOK(g, cp)
  <2>1. CapturedOK(h, cp)
    BY DEF State
  <2>2. ASSUME NEW c \in Cell, cp[c] # Nil PROVE g.kind[cp[c]] \in {"frame", "freed"}
    <3>1. cp[c] \in Cell /\ h.kind[cp[c]] \in {"frame", "freed"}
      BY <2>1, <2>2 DEF CapturedOK
    <3> QED  BY <3>1 DEF Ages
  <2> QED  BY <2>1, <2>2 DEF CapturedOK
<1>2. g.kind[Declared] = "closure"
  <2>1. g.kind[Declared] \in Valued /\ h.kind[Declared] = "closure"
    BY Cells, ListedIs DEF State
  <2> QED  BY <2>1, Cells DEF Ages, Valued
<1>3. ASSUME NEW c \in Cell, c \in L, h.kind[c] = "object" PROVE g.kind[c] = "object"
  <2>1. g.kind[c] \in Valued
    BY <1>3, ListedIs
  <2> QED  BY <1>3, <2>1 DEF Ages, Valued
<1> QED  BY <1>1, <1>2, <1>3

LEMMA EnvRest ==
  ASSUME NEW h, NEW es, NEW lk, NEW cp, State(h, es, lk, cp), NEW g, NEW S, Ages(h, g, S),
         NEW L, Well(g, All, Extra(L)), NEW k \in 1..Len(es), Lits(es[k]) \subseteq L,
         S \intersect News(es[k]) = {}, es[k].frame \notin S
  PROVE  EnvOK(g, es[k])
<1>1. es[k] \in EnvType /\ EnvOK(h, es[k])
  BY EnvCells
<1> QED  BY <1>1, EnvStays

\* A step of the environment that runs.
Moved(h, g, es, e, N, M, S) ==
  /\ e.frame = es[1].frame
  /\ Lits(e) \subseteq Lits(es[1]) \union N
  /\ News(e) \subseteq News(es[1]) \union N
  /\ Assigns(e) \subseteq Assigns(es[1]) \union M
  /\ \A c \in N : c \in Cell /\ (h.kind[c] = "unused" \/ c \in News(es[1]))
  /\ \A c \in M : c \in Cell /\ (h.count[c] # 0 \/ h.kind[c] = "frame")
  /\ \A c \in S : c \in Cell /\ h.kind[c] # "frame" /\ g.kind[c] # "frame"
  /\ \A c \in S, k \in 2..Len(es) : c \notin News(es[k])

LEMMA MovedApart ==
  ASSUME NEW h, NEW es, NEW lk, NEW cp, State(h, es, lk, cp), NEW g, NEW e, NEW N, NEW M, NEW S,
         Moved(h, g, es, e, N, M, S), NEW k \in 2..Len(es)
  PROVE  Apart(e, es[k]) /\ Apart(es[k], e) /\ N \intersect Lits(es[k]) = {}
<1>1. k \in 1..Len(es) /\ 1 \in 1..Len(es) /\ k # 1
  <2>1. es \in Seq(EnvType)
    BY DEF State, EnvsOK
  <2>2. Len(es) \in Nat
    BY <2>1
  <2> QED  BY <2>2
<1>2. Apart(es[1], es[k]) /\ Apart(es[k], es[1])
  BY <1>1 DEF State, EnvsOK
<1> DEFINE d == es[k]
<1>3. /\ \A c \in Lits(d) : c \in Cell /\ h.kind[c] = "object" /\ h.count[c] > 0
      /\ \A c \in News(d) : c \in Cell /\ h.kind[c] \in {"object", "args"} /\ h.count[c] = 0
      /\ \A c \in Assigns(d) : c \in Cell /\ h.kind[c] \in {"object", "frame", "freed"}
  BY <1>1, EnvCells
<1>4. \A c \in News(es[1]) : h.count[c] = 0
  BY <1>1, EnvCells
<1> HIDE DEF d
<1>5. N \intersect Lits(d) = {} /\ N \intersect (News(d) \union Assigns(d)) = {}
  <2> SUFFICES ASSUME NEW c \in N PROVE c \notin Lits(d) /\ c \notin News(d) \union Assigns(d)
    OBVIOUS
  <2>1. CASE h.kind[c] = "unused"
    BY <1>3, <2>1
  <2>2. CASE c \in News(es[1])
    <3>1. h.count[c] = 0 /\ c \notin News(d) \union Assigns(d)
      BY <1>2, <1>4, <2>2 DEF Apart, d
    <3> QED  BY <1>3, <3>1
  <2> QED  BY <2>1, <2>2 DEF Moved
<1>6. M \intersect News(d) = {}
  BY <1>3 DEF Moved
<1>7. Apart(e, d)
  BY <1>2, <1>5 DEF Apart, Moved, d
<1>8. Apart(d, e)
  <2>1. d.frame # e.frame /\ Lits(d) \intersect Lits(e) = {}
    BY <1>2, <1>5 DEF Apart, Moved, d
  <2>2. News(d) \intersect News(e) = {} /\ News(d) \intersect Assigns(e) = {}
    BY <1>2, <1>5, <1>6 DEF Apart, Moved, d
  <2> QED  BY <2>1, <2>2 DEF Apart
<1> QED  BY <1>5, <1>7, <1>8 DEF d

LEMMA StateMoves ==
  ASSUME NEW h, NEW es, NEW lk, NEW cp, State(h, es, lk, cp), NEW e \in EnvType, NEW g, NEW N, NEW M, NEW S,
         Ages(h, g, S), Moved(h, g, es, e, N, M, S), N \intersect lk = {},
         EnvOK(g, e), Well(g, All, Extra(Listed(Changed(es, e), lk)))
  PROVE  State(g, Changed(es, e), lk, cp)
<1> DEFINE ds == Changed(es, e)
<1>1. es \in Seq(EnvType) /\ es # <<>> /\ Len(es) \in Nat \ {0}
  <2>1. es \in Seq(EnvType) /\ es # <<>>
    BY DEF State, EnvsOK
  <2> QED  BY <2>1
<1>2. /\ ds \in Seq(EnvType) /\ ds # <<>> /\ Len(ds) = Len(es) /\ ds[1] = e
      /\ \A k \in 2..Len(es) : ds[k] = es[k]
  BY <1>1, ChangedIs
<1>3. \A k \in 2..Len(es) : k \in 1..Len(es)
  OBVIOUS
<1>4. \A k \in 1..Len(es) : k = 1 \/ k \in 2..Len(es)
  BY <1>1
<1> HIDE DEF ds
<1>5. Well(g, All, Extra(Listed(ds, lk)))
  BY DEF ds
<1>6. \A k \in 1..Len(es) : Lits(ds[k]) \subseteq Listed(ds, lk)
  BY <1>2 DEF Listed, AllLits
<1>7. Declared \in Listed(ds, lk) /\ lk \subseteq Listed(ds, lk)
  BY DEF Listed
<1>8. ASSUME NEW k \in 2..Len(es) PROVE EnvOK(g, es[k])
  <2>1. k \in 1..Len(es) /\ Lits(es[k]) \subseteq Listed(ds, lk)
    BY <1>2, <1>3, <1>6
  <2>2. h.kind[es[k].frame] = "frame"
    BY <2>1, EnvCells
  <2>3. S \intersect News(es[k]) = {} /\ es[k].frame \notin S
    BY <2>2 DEF Moved
  <2> QED  BY <1>5, <2>1, <2>3, EnvRest
<1>9. ASSUME NEW k \in 1..Len(es) PROVE EnvOK(g, ds[k])
  BY <1>2, <1>4, <1>8
<1>10. ASSUME NEW k \in 1..Len(es), NEW l \in 1..Len(es), k # l PROVE Apart(ds[k], ds[l])
  <2>1. CASE k = 1
    <3>1. l \in 2..Len(es)
      BY <1>4, <1>10, <2>1
    <3> QED  BY <1>2, <2>1, <3>1, MovedApart
  <2>2. CASE l = 1
    <3>1. k \in 2..Len(es)
      BY <1>4, <1>10, <2>2
    <3> QED  BY <1>2, <2>2, <3>1, MovedApart
  <2>3. CASE k # 1 /\ l # 1
    <3>1. k \in 2..Len(es) /\ l \in 2..Len(es)
      BY <1>4, <2>3
    <3>2. Apart(es[k], es[l])
      BY <1>10 DEF State, EnvsOK
    <3> QED  BY <1>2, <3>1, <3>2
  <2> QED  BY <2>1, <2>2, <2>3
<1>11. EnvsOK(g, ds)
  BY <1>2, <1>9, <1>10 DEF EnvsOK
<1>12. FramesOK(g, ds)
  <2> SUFFICES ASSUME NEW c \in Cell, g.kind[c] = "frame"
               PROVE  g.held[c]["ret"] = Nil /\ \E k \in 1..Len(ds) : ds[k].frame = c
    BY DEF FramesOK
  <2>1. c \notin S
    BY DEF Moved
  <2>2. h.kind[c] = "frame" /\ g.held[c]["ret"] = h.held[c]["ret"]
    BY <2>1 DEF Ages
  <2>3. h.held[c]["ret"] = Nil
    BY <2>2 DEF State, FramesOK
  <2>4. PICK k \in 1..Len(es) : es[k].frame = c
    BY <2>2 DEF State, FramesOK
  <2>5. ds[k].frame = c
    BY <1>2, <1>4, <2>4 DEF Moved
  <2> QED  BY <1>2, <2>2, <2>3, <2>5
<1>13. /\ CapturedOK(g, cp) /\ g.kind[Declared] = "closure"
       /\ \A c \in Cell : c \in Listed(ds, lk) /\ h.kind[c] = "object" => g.kind[c] = "object"
  BY <1>5, <1>7, Others
<1>14. LeakedOK(g, ds, lk)
  <2>1. lk \subseteq Cell /\ lk \intersect AllLits(es) = {} /\ \A c \in lk : h.kind[c] = "object"
    BY DEF State, LeakedOK
  <2>2. \A k \in 1..Len(es) : lk \intersect Lits(es[k]) = {}
    BY <2>1 DEF AllLits
  <2>3. 1 \in 1..Len(es)
    BY <1>1
  <2>4. lk \intersect Lits(e) = {}
    BY <2>2, <2>3 DEF Moved
  <2>5. \A k \in 1..Len(es) : lk \intersect Lits(ds[k]) = {}
    BY <1>2, <1>4, <2>2, <2>4
  <2>6. lk \intersect AllLits(ds) = {}
    BY <1>2, <2>5 DEF AllLits
  <2> QED  BY <1>7, <1>13, <2>1, <2>6 DEF LeakedOK
<1>15. State(g, ds, lk, cp)
  BY <1>5, <1>11, <1>12, <1>13, <1>14 DEF State
<1> QED  BY <1>15 DEF ds

\* A call begins.
LEMMA StateEnters ==
  ASSUME NEW h, NEW es, NEW lk, NEW cp, State(h, es, lk, cp), NEW n \in EnvType, NEW g, NEW S,
         Ages(h, g, S), n.lits = <<>>, n.pending = <<>>, EnvOK(g, n),
         h.kind[n.frame] = "unused", g.held[n.frame]["ret"] = Nil,
         \A c \in S : c \in Cell /\ h.kind[c] # "frame" /\ (g.kind[c] = "frame" => c = n.frame),
         \A k \in 1..Len(es) : S \intersect News(es[k]) = {},
         Well(g, All, Extra(Listed(es, lk)))
  PROVE  State(g, <<n>> \o es, lk, cp)
<1> DEFINE ds == <<n>> \o es
<1>1. es \in Seq(EnvType) /\ es # <<>> /\ Len(es) \in Nat \ {0}
  <2>1. es \in Seq(EnvType) /\ es # <<>>
    BY DEF State, EnvsOK
  <2> QED  BY <2>1
<1>2. /\ ds \in Seq(EnvType) /\ ds # <<>> /\ Len(ds) = Len(es) + 1 /\ ds[1] = n
      /\ \A k \in 2..Len(ds) : k - 1 \in 1..Len(es) /\ ds[k] = es[k - 1]
      /\ \A k \in 1..Len(es) : k + 1 \in 2..Len(ds) /\ ds[k + 1] = es[k]
  <2>1. <<n>> \in Seq(EnvType) /\ Len(<<n>>) = 1
    OBVIOUS
  <2> QED  BY <1>1, <2>1
<1>3. \A k \in 1..Len(ds) : k = 1 \/ k \in 2..Len(ds)
  BY <1>1, <1>2
<1>4. \A k \in 2..Len(ds) : k \in 1..Len(ds)
  OBVIOUS
<1>5. Lits(n) = {} /\ News(n) = {} /\ Assigns(n) = {}
  BY DEF Lits, News, Assigns
<1> HIDE DEF ds
<1>6. AllLits(ds) = AllLits(es)
  <2>1. \A k \in 1..Len(es) : Lits(es[k]) \subseteq AllLits(ds)
    BY <1>2, <1>4 DEF AllLits
  <2>2. AllLits(es) \subseteq AllLits(ds)
    BY <2>1 DEF AllLits
  <2>3. \A k \in 1..Len(ds) : Lits(ds[k]) \subseteq AllLits(es)
    BY <1>2, <1>3, <1>5 DEF AllLits
  <2>4. AllLits(ds) \subseteq AllLits(es)
    BY <2>3 DEF AllLits
  <2> QED  BY <2>2, <2>4
<1>7. Listed(ds, lk) = Listed(es, lk)
  BY <1>6 DEF Listed
<1>8. ASSUME NEW k \in 1..Len(es) PROVE EnvOK(g, es[k]) /\ es[k].frame # n.frame
  <2>1. Lits(es[k]) \subseteq Listed(es, lk)
    BY DEF Listed, AllLits
  <2>2. h.kind[es[k].frame] = "frame"
    BY EnvCells
  <2>3. S \intersect News(es[k]) = {} /\ es[k].frame \notin S
    BY <2>2
  <2> QED  BY <2>1, <2>2, <2>3, EnvRest
<1>9. ASSUME NEW k \in 1..Len(ds) PROVE EnvOK(g, ds[k])
  BY <1>2, <1>3, <1>8
<1>10. ASSUME NEW k \in 1..Len(ds), NEW l \in 1..Len(ds), k # l PROVE Apart(ds[k], ds[l])
  <2>1. ASSUME NEW m \in 2..Len(ds) PROVE Apart(n, ds[m]) /\ Apart(ds[m], n)
    BY <1>2, <1>5, <1>8, SMTT(30) DEF Apart
  <2>2. CASE k # 1 /\ l # 1
    <3>1. k - 1 \in 1..Len(es) /\ l - 1 \in 1..Len(es) /\ k - 1 # l - 1
      BY <1>2, <1>3, <1>10, <2>2
    <3>2. Apart(es[k - 1], es[l - 1])
      BY <3>1 DEF State, EnvsOK
    <3> QED  BY <1>2, <1>3, <2>2, <3>2
  <2> QED  BY <1>2, <1>3, <1>10, <2>1, <2>2
<1>11. EnvsOK(g, ds)
  BY <1>2, <1>9, <1>10 DEF EnvsOK
<1>12. FramesOK(g, ds)
  <2> SUFFICES ASSUME NEW c \in Cell, g.kind[c] = "frame"
               PROVE  g.held[c]["ret"] = Nil /\ \E k \in 1..Len(ds) : ds[k].frame = c
    BY DEF FramesOK
  <2>1. CASE c = n.frame
    <3>1. 1 \in 1..Len(ds)
      BY <1>1, <1>2
    <3> QED  BY <1>2, <2>1, <3>1
  <2>2. CASE c # n.frame
    <3>1. h.kind[c] = "frame" /\ g.held[c]["ret"] = h.held[c]["ret"]
      BY <2>2 DEF Ages
    <3>2. h.held[c]["ret"] = Nil
      BY <3>1 DEF State, FramesOK
    <3>3. PICK k \in 1..Len(es) : es[k].frame = c
      BY <3>1 DEF State, FramesOK
    <3>4. k + 1 \in 1..Len(ds) /\ ds[k + 1].frame = c
      BY <1>2, <1>4, <3>3
    <3> QED  BY <3>1, <3>2, <3>4
  <2> QED  BY <2>1, <2>2
<1>13. /\ CapturedOK(g, cp) /\ g.kind[Declared] = "closure"
       /\ \A c \in Cell : c \in Listed(es, lk) /\ h.kind[c] = "object" => g.kind[c] = "object"
  <2>1. Declared \in Listed(es, lk)
    BY DEF Listed
  <2> QED  BY <2>1, Others
<1>14. LeakedOK(g, ds, lk)
  <2>1. lk \subseteq Cell /\ lk \intersect AllLits(es) = {} /\ \A c \in lk : h.kind[c] = "object"
    BY DEF State, LeakedOK
  <2>2. lk \subseteq Listed(es, lk)
    BY DEF Listed
  <2> QED  BY <1>6, <1>13, <2>1, <2>2 DEF LeakedOK
<1>15. State(g, ds, lk, cp)
  BY <1>7, <1>11, <1>12, <1>13, <1>14 DEF State
<1> QED  BY <1>15 DEF ds

\* A call ends.
LEMMA StateLeaves ==
  ASSUME NEW h, NEW es, NEW lk, NEW cp, State(h, es, lk, cp), Len(es) > 1, NEW g, NEW S,
         Ages(h, g, S), g.kind[es[1].frame] # "frame", \A c \in S : g.kind[c] # "frame",
         \A k \in 2..Len(es) : S \intersect News(es[k]) = {} /\ es[k].frame \notin S,
         NEW l2, l2 \subseteq lk \union Lits(es[1]),
         Well(g, All, Extra(Listed(Tail(es), l2)))
  PROVE  State(g, Tail(es), l2, cp)
<1> DEFINE ds == Tail(es)
<1>1. es \in Seq(EnvType) /\ es # <<>> /\ Len(es) \in Nat \ {0}
  <2>1. es \in Seq(EnvType) /\ es # <<>>
    BY DEF State, EnvsOK
  <2> QED  BY <2>1
<1>2. /\ ds \in Seq(EnvType) /\ ds # <<>> /\ Len(ds) = Len(es) - 1
      /\ \A k \in 1..Len(ds) : k + 1 \in 2..Len(es) /\ ds[k] = es[k + 1]
      /\ \A k \in 2..Len(es) : k - 1 \in 1..Len(ds) /\ ds[k - 1] = es[k]
  <2>1. ds \in Seq(EnvType) /\ Len(ds) = Len(es) - 1 /\ \A k \in 1..Len(ds) : ds[k] = es[k + 1]
    BY <1>1, TailIs
  <2> HIDE DEF ds
  <2>2. ds # <<>>
    BY <1>1, <2>1
  <2>3. \A k \in 1..Len(ds) : k + 1 \in 2..Len(es)
    BY <1>1, <2>1
  <2>4. \A k \in 2..Len(es) : k - 1 \in 1..Len(ds) /\ (k - 1) + 1 = k
    BY <1>1, <2>1
  <2>5. \A k \in 2..Len(es) : ds[k - 1] = es[k]
    BY <2>1, <2>4
  <2> QED  BY <2>1, <2>2, <2>3, <2>4, <2>5
<1>3. \A k \in 1..Len(es) : k = 1 \/ k \in 2..Len(es)
  BY <1>1
<1>4. (\A k \in 2..Len(es) : k \in 1..Len(es)) /\ 1 \in 1..Len(es)
  BY <1>1
<1> HIDE DEF ds
<1>5. Well(g, All, Extra(Listed(ds, l2))) /\ Declared \in Listed(ds, l2) /\ l2 \subseteq Listed(ds, l2)
  BY DEF Listed, ds
<1>6. \A k \in 1..Len(ds) : Lits(ds[k]) \subseteq Listed(ds, l2)
  BY DEF Listed, AllLits
<1>7. ASSUME NEW k \in 1..Len(ds) PROVE EnvOK(g, ds[k])
  <2>1. k + 1 \in 2..Len(es) /\ k + 1 \in 1..Len(es) /\ ds[k] = es[k + 1]
    BY <1>2, <1>4
  <2>2. Lits(es[k + 1]) \subseteq Listed(ds, l2)
    BY <1>6, <2>1
  <2>3. S \intersect News(es[k + 1]) = {} /\ es[k + 1].frame \notin S
    BY <2>1
  <2>4. EnvOK(g, es[k + 1])
    BY <1>5, <2>1, <2>2, <2>3, EnvRest
  <2> QED  BY <2>1, <2>4
<1>8. ASSUME NEW k \in 1..Len(ds), NEW l \in 1..Len(ds), k # l PROVE Apart(ds[k], ds[l])
  <2>1. k + 1 \in 1..Len(es) /\ l + 1 \in 1..Len(es) /\ k + 1 # l + 1
    BY <1>2, <1>4, <1>8
  <2>2. Apart(es[k + 1], es[l + 1])
    BY <2>1 DEF State, EnvsOK
  <2> QED  BY <1>2, <2>2
<1>9. EnvsOK(g, ds)
  BY <1>2, <1>7, <1>8 DEF EnvsOK
<1>10. FramesOK(g, ds)
  <2> SUFFICES ASSUME NEW c \in Cell, g.kind[c] = "frame"
               PROVE  g.held[c]["ret"] = Nil /\ \E k \in 1..Len(ds) : ds[k].frame = c
    BY DEF FramesOK
  <2>1. h.kind[c] = "frame" /\ g.held[c]["ret"] = h.held[c]["ret"]
    BY DEF Ages
  <2>2. h.held[c]["ret"] = Nil
    BY <2>1 DEF State, FramesOK
  <2>3. PICK k \in 1..Len(es) : es[k].frame = c
    BY <2>1 DEF State, FramesOK
  <2>4. k \in 2..Len(es)
    BY <1>3, <2>3
  <2> QED  BY <1>2, <2>1, <2>2, <2>3, <2>4
<1>11. /\ CapturedOK(g, cp) /\ g.kind[Declared] = "closure"
       /\ \A c \in Cell : c \in Listed(ds, l2) /\ h.kind[c] = "object" => g.kind[c] = "object"
  BY <1>5, Others
<1>12. LeakedOK(g, ds, l2)
  <2>1. lk \subseteq Cell /\ lk \intersect AllLits(es) = {} /\ \A c \in lk : h.kind[c] = "object"
    BY DEF State, LeakedOK
  <2>2. \A c \in Lits(es[1]) : c \in Cell /\ h.kind[c] = "object"
    BY <1>4, EnvCells
  <2>3. \A c \in l2 : c \in Cell /\ h.kind[c] = "object"
    BY <2>1, <2>2
  <2>4. ASSUME NEW k \in 2..Len(es) PROVE l2 \intersect Lits(es[k]) = {}
    <3>1. Lits(es[k]) \subseteq AllLits(es)
      BY <1>4 DEF AllLits
    <3>2. Apart(es[1], es[k])
      BY <1>1, <1>4 DEF State, EnvsOK
    <3> QED  BY <2>1, <3>1, <3>2 DEF Apart
  <2>5. \A k \in 1..Len(ds) : l2 \intersect Lits(ds[k]) = {}
    BY <1>2, <2>4
  <2>6. l2 \intersect AllLits(ds) = {}
    BY <2>5 DEF AllLits
  <2> QED  BY <1>5, <1>11, <2>3, <2>6 DEF LeakedOK
<1>13. State(g, ds, l2, cp)
  BY <1>5, <1>9, <1>10, <1>11, <1>12 DEF State
<1> QED  BY <1>13 DEF ds

\* The innermost environment can go.
Goes(h, g, es, S) ==
  /\ Ages(h, g, S) /\ g.kind[es[1].frame] # "frame" /\ \A c \in S : g.kind[c] # "frame"
  /\ \A k \in 2..Len(es) : S \intersect News(es[k]) = {} /\ es[k].frame \notin S

LEMMA StateGoes ==
  ASSUME NEW h, NEW es, NEW lk, NEW cp, State(h, es, lk, cp), Len(es) > 1, NEW g, NEW S, Goes(h, g, es, S),
         NEW l2, l2 \subseteq lk \union Lits(es[1]),
         Well(g, All, Extra(Listed(Tail(es), l2)))
  PROVE  State(g, Tail(es), l2, cp)
BY StateLeaves DEF Goes

-----------------------------------------------------------------------------
(* The environment that runs.                                              *)

Push(e, q) == [e EXCEPT !.pending = <<q>> \o @]

LEMMA PushIs ==
  ASSUME NEW e \in EnvType, NEW q \in PendingType
  PROVE  /\ Push(e, q) \in EnvType /\ Push(e, q).frame = e.frame
         /\ Push(e, q).closure = e.closure /\ Push(e, q).lits = e.lits
         /\ Len(e.pending) \in Nat
         /\ Len(Push(e, q).pending) = Len(e.pending) + 1 /\ Push(e, q).pending[1] = q
         /\ \A k \in 1..Len(e.pending) : Push(e, q).pending[k + 1] = e.pending[k]
<1> DEFINE p == <<q>> \o e.pending
<1>1. e.pending \in Seq(PendingType) /\ Len(e.pending) \in Nat
  BY DEF EnvType
<1>2. /\ p \in Seq(PendingType) /\ Len(p) = Len(e.pending) + 1 /\ p[1] = q
      /\ \A k \in 1..Len(e.pending) : p[k + 1] = e.pending[k]
  BY <1>1
<1>3. Push(e, q) = [e EXCEPT !.pending = p]
  BY DEF Push, EnvType
<1> HIDE DEF p
<1> QED  BY <1>1, <1>2, <1>3 DEF EnvType

LEMMA PushOK ==
  ASSUME NEW e \in EnvType, NEW q \in PendingType
  PROVE  /\ Push(e, q) \in EnvType /\ Push(e, q).frame = e.frame
         /\ Lits(Push(e, q)) = Lits(e)
         /\ News(Push(e, q)) = News(e) \union (IF q.op # "assign" THEN {q.cell} ELSE {})
         /\ Assigns(Push(e, q)) = Assigns(e) \union (IF q.op = "assign" THEN {q.cell} ELSE {})
         /\ \A g : /\ EnvOK(g, e) /\ PendingOK(g, q)
                   /\ q.cell \notin News(e) /\ (q.op # "assign" => q.cell \notin Assigns(e))
                   => EnvOK(g, Push(e, q))
<1> DEFINE d == Push(e, q)
           n == Len(e.pending)
<1>1. /\ d \in EnvType /\ d.frame = e.frame /\ d.closure = e.closure /\ d.lits = e.lits
      /\ n \in Nat /\ Len(d.pending) = n + 1 /\ d.pending[1] = q
      /\ \A k \in 1..n : d.pending[k + 1] = e.pending[k]
  BY PushIs
<1> HIDE DEF d
<1>2. Lits(d) = Lits(e)
  BY <1>1 DEF Lits
<1>3. \A k \in 1..(n + 1) : k = 1 \/ (k - 1 \in 1..n /\ k = (k - 1) + 1)
  BY <1>1
<1>4. \A k \in 1..(n + 1) : k = 1 \/ (k - 1 \in 1..n /\ d.pending[k] = e.pending[k - 1])
  BY <1>1, <1>3
<1>5. 1 \in 1..(n + 1) /\ \A k \in 1..n : k + 1 \in 1..(n + 1)
  BY <1>1
<1> HIDE DEF n
<1>6. News(d) = News(e) \union (IF q.op # "assign" THEN {q.cell} ELSE {})
  <2>1. News(d) \subseteq News(e) \union (IF q.op # "assign" THEN {q.cell} ELSE {})
    <3> SUFFICES ASSUME NEW k \in 1..(n + 1), d.pending[k].op # "assign"
                 PROVE  d.pending[k].cell \in News(e) \union (IF q.op # "assign" THEN {q.cell} ELSE {})
      BY <1>1 DEF News
    <3>1. CASE k = 1
      BY <1>1, <3>1
    <3>2. CASE k - 1 \in 1..n /\ d.pending[k] = e.pending[k - 1]
      BY <3>2 DEF News, n
    <3> QED  BY <1>4, <3>1, <3>2
  <2>2. News(e) \subseteq News(d)
    <3> SUFFICES ASSUME NEW k \in 1..n, e.pending[k].op # "assign" PROVE e.pending[k].cell \in News(d)
      BY DEF News, n
    <3> QED  BY <1>1, <1>5 DEF News
  <2>3. q.op # "assign" => q.cell \in News(d)
    BY <1>1, <1>5 DEF News
  <2> QED  BY <2>1, <2>2, <2>3
<1>7. Assigns(d) = Assigns(e) \union (IF q.op = "assign" THEN {q.cell} ELSE {})
  <2>1. Assigns(d) \subseteq Assigns(e) \union (IF q.op = "assign" THEN {q.cell} ELSE {})
    <3> SUFFICES ASSUME NEW k \in 1..(n + 1), d.pending[k].op = "assign"
                 PROVE  d.pending[k].cell \in Assigns(e) \union (IF q.op = "assign" THEN {q.cell} ELSE {})
      BY <1>1 DEF Assigns
    <3>1. CASE k = 1
      BY <1>1, <3>1
    <3>2. CASE k - 1 \in 1..n /\ d.pending[k] = e.pending[k - 1]
      BY <3>2 DEF Assigns, n
    <3> QED  BY <1>4, <3>1, <3>2
  <2>2. Assigns(e) \subseteq Assigns(d)
    <3> SUFFICES ASSUME NEW k \in 1..n, e.pending[k].op = "assign" PROVE e.pending[k].cell \in Assigns(d)
      BY DEF Assigns, n
    <3> QED  BY <1>1, <1>5 DEF Assigns
  <2>3. q.op = "assign" => q.cell \in Assigns(d)
    BY <1>1, <1>5 DEF Assigns
  <2> QED  BY <2>1, <2>2, <2>3
<1>8. ASSUME NEW g, EnvOK(g, e), PendingOK(g, q), q.cell \notin News(e),
             q.op # "assign" => q.cell \notin Assigns(e)
      PROVE  EnvOK(g, d)
  <2>1. ASSUME NEW k \in 1..(n + 1) PROVE PendingOK(g, d.pending[k])
    BY <1>1, <1>4, <1>8 DEF EnvOK, n
  <2>2. ASSUME NEW k \in 1..n
        PROVE  /\ e.pending[k].op # "assign" => e.pending[k].cell # q.cell
               /\ q.op # "assign" => e.pending[k].cell # q.cell
    BY <1>8 DEF News, Assigns, n
  <2>3. ASSUME NEW i \in 1..(n + 1), NEW j \in 1..(n + 1), i # j, d.pending[i].op # "assign"
        PROVE  d.pending[i].cell # d.pending[j].cell
    <3>1. CASE i = 1
      <4>1. j - 1 \in 1..n /\ d.pending[j] = e.pending[j - 1]
        BY <1>4, <2>3, <3>1
      <4> QED  BY <1>1, <2>2, <2>3, <3>1, <4>1
    <3>2. CASE j = 1
      <4>1. i - 1 \in 1..n /\ d.pending[i] = e.pending[i - 1]
        BY <1>4, <2>3, <3>2
      <4> QED  BY <1>1, <2>2, <2>3, <3>2, <4>1
    <3>3. CASE i # 1 /\ j # 1
      <4>1. i - 1 \in 1..n /\ d.pending[i] = e.pending[i - 1] /\ j - 1 \in 1..n /\ d.pending[j] = e.pending[j - 1]
        BY <1>4, <3>3
      <4>2. i - 1 # j - 1
        BY <2>3
      <4> QED  BY <1>8, <2>3, <4>1, <4>2 DEF EnvOK, n
    <3> QED  BY <3>1, <3>2, <3>3
  <2>4. \A i \in 1..Len(d.pending) : PendingOK(g, d.pending[i])
    BY <1>1, <2>1
  <2>5. \A i, j \in 1..Len(d.pending) :
          i # j /\ d.pending[i].op # "assign" => d.pending[i].cell # d.pending[j].cell
    BY <1>1, <2>3
  <2> QED  BY <1>1, <1>8, <2>4, <2>5 DEF EnvOK
<1> QED  BY <1>1, <1>2, <1>6, <1>7, <1>8 DEF d

LEMMA PopOK ==
  ASSUME NEW e \in EnvType, e.pending # <<>>
  PROVE  /\ Popped(e) \in EnvType /\ Popped(e).frame = e.frame
         /\ Lits(Popped(e)) = Lits(e) /\ Popped(e).lits = e.lits
         /\ News(Popped(e)) \subseteq News(e) /\ Assigns(Popped(e)) \subseteq Assigns(e)
         /\ Head(e.pending) \in PendingType
         /\ Head(e.pending).op = "assign" => Head(e.pending).cell \in Assigns(e)
         /\ Head(e.pending).op # "assign" => Head(e.pending).cell \in News(e)
         /\ \A g : EnvOK(g, e) => /\ EnvOK(g, Popped(e)) /\ PendingOK(g, Head(e.pending))
                                  /\ Head(e.pending).cell \notin News(Popped(e))
<1> DEFINE d == Popped(e)
           n == Len(e.pending)
           t == Tail(e.pending)
           q == Head(e.pending)
<1>1. e.pending \in Seq(PendingType)
  BY DEF EnvType
<1>2. /\ n \in Nat \ {0} /\ t \in Seq(PendingType) /\ Len(t) = n - 1
      /\ \A k \in 1..(n - 1) : t[k] = e.pending[k + 1]
      /\ q = e.pending[1] /\ q \in PendingType
  BY <1>1
<1>3. d = [e EXCEPT !.pending = t]
  BY DEF Popped, EnvType
<1> HIDE DEF t, q, n
<1>4. /\ d \in EnvType /\ d.frame = e.frame /\ d.closure = e.closure /\ d.lits = e.lits /\ d.pending = t
  BY <1>2, <1>3 DEF EnvType
<1> HIDE DEF d
<1>5. 1 \in 1..n /\ \A k \in 1..(n - 1) : k + 1 \in 1..n /\ k + 1 # 1
  BY <1>2
<1>6. Lits(d) = Lits(e)
  BY <1>4 DEF Lits
<1>7. News(d) \subseteq News(e) /\ Assigns(d) \subseteq Assigns(e)
  <2>1. \A k \in 1..Len(d.pending) : \E m \in 1..Len(e.pending) : d.pending[k] = e.pending[m]
    BY <1>2, <1>4, <1>5 DEF n
  <2>2. News(d) \subseteq News(e)
    <3> SUFFICES ASSUME NEW k \in 1..Len(d.pending), d.pending[k].op # "assign"
                 PROVE  d.pending[k].cell \in News(e)
      BY DEF News
    <3> QED  BY <2>1 DEF News
  <2>3. Assigns(d) \subseteq Assigns(e)
    <3> SUFFICES ASSUME NEW k \in 1..Len(d.pending), d.pending[k].op = "assign"
                 PROVE  d.pending[k].cell \in Assigns(e)
      BY DEF Assigns
    <3> QED  BY <2>1 DEF Assigns
  <2> QED  BY <2>2, <2>3
<1>8. (q.op = "assign" => q.cell \in Assigns(e)) /\ (q.op # "assign" => q.cell \in News(e))
  BY <1>2, <1>5 DEF News, Assigns, n
<1>9. ASSUME NEW g, EnvOK(g, e)
      PROVE  EnvOK(g, d) /\ PendingOK(g, q) /\ q.cell \notin News(d)
  <2>1. PendingOK(g, q)
    BY <1>2, <1>5, <1>9 DEF EnvOK, n
  <2>2. \A i, j \in 1..n : i # j /\ e.pending[i].op # "assign" => e.pending[i].cell # e.pending[j].cell
    BY <1>9 DEF EnvOK, n
  <2>3. \A i \in 1..(n - 1) : PendingOK(g, t[i])
    BY <1>2, <1>5, <1>9 DEF EnvOK, n
  <2>4. \A i, j \in 1..(n - 1) : i # j /\ t[i].op # "assign" => t[i].cell # t[j].cell
    <3> SUFFICES ASSUME NEW i \in 1..(n - 1), NEW j \in 1..(n - 1), i # j, t[i].op # "assign"
                 PROVE  t[i].cell # t[j].cell
      OBVIOUS
    <3>1. i + 1 # j + 1 /\ i + 1 \in 1..n /\ j + 1 \in 1..n
      BY <1>5
    <3>2. t[i] = e.pending[i + 1] /\ t[j] = e.pending[j + 1]
      BY <1>2
    <3>3. e.pending[i + 1].op # "assign" => e.pending[i + 1].cell # e.pending[j + 1].cell
      BY <2>2, <3>1
    <3> QED  BY <3>2, <3>3
  <2>5. \A i \in 1..(n - 1) : t[i].op # "assign" => t[i].cell # q.cell
    BY <1>2, <1>5, <2>2
  <2>6. q.cell \notin News(d)
    BY <1>2, <1>4, <2>5 DEF News
  <2>7. EnvOK(g, d)
    BY <1>2, <1>4, <1>9, <2>3, <2>4 DEF EnvOK
  <2> QED  BY <2>1, <2>6, <2>7
<1> QED  BY <1>2, <1>4, <1>6, <1>7, <1>8, <1>9 DEF d, q

LEMMA LitOK ==
  ASSUME NEW e \in EnvType, NEW o \in Cell
  PROVE  /\ WithLiteral(e, o) \in EnvType /\ WithLiteral(e, o).frame = e.frame
         /\ Lits(WithLiteral(e, o)) = Lits(e) \union {o}
         /\ News(WithLiteral(e, o)) = News(e) /\ Assigns(WithLiteral(e, o)) = Assigns(e)
         /\ \A g : EnvOK(g, e) /\ g.kind[o] = "object" /\ o \notin Lits(e) => EnvOK(g, WithLiteral(e, o))
<1> DEFINE d == WithLiteral(e, o)
           n == Len(e.lits)
           t == Append(e.lits, o)
<1>1. e.lits \in Seq(Cell)
  BY DEF EnvType
<1>2. n \in Nat /\ t \in Seq(Cell) /\ Len(t) = n + 1 /\ t[n + 1] = o /\ \A k \in 1..n : t[k] = e.lits[k]
  BY <1>1
<1>3. d = [e EXCEPT !.lits = t]
  BY DEF WithLiteral, EnvType
<1> HIDE DEF t, n
<1>4. /\ d \in EnvType /\ d.frame = e.frame /\ d.closure = e.closure /\ d.lits = t /\ d.pending = e.pending
  BY <1>2, <1>3 DEF EnvType
<1> HIDE DEF d
<1>5. \A k \in 1..(n + 1) : k = n + 1 \/ k \in 1..n
  BY <1>2
<1>6. n + 1 \in 1..(n + 1) /\ \A k \in 1..n : k \in 1..(n + 1) /\ k # n + 1
  BY <1>2
<1>7. Lits(d) = Lits(e) \union {o}
  <2>1. Lits(d) = {t[k] : k \in 1..(n + 1)}
    BY <1>2, <1>4 DEF Lits
  <2>2. Lits(e) = {e.lits[k] : k \in 1..n}
    BY DEF Lits, n
  <2>3. \A x : x \in Lits(d) <=> x \in Lits(e) \union {o}
    <3> TAKE x
    <3>1. ASSUME x \in Lits(d) PROVE x \in Lits(e) \union {o}
      BY <1>2, <1>5, <2>1, <2>2, <3>1
    <3>2. ASSUME x \in Lits(e) \union {o} PROVE x \in Lits(d)
      BY <1>2, <1>6, <2>1, <2>2, <3>2
    <3> QED  BY <3>1, <3>2
  <2> QED  BY <2>3
<1>8. News(d) = News(e) /\ Assigns(d) = Assigns(e)
  BY <1>4 DEF News, Assigns
<1>9. ASSUME NEW g, EnvOK(g, e), g.kind[o] = "object", o \notin Lits(e) PROVE EnvOK(g, d)
  <2>1. \A i \in 1..(n + 1) : g.kind[t[i]] = "object"
    BY <1>2, <1>5, <1>9 DEF EnvOK, n
  <2>2. \A i \in 1..n : e.lits[i] # o
    BY <1>9 DEF Lits, n
  <2>3. \A i, j \in 1..n : i # j => e.lits[i] # e.lits[j]
    BY <1>9 DEF EnvOK, n
  <2>4. \A i, j \in 1..(n + 1) : i # j => t[i] # t[j]
    BY <1>2, <1>5, <2>2, <2>3
  <2> QED  BY <1>2, <1>4, <1>9, <2>1, <2>4 DEF EnvOK
<1> QED  BY <1>4, <1>7, <1>8, <1>9 DEF d

-----------------------------------------------------------------------------
(* The steps, for given heaps and environments.                            *)

LEMMA StateIs ==
  ASSUME NEW h, NEW es, NEW lk, NEW cp, State(h, es, lk, cp)
  PROVE  /\ h \in HeapType /\ ~h.bad
         /\ es \in Seq(EnvType) /\ es # <<>> /\ Len(es) \in Nat \ {0} /\ 1 \in 1..Len(es)
         /\ es[1] \in EnvType /\ EnvOK(h, es[1])
         /\ \A k \in 2..Len(es) : k \in 1..Len(es)
         /\ lk \subseteq Cell /\ \A c \in lk : h.kind[c] = "object" /\ h.count[c] > 0
         /\ Well(h, All, Extra(Listed(es, lk)))
<1>1. es \in Seq(EnvType) /\ es # <<>>
  BY DEF State, EnvsOK
<1>2. Len(es) \in Nat \ {0} /\ 1 \in 1..Len(es) /\ \A k \in 2..Len(es) : k \in 1..Len(es)
  BY <1>1
<1>3. es[1] \in EnvType /\ EnvOK(h, es[1])
  BY <1>1, <1>2 DEF State, EnvsOK
<1>4. Well(h, All, Extra(Listed(es, lk)))
  BY DEF State
<1>5. lk \subseteq Cell /\ \A c \in lk : h.kind[c] = "object"
  BY DEF State, LeakedOK
<1>6. \A c \in lk : h.count[c] > 0
  BY <1>4, <1>5, ListedIs DEF Listed
<1>7. h \in HeapType /\ ~h.bad
  BY <1>4 DEF Well
<1> QED  BY <1>1, <1>2, <1>3, <1>4, <1>5, <1>6, <1>7

\* What is counted for the environments below the one that runs.
RestLits(es, lk) == (UNION {Lits(es[k]) : k \in 2..Len(es)}) \union lk \union {Declared}

LEMMA ListedParts ==
  ASSUME NEW es \in Seq(EnvType), es # <<>>, NEW lk
  PROVE  /\ Listed(es, lk) = Lits(es[1]) \union RestLits(es, lk)
         /\ \A e \in EnvType : Listed(Changed(es, e), lk) = Lits(e) \union RestLits(es, lk)
         /\ Listed(Tail(es), lk) = RestLits(es, lk)
<1>1. Len(es) \in Nat \ {0} /\ 1 \in 1..Len(es)
  OBVIOUS
<1>2. \A k \in 1..Len(es) : k = 1 \/ k \in 2..Len(es)
  BY <1>1
<1>3. \A k \in 2..Len(es) : k \in 1..Len(es)
  OBVIOUS
<1>4. AllLits(es) = Lits(es[1]) \union UNION {Lits(es[k]) : k \in 2..Len(es)}
  <2>1. \A x : x \in AllLits(es) <=> \E k \in 1..Len(es) : x \in Lits(es[k])
    BY DEF AllLits
  <2>2. \A x : x \in UNION {Lits(es[k]) : k \in 2..Len(es)} <=> \E k \in 2..Len(es) : x \in Lits(es[k])
    OBVIOUS
  <2> QED  BY <1>1, <1>2, <1>3, <2>1, <2>2
<1>5. ASSUME NEW e \in EnvType
      PROVE  AllLits(Changed(es, e)) = Lits(e) \union UNION {Lits(es[k]) : k \in 2..Len(es)}
  <2> DEFINE ds == Changed(es, e)
  <2>1. Len(ds) = Len(es) /\ ds[1] = e /\ \A k \in 2..Len(es) : ds[k] = es[k]
    BY ChangedIs
  <2> HIDE DEF ds
  <2>2. \A x : x \in AllLits(ds) <=> \E k \in 1..Len(es) : x \in Lits(ds[k])
    BY <2>1 DEF AllLits
  <2>3. \A x : x \in UNION {Lits(es[k]) : k \in 2..Len(es)} <=> \E k \in 2..Len(es) : x \in Lits(es[k])
    OBVIOUS
  <2>4. AllLits(ds) = Lits(e) \union UNION {Lits(es[k]) : k \in 2..Len(es)}
    BY <1>1, <1>2, <1>3, <2>1, <2>2, <2>3
  <2> QED  BY <2>4 DEF ds
<1>6. AllLits(Tail(es)) = UNION {Lits(es[k]) : k \in 2..Len(es)}
  <2> DEFINE ds == Tail(es)
  <2>1. Len(ds) = Len(es) - 1 /\ \A k \in 1..Len(ds) : ds[k] = es[k + 1]
    BY TailIs
  <2> HIDE DEF ds
  <2>2. \A k \in 1..Len(ds) : k + 1 \in 2..Len(es)
    BY <1>1, <2>1
  <2>3. \A k \in 2..Len(es) : k - 1 \in 1..Len(ds) /\ ds[k - 1] = es[k]
    <3> SUFFICES ASSUME NEW k \in 2..Len(es) PROVE k - 1 \in 1..Len(ds) /\ ds[k - 1] = es[k]
      OBVIOUS
    <3>1. k - 1 \in 1..Len(ds) /\ (k - 1) + 1 = k
      BY <1>1, <2>1
    <3> QED  BY <2>1, <3>1
  <2>4. \A x : x \in AllLits(ds) <=> \E k \in 1..Len(ds) : x \in Lits(ds[k])
    BY DEF AllLits
  <2>5. \A x : x \in UNION {Lits(es[k]) : k \in 2..Len(es)} <=> \E k \in 2..Len(es) : x \in Lits(es[k])
    OBVIOUS
  <2>6. \A x : (\E k \in 1..Len(ds) : x \in Lits(ds[k])) <=> (\E k \in 2..Len(es) : x \in Lits(es[k]))
    BY <2>1, <2>2, <2>3
  <2>7. AllLits(ds) = UNION {Lits(es[k]) : k \in 2..Len(es)}
    BY <2>4, <2>5, <2>6
  <2> QED  BY <2>7 DEF ds
<1> DEFINE U == UNION {Lits(es[k]) : k \in 2..Len(es)}
<1>7. RestLits(es, lk) = U \union lk \union {Declared}
  BY DEF RestLits
<1> HIDE DEF U
<1>8. /\ AllLits(es) = Lits(es[1]) \union U /\ AllLits(Tail(es)) = U
      /\ \A e \in EnvType : AllLits(Changed(es, e)) = Lits(e) \union U
  BY <1>4, <1>5, <1>6 DEF U
<1> QED  BY <1>7, <1>8 DEF Listed

LEMMA ListedAll ==
  ASSUME NEW es \in Seq(EnvType), es # <<>>, NEW lk
  PROVE  Listed(es, lk) = Lits(es[1]) \union RestLits(es, lk)
BY ListedParts

LEMMA ListedChanged ==
  ASSUME NEW es \in Seq(EnvType), es # <<>>, NEW lk, NEW e \in EnvType
  PROVE  Listed(Changed(es, e), lk) = Lits(e) \union RestLits(es, lk)
BY ListedParts

LEMMA RestApart ==
  ASSUME NEW h, NEW es, NEW lk, NEW cp, State(h, es, lk, cp)
  PROVE  Lits(es[1]) \intersect RestLits(es, lk) = {}
<1> SUFFICES ASSUME NEW c \in Lits(es[1]), c \in RestLits(es, lk) PROVE FALSE
  OBVIOUS
<1>1. 1 \in 1..Len(es) /\ \A k \in 2..Len(es) : k \in 1..Len(es) /\ k # 1
  BY StateIs
<1>2. c \in Cell /\ h.kind[c] = "object"
  BY <1>1, EnvCells
<1>3. c # Declared
  BY <1>2 DEF State
<1>4. c \in AllLits(es) /\ lk \intersect AllLits(es) = {}
  BY <1>1 DEF AllLits, State, LeakedOK
<1>5. PICK k \in 2..Len(es) : c \in Lits(es[k])
  BY <1>3, <1>4 DEF RestLits
<1>6. Apart(es[1], es[k])
  BY <1>1 DEF State, EnvsOK
<1> QED  BY <1>5, <1>6 DEF Apart

\* A cell that no environment is making.
LEMMA NotNew ==
  ASSUME NEW h, NEW es, NEW lk, NEW cp, State(h, es, lk, cp), NEW c,
         c \in Cell => h.kind[c] \notin {"object", "args"} \/ h.count[c] # 0
  PROVE  \A k \in 1..Len(es) : c \notin News(es[k])
BY EnvCells

\* eval_obj and eval_fcncall: a cell that the running environment is making.
LEMMA OnNew ==
  ASSUME NEW h, NEW es, NEW lk, NEW cp, State(h, es, lk, cp),
         {c \in Cell : h.kind[c] = "unused"} # {}, NEW op \in {"literal", "call"},
         NEW k, k = (IF op = "literal" THEN "object" ELSE "args"),
         NEW q, q = [op |-> op, cell |-> Fresh(h), slot |-> "p"],
         NEW g, g = Alloc(h, k)
  PROVE  /\ g \in HeapType /\ ~g.bad /\ Push(es[1], q) \in EnvType
         /\ State(g, Changed(es, Push(es[1], q)), lk, cp)
<1> DEFINE o == Fresh(h)
           e == Push(es[1], q)
<1>1. /\ es \in Seq(EnvType) /\ es # <<>> /\ es[1] \in EnvType /\ EnvOK(h, es[1]) /\ 1 \in 1..Len(es)
      /\ Well(h, All, Extra(Listed(es, lk))) /\ ~h.bad
      /\ lk \subseteq Cell /\ \A c \in lk : h.kind[c] = "object"
      /\ \A m \in 2..Len(es) : m \in 1..Len(es)
  BY StateIs
<1>2. k \in Valued \union {"frame"}
  BY DEF Valued
<1>3. /\ o \in Cell /\ h.kind[o] = "unused" /\ g \in HeapType /\ g.bad = h.bad
      /\ Well(g, All, Extra(Listed(es, lk))) /\ g.count = h.count /\ g.held = h.held
      /\ \A c \in Cell : g.kind[c] = IF c = o THEN k ELSE h.kind[c]
      /\ h.count[o] = 0 /\ h.held[o] = Nothing
  BY <1>1, <1>2, AllocWell
<1> HIDE DEF o
<1>4. Ages(h, g, {o})
  BY <1>3 DEF Ages
<1>5. \A m \in 1..Len(es) : o \notin News(es[m]) /\ o \notin Assigns(es[m]) /\ es[m].frame # o
  BY <1>3, EnvCells
<1>6. EnvOK(g, es[1])
  <2>1. {o} \intersect News(es[1]) = {} /\ es[1].frame \notin {o} /\ Lits(es[1]) \subseteq Listed(es, lk)
    BY <1>1, <1>5 DEF Listed, AllLits
  <2> QED  BY <1>1, <1>3, <1>4, <2>1, EnvRest
<1>7. q \in PendingType /\ q.cell = o /\ q.op = op /\ PendingOK(g, q)
  BY <1>3 DEF PendingType, PendingOK, Slots, o
<1>8. /\ e \in EnvType /\ e.frame = es[1].frame /\ Lits(e) = Lits(es[1])
      /\ News(e) = News(es[1]) \union {o} /\ Assigns(e) = Assigns(es[1])
  <2>1. /\ e \in EnvType /\ e.frame = es[1].frame /\ Lits(e) = Lits(es[1])
        /\ News(e) = News(es[1]) \union (IF q.op # "assign" THEN {q.cell} ELSE {})
        /\ Assigns(e) = Assigns(es[1]) \union (IF q.op = "assign" THEN {q.cell} ELSE {})
    BY <1>1, <1>7, PushOK
  <2>2. q.op # "assign" /\ q.cell = o
    BY <1>7
  <2> HIDE DEF e
  <2> QED  BY <2>1, <2>2
<1>9. EnvOK(g, e)
  BY <1>1, <1>5, <1>6, <1>7, PushOK
<1> HIDE DEF e
<1>10. Moved(h, g, es, e, {o}, {}, {o})
  BY <1>1, <1>3, <1>5, <1>8 DEF Moved
<1>11. {o} \intersect lk = {}
  BY <1>1, <1>3
<1>12. Listed(Changed(es, e), lk) = Listed(es, lk)
  <2>1. Listed(es, lk) = Lits(es[1]) \union RestLits(es, lk)
    BY <1>1, ListedAll
  <2>2. Listed(Changed(es, e), lk) = Lits(e) \union RestLits(es, lk)
    BY <1>1, <1>8, ListedChanged
  <2> QED  BY <1>8, <2>1, <2>2
<1>13. State(g, Changed(es, e), lk, cp)
  BY <1>3, <1>4, <1>8, <1>9, <1>10, <1>11, <1>12, StateMoves
<1> QED  BY <1>1, <1>3, <1>8, <1>13 DEF e

\* eval_assign: the address that is going to be written through.
LEMMA OnAddress ==
  ASSUME NEW h, NEW es, NEW lk, NEW cp, State(h, es, lk, cp), NEW c \in Cell, NEW s \in Slots,
         NEW q, q = [op |-> "assign", cell |-> c, slot |-> s], PendingOK(h, q),
         h.count[c] # 0 \/ h.kind[c] = "frame"
  PROVE  Push(es[1], q) \in EnvType /\ State(h, Changed(es, Push(es[1], q)), lk, cp)
<1> DEFINE e == Push(es[1], q)
<1>1. /\ es \in Seq(EnvType) /\ es # <<>> /\ es[1] \in EnvType /\ EnvOK(h, es[1]) /\ 1 \in 1..Len(es)
      /\ Well(h, All, Extra(Listed(es, lk)))
  BY StateIs
<1>2. Ages(h, h, {})
  BY DEF Ages
<1>3. q \in PendingType /\ q.cell = c /\ q.op = "assign"
  BY DEF PendingType
<1>4. c \notin News(es[1])
  BY <1>1, NotNew
<1>5. /\ e \in EnvType /\ e.frame = es[1].frame /\ Lits(e) = Lits(es[1])
      /\ News(e) = News(es[1]) /\ Assigns(e) = Assigns(es[1]) \union {c}
  <2>1. /\ e \in EnvType /\ e.frame = es[1].frame /\ Lits(e) = Lits(es[1])
        /\ News(e) = News(es[1]) \union (IF q.op # "assign" THEN {q.cell} ELSE {})
        /\ Assigns(e) = Assigns(es[1]) \union (IF q.op = "assign" THEN {q.cell} ELSE {})
    BY <1>1, <1>3, PushOK
  <2> HIDE DEF e
  <2> QED  BY <1>3, <2>1
<1>6. EnvOK(h, e)
  <2>1. q.op # "assign" => q.cell \notin Assigns(es[1])
    BY <1>3
  <2> QED  BY <1>1, <1>3, <1>4, <2>1, PushOK
<1> HIDE DEF e
<1>7. Moved(h, h, es, e, {}, {c}, {})
  BY <1>5 DEF Moved
<1>8. Listed(Changed(es, e), lk) = Listed(es, lk)
  <2>1. Listed(es, lk) = Lits(es[1]) \union RestLits(es, lk)
    BY <1>1, ListedAll
  <2>2. Listed(Changed(es, e), lk) = Lits(e) \union RestLits(es, lk)
    BY <1>1, <1>5, ListedChanged
  <2> QED  BY <1>5, <2>1, <2>2
<1>9. State(h, Changed(es, e), lk, cp)
  BY <1>1, <1>2, <1>5, <1>6, <1>7, <1>8, StateMoves
<1> QED  BY <1>5, <1>9 DEF e

LEMMA AgesCells == ASSUME NEW h, NEW g, NEW S, Ages(h, g, S) PROVE Ages(h, g, S \intersect Cell)
BY DEF Ages

LEMMA ChangedSame == ASSUME NEW es \in Seq(EnvType), es # <<>> PROVE Changed(es, es[1]) = es
<1> DEFINE ds == Changed(es, es[1])
<1>1. es[1] \in EnvType /\ Len(es) \in Nat \ {0}
  OBVIOUS
<1>2. ds \in Seq(EnvType) /\ Len(ds) = Len(es) /\ ds[1] = es[1] /\ \A k \in 2..Len(es) : ds[k] = es[k]
  BY <1>1, ChangedIs
<1> HIDE DEF ds
<1>3. \A k \in 1..Len(es) : ds[k] = es[k]
  BY <1>1, <1>2
<1>4. ds = es
  BY <1>2, <1>3
<1> QED  BY <1>4 DEF ds

\* eval_obj of a literal without properties.
LEMMA OnEmptyLiteral ==
  ASSUME NEW h, NEW es, NEW lk, NEW cp, State(h, es, lk, cp),
         {c \in Cell : h.kind[c] = "unused"} # {},
         NEW o, o = Fresh(h), NEW g, g = Incr(Alloc(h, "object"), o)
  PROVE  /\ g \in HeapType /\ o \in Cell /\ WithLiteral(es[1], o) \in EnvType
         /\ ~g.bad => /\ State(g, Changed(es, WithLiteral(es[1], o)), lk, cp)
                      /\ ValueOK(g, Changed(es, WithLiteral(es[1], o)), o)
<1> DEFINE e == WithLiteral(es[1], o)
           i == Alloc(h, "object")
           L == Listed(es, lk)
           ds == Changed(es, e)
<1>1. /\ es \in Seq(EnvType) /\ es # <<>> /\ es[1] \in EnvType /\ EnvOK(h, es[1]) /\ 1 \in 1..Len(es)
      /\ Well(h, All, Extra(L)) /\ ~h.bad
      /\ lk \subseteq Cell /\ \A c \in lk : h.kind[c] = "object"
      /\ \A m \in 2..Len(es) : m \in 1..Len(es)
  BY StateIs
<1>2. "object" \in Valued \union {"frame"}
  BY DEF Valued
<1> HIDE DEF L
<1>3. /\ o \in Cell /\ h.kind[o] = "unused" /\ i \in HeapType /\ i.bad = h.bad
      /\ Well(i, All, Extra(L)) /\ i.count = h.count /\ i.held = h.held
      /\ \A c \in Cell : i.kind[c] = IF c = o THEN "object" ELSE h.kind[c]
      /\ h.count[o] = 0 /\ h.held[o] = Nothing
  BY <1>1, <1>2, AllocWell
<1> HIDE DEF i
<1>4. g \in HeapType /\ g.kind = i.kind /\ g.held = i.held
  BY <1>3, IncrIs DEF Recounted, i
<1>5. /\ e \in EnvType /\ e.frame = es[1].frame /\ Lits(e) = Lits(es[1]) \union {o}
      /\ News(e) = News(es[1]) /\ Assigns(e) = Assigns(es[1])
  BY <1>1, <1>3, LitOK
<1>6. ASSUME ~g.bad PROVE State(g, ds, lk, cp) /\ ValueOK(g, ds, o)
  <2>1. \A c \in Cell : g.count[c] = IF c = o THEN i.count[c] + 1 ELSE i.count[c]
    BY <1>3, <1>6, IncrIs DEF i
  <2>2. Well(g, All, Plus(Extra(L), o))
    <3>1. i.kind[o] \in Valued \union {"freed"} /\ ~Incr(i, o).bad /\ g = Incr(i, o)
      BY <1>3, <1>6 DEF Valued, i
    <3> QED  BY <1>3, <3>1, IncrWell
  <2>3. o \notin L
    <3>1. o \in L => h.kind[o] \in Valued
      BY <1>1, <1>3, ListedIs
    <3> QED  BY <1>3, <3>1 DEF Valued
  <2>4. Well(g, All, Extra(L \union {o}))
    BY <1>3, <2>2, <2>3, ExtraPlus
  <2>5. Ages(h, g, {o})
    BY <1>3, <1>4, <2>1 DEF Ages
  <2>6. \A m \in 1..Len(es) : o \notin News(es[m]) /\ o \notin Assigns(es[m]) /\ es[m].frame # o /\ o \notin Lits(es[m])
    BY <1>3, EnvCells
  <2>7. EnvOK(g, es[1])
    <3>1. {o} \intersect News(es[1]) = {} /\ es[1].frame \notin {o} /\ Lits(es[1]) \subseteq L \union {o}
      BY <1>1, <2>6 DEF Listed, AllLits, L
    <3> QED  BY <1>1, <2>4, <2>5, <3>1, EnvRest
  <2>8. EnvOK(g, e)
    <3>1. g.kind[o] = "object" /\ o \notin Lits(es[1])
      BY <1>1, <1>3, <1>4, <2>6
    <3> QED  BY <1>1, <1>3, <2>7, <3>1, LitOK
  <2> HIDE DEF e
  <2>9. Moved(h, g, es, e, {o}, {}, {o})
    BY <1>1, <1>3, <1>4, <1>5, <2>6 DEF Moved
  <2>10. {o} \intersect lk = {}
    BY <1>1, <1>3
  <2>11. Listed(ds, lk) = L \union {o}
    <3>1. L = Lits(es[1]) \union RestLits(es, lk)
      BY <1>1, ListedAll DEF L
    <3>2. Listed(ds, lk) = Lits(e) \union RestLits(es, lk)
      BY <1>1, <1>5, ListedChanged
    <3> QED  BY <1>5, <3>1, <3>2
  <2>12. State(g, ds, lk, cp)
    BY <1>5, <2>4, <2>5, <2>8, <2>9, <2>10, <2>11, StateMoves
  <2>13. ValueOK(g, ds, o)
    <3> HIDE DEF ds
    <3>1. g.kind[o] = "object" /\ g.count[o] # 0
      BY <1>3, <1>4, <2>1
    <3>2. \A k \in 1..Len(ds) : o \notin News(ds[k])
      BY <2>12, <3>1, NotNew
    <3> QED  BY <3>1, <3>2 DEF ValueOK, Valued
  <2> QED  BY <2>12, <2>13
<1> QED  BY <1>3, <1>4, <1>5, <1>6

\* newClosure.
LEMMA OnFunction ==
  ASSUME NEW h, NEW es, NEW lk, NEW cp, State(h, es, lk, cp),
         {c \in Cell : h.kind[c] = "unused"} # {},
         NEW o, o = Fresh(h), NEW g, g = Alloc(h, "closure"),
         NEW c2 \in [Cell -> Cell \union {Nil}], \A c \in Cell : c2[c] = IF c = o THEN es[1].frame ELSE cp[c]
  PROVE  /\ g \in HeapType /\ ~g.bad /\ o \in Cell
         /\ State(g, es, lk, c2) /\ ValueOK(g, es, o)
<1> DEFINE L == Listed(es, lk)
<1>1. /\ es \in Seq(EnvType) /\ es # <<>> /\ es[1] \in EnvType /\ EnvOK(h, es[1]) /\ 1 \in 1..Len(es)
      /\ Well(h, All, Extra(L)) /\ ~h.bad
      /\ \A m \in 2..Len(es) : m \in 1..Len(es)
  BY StateIs
<1>2. "closure" \in Valued \union {"frame"}
  BY DEF Valued
<1>3. /\ o \in Cell /\ h.kind[o] = "unused" /\ g \in HeapType /\ g.bad = h.bad
      /\ Well(g, All, Extra(L)) /\ g.count = h.count /\ g.held = h.held
      /\ \A c \in Cell : g.kind[c] = IF c = o THEN "closure" ELSE h.kind[c]
  <2> HIDE DEF L
  <2> QED  BY <1>1, <1>2, AllocWell
<1>4. Ages(h, g, {o})
  BY <1>3 DEF Ages
<1>5. \A m \in 1..Len(es) : o \notin News(es[m]) /\ es[m].frame # o
  BY <1>3, EnvCells
<1>6. EnvOK(g, es[1])
  <2>1. {o} \intersect News(es[1]) = {} /\ es[1].frame \notin {o} /\ Lits(es[1]) \subseteq L
    BY <1>1, <1>5 DEF Listed, AllLits
  <2> HIDE DEF L
  <2> QED  BY <1>1, <1>3, <1>4, <2>1, EnvRest
<1>7. Moved(h, g, es, es[1], {}, {}, {o})
  BY <1>1, <1>3, <1>5 DEF Moved
<1>8. Changed(es, es[1]) = es
  BY <1>1, ChangedSame
<1>9. State(g, es, lk, cp)
  <2>1. {} \intersect lk = {}
    OBVIOUS
  <2> QED  BY <1>1, <1>3, <1>4, <1>6, <1>7, <1>8, <2>1, StateMoves
<1>10. CapturedOK(g, c2) /\ c2 \in [Cell -> Cell \union {Nil}]
  <2>1. cp \in [Cell -> Cell \union {Nil}] /\ \A c \in Cell : cp[c] # Nil => g.kind[cp[c]] \in {"frame", "freed"}
    BY <1>9 DEF State, CapturedOK
  <2>2. es[1].frame \in Cell /\ g.kind[es[1].frame] = "frame"
    BY <1>1, <1>9, EnvCells
  <2> QED  BY <1>3, <2>1, <2>2 DEF CapturedOK
<1>11. State(g, es, lk, c2)
  BY <1>9, <1>10 DEF State
<1>12. ValueOK(g, es, o)
  BY <1>3, <1>5 DEF ValueOK, Valued
<1> QED  BY <1>1, <1>3, <1>10, <1>11, <1>12

\* An assignment has its value.
LEMMA OnAssigned ==
  ASSUME NEW h, NEW es, NEW lk, NEW cp, State(h, es, lk, cp), NEW v \in Cell \union {Nil}, ValueOK(h, es, v),
         es[1].pending # <<>>, NEW q, q = Head(es[1].pending), q.op = "assign",
         NEW g, g = ReplaceValue(h, q.cell, q.slot, v)
  PROVE  /\ g \in HeapType /\ Popped(es[1]) \in EnvType
         /\ ~g.bad => /\ State(g, Changed(es, Popped(es[1])), lk, cp)
                      /\ ValueOK(g, Changed(es, Popped(es[1])), v)
<1> DEFINE e == Popped(es[1])
           c == q.cell
           s == q.slot
           L == Listed(es, lk)
           S == (IF s = "p" THEN {c, v} ELSE {v}) \intersect Cell
           ds == Changed(es, e)
<1>1. /\ h \in HeapType /\ es \in Seq(EnvType) /\ es # <<>> /\ es[1] \in EnvType /\ EnvOK(h, es[1])
      /\ 1 \in 1..Len(es) /\ Well(h, All, Extra(L)) /\ ~h.bad
      /\ \A m \in 2..Len(es) : m \in 1..Len(es)
  BY StateIs
<1>2. /\ e \in EnvType /\ e.frame = es[1].frame /\ Lits(e) = Lits(es[1])
      /\ News(e) \subseteq News(es[1]) /\ Assigns(e) \subseteq Assigns(es[1])
      /\ q \in PendingType /\ c \in Assigns(es[1])
  BY <1>1, PopOK
<1>3. EnvOK(h, e) /\ PendingOK(h, q) /\ c \notin News(e)
  BY <1>1, PopOK
<1>4. c \in Cell /\ s \in Slots
  BY <1>2 DEF PendingType
<1> HIDE DEF L, e
<1>5. g \in HeapType
  BY <1>1, <1>4, ReplaceValueIs
<1>6. ASSUME ~g.bad PROVE State(g, ds, lk, cp) /\ ValueOK(g, ds, v)
  <2>1. v # Nil => h.kind[v] \in Valued \union {"freed"}
    BY DEF ValueOK
  <2>2. (Slot(h, c, s) \/ h.kind[c] = "freed") /\ s # "ret" /\ (s # "p" => h.kind[c] \in {"frame", "freed"})
    BY <1>3 DEF PendingOK, Slot
  <2>3. /\ Well(g, All, Extra(L)) /\ h.kind[c] # "freed"
        /\ \A d \in Cell :
             /\ g.kind[d] = h.kind[d] \/ (h.kind[d] \in Valued /\ g.kind[d] = "freed")
             /\ g.kind[d] = h.kind[d] => \A r \in Slots : (d # c \/ r # s) => g.held[d][r] = h.held[d][r]
             /\ g.kind[d] = h.kind[d] /\ d # c => g.held[d] = h.held[d]
             /\ h.count[d] = 0 /\ d # v => g.kind[d] = h.kind[d] /\ g.count[d] = 0
    <3>1. g = ReplaceValue(h, c, s, v)
      OBVIOUS
    <3> HIDE DEF c, s
    <3>2. Rewritten(h, g, Extra(L), c, s, v)
      BY <1>1, <1>4, <1>6, <2>1, <2>2, <3>1, SlotRewritten
    <3> QED  BY <3>2 DEF Rewritten
  <2> HIDE DEF c, s
  <2>4. Ages(h, g, S)
    <3> SUFFICES ASSUME NEW d \in Cell
                 PROVE  /\ h.kind[d] # "unused" => g.kind[d] \in {h.kind[d], "freed"}
                        /\ d \notin S =>
                             /\ h.kind[d] = "frame" => g.kind[d] = "frame" /\ g.held[d]["ret"] = h.held[d]["ret"]
                             /\ g.kind[d] = "frame" => h.kind[d] = "frame"
                             /\ h.kind[d] \in Valued /\ h.count[d] = 0 =>
                                  g.kind[d] = h.kind[d] /\ g.count[d] = 0 /\ g.held[d] = h.held[d]
      BY DEF Ages
    <3>1. g.kind[d] = h.kind[d] \/ (h.kind[d] \in Valued /\ g.kind[d] = "freed")
      BY <2>3
    <3>2. ASSUME h.kind[d] = "frame" PROVE g.kind[d] = "frame" /\ g.held[d]["ret"] = h.held[d]["ret"]
      <4>1. g.kind[d] = "frame"
        BY <3>1, <3>2 DEF Valued
      <4>2. "ret" \in Slots /\ "ret" # s
        BY <2>2 DEF Slots
      <4> QED  BY <2>3, <3>2, <4>1, <4>2
    <3>3. ASSUME d \notin S, h.kind[d] \in Valued, h.count[d] = 0
          PROVE  g.kind[d] = h.kind[d] /\ g.count[d] = 0 /\ g.held[d] = h.held[d]
      <4>1. d # v
        BY <3>3
      <4>2. d # c
        <5>1. CASE s = "p"
          BY <3>3, <5>1
        <5>2. CASE s # "p"
          BY <2>2, <3>3, <5>2 DEF Valued
        <5> QED  BY <5>1, <5>2
      <4> QED  BY <2>3, <3>3, <4>1, <4>2
    <3> QED  BY <3>1, <3>2, <3>3
  <2>5. \A d \in S : d \in Cell /\ h.kind[d] # "frame" /\ g.kind[d] # "frame"
    <3>1. s = "p" => h.kind[c] \in {"object", "args"}
      BY <2>2, <2>3 DEF Slot
    <3>2. v \in Cell => h.kind[v] \in Valued \union {"freed"}
      BY <2>1, Cells
    <3>3. \A d \in S : d \in Cell /\ h.kind[d] \in {"object", "args"} \union Valued \union {"freed"}
      BY <3>1, <3>2
    <3> QED  BY <2>3, <3>3 DEF Valued
  <2>6. \A k \in 1..Len(es) : v \notin News(es[k])
    BY DEF ValueOK
  <2>7. \A k \in 2..Len(es) : c \notin News(es[k])
    <3> SUFFICES ASSUME NEW k \in 2..Len(es) PROVE c \notin News(es[k])
      OBVIOUS
    <3>1. Apart(es[k], es[1])
      BY <1>1 DEF State, EnvsOK
    <3> QED  BY <1>2, <3>1 DEF Apart, c
  <2>8. EnvOK(g, e)
    <3>1. h.kind[e.frame] = "frame"
      BY <1>3 DEF EnvOK
    <3>2. S \intersect News(e) = {} /\ e.frame \notin S
      BY <1>1, <1>2, <1>3, <2>5, <2>6, <3>1 DEF c
    <3>3. Lits(e) \subseteq L
      BY <1>1, <1>2 DEF Listed, AllLits, L
    <3>4. Well(g, All, Extra(L))
      BY <2>3
    <3> HIDE DEF S
    <3> QED  BY <1>2, <1>3, <2>4, <3>2, <3>3, <3>4, EnvStays
  <2>9. Moved(h, g, es, e, {}, {}, S)
    BY <1>1, <1>2, <2>5, <2>6, <2>7 DEF Moved
  <2>10. Listed(ds, lk) = L
    <3>1. L = Lits(es[1]) \union RestLits(es, lk)
      BY <1>1, ListedAll DEF L
    <3>2. Listed(ds, lk) = Lits(e) \union RestLits(es, lk)
      BY <1>1, <1>2, ListedChanged
    <3> QED  BY <1>2, <3>1, <3>2
  <2> HIDE DEF S
  <2>11. State(g, ds, lk, cp)
    <3>1. {} \intersect lk = {}
      OBVIOUS
    <3> QED  BY <1>2, <2>3, <2>4, <2>8, <2>9, <2>10, <3>1, StateMoves
  <2>12. ValueOK(g, ds, v)
    <3>1. v # Nil => g.kind[v] \in Valued \union {"freed"}
      BY <2>1, <2>3
    <3>2. Len(ds) = Len(es) /\ ds[1] = e /\ \A k \in 2..Len(es) : ds[k] = es[k]
      BY <1>1, <1>2, ChangedIs
    <3> HIDE DEF ds
    <3>3. \A k \in 1..Len(ds) : v \notin News(ds[k])
      BY <1>1, <1>2, <2>6, <3>2
    <3> QED  BY <3>1, <3>3 DEF ValueOK
  <2> QED  BY <2>11, <2>12
<1> QED  BY <1>2, <1>5, <1>6 DEF e

\* A literal has the value of its property.
LEMMA OnLiteralMade ==
  ASSUME NEW h, NEW es, NEW lk, NEW cp, State(h, es, lk, cp), NEW v \in Cell \union {Nil}, ValueOK(h, es, v),
         es[1].pending # <<>>, NEW q, q = Head(es[1].pending), q.op = "literal",
         NEW g, g = Incr(ReplaceSlot(h, q.cell, "p", v), q.cell)
  PROVE  /\ g \in HeapType /\ q.cell \in Cell /\ WithLiteral(Popped(es[1]), q.cell) \in EnvType
         /\ ~g.bad => /\ State(g, Changed(es, WithLiteral(Popped(es[1]), q.cell)), lk, cp)
                      /\ ValueOK(g, Changed(es, WithLiteral(Popped(es[1]), q.cell)), q.cell)
<1> DEFINE d == Popped(es[1])
           c == q.cell
           e == WithLiteral(d, c)
           L == Listed(es, lk)
           S == {c, v} \intersect Cell
           ds == Changed(es, e)
           i == ReplaceSlot(h, c, "p", v)
<1>1. /\ h \in HeapType /\ es \in Seq(EnvType) /\ es # <<>> /\ es[1] \in EnvType /\ EnvOK(h, es[1])
      /\ 1 \in 1..Len(es) /\ Well(h, All, Extra(L)) /\ ~h.bad
      /\ \A m \in 2..Len(es) : m \in 1..Len(es)
      /\ \A x \in lk : h.count[x] > 0
  BY StateIs
<1>2. /\ d \in EnvType /\ d.frame = es[1].frame /\ Lits(d) = Lits(es[1])
      /\ News(d) \subseteq News(es[1]) /\ Assigns(d) \subseteq Assigns(es[1])
      /\ q \in PendingType /\ c \in News(es[1])
  BY <1>1, PopOK
<1>3. EnvOK(h, d) /\ PendingOK(h, q) /\ c \notin News(d)
  BY <1>1, PopOK
<1>4. /\ c \in Cell /\ h.kind[c] = "object" /\ h.count[c] = 0 /\ h.held[c] = Nothing
      /\ h.held[c]["p"] = Nil /\ "p" \in Slots
  BY <1>2, <1>3 DEF PendingType, PendingOK, Nothing, Slots
<1> HIDE DEF L, d, c
<1>5. /\ e \in EnvType /\ e.frame = d.frame /\ Lits(e) = Lits(d) \union {c}
      /\ News(e) = News(d) /\ Assigns(e) = Assigns(d)
  BY <1>2, <1>4, LitOK
<1>6. i \in HeapType
  BY <1>1, <1>4, ReplaceSlotIs
<1> HIDE DEF i
<1>7. g = Incr(i, c) /\ g \in HeapType /\ g.kind = i.kind /\ g.held = i.held
  BY <1>4, <1>6, IncrIs DEF Recounted, i, c
<1>8. ASSUME ~g.bad PROVE State(g, ds, lk, cp) /\ ValueOK(g, ds, c)
  <2>1. ~i.bad /\ \A x \in Cell : g.count[x] = IF x = c THEN i.count[x] + 1 ELSE i.count[x]
    BY <1>4, <1>6, <1>7, <1>8, IncrIs
  <2>2. v # Nil => h.kind[v] \in Valued \union {"freed"}
    BY DEF ValueOK
  <2>3. /\ Well(i, All, Extra(L)) /\ i.kind = h.kind
        /\ \A x \in Cell : i.count[x] = IF x = v THEN h.count[x] + 1 ELSE h.count[x]
        /\ \A x \in Cell : x # c => i.held[x] = h.held[x]
    <3>1. Slot(h, c, "p") /\ i = ReplaceSlot(h, c, "p", v) /\ h.held[c]["p"] = Nil /\ "p" \in Slots
      BY <1>4 DEF Slot, i, Slots
    <3>2. Written(h, i, Extra(L), c, "p", v)
      BY <1>1, <1>4, <2>1, <2>2, <3>1, SlotWritten
    <3> QED  BY <3>2 DEF Written
  <2>4. Well(g, All, Plus(Extra(L), c))
    <3>1. i.kind[c] \in Valued \union {"freed"} /\ ~Incr(i, c).bad
      BY <1>4, <1>7, <1>8, <2>3 DEF Valued
    <3> QED  BY <1>4, <1>7, <2>3, <3>1, IncrWell
  <2>5. c \notin L
    <3>1. c \in L => h.count[c] > 0
      BY <1>1, <1>4, ListedIs
    <3> QED  BY <1>4, <3>1
  <2>6. Well(g, All, Extra(L \union {c}))
    BY <1>4, <2>4, <2>5, ExtraPlus
  <2>7. Ages(h, g, S)
    <3> SUFFICES ASSUME NEW x \in Cell
                 PROVE  /\ h.kind[x] # "unused" => g.kind[x] \in {h.kind[x], "freed"}
                        /\ x \notin S =>
                             /\ h.kind[x] = "frame" => g.kind[x] = "frame" /\ g.held[x]["ret"] = h.held[x]["ret"]
                             /\ g.kind[x] = "frame" => h.kind[x] = "frame"
                             /\ h.kind[x] \in Valued /\ h.count[x] = 0 =>
                                  g.kind[x] = h.kind[x] /\ g.count[x] = 0 /\ g.held[x] = h.held[x]
      BY DEF Ages
    <3>1. g.kind[x] = h.kind[x]
      BY <1>7, <2>3
    <3>2. x \notin S => g.held[x] = h.held[x] /\ g.count[x] = h.count[x]
      BY <1>7, <2>1, <2>3
    <3> QED  BY <3>1, <3>2
  <2>8. \A x \in S : x \in Cell /\ h.kind[x] # "frame" /\ g.kind[x] # "frame"
    <3>1. v \in Cell => h.kind[v] \in Valued \union {"freed"}
      BY <2>2, Cells
    <3> QED  BY <1>4, <1>7, <2>3, <3>1 DEF Valued
  <2>9. \A k \in 1..Len(es) : v \notin News(es[k])
    BY DEF ValueOK
  <2>10. \A k \in 2..Len(es) : c \notin News(es[k])
    <3> SUFFICES ASSUME NEW k \in 2..Len(es) PROVE c \notin News(es[k])
      OBVIOUS
    <3>1. Apart(es[k], es[1])
      BY <1>1 DEF State, EnvsOK
    <3> QED  BY <1>2, <3>1 DEF Apart
  <2>11. EnvOK(g, d)
    <3>1. h.kind[d.frame] = "frame"
      BY <1>3 DEF EnvOK
    <3>2. S \intersect News(d) = {} /\ d.frame \notin S
      BY <1>1, <1>2, <1>3, <2>8, <2>9, <3>1 DEF c
    <3>3. Lits(d) \subseteq L \union {c}
      BY <1>1, <1>2 DEF Listed, AllLits, L
    <3> HIDE DEF S
    <3> QED  BY <1>2, <1>3, <2>6, <2>7, <3>2, <3>3, EnvStays
  <2>12. EnvOK(g, e)
    <3>1. g.kind[c] = "object"
      BY <1>4, <1>7, <2>3
    <3>2. c \notin Lits(d)
      BY <1>1, <1>2, <1>4, EnvCells
    <3> QED  BY <1>2, <1>4, <2>11, <3>1, <3>2, LitOK
  <2> HIDE DEF e
  <2>13. Moved(h, g, es, e, {c}, {}, S)
    BY <1>1, <1>2, <1>4, <1>5, <2>8, <2>9, <2>10 DEF Moved
  <2>14. {c} \intersect lk = {}
    BY <1>1, <1>4
  <2>15. Listed(ds, lk) = L \union {c}
    <3>1. L = Lits(es[1]) \union RestLits(es, lk)
      BY <1>1, ListedAll DEF L
    <3>2. Listed(ds, lk) = Lits(e) \union RestLits(es, lk)
      BY <1>1, <1>5, ListedChanged
    <3> QED  BY <1>2, <1>5, <3>1, <3>2
  <2> HIDE DEF S
  <2>16. State(g, ds, lk, cp)
    BY <1>5, <2>6, <2>7, <2>12, <2>13, <2>14, <2>15, StateMoves
  <2>17. ValueOK(g, ds, c)
    <3> HIDE DEF ds
    <3>1. g.kind[c] = "object"
      BY <1>4, <1>7, <2>3
    <3>2. \A x \in Cell : i.count[x] \in Nat
      BY <2>3, Referred
    <3>3. g.count[c] # 0
      BY <1>4, <2>1, <3>2
    <3>4. \A k \in 1..Len(ds) : c \notin News(ds[k])
      BY <2>16, <3>3, NotNew
    <3> QED  BY <3>1, <3>4 DEF ValueOK, Valued
  <2> QED  BY <2>16, <2>17
<1> QED  BY <1>4, <1>5, <1>7, <1>8 DEF e, d, c

\* A value that nobody stored is abandoned.
LEMMA OnDiscarded ==
  ASSUME NEW h, NEW es, NEW lk, NEW cp, State(h, es, lk, cp), NEW v \in Cell \union {Nil}, ValueOK(h, es, v),
         NEW g, g = Abandon(h, v), ~g.bad
  PROVE  State(g, es, lk, cp)
<1> DEFINE L == Listed(es, lk)
           S == {v} \intersect Cell
<1>1. /\ h \in HeapType /\ es \in Seq(EnvType) /\ es # <<>> /\ es[1] \in EnvType /\ EnvOK(h, es[1])
      /\ 1 \in 1..Len(es) /\ Well(h, All, Extra(L))
      /\ \A m \in 2..Len(es) : m \in 1..Len(es)
  BY StateIs
<1>2. v # Nil => h.kind[v] \in Valued \union {"freed"}
  BY DEF ValueOK
<1> HIDE DEF L
<1>3. Well(g, All, Extra(L)) /\ Later(h, g, {v})
  BY <1>1, <1>2, AbandonWell
<1>4. Ages(h, g, S)
  BY <1>3, AgesLater, AgesCells
<1>5. \A x \in S : x \in Cell /\ h.kind[x] # "frame" /\ g.kind[x] # "frame"
  <2>1. \A x \in S : x \in Cell /\ h.kind[x] \in Valued \union {"freed"}
    BY <1>2, Cells
  <2> QED  BY <1>3, <2>1 DEF Later, Valued
<1>6. \A k \in 1..Len(es) : v \notin News(es[k])
  BY DEF ValueOK
<1>7. EnvOK(g, es[1])
  <2>1. h.kind[es[1].frame] = "frame"
    BY <1>1 DEF EnvOK
  <2>2. S \intersect News(es[1]) = {} /\ es[1].frame \notin S /\ Lits(es[1]) \subseteq L
    BY <1>1, <1>5, <1>6, <2>1 DEF Listed, AllLits, L
  <2> HIDE DEF S
  <2> QED  BY <1>1, <1>3, <1>4, <2>2, EnvRest
<1>8. Moved(h, g, es, es[1], {}, {}, S)
  BY <1>1, <1>5, <1>6 DEF Moved
<1> HIDE DEF S
<1>9. Changed(es, es[1]) = es /\ {} \intersect lk = {}
  BY <1>1, ChangedSame
<1>10. Well(g, All, Extra(Listed(Changed(es, es[1]), lk)))
  BY <1>3, <1>9 DEF L
<1>11. State(g, Changed(es, es[1]), lk, cp)
  BY <1>1, <1>4, <1>7, <1>8, <1>9, <1>10, StateMoves
<1> QED  BY <1>9, <1>11

\* The literals of the environment that runs are abandoned.
LEMMA DropRest ==
  ASSUME NEW h, NEW es, NEW lk, NEW cp, State(h, es, lk, cp),
         NEW d, Well(d, All, Extra(Listed(es, lk))),
         NEW g, g = DropLiterals(d, es[1].lits), ~g.bad
  PROVE  Well(g, All, Extra(RestLits(es, lk))) /\ Later(d, g, {})
<1> DEFINE L == Listed(es, lk)
           R == RestLits(es, lk)
<1>1. es \in Seq(EnvType) /\ es # <<>> /\ es[1] \in EnvType /\ EnvOK(h, es[1])
  BY StateIs
<1>2. es[1].lits \in Seq(Cell)
  BY <1>1 DEF EnvType
<1>3. L = Lits(es[1]) \union R /\ L \ Lits(es[1]) = R
  <2>1. L = Lits(es[1]) \union R
    BY <1>1, ListedAll
  <2>2. Lits(es[1]) \intersect R = {}
    BY RestApart
  <2> HIDE DEF L, R
  <2> QED  BY <2>1, <2>2
<1>4. Well(d, All, Extra(L))
  OBVIOUS
<1> HIDE DEF L, R
<1>5. /\ \A i \in 1..Len(es[1].lits) : es[1].lits[i] \in L
      /\ \A i, j \in 1..Len(es[1].lits) : i # j => es[1].lits[i] # es[1].lits[j]
  BY <1>1, <1>3 DEF Lits, EnvOK
<1>6. Well(g, All, Extra(L \ {es[1].lits[i] : i \in 1..Len(es[1].lits)})) /\ Later(d, g, {})
  BY <1>2, <1>4, <1>5, DropWell
<1>7. {es[1].lits[i] : i \in 1..Len(es[1].lits)} = Lits(es[1])
  BY DEF Lits
<1>8. Well(g, All, Extra(R))
  BY <1>3, <1>6, <1>7
<1> QED  BY <1>6, <1>8 DEF R

\* A block ends: its literals are abandoned.
LEMMA OnBlockEnded ==
  ASSUME NEW h, NEW es, NEW lk, NEW cp, State(h, es, lk, cp),
         NEW d, d = DropLiterals(h, es[1].lits), NEW e, e = [es[1] EXCEPT !.lits = <<>>]
  PROVE  /\ d \in HeapType /\ e \in EnvType
         /\ ~d.bad => /\ State(d, Changed(es, e), lk, cp) /\ Ages(h, d, {})
                      /\ \A k \in 1..Len(es) : News(Changed(es, e)[k]) = News(es[k])
<1> DEFINE R == RestLits(es, lk)
           ds == Changed(es, e)
<1>1. /\ h \in HeapType /\ es \in Seq(EnvType) /\ es # <<>> /\ es[1] \in EnvType /\ EnvOK(h, es[1])
      /\ 1 \in 1..Len(es) /\ Len(es) \in Nat
      /\ \A m \in 2..Len(es) : m \in 1..Len(es)
  BY StateIs
<1>2. es[1].lits \in Seq(Cell)
  BY <1>1 DEF EnvType
<1>3. d \in HeapType
  BY <1>1, <1>2, DropIs
<1>4. /\ e \in EnvType /\ e.frame = es[1].frame /\ e.closure = es[1].closure /\ e.lits = <<>>
      /\ e.pending = es[1].pending
  <2>1. <<>> \in Seq(Cell)
    OBVIOUS
  <2> QED  BY <1>1, <2>1 DEF EnvType
<1>5. Lits(e) = {} /\ News(e) = News(es[1]) /\ Assigns(e) = Assigns(es[1])
  BY <1>4 DEF Lits, News, Assigns
<1>7. Listed(ds, lk) = R
  <2>1. Listed(ds, lk) = Lits(e) \union R
    BY <1>1, <1>4, ListedChanged
  <2> HIDE DEF R
  <2> QED  BY <1>5, <2>1
<1>8. \A k \in 1..Len(es) : News(ds[k]) = News(es[k])
  <2>1. ds[1] = e /\ \A k \in 2..Len(es) : ds[k] = es[k]
    BY <1>1, <1>4, ChangedIs
  <2>2. \A k \in 1..Len(es) : k = 1 \/ k \in 2..Len(es)
    BY <1>1
  <2> HIDE DEF ds
  <2> QED  BY <1>5, <2>1, <2>2
<1> HIDE DEF R
<1>9. ASSUME ~d.bad PROVE State(d, ds, lk, cp) /\ Ages(h, d, {})
  <2>1. Well(h, All, Extra(Listed(es, lk)))
    BY StateIs
  <2>4. Well(d, All, Extra(R)) /\ Later(h, d, {})
    BY <1>9, <2>1, DropRest DEF R
  <2>5. Ages(h, d, {})
    BY <2>4, AgesLater
  <2>6. EnvOK(d, e)
    <3>1. EnvOK(h, e)
      BY <1>1, <1>4 DEF EnvOK
    <3>2. {} \intersect News(e) = {} /\ e.frame \notin {} /\ Lits(e) \subseteq R
      BY <1>5
    <3> QED  BY <1>4, <2>4, <2>5, <3>1, <3>2, EnvStays
  <2>7. Moved(h, d, es, e, {}, {}, {})
    BY <1>4, <1>5 DEF Moved
  <2>8. {} \intersect lk = {}
    OBVIOUS
  <2>9. State(d, ds, lk, cp)
    BY <1>4, <1>7, <2>4, <2>5, <2>6, <2>7, <2>8, StateMoves
  <2> QED  BY <2>5, <2>9
<1> QED  BY <1>3, <1>4, <1>8, <1>9

LEMMA ListedTail ==
  ASSUME NEW es \in Seq(EnvType), es # <<>>, NEW lk
  PROVE  Listed(Tail(es), lk) = RestLits(es, lk)
BY ListedParts

\* The value of a return is counted in the frame.
LEMMA OnReturn ==
  ASSUME NEW h, NEW es, NEW lk, NEW cp, State(h, es, lk, cp), NEW v \in Cell \union {Nil}, ValueOK(h, es, v),
         NEW f, f = es[1].frame, NEW d, d = ReplaceSlot(h, f, "ret", v)
  PROVE  /\ f \in Cell /\ d \in HeapType
         /\ ~d.bad => /\ Well(d, All, Extra(Listed(es, lk))) /\ Ages(h, d, {f, v})
                      /\ d.kind = h.kind
<1>1. /\ h \in HeapType /\ 1 \in 1..Len(es) /\ Well(h, All, Extra(Listed(es, lk)))
  BY StateIs
<1>2. f \in Cell /\ h.kind[f] = "frame" /\ "ret" \in Slots
  BY <1>1, EnvCells DEF Slots
<1>3. d \in HeapType
  BY <1>1, <1>2, ReplaceSlotIs
<1>4. h.held[f]["ret"] = Nil
  BY <1>2 DEF State, FramesOK
<1>5. (v # Nil => h.kind[v] \in Valued \union {"freed"}) /\ Slot(h, f, "ret")
  BY <1>2 DEF ValueOK, Slot
<1>6. ASSUME ~d.bad
      PROVE  /\ Well(d, All, Extra(Listed(es, lk))) /\ d.kind = h.kind
             /\ \A c \in Cell : d.count[c] = IF c = v THEN h.count[c] + 1 ELSE h.count[c]
             /\ \A c \in Cell : c # f => d.held[c] = h.held[c]
  <2>1. Written(h, d, Extra(Listed(es, lk)), f, "ret", v)
    BY <1>1, <1>2, <1>4, <1>5, <1>6, SlotWritten
  <2> QED  BY <2>1 DEF Written
<1>7. ~d.bad => Ages(h, d, {f, v})
  BY <1>6 DEF Ages
<1> QED  BY <1>2, <1>3, <1>6, <1>7

\* The cells of T, f aside, are values that no environment is making.
Aside(h, es, f, T) ==
  /\ \A x \in T : x \in Cell /\ x # f => h.kind[x] \in Valued \union {"freed"}
  /\ \A k \in 1..Len(es), x \in T : x # f => x \notin News(es[k])

\* A call returns.
LEMMA OnReturned ==
  ASSUME NEW h, NEW es, NEW lk, NEW cp, State(h, es, lk, cp), Len(es) > 1,
         NEW f, f = es[1].frame, NEW c, c = es[1].closure,
         NEW T, NEW d, Ages(h, d, T), d.kind[f] = "frame",
         Aside(h, es, f, T),
         NEW l2, l2 \subseteq lk \union Lits(es[1]), Well(d, All, Extra(RestLits(es, l2))),
         NEW r, r = d.held[f]["ret"], NEW g, g = Left(d, f, r, c), ~g.bad
  PROVE  State(g, Tail(es), l2, cp) /\ ValueOK(g, Tail(es), r)
<1> DEFINE S == (T \union {f, c}) \intersect Cell
           X == Extra(RestLits(es, l2))
<1>1. /\ h \in HeapType /\ es \in Seq(EnvType) /\ es # <<>> /\ es[1] \in EnvType /\ EnvOK(h, es[1])
      /\ 1 \in 1..Len(es) /\ Len(es) \in Nat \ {0}
      /\ \A m \in 2..Len(es) : m \in 1..Len(es) /\ m # 1
  BY StateIs
<1>2. f \in Cell /\ h.kind[f] = "frame" /\ c \in Cell \union {Nil}
  BY <1>1, EnvCells DEF EnvType
<1>3. c # Nil => h.kind[c] \in {"closure", "freed"} /\ d.kind[c] \in {"closure", "freed"}
  <2>1. c # Nil => h.kind[c] \in {"closure", "freed"}
    BY <1>1 DEF EnvOK
  <2> QED  BY <1>2, <2>1 DEF Ages
<1> HIDE DEF X
<1>4. /\ Well(g, All, X) /\ r \in Cell \union {Nil}
      /\ r # Nil => d.kind[r] \in Valued /\ d.count[r] # 0
      /\ g.kind[f] = "freed" /\ LaterOn(d, g, Cell \ {f, c})
  <2>1. Well(d, All, X)
    BY DEF X
  <2>2. LeftOK(d, g, X, f, r, c)
    BY <1>2, <1>3, <2>1, LeftWell
  <2> QED  BY <2>2 DEF LeftOK
<1>5. \A x \in Cell \ {f} : g.kind[x] = d.kind[x] \/ (d.kind[x] \in Valued /\ g.kind[x] = "freed")
  <2>1. Well(d, All, X)
    BY DEF X
  <2>2. LeftOK(d, g, X, f, r, c)
    BY <1>2, <1>3, <2>1, LeftWell
  <2> QED  BY <2>2 DEF LeftOK
<1>6. Ages(d, g, {f, c})
  <2> SUFFICES ASSUME NEW x \in Cell
               PROVE  /\ d.kind[x] # "unused" => g.kind[x] \in {d.kind[x], "freed"}
                      /\ x \notin {f, c} =>
                           /\ d.kind[x] = "frame" => g.kind[x] = "frame" /\ g.held[x]["ret"] = d.held[x]["ret"]
                           /\ g.kind[x] = "frame" => d.kind[x] = "frame"
                           /\ d.kind[x] \in Valued /\ d.count[x] = 0 =>
                                g.kind[x] = d.kind[x] /\ g.count[x] = 0 /\ g.held[x] = d.held[x]
    BY DEF Ages
  <2>1. g.kind[x] \in {d.kind[x], "freed"}
    BY <1>4, <1>5
  <2>2. ASSUME x \notin {f, c}
        PROVE  /\ g.kind[x] = d.kind[x] \/ (d.kind[x] \in Valued /\ g.kind[x] = "freed")
               /\ g.kind[x] = d.kind[x] => g.held[x] = d.held[x]
               /\ d.count[x] = 0 => g.kind[x] = d.kind[x] /\ g.count[x] = 0
    BY <1>4, <2>2 DEF LaterOn
  <2> QED  BY <2>1, <2>2 DEF Valued
<1>7. Ages(h, g, S)
  BY <1>6, AgesAgain, AgesCells
<1>8. \A x \in S : x = f \/ (h.kind[x] \in Valued \union {"freed"} /\ d.kind[x] # "frame")
  <2> SUFFICES ASSUME NEW x \in S, x # f PROVE h.kind[x] \in Valued \union {"freed"} /\ d.kind[x] # "frame"
    OBVIOUS
  <2>1. h.kind[x] \in Valued \union {"freed"}
    BY <1>3, Cells DEF Valued, Aside
  <2> QED  BY <2>1 DEF Ages, Valued
<1>9. \A x \in S : g.kind[x] # "frame"
  <2> SUFFICES ASSUME NEW x \in S PROVE g.kind[x] # "frame"
    OBVIOUS
  <2>1. x \in Cell
    OBVIOUS
  <2> HIDE DEF S
  <2>2. CASE x = f
    BY <1>4, <2>2
  <2>3. CASE x # f
    <3>1. d.kind[x] # "frame"
      BY <1>8, <2>3
    <3>2. g.kind[x] = d.kind[x] \/ g.kind[x] = "freed"
      BY <1>5, <2>1, <2>3
    <3> QED  BY <3>1, <3>2
  <2> QED  BY <2>2, <2>3
<1>10. ASSUME NEW k \in 2..Len(es) PROVE S \intersect News(es[k]) = {} /\ es[k].frame \notin S
  <2>1. k \in 1..Len(es) /\ Apart(es[1], es[k])
    BY <1>1 DEF State, EnvsOK
  <2>2. es[k].frame # f /\ h.kind[es[k].frame] = "frame"
    BY <2>1, EnvCells DEF Apart
  <2>3. \A x \in News(es[k]) : h.kind[x] \in {"object", "args"}
    BY <2>1, EnvCells
  <2>4. f \notin News(es[k]) /\ c \notin News(es[k]) \intersect Cell
    BY <1>2, <1>3, <2>3, Cells
  <2>5. S \intersect News(es[k]) = {}
    BY <2>1, <2>4 DEF Aside
  <2>6. es[k].frame \notin S
    BY <1>8, <2>2 DEF Valued
  <2> QED  BY <2>5, <2>6
<1>11. Well(g, All, Extra(Listed(Tail(es), l2)))
  BY <1>1, <1>4, ListedTail DEF X
<1>12. g.kind[es[1].frame] # "frame"
  BY <1>4
<1> HIDE DEF S
<1>13. State(g, Tail(es), l2, cp)
  <2>1. Goes(h, g, es, S)
    BY <1>7, <1>9, <1>10, <1>12 DEF Goes
  <2> QED  BY <1>11, <2>1, StateGoes
<1>14. ValueOK(g, Tail(es), r)
  <2>1. r # Nil => g.kind[r] \in Valued \union {"freed"}
    BY <1>4, <1>5, <1>2 DEF Valued
  <2>2. ASSUME NEW k \in 2..Len(es), r \in News(es[k]) PROVE FALSE
    <3>1. r \in Cell /\ h.kind[r] \in Valued /\ h.count[r] = 0
      BY <1>1, <2>2, EnvCells DEF Valued
    <3>2. r # f
      BY <1>2, <3>1 DEF Valued
    <3>3. r \notin T
      BY <1>1, <2>2, <3>2 DEF Aside
    <3>4. d.count[r] = 0
      BY <3>1, <3>3 DEF Ages
    <3> QED  BY <1>4, <3>1, <3>4, Cells
  <2>3. ASSUME NEW k \in 1..Len(Tail(es)) PROVE r \notin News(Tail(es)[k])
    <3>1. Tail(es)[k] = es[k + 1] /\ Len(Tail(es)) = Len(es) - 1
      BY <1>1, TailIs
    <3>2. k + 1 \in 2..Len(es)
      BY <1>1, <3>1
    <3> QED  BY <2>2, <3>1, <3>2
  <2> QED  BY <2>1, <2>3 DEF ValueOK
<1> QED  BY <1>13, <1>14

\* An argument list has its argument.
LEMMA OnFilled ==
  ASSUME NEW h, NEW es, NEW lk, NEW cp, State(h, es, lk, cp), NEW v \in Cell \union {Nil}, ValueOK(h, es, v),
         es[1].pending # <<>>, NEW q, q = Head(es[1].pending), q.op = "call",
         NEW g, g = ReplaceSlot(h, q.cell, "p", v)
  PROVE  /\ g \in HeapType /\ q.cell \in Cell /\ h.kind[q.cell] = "args" /\ Popped(es[1]) \in EnvType
         /\ ~g.bad => /\ State(g, Changed(es, Popped(es[1])), lk, cp) /\ g.kind = h.kind
                      /\ ValueOK(g, Changed(es, Popped(es[1])), v)
                      /\ \A k \in 1..Len(es) : q.cell \notin News(Changed(es, Popped(es[1]))[k])
<1> DEFINE e == Popped(es[1])
           c == q.cell
           L == Listed(es, lk)
           S == {c, v} \intersect Cell
           ds == Changed(es, e)
<1>1. /\ h \in HeapType /\ es \in Seq(EnvType) /\ es # <<>> /\ es[1] \in EnvType /\ EnvOK(h, es[1])
      /\ 1 \in 1..Len(es) /\ Well(h, All, Extra(L)) /\ ~h.bad
      /\ \A m \in 2..Len(es) : m \in 1..Len(es)
  BY StateIs
<1>2. /\ e \in EnvType /\ e.frame = es[1].frame /\ Lits(e) = Lits(es[1])
      /\ News(e) \subseteq News(es[1]) /\ Assigns(e) \subseteq Assigns(es[1])
      /\ q \in PendingType /\ c \in News(es[1])
  BY <1>1, PopOK
<1>3. EnvOK(h, e) /\ PendingOK(h, q) /\ c \notin News(e)
  BY <1>1, PopOK
<1>4. /\ c \in Cell /\ h.kind[c] = "args" /\ h.count[c] = 0 /\ h.held[c] = Nothing
      /\ h.held[c]["p"] = Nil /\ "p" \in Slots
  BY <1>2, <1>3 DEF PendingType, PendingOK, Nothing, Slots
<1> HIDE DEF L, e, c
<1>5. g \in HeapType
  BY <1>1, <1>4, ReplaceSlotIs DEF c
<1>6. ASSUME ~g.bad
      PROVE  /\ State(g, ds, lk, cp) /\ g.kind = h.kind /\ ValueOK(g, ds, v)
             /\ \A k \in 1..Len(es) : c \notin News(ds[k])
  <2>1. v # Nil => h.kind[v] \in Valued \union {"freed"}
    BY DEF ValueOK
  <2>2. /\ Well(g, All, Extra(L)) /\ g.kind = h.kind
        /\ \A x \in Cell : g.count[x] = IF x = v THEN h.count[x] + 1 ELSE h.count[x]
        /\ \A x \in Cell : x # c => g.held[x] = h.held[x]
    <3>1. g = ReplaceSlot(h, c, "p", v) /\ Slot(h, c, "p")
      BY <1>4 DEF Slot, c
    <3>2. Written(h, g, Extra(L), c, "p", v)
      BY <1>1, <1>4, <1>6, <2>1, <3>1, SlotWritten
    <3> QED  BY <3>2 DEF Written
  <2>3. Ages(h, g, S)
    BY <2>2 DEF Ages
  <2>4. \A x \in S : x \in Cell /\ h.kind[x] # "frame" /\ g.kind[x] # "frame"
    <3>1. v \in Cell => h.kind[v] \in Valued \union {"freed"}
      BY <2>1, Cells
    <3> QED  BY <1>4, <2>2, <3>1 DEF Valued
  <2>5. \A k \in 1..Len(es) : v \notin News(es[k])
    BY DEF ValueOK
  <2>6. \A k \in 2..Len(es) : c \notin News(es[k])
    <3> SUFFICES ASSUME NEW k \in 2..Len(es) PROVE c \notin News(es[k])
      OBVIOUS
    <3>1. Apart(es[k], es[1])
      BY <1>1 DEF State, EnvsOK
    <3> QED  BY <1>2, <3>1 DEF Apart
  <2>7. EnvOK(g, e)
    <3>1. h.kind[e.frame] = "frame"
      BY <1>3 DEF EnvOK
    <3>2. S \intersect News(e) = {} /\ e.frame \notin S
      BY <1>1, <1>2, <1>3, <2>4, <2>5, <3>1 DEF c
    <3>3. Lits(e) \subseteq L
      BY <1>1, <1>2 DEF Listed, AllLits, L
    <3>4. Well(g, All, Extra(L))
      BY <2>2
    <3> HIDE DEF S
    <3> QED  BY <1>2, <1>3, <2>3, <3>2, <3>3, <3>4, EnvStays
  <2>8. Moved(h, g, es, e, {}, {}, S)
    BY <1>1, <1>2, <2>4, <2>5, <2>6 DEF Moved
  <2>9. Listed(ds, lk) = L
    <3>1. L = Lits(es[1]) \union RestLits(es, lk)
      BY <1>1, ListedAll DEF L
    <3>2. Listed(ds, lk) = Lits(e) \union RestLits(es, lk)
      BY <1>1, <1>2, ListedChanged
    <3> QED  BY <1>2, <3>1, <3>2
  <2> HIDE DEF S
  <2>10. State(g, ds, lk, cp)
    <3>1. {} \intersect lk = {}
      OBVIOUS
    <3> QED  BY <1>2, <2>2, <2>3, <2>7, <2>8, <2>9, <3>1, StateMoves
  <2>11. ValueOK(g, ds, v) /\ \A k \in 1..Len(es) : c \notin News(ds[k])
    <3>1. v # Nil => g.kind[v] \in Valued \union {"freed"}
      BY <2>1, <2>2
    <3>2. Len(ds) = Len(es) /\ ds[1] = e /\ \A k \in 2..Len(es) : ds[k] = es[k]
      BY <1>1, <1>2, ChangedIs
    <3> HIDE DEF ds
    <3>3. \A k \in 1..Len(es) : k = 1 \/ k \in 2..Len(es)
      BY <1>1
    <3>4. \A k \in 1..Len(ds) : v \notin News(ds[k]) /\ c \notin News(ds[k])
      BY <1>1, <1>2, <1>3, <2>5, <2>6, <3>2, <3>3 DEF c
    <3> QED  BY <3>1, <3>2, <3>4 DEF ValueOK
  <2> QED  BY <2>2, <2>10, <2>11
<1> QED  BY <1>2, <1>4, <1>5, <1>6 DEF e, c

\* A frame with an argument list and an argument.
LEMMA OnFramed ==
  ASSUME NEW h, NEW es, NEW lk, NEW cp, State(h, es, lk, cp),
         {c \in Cell : h.kind[c] = "unused"} # {},
         NEW v \in Cell \union {Nil}, ValueOK(h, es, v),
         NEW a \in Cell, h.kind[a] = "args", \A k \in 1..Len(es) : a \notin News(es[k]),
         NEW b \in Cell, h.kind[b] = "closure",
         NEW f, f = Fresh(h),
         NEW j, j = ReplaceSlot(Alloc(h, "frame"), f, "args", a),
         NEW g, g = ReplaceSlot(j, f, "x", v),
         NEW n, n = [frame |-> f, closure |-> b, lits |-> <<>>, pending |-> <<>>]
  PROVE  /\ g \in HeapType /\ n \in EnvType
         /\ ~g.bad => State(g, <<n>> \o es, lk, cp)
<1> DEFINE L == Listed(es, lk)
           i == Alloc(h, "frame")
           S == {f, a, v} \intersect Cell
<1>1. h \in HeapType /\ Well(h, All, Extra(L)) /\ ~h.bad
  BY StateIs
<1> HIDE DEF L
<1>2. /\ f \in Cell /\ h.kind[f] = "unused" /\ i \in HeapType /\ i.bad = h.bad
      /\ Well(i, All, Extra(L)) /\ i.count = h.count /\ i.held = h.held
      /\ \A c \in Cell : i.kind[c] = IF c = f THEN "frame" ELSE h.kind[c]
      /\ h.held[f] = Nothing
  <2>1. "frame" \in Valued \union {"frame"}
    OBVIOUS
  <2> QED  BY <1>1, <2>1, AllocWell
<1> HIDE DEF i
<1>3. {"args", "x", "ret"} \subseteq Slots /\ a # Nil /\ a # f /\ b # f
  BY <1>2, Cells DEF Slots
<1>4. j = ReplaceSlot(i, f, "args", a) /\ j \in HeapType
  BY <1>2, <1>3, ReplaceSlotIs DEF i
<1>5. g \in HeapType /\ (j.bad => g.bad)
  BY <1>2, <1>3, <1>4, ReplaceSlotIs
<1>6. n \in EnvType /\ n.frame = f /\ n.closure = b /\ n.lits = <<>> /\ n.pending = <<>>
  <2>1. <<>> \in Seq(Cell) /\ <<>> \in Seq(PendingType)
    OBVIOUS
  <2> QED  BY <1>2, <2>1 DEF EnvType
<1>7. ASSUME ~g.bad PROVE State(g, <<n>> \o es, lk, cp)
  <2>1. /\ Slot(i, f, "args") /\ i.held[f]["args"] = Nil /\ i.kind[a] \in Valued \union {"freed"} /\ ~j.bad
        /\ i.held[f]["x"] = Nil /\ i.held[f]["ret"] = Nil
    BY <1>2, <1>3, <1>5, <1>7 DEF Slot, Nothing, Valued
  <2>j. Written(i, j, Extra(L), f, "args", a)
    BY <1>2, <1>3, <1>4, <2>1, SlotWritten
  <2>2. Well(j, All, Extra(L)) /\ j.kind = i.kind
    BY <2>j DEF Written
  <2>3. \A x \in Cell : j.count[x] = IF x = a THEN i.count[x] + 1 ELSE i.count[x]
    BY <2>j DEF Written
  <2>4. \A x \in Cell, s \in Slots : j.held[x][s] = IF x = f /\ s = "args" THEN a ELSE i.held[x][s]
    BY <2>j DEF Written
  <2>5. \A x \in Cell : x # f => j.held[x] = i.held[x]
    BY <2>j DEF Written
  <2>6. v # Nil => h.kind[v] \in Valued \union {"freed"}
    BY DEF ValueOK
  <2>7. Slot(j, f, "x") /\ j.held[f]["x"] = Nil /\ (v # Nil => j.kind[v] \in Valued \union {"freed"})
    BY <1>2, <1>3, <2>1, <2>2, <2>4, <2>6 DEF Slot, Valued
  <2>g. Written(j, g, Extra(L), f, "x", v)
    BY <1>2, <1>3, <1>7, <2>2, <2>7, SlotWritten
  <2>8. Well(g, All, Extra(L)) /\ g.kind = j.kind
    BY <2>g DEF Written
  <2>9. \A x \in Cell : g.count[x] = IF x = v THEN j.count[x] + 1 ELSE j.count[x]
    BY <2>g DEF Written
  <2>10. \A x \in Cell, s \in Slots : g.held[x][s] = IF x = f /\ s = "x" THEN v ELSE j.held[x][s]
    BY <2>g DEF Written
  <2>11. \A x \in Cell : x # f => g.held[x] = j.held[x]
    BY <2>g DEF Written
  <2>12. Ages(h, g, S)
    <3> SUFFICES ASSUME NEW x \in Cell
                 PROVE  /\ h.kind[x] # "unused" => g.kind[x] \in {h.kind[x], "freed"}
                        /\ x \notin S =>
                             /\ h.kind[x] = "frame" => g.kind[x] = "frame" /\ g.held[x]["ret"] = h.held[x]["ret"]
                             /\ g.kind[x] = "frame" => h.kind[x] = "frame"
                             /\ h.kind[x] \in Valued /\ h.count[x] = 0 =>
                                  g.kind[x] = h.kind[x] /\ g.count[x] = 0 /\ g.held[x] = h.held[x]
      BY DEF Ages
    <3>1. h.kind[x] # "unused" => g.kind[x] = h.kind[x]
      BY <1>2, <2>2, <2>8
    <3>2. x \notin S => g.held[x] = h.held[x] /\ g.count[x] = h.count[x] /\ g.kind[x] = h.kind[x]
      BY <1>2, <2>2, <2>3, <2>5, <2>8, <2>9, <2>11
    <3> QED  BY <3>1, <3>2
  <2>13. \A x \in S : x \in Cell /\ h.kind[x] # "frame" /\ (g.kind[x] = "frame" => x = n.frame)
    <3>1. v \in Cell => h.kind[v] \in Valued \union {"freed"}
      BY <2>6, Cells
    <3>2. \A x \in S : x \in Cell /\ h.kind[x] \in {"unused", "args", "freed"} \union Valued
      BY <1>2, <3>1
    <3> QED  BY <1>2, <1>6, <2>2, <2>8, <3>2 DEF Valued
  <2>14. \A k \in 1..Len(es) : S \intersect News(es[k]) = {}
    <3> SUFFICES ASSUME NEW k \in 1..Len(es) PROVE S \intersect News(es[k]) = {}
      OBVIOUS
    <3>1. f \notin News(es[k])
      BY <1>2, EnvCells
    <3> QED  BY <3>1 DEF ValueOK
  <2>15. EnvOK(g, n)
    <3>1. g.kind[f] = "frame" /\ g.kind[b] = "closure"
      BY <1>2, <1>3, <2>2, <2>8
    <3> QED  BY <1>6, <3>1 DEF EnvOK
  <2>16. g.held[n.frame]["ret"] = Nil /\ h.kind[n.frame] = "unused"
    BY <1>2, <1>3, <1>6, <2>1, <2>4, <2>10
  <2>17. Well(g, All, Extra(Listed(es, lk)))
    BY <2>8 DEF L
  <2> HIDE DEF S
  <2> QED  BY <1>6, <2>12, <2>13, <2>14, <2>15, <2>16, <2>17, StateEnters
<1> QED  BY <1>5, <1>6, <1>7

-----------------------------------------------------------------------------
(* The invariant is inductive.                                             *)

\* Before a step freed memory has not been used.
LEMMA Before ==
  ASSUME IInv, mode \in {"expression", "value"}
  PROVE  /\ State(heap, envs, leaked, captured) /\ ValueOK(heap, envs, value)
         /\ (mode = "expression" => value = Nil) /\ value \in Cell \union {Nil}
         /\ heap \in HeapType /\ ~heap.bad /\ captured \in [Cell -> Cell \union {Nil}]
         /\ envs \in Seq(EnvType) /\ envs # <<>> /\ env = envs[1] /\ env \in EnvType
<1>1. heap \in HeapType /\ ~heap.bad /\ value \in Cell \union {Nil} /\ captured \in [Cell -> Cell \union {Nil}]
  BY DEF IInv, Typed
<1>2. State(heap, envs, leaked, captured) /\ ValueOK(heap, envs, value) /\ (mode = "expression" => value = Nil)
  BY <1>1 DEF IInv, Good, State
<1>3. envs \in Seq(EnvType) /\ envs # <<>> /\ envs[1] \in EnvType
  BY <1>2, StateIs
<1>4. env = envs[1]
  BY <1>3, TailIs DEF env
<1> QED  BY <1>1, <1>2, <1>3, <1>4

\* After a step.
LEMMA After ==
  ASSUME heap' \in HeapType, captured' \in [Cell -> Cell \union {Nil}], envs' \in Seq(EnvType),
         value' \in Cell \union {Nil},
         NEW m \in {"expression", "value"}, mode' = IF heap'.bad THEN "stopped" ELSE m,
         m = "expression" => value' = Nil,
         ~heap'.bad => State(heap', envs', leaked', captured') /\ ValueOK(heap', envs', value')
  PROVE  IInv'
<1>1. Typed'
  BY DEF Typed
<1>2. ASSUME ~heap'.bad PROVE Good'
  <2>1. State(heap', envs', leaked', captured') /\ ValueOK(heap', envs', value')
    BY <1>2
  <2>2. mode' = m
    BY <1>2
  <2> QED  BY <2>1, <2>2 DEF Good, State
<1> QED  BY <1>1, <1>2 DEF IInv

LEMMA NoValue ==
  ASSUME NEW h, NEW es, NEW lk, NEW cp, State(h, es, lk, cp)
  PROVE  ValueOK(h, es, Nil)
BY Cells, EnvCells DEF ValueOK

\* What is read from a slot.
LEMMA Read ==
  ASSUME NEW h, NEW es, NEW lk, NEW cp, State(h, es, lk, cp), NEW c \in Cell, NEW s \in Slots,
         NEW v, v = h.held[c][s]
  PROVE  /\ v \in Cell \union {Nil} /\ ValueOK(h, es, v)
         /\ v # Nil => v \in Cell /\ h.kind[v] \in Valued /\ h.count[v] # 0
<1>1. h \in HeapType /\ Well(h, All, Extra(Listed(es, lk)))
  BY StateIs
<1>2. v \in Cell \union {Nil}
  BY <1>1 DEF HeapType
<1>3. ASSUME v # Nil PROVE v \in Cell /\ h.kind[v] \in Valued /\ h.count[v] # 0
  <2>1. v \in Cell /\ <<c, s>> \in All
    BY <1>2, <1>3 DEF All
  <2>2. h.held[<<c, s>>[1]][<<c, s>>[2]] = v
    OBVIOUS
  <2>3. h.count[v] > 0 /\ h.count[v] \in Nat
    BY <1>1, <2>1, <2>2, Referred
  <2>4. h.kind[v] \in Valued
    BY <1>1, <2>1, <2>3, Referred
  <2> QED  BY <2>1, <2>3, <2>4
<1>4. CASE v = Nil
  BY <1>4, <1>2, NoValue
<1>5. CASE v # Nil
  <2>1. \A k \in 1..Len(es) : v \notin News(es[k])
    BY <1>3, <1>5, NotNew
  <2> QED  BY <1>2, <1>3, <1>5, <2>1 DEF ValueOK
<1> QED  BY <1>4, <1>5

\* The variables a script can name.
LEMMA VariableIs ==
  ASSUME IInv, mode \in {"expression", "value"}, NEW w \in Variables
  PROVE  /\ w[1] \in Cell /\ w[2] \in {"x", "y"} /\ w[2] \in Slots
         /\ ~Unsafe(w[1]) => heap.kind[w[1]] = "frame"
<1>1. /\ State(heap, envs, leaked, captured) /\ captured \in [Cell -> Cell \union {Nil}]
      /\ env = envs[1] /\ env \in EnvType
  BY Before
<1>2. env.frame \in Cell /\ heap.kind[env.frame] = "frame" /\ env.closure \in Cell \union {Nil}
  <2>1. 1 \in 1..Len(envs)
    BY <1>1, StateIs
  <2>2. envs[1].frame \in Cell /\ heap.kind[envs[1].frame] = "frame"
    BY <1>1, <2>1, EnvCells
  <2> QED  BY <1>1, <2>2 DEF EnvType
<1>3. w[1] \in Frames /\ w[2] \in {"x", "y"}
  BY DEF Variables
<1>4. w[1] = env.frame \/ (w[1] # Nil /\ env.closure # Nil /\ w[1] = captured[env.closure])
  BY <1>3 DEF Frames
<1>5. ASSUME w[1] # Nil, env.closure # Nil, w[1] = captured[env.closure]
      PROVE  w[1] \in Cell /\ heap.kind[w[1]] \in {"frame", "freed"}
  <2>1. env.closure \in Cell /\ w[1] \in Cell
    BY <1>1, <1>2, <1>5
  <2> QED  BY <1>1, <1>5, <2>1 DEF State, CapturedOK
<1>6. w[1] \in Cell /\ heap.kind[w[1]] \in {"frame", "freed"}
  BY <1>2, <1>4, <1>5
<1> QED  BY <1>3, <1>6 DEF Slots, Unsafe, Allocated

LEMMA Room ==
  ASSUME NEW n \in Nat \ {0}, CanAllocate(n)
  PROVE  {c \in Cell : heap.kind[c] = "unused"} # {}
<1> SUFFICES ASSUME {c \in Cell : heap.kind[c] = "unused"} = {} PROVE FALSE
  OBVIOUS
<1>1. Cardinality({c \in Cell : heap.kind[c] = "unused"}) = 0
  BY FS_EmptySet
<1> QED  BY <1>1 DEF CanAllocate

LEMMA NumberInv == ASSUME IInv, Number PROVE IInv'
<1>1. mode = "expression" /\ heap' = heap /\ value' = Nil /\ mode' = (IF heap.bad THEN "stopped" ELSE "value")
  BY DEF Number, Expression, Deliver
<1>2. captured' = captured /\ envs' = envs /\ leaked' = leaked
  BY DEF Number
<1>3. /\ State(heap, envs, leaked, captured) /\ heap \in HeapType /\ envs \in Seq(EnvType)
      /\ captured \in [Cell -> Cell \union {Nil}]
  BY <1>1, Before
<1>4. ValueOK(heap, envs, Nil)
  BY <1>3, NoValue
<1> QED  BY <1>1, <1>2, <1>3, <1>4, After

LEMMA VariableInv == ASSUME IInv, NEW w \in Variables, Variable(w) PROVE IInv'
<1>1. mode = "expression" /\ captured' = captured /\ envs' = envs /\ leaked' = leaked
  BY DEF Variable, Expression
<1>2. /\ State(heap, envs, leaked, captured) /\ heap \in HeapType /\ envs \in Seq(EnvType)
      /\ captured \in [Cell -> Cell \union {Nil}]
  BY <1>1, Before
<1>3. w[1] \in Cell /\ w[2] \in Slots
  BY <1>1, VariableIs
<1>4. CASE Unsafe(w[1])
  <2>1. heap' = Bad(heap) /\ value' = Nil /\ mode' = (IF heap'.bad THEN "stopped" ELSE "value")
    BY <1>4 DEF Variable, Deliver
  <2>2. heap' \in HeapType /\ heap'.bad
    BY <1>2, <2>1 DEF Bad, HeapType
  <2> QED  BY <1>1, <1>2, <2>1, <2>2, After
<1>5. CASE ~Unsafe(w[1])
  <2>1. heap' = heap /\ value' = heap.held[w[1]][w[2]] /\ mode' = (IF heap'.bad THEN "stopped" ELSE "value")
    BY <1>5 DEF Variable, Deliver
  <2>2. value' \in Cell \union {Nil} /\ ValueOK(heap, envs, value')
    BY <1>2, <1>3, <2>1, Read
  <2> QED  BY <1>1, <1>2, <2>1, <2>2, After
<1> QED  BY <1>4, <1>5

LEMMA AccessInv == ASSUME IInv, NEW w \in Variables, Access(w) PROVE IInv'
<1> DEFINE o == heap.held[w[1]][w[2]]
<1>1. mode = "expression" /\ captured' = captured /\ envs' = envs /\ leaked' = leaked /\ Objects(o)
  BY DEF Access, Expression
<1>2. /\ State(heap, envs, leaked, captured) /\ heap \in HeapType /\ envs \in Seq(EnvType)
      /\ captured \in [Cell -> Cell \union {Nil}]
  BY <1>1, Before
<1>3. w[1] \in Cell /\ w[2] \in Slots
  BY <1>1, VariableIs
<1>4. heap' = heap /\ value' = heap.held[o]["p"] /\ mode' = (IF heap'.bad THEN "stopped" ELSE "value")
  BY DEF Access, Deliver
<1>5. o \in Cell /\ "p" \in Slots
  BY <1>1, <1>2, <1>3, Read DEF Objects, Slots
<1> HIDE DEF o
<1>6. value' \in Cell \union {Nil} /\ ValueOK(heap, envs, value')
  BY <1>2, <1>4, <1>5, Read
<1> QED  BY <1>1, <1>2, <1>4, <1>6, After

LEMMA EmptyLiteralInv == ASSUME IInv, EmptyLiteral PROVE IInv'
<1> DEFINE o == Fresh(heap)
           g == Incr(Alloc(heap, "object"), o)
           e == WithLiteral(env, o)
<1>1. /\ mode = "expression" /\ captured' = captured /\ leaked' = leaked
      /\ {c \in Cell : heap.kind[c] = "unused"} # {}
  BY Room DEF EmptyLiteral, Expression
<1>2. /\ heap' = g /\ value' = o /\ mode' = (IF heap'.bad THEN "stopped" ELSE "value")
      /\ envs' = Changed(envs, e)
  BY DEF EmptyLiteral, Deliver, Now, Changed
<1>3. /\ State(heap, envs, leaked, captured) /\ captured \in [Cell -> Cell \union {Nil}]
      /\ env = envs[1] /\ envs \in Seq(EnvType) /\ envs # <<>>
  BY <1>1, Before
<1>4. /\ g \in HeapType /\ o \in Cell /\ e \in EnvType
      /\ ~g.bad => State(g, Changed(envs, e), leaked, captured) /\ ValueOK(g, Changed(envs, e), o)
  BY <1>1, <1>3, OnEmptyLiteral
<1> HIDE DEF o, g, e
<1>5. Changed(envs, e) \in Seq(EnvType)
  BY <1>3, <1>4, ChangedIs
<1> QED  BY <1>1, <1>2, <1>3, <1>4, <1>5, After

\* A step that goes on evaluating, in an environment that waits for one value more.
LEMMA Waiting ==
  ASSUME IInv, mode = "expression", NEW q, NEW g, heap' = g, envs' = Changed(envs, Push(env, q)),
         captured' = captured, mode' = mode, value' = value, leaked' = leaked,
         g \in HeapType, ~g.bad, Push(env, q) \in EnvType,
         State(g, Changed(envs, Push(env, q)), leaked, captured)
  PROVE  IInv'
<1>1. captured \in [Cell -> Cell \union {Nil}] /\ envs \in Seq(EnvType) /\ envs # <<>> /\ value = Nil
  BY Before
<1>2. Changed(envs, Push(env, q)) \in Seq(EnvType)
  BY <1>1, ChangedIs
<1>3. ValueOK(g, Changed(envs, Push(env, q)), Nil)
  BY NoValue
<1>4. mode' = IF heap'.bad THEN "stopped" ELSE "expression"
  OBVIOUS
<1> QED  BY <1>1, <1>2, <1>3, <1>4, After

LEMMA NewInv == ASSUME IInv, Literal \/ Call PROVE IInv'
<1>1. PICK op \in {"literal", "call"} :
        /\ heap' = Alloc(heap, IF op = "literal" THEN "object" ELSE "args")
        /\ envs' = Changed(envs, Push(env, [op |-> op, cell |-> Fresh(heap), slot |-> "p"]))
        /\ mode = "expression" /\ captured' = captured /\ leaked' = leaked
        /\ mode' = mode /\ value' = value /\ \E n \in Nat \ {0} : CanAllocate(n)
  <2>1. CASE Literal
    BY <2>1 DEF Literal, Expression, Now, Changed, Pushed, Push
  <2>2. CASE Call
    <3>1. /\ heap' = Alloc(heap, IF "call" = "literal" THEN "object" ELSE "args")
          /\ mode = "expression" /\ captured' = captured /\ leaked' = leaked
          /\ mode' = mode /\ value' = value
      BY <2>2 DEF Call, Expression
    <3>2. envs' = Changed(envs, Push(env, [op |-> "call", cell |-> Fresh(heap), slot |-> "p"]))
      BY <2>2 DEF Call, Now, Changed, Pushed, Push
    <3>3. 2 \in Nat \ {0} /\ CanAllocate(2)
      BY <2>2 DEF Call
    <3> QED  BY <3>1, <3>2, <3>3
  <2> QED  BY <2>1, <2>2
<1> DEFINE k == IF op = "literal" THEN "object" ELSE "args"
           q == [op |-> op, cell |-> Fresh(heap), slot |-> "p"]
           g == Alloc(heap, k)
<1>2. {c \in Cell : heap.kind[c] = "unused"} # {}
  BY <1>1, Room
<1>3. State(heap, envs, leaked, captured) /\ env = envs[1]
  BY <1>1, Before
<1>4. /\ g \in HeapType /\ ~g.bad /\ Push(env, q) \in EnvType
      /\ State(g, Changed(envs, Push(env, q)), leaked, captured)
  BY <1>2, <1>3, OnNew
<1>5. heap' = g /\ envs' = Changed(envs, Push(env, q))
  BY <1>1
<1> HIDE DEF k, q, g
<1> QED  BY <1>1, <1>4, <1>5, Waiting

LEMMA AssignVariableInv == ASSUME IInv, NEW w \in Variables, AssignVariable(w) PROVE IInv'
<1> DEFINE q == [op |-> "assign", cell |-> w[1], slot |-> w[2]]
<1>1. /\ mode = "expression" /\ captured' = captured /\ leaked' = leaked /\ heap' = heap
      /\ mode' = mode /\ value' = value /\ ~Unsafe(w[1])
      /\ envs' = Changed(envs, Push(env, q))
  BY DEF AssignVariable, Expression, Now, Changed, Pushed, Push
<1>2. /\ State(heap, envs, leaked, captured) /\ env = envs[1]
      /\ heap \in HeapType /\ ~heap.bad
  BY <1>1, Before
<1>3. w[1] \in Cell /\ w[2] \in {"x", "y"} /\ w[2] \in Slots /\ heap.kind[w[1]] = "frame"
  BY <1>1, VariableIs
<1>4. PendingOK(heap, q)
  BY <1>3 DEF PendingOK
<1>5. Push(env, q) \in EnvType /\ State(heap, Changed(envs, Push(env, q)), leaked, captured)
  BY <1>2, <1>3, <1>4, OnAddress
<1> HIDE DEF q
<1> QED  BY <1>1, <1>2, <1>5, Waiting

LEMMA AssignPropertyInv == ASSUME IInv, NEW w \in Variables, AssignProperty(w) PROVE IInv'
<1> DEFINE o == heap.held[w[1]][w[2]]
           q == [op |-> "assign", cell |-> o, slot |-> "p"]
<1>1. /\ mode = "expression" /\ captured' = captured /\ leaked' = leaked /\ heap' = heap
      /\ mode' = mode /\ value' = value /\ Objects(o)
      /\ envs' = Changed(envs, Push(env, q))
  BY DEF AssignProperty, Expression, Now, Changed, Pushed, Push
<1>2. /\ State(heap, envs, leaked, captured) /\ env = envs[1]
      /\ heap \in HeapType /\ ~heap.bad
  BY <1>1, Before
<1>3. w[1] \in Cell /\ w[2] \in Slots
  BY <1>1, VariableIs
<1>4. o \in Cell /\ heap.kind[o] = "object" /\ heap.count[o] # 0 /\ "p" \in Slots
  BY <1>1, <1>2, <1>3, Read DEF Objects, Slots
<1>5. PendingOK(heap, q)
  BY <1>4 DEF PendingOK
<1> HIDE DEF o
<1>6. Push(env, q) \in EnvType /\ State(heap, Changed(envs, Push(env, q)), leaked, captured)
  BY <1>2, <1>4, <1>5, OnAddress
<1> HIDE DEF q
<1> QED  BY <1>1, <1>2, <1>6, Waiting

LEMMA FunctionInv == ASSUME IInv, Function PROVE IInv'
<1> DEFINE o == Fresh(heap)
           g == Alloc(heap, "closure")
           c2 == [captured EXCEPT ![o] = envs[1].frame]
<1>1. /\ mode = "expression" /\ envs' = envs /\ leaked' = leaked
      /\ {c \in Cell : heap.kind[c] = "unused"} # {}
  BY Room DEF Function, Expression
<1>2. heap' = g /\ value' = o /\ mode' = (IF heap'.bad THEN "stopped" ELSE "value") /\ captured' = c2
  BY <1>1, Before DEF Function, Deliver
<1>3. /\ State(heap, envs, leaked, captured) /\ envs \in Seq(EnvType)
      /\ captured \in [Cell -> Cell \union {Nil}]
  BY <1>1, Before
<1>4. o \in Cell /\ envs[1].frame \in Cell
  <2>1. envs[1] \in EnvType /\ heap \in HeapType /\ Well(heap, All, Extra(Listed(envs, leaked)))
    BY <1>3, StateIs
  <2>2. o \in Cell
    BY <1>1, <2>1, FreshIs
  <2> QED  BY <2>1, <2>2 DEF EnvType
<1>5. c2 \in [Cell -> Cell \union {Nil}] /\ \A c \in Cell : c2[c] = IF c = o THEN envs[1].frame ELSE captured[c]
  BY <1>3, <1>4
<1>6. o = Fresh(heap) /\ g = Alloc(heap, "closure")
  OBVIOUS
<1> HIDE DEF o, g, c2
<1>7. g \in HeapType /\ State(g, envs, leaked, c2) /\ ValueOK(g, envs, o)
  BY <1>1, <1>3, <1>5, <1>6, OnFunction
<1> QED  BY <1>1, <1>2, <1>3, <1>4, <1>5, <1>7, After

LEMMA AssignedInv == ASSUME IInv, Assigned PROVE IInv'
<1> DEFINE q == Head(env.pending)
           g == ReplaceValue(heap, q.cell, q.slot, value)
           e == Popped(env)
<1>1. /\ mode = "value" /\ env.pending # <<>> /\ q.op = "assign"
      /\ captured' = captured /\ leaked' = leaked
      /\ heap' = g /\ value' = value /\ mode' = (IF heap'.bad THEN "stopped" ELSE "value")
      /\ envs' = Changed(envs, e)
  BY DEF Assigned, Arrives, Deliver, Now, Changed, Top
<1>2. /\ State(heap, envs, leaked, captured) /\ captured \in [Cell -> Cell \union {Nil}]
      /\ env = envs[1] /\ envs \in Seq(EnvType) /\ envs # <<>>
      /\ value \in Cell \union {Nil} /\ ValueOK(heap, envs, value)
  BY <1>1, Before
<1>3. /\ g \in HeapType /\ e \in EnvType
      /\ ~g.bad => State(g, Changed(envs, e), leaked, captured) /\ ValueOK(g, Changed(envs, e), value)
  BY <1>1, <1>2, OnAssigned
<1> HIDE DEF q, g, e
<1>4. Changed(envs, e) \in Seq(EnvType)
  BY <1>2, <1>3, ChangedIs
<1> QED  BY <1>1, <1>2, <1>3, <1>4, After

LEMMA LiteralMadeInv == ASSUME IInv, LiteralMade PROVE IInv'
<1> DEFINE q == Head(env.pending)
           g == Incr(ReplaceSlot(heap, q.cell, "p", value), q.cell)
           e == WithLiteral(Popped(env), q.cell)
<1>1. /\ mode = "value" /\ env.pending # <<>> /\ q.op = "literal"
      /\ captured' = captured /\ leaked' = leaked
      /\ heap' = g /\ value' = q.cell /\ mode' = (IF heap'.bad THEN "stopped" ELSE "value")
      /\ envs' = Changed(envs, e)
  BY DEF LiteralMade, Arrives, Deliver, Now, Changed, Top
<1>2. /\ State(heap, envs, leaked, captured) /\ captured \in [Cell -> Cell \union {Nil}]
      /\ env = envs[1] /\ envs \in Seq(EnvType) /\ envs # <<>>
      /\ value \in Cell \union {Nil} /\ ValueOK(heap, envs, value)
  BY <1>1, Before
<1>3. /\ g \in HeapType /\ e \in EnvType /\ q.cell \in Cell
      /\ ~g.bad => State(g, Changed(envs, e), leaked, captured) /\ ValueOK(g, Changed(envs, e), q.cell)
  BY <1>1, <1>2, OnLiteralMade
<1> HIDE DEF q, g, e
<1>4. Changed(envs, e) \in Seq(EnvType)
  BY <1>2, <1>3, ChangedIs
<1> QED  BY <1>1, <1>2, <1>3, <1>4, After

LEMMA DiscardedInv == ASSUME IInv, Discarded PROVE IInv'
<1> DEFINE g == Abandon(heap, value)
<1>1. /\ mode = "value" /\ captured' = captured /\ envs' = envs /\ leaked' = leaked
      /\ heap' = g /\ value' = Nil /\ mode' = (IF heap'.bad THEN "stopped" ELSE "expression")
  BY DEF Discarded, Evaluated, Resume
<1>2. /\ State(heap, envs, leaked, captured) /\ captured \in [Cell -> Cell \union {Nil}]
      /\ envs \in Seq(EnvType) /\ heap \in HeapType
      /\ value \in Cell \union {Nil} /\ ValueOK(heap, envs, value)
  BY <1>1, Before
<1>3. g \in HeapType
  BY <1>2, AbandonIs
<1>4. ~g.bad => State(g, envs, leaked, captured)
  BY <1>2, OnDiscarded
<1> HIDE DEF g
<1>5. ~g.bad => ValueOK(g, envs, Nil)
  BY <1>4, NoValue
<1> QED  BY <1>1, <1>2, <1>3, <1>4, <1>5, After

LEMMA BlockEndedInv == ASSUME IInv, BlockEnded PROVE IInv'
<1> DEFINE d == DropLiterals(heap, env.lits)
           g == Abandon(d, value)
           e == [env EXCEPT !.lits = <<>>]
<1>1. /\ mode = "value" /\ captured' = captured /\ leaked' = leaked
      /\ heap' = g /\ value' = Nil /\ mode' = (IF heap'.bad THEN "stopped" ELSE "expression")
      /\ envs' = Changed(envs, e)
  BY DEF BlockEnded, Evaluated, Resume, Now, Changed
<1>2. /\ State(heap, envs, leaked, captured) /\ captured \in [Cell -> Cell \union {Nil}]
      /\ env = envs[1] /\ envs \in Seq(EnvType) /\ envs # <<>>
      /\ value \in Cell \union {Nil} /\ ValueOK(heap, envs, value)
  BY <1>1, Before
<1>3. /\ d \in HeapType /\ e \in EnvType
      /\ ~d.bad => /\ State(d, Changed(envs, e), leaked, captured) /\ Ages(heap, d, {})
                   /\ \A k \in 1..Len(envs) : News(Changed(envs, e)[k]) = News(envs[k])
  BY <1>2, OnBlockEnded
<1> HIDE DEF d, e
<1>4. g \in HeapType /\ (d.bad => g.bad)
  BY <1>2, <1>3, AbandonIs
<1>5. Changed(envs, e) \in Seq(EnvType) /\ Len(Changed(envs, e)) = Len(envs)
  BY <1>2, <1>3, ChangedIs
<1>6. ASSUME ~d.bad PROVE ValueOK(d, Changed(envs, e), value)
  <2>1. value # Nil => value \in Cell /\ heap.kind[value] \in Valued \union {"freed"}
    BY <1>2 DEF ValueOK
  <2>2. value # Nil => d.kind[value] \in Valued \union {"freed"}
    BY <1>3, <1>6, <2>1 DEF Ages, Valued
  <2>3. \A k \in 1..Len(envs) : value \notin News(envs[k])
    BY <1>2 DEF ValueOK
  <2>4. \A k \in 1..Len(Changed(envs, e)) : value \notin News(Changed(envs, e)[k])
    BY <1>3, <1>5, <1>6, <2>3
  <2> QED  BY <2>2, <2>4 DEF ValueOK
<1>7. ~g.bad => State(g, Changed(envs, e), leaked, captured)
  BY <1>2, <1>3, <1>4, <1>6, OnDiscarded
<1> HIDE DEF g
<1>8. ~g.bad => ValueOK(g, Changed(envs, e), Nil)
  BY <1>7, NoValue
<1> QED  BY <1>1, <1>2, <1>4, <1>5, <1>7, <1>8, After

\* A call that returns, after what each of its four ends does to the heap.
LEMMA ReturnedInv ==
  ASSUME IInv, Evaluated, InCall, NEW d \in HeapType, Returned(d), NEW f, f = env.frame,
         NEW l2, leaked' = l2, l2 \subseteq leaked \union Lits(env),
         NEW T, Aside(heap, envs, f, T),
         ~d.bad => Ages(heap, d, T) /\ d.kind[f] = "frame" /\ Well(d, All, Extra(RestLits(envs, l2)))
  PROVE  IInv'
<1> DEFINE r == d.held[f]["ret"]
           c == env.closure
           g == Left(d, f, r, c)
<1>1. /\ State(heap, envs, leaked, captured) /\ captured \in [Cell -> Cell \union {Nil}]
      /\ env = envs[1] /\ env \in EnvType /\ envs \in Seq(EnvType) /\ envs # <<>> /\ Len(envs) > 1
  BY Before DEF Evaluated, InCall
<1>2. /\ heap' = g /\ value' = r /\ mode' = (IF heap'.bad THEN "stopped" ELSE "value")
      /\ envs' = Tail(envs) /\ captured' = captured
  BY DEF Returned, Deliver, Left
<1>3. f \in Cell /\ c \in Cell \union {Nil} /\ r \in Cell \union {Nil}
  BY <1>1 DEF EnvType, HeapType, Slots
<1>4. g \in HeapType /\ (d.bad => g.bad)
  <2> HIDE DEF r, c
  <2> QED  BY <1>3, LeftIs
<1>5. Tail(envs) \in Seq(EnvType)
  BY <1>1, TailIs
<1>6. r = d.held[f]["ret"] /\ c = envs[1].closure /\ f = envs[1].frame /\ g = Left(d, f, r, c)
  BY <1>1
<1> HIDE DEF r, c, g
<1>7. ~g.bad => State(g, Tail(envs), l2, captured) /\ ValueOK(g, Tail(envs), r)
  BY <1>1, <1>4, <1>6, OnReturned
<1>8. heap' \in HeapType /\ captured' \in [Cell -> Cell \union {Nil}] /\ envs' \in Seq(EnvType)
  BY <1>1, <1>2, <1>4, <1>5
<1>9. value' \in Cell \union {Nil}
  BY <1>2, <1>3
<1>10. ~heap'.bad => State(heap', envs', leaked', captured') /\ ValueOK(heap', envs', value')
  BY <1>2, <1>7
<1>11. "value" \in {"expression", "value"} /\ ("value" = "expression" => value' = Nil)
  OBVIOUS
<1>12. mode' = IF heap'.bad THEN "stopped" ELSE "value"
  BY <1>2
<1> QED  BY <1>8, <1>9, <1>10, <1>11, <1>12, After

\* A body that ends leaves its literals behind; the block it ends with does not.
LEMMA BodyEndedInv == ASSUME IInv, BodyEnded PROVE IInv'
<1> DEFINE f == env.frame
           T == {}
           l2 == leaked \union Lits(env)
<1>1. Evaluated /\ InCall /\ Returned(heap) /\ leaked' = leaked \union Range(env.lits)
  BY DEF BodyEnded, LiteralsKept
<1>2. /\ State(heap, envs, leaked, captured) /\ env = envs[1] /\ env \in EnvType
      /\ envs \in Seq(EnvType) /\ envs # <<>> /\ heap \in HeapType
  BY <1>1, Before DEF Evaluated
<1>3. f \in Cell /\ heap.kind[f] = "frame"
  BY <1>2, StateIs DEF EnvOK, EnvType
<1>4. Range(env.lits) = Lits(env)
  <2>1. DOMAIN env.lits = 1..Len(env.lits)
    BY <1>2 DEF EnvType
  <2> QED  BY <2>1 DEF Range, Lits
<1>5. RestLits(envs, l2) = Listed(envs, leaked)
  BY <1>2, ListedAll DEF RestLits
<1>6. leaked' = l2 /\ l2 \subseteq leaked \union Lits(env)
  BY <1>1, <1>4
<1>f. f = env.frame
  OBVIOUS
<1> HIDE DEF f, l2
<1>7. Aside(heap, envs, f, T) /\ Ages(heap, heap, T)
  BY <1>2 DEF Aside, Ages
<1> HIDE DEF T
<1>8. Well(heap, All, Extra(RestLits(envs, l2)))
  BY <1>2, <1>5, StateIs
<1> QED  BY <1>1, <1>2, <1>3, <1>f, <1>6, <1>7, <1>8, ReturnedInv

LEMMA BlockEndsBodyInv == ASSUME IInv, BlockEndsBody PROVE IInv'
<1> DEFINE d == DropLiterals(heap, env.lits)
           f == env.frame
           T == {}
<1>1. Evaluated /\ InCall /\ Returned(d) /\ leaked' = leaked
  BY DEF BlockEndsBody
<1>2. /\ State(heap, envs, leaked, captured) /\ env = envs[1] /\ env \in EnvType /\ heap \in HeapType
  BY <1>1, Before DEF Evaluated
<1>3. d \in HeapType
  BY <1>2, DropIs DEF EnvType
<1>4. f \in Cell /\ heap.kind[f] = "frame"
  BY <1>2, StateIs DEF EnvOK, EnvType
<1>5. Well(heap, All, Extra(Listed(envs, leaked)))
  BY <1>2, StateIs
<1>6. d = DropLiterals(heap, envs[1].lits)
  BY <1>2
<1>f. f = env.frame
  OBVIOUS
<1> HIDE DEF d, f
<1>7. ASSUME ~d.bad
      PROVE  Ages(heap, d, T) /\ d.kind[f] = "frame" /\ Well(d, All, Extra(RestLits(envs, leaked)))
  <2>1. Well(d, All, Extra(RestLits(envs, leaked))) /\ Later(heap, d, {})
    BY <1>2, <1>5, <1>6, <1>7, DropRest
  <2>2. Ages(heap, d, {})
    BY <2>1, AgesLater
  <2>3. d.kind[f] = "frame"
    BY <1>4, <2>1 DEF Later, Valued
  <2> QED  BY <2>1, <2>2, <2>3
<1>8. Aside(heap, envs, f, T)
  BY DEF Aside
<1>9. leaked \subseteq leaked \union Lits(env)
  OBVIOUS
<1> HIDE DEF T
<1>10. ~d.bad => Ages(heap, d, T) /\ d.kind[f] = "frame" /\ Well(d, All, Extra(RestLits(envs, leaked)))
  BY <1>7
<1> QED  BY <1>1, <1>3, <1>f, <1>8, <1>9, <1>10, ReturnedInv

\* The return value is stored in the frame.
LEMMA ReturnStored ==
  ASSUME IInv, Evaluated, NEW f, f = env.frame, NEW d, d = ReplaceSlot(heap, f, "ret", value)
  PROVE  /\ f \in Cell /\ d \in HeapType /\ heap.kind[f] = "frame"
         /\ ~d.bad => Well(d, All, Extra(Listed(envs, leaked))) /\ Ages(heap, d, {f, value}) /\ d.kind[f] = "frame"
         /\ Aside(heap, envs, f, {f, value})
<1>1. /\ State(heap, envs, leaked, captured) /\ env = envs[1]
      /\ value \in Cell \union {Nil} /\ ValueOK(heap, envs, value)
  BY Before DEF Evaluated
<1>2. /\ f \in Cell /\ d \in HeapType
      /\ ~d.bad => Well(d, All, Extra(Listed(envs, leaked))) /\ Ages(heap, d, {f, value}) /\ d.kind = heap.kind
  BY <1>1, OnReturn
<1>3. heap.kind[f] = "frame"
  BY <1>1, StateIs DEF EnvOK
<1>4. Aside(heap, envs, f, {f, value})
  BY <1>1, Cells DEF ValueOK, Aside
<1> QED  BY <1>2, <1>3, <1>4

LEMMA ReturnEndsBlockInv == ASSUME IInv, ReturnEndsBlock PROVE IInv'
<1> DEFINE f == env.frame
           i == ReplaceSlot(heap, f, "ret", value)
           d == DropLiterals(i, env.lits)
           T == {f, value}
<1>1. Evaluated /\ InCall /\ Returned(d) /\ leaked' = leaked
  BY DEF ReturnEndsBlock
<1>2. /\ State(heap, envs, leaked, captured) /\ env = envs[1] /\ env \in EnvType
  BY <1>1, Before DEF Evaluated
<1>3. /\ f \in Cell /\ i \in HeapType /\ heap.kind[f] = "frame"
      /\ ~i.bad => Well(i, All, Extra(Listed(envs, leaked))) /\ Ages(heap, i, T) /\ i.kind[f] = "frame"
      /\ Aside(heap, envs, f, T)
  BY <1>1, ReturnStored
<1>4. d \in HeapType /\ (i.bad => d.bad)
  <2> HIDE DEF i
  <2> QED  BY <1>2, <1>3, DropIs DEF EnvType
<1>5. d = DropLiterals(i, envs[1].lits)
  BY <1>2
<1>f. f = env.frame
  OBVIOUS
<1> HIDE DEF d, i, f, T
<1>6. ASSUME ~d.bad
      PROVE  Ages(heap, d, T) /\ d.kind[f] = "frame" /\ Well(d, All, Extra(RestLits(envs, leaked)))
  <2>1. Well(d, All, Extra(RestLits(envs, leaked))) /\ Later(i, d, {})
    BY <1>2, <1>3, <1>4, <1>5, <1>6, DropRest
  <2>2. Ages(i, d, {}) /\ T \union {} = T
    BY <2>1, AgesLater
  <2>3. Ages(heap, d, T)
    <3>1. Ages(heap, d, T \union {})
      BY <1>3, <1>4, <1>6, <2>2, AgesAgain
    <3> QED  BY <2>2, <3>1
  <2>4. d.kind[f] = "frame"
    BY <1>3, <1>4, <1>6, <2>1 DEF Later, Valued
  <2> QED  BY <2>1, <2>3, <2>4
<1>7. leaked \subseteq leaked \union Lits(env)
  OBVIOUS
<1> QED  BY <1>1, <1>3, <1>4, <1>f, <1>6, <1>7, ReturnedInv

LEMMA ReturnInv == ASSUME IInv, Return PROVE IInv'
<1> DEFINE f == env.frame
           d == ReplaceSlot(heap, f, "ret", value)
           T == {f, value}
           l2 == leaked \union Lits(env)
<1>1. Evaluated /\ InCall /\ Returned(d) /\ leaked' = leaked \union Range(env.lits)
  BY DEF Return, LiteralsKept
<1>2. /\ State(heap, envs, leaked, captured) /\ env = envs[1] /\ env \in EnvType
      /\ envs \in Seq(EnvType) /\ envs # <<>>
  BY <1>1, Before DEF Evaluated
<1>3. /\ f \in Cell /\ d \in HeapType /\ heap.kind[f] = "frame"
      /\ ~d.bad => Well(d, All, Extra(Listed(envs, leaked))) /\ Ages(heap, d, T) /\ d.kind[f] = "frame"
      /\ Aside(heap, envs, f, T)
  BY <1>1, ReturnStored
<1>4. Range(env.lits) = Lits(env)
  <2>1. DOMAIN env.lits = 1..Len(env.lits)
    BY <1>2 DEF EnvType
  <2> QED  BY <2>1 DEF Range, Lits
<1>5. RestLits(envs, l2) = Listed(envs, leaked)
  BY <1>2, ListedAll DEF RestLits
<1>6. leaked' = l2 /\ l2 \subseteq leaked \union Lits(env)
  BY <1>1, <1>4
<1>f. f = env.frame
  OBVIOUS
<1> HIDE DEF d, f, T, l2
<1>7. ~d.bad => Ages(heap, d, T) /\ d.kind[f] = "frame" /\ Well(d, All, Extra(RestLits(envs, l2)))
  BY <1>3, <1>5
<1> QED  BY <1>1, <1>3, <1>f, <1>6, <1>7, ReturnedInv

LEMMA CalledInv == ASSUME IInv, NEW w \in Variables, Called(w) PROVE IInv'
<1> DEFINE q == Head(env.pending)
           a == q.cell
           b == heap.held[w[1]][w[2]]
           l == ReplaceSlot(heap, a, "p", value)
           f == Fresh(l)
           i == Alloc(l, "frame")
           j == ReplaceSlot(i, f, "args", a)
           g == ReplaceSlot(j, f, "x", value)
           n == [frame |-> f, closure |-> b, lits |-> <<>>, pending |-> <<>>]
           es == Changed(envs, Popped(env))
<1>1. /\ mode = "value" /\ env.pending # <<>> /\ q.op = "call" /\ ~Unsafe(w[1])
      /\ {c \in Cell : heap.kind[c] = "unused"} # {}
      /\ b # Nil /\ heap.kind[b] = "closure"
      /\ captured' = captured /\ leaked' = leaked
  BY Room DEF Called, Arrives, Top
<1>2. /\ heap' = g /\ value' = Nil /\ mode' = (IF heap'.bad THEN "stopped" ELSE "expression")
      /\ envs' = <<n>> \o <<Popped(env)>> \o Tail(envs)
  BY DEF Called, Resume, Top
<1>3. /\ State(heap, envs, leaked, captured) /\ captured \in [Cell -> Cell \union {Nil}]
      /\ env = envs[1] /\ env \in EnvType /\ envs \in Seq(EnvType) /\ envs # <<>> /\ heap \in HeapType
      /\ value \in Cell \union {Nil} /\ ValueOK(heap, envs, value)
  BY <1>1, Before
<1>4. /\ l \in HeapType /\ a \in Cell /\ heap.kind[a] = "args" /\ Popped(env) \in EnvType
      /\ ~l.bad => /\ State(l, es, leaked, captured) /\ l.kind = heap.kind
                   /\ ValueOK(l, es, value)
                   /\ \A k \in 1..Len(envs) : a \notin News(es[k])
  BY <1>1, <1>3, OnFilled
<1>5. b \in Cell /\ w[1] \in Cell /\ w[2] \in Slots
  BY <1>1, <1>3, VariableIs, Read
<1>6. es \in Seq(EnvType) /\ Len(es) = Len(envs)
  BY <1>3, <1>4, ChangedIs
<1>7. l.kind = heap.kind
  <2> HIDE DEF a
  <2>1. Recounted(heap, Incr(heap, value))
    BY <1>3, IncrIs
  <2> QED  BY <1>4, <2>1 DEF ReplaceSlot, Recounted, HeapType
<1>8. {c \in Cell : l.kind[c] = "unused"} # {}
  BY <1>1, <1>7
<1>9. f \in Cell
  <2> HIDE DEF l
  <2> QED  BY <1>4, <1>8, FreshIs
<1>10. g \in HeapType /\ (l.bad => g.bad)
  <2>1. i \in HeapType /\ (l.bad => i.bad)
    <3> HIDE DEF l
    <3> QED  BY <1>4, <1>9 DEF Alloc, HeapType, Kinds
  <2>2. "args" \in Slots /\ "x" \in Slots
    BY DEF Slots
  <2> HIDE DEF i, f, a
  <2>3. j \in HeapType /\ (i.bad => j.bad)
    BY <1>4, <1>9, <2>1, <2>2, ReplaceSlotIs
  <2> HIDE DEF j
  <2>4. g \in HeapType /\ (j.bad => g.bad)
    BY <1>3, <1>9, <2>2, <2>3, ReplaceSlotIs
  <2> QED  BY <2>1, <2>3, <2>4
<1>11. n \in EnvType
  <2>1. <<>> \in Seq(Cell) /\ <<>> \in Seq(PendingType)
    OBVIOUS
  <2> HIDE DEF f, b
  <2> QED  BY <1>5, <1>9, <2>1 DEF EnvType
<1>12. envs' = <<n>> \o es
  <2>1. Tail(envs) \in Seq(EnvType) /\ <<Popped(env)>> \in Seq(EnvType) /\ <<n>> \in Seq(EnvType)
    BY <1>3, <1>4, <1>11, TailIs
  <2> HIDE DEF n
  <2> QED  BY <1>2, <2>1 DEF Changed
<1>13. <<n>> \o es \in Seq(EnvType)
  BY <1>6, <1>11
<1>14. /\ f = Fresh(l) /\ j = ReplaceSlot(Alloc(l, "frame"), f, "args", a)
       /\ g = ReplaceSlot(j, f, "x", value)
       /\ n = [frame |-> f, closure |-> b, lits |-> <<>>, pending |-> <<>>]
  OBVIOUS
<1> HIDE DEF q, a, b, l, f, i, j, g, n, es
<1>15. ASSUME ~g.bad PROVE State(g, <<n>> \o es, leaked, captured)
  <2>1. /\ State(l, es, leaked, captured) /\ ValueOK(l, es, value)
        /\ \A k \in 1..Len(es) : a \notin News(es[k])
    BY <1>4, <1>6, <1>10, <1>15
  <2>2. l.kind[a] = "args" /\ l.kind[b] = "closure"
    BY <1>1, <1>4, <1>7
  <2> QED  BY <1>3, <1>4, <1>5, <1>8, <1>14, <1>15, <2>1, <2>2, OnFramed
<1>16. ~g.bad => ValueOK(g, <<n>> \o es, Nil)
  BY <1>15, NoValue
<1>17. envs' \in Seq(EnvType) /\ value' \in Cell \union {Nil} /\ heap' \in HeapType
  BY <1>2, <1>10, <1>12, <1>13
<1>18. ~heap'.bad => State(heap', envs', leaked', captured') /\ ValueOK(heap', envs', value')
  BY <1>1, <1>2, <1>12, <1>15, <1>16
<1> QED  BY <1>1, <1>2, <1>3, <1>17, <1>18, After

LEMMA InitInv == ASSUME Init PROVE IInv
<1> DEFINE e == [frame |-> Global, closure |-> Nil, lits |-> <<>>, pending |-> <<>>]
<1>1. /\ heap.kind = [c \in Cell |-> CASE c = Global -> "frame" [] c = Declared -> "closure" [] OTHER -> "unused"]
      /\ heap.count = [c \in Cell |-> IF c = Declared THEN 2 ELSE 0]
      /\ heap.held = [c \in Cell |-> IF c = Global THEN [Nothing EXCEPT !["y"] = Declared] ELSE Nothing]
      /\ heap.bad = FALSE
      /\ captured = [c \in Cell |-> IF c = Declared THEN Global ELSE Nil]
      /\ envs = <<e>> /\ mode = "expression" /\ value = Nil /\ leaked = {}
  BY DEF Init
<1>2. Global \in Cell /\ Declared \in Cell /\ Nil \notin Cell /\ Global # Declared
  BY Cells DEF Global, Declared
<1>3. /\ \A c \in Cell : heap.kind[c] = IF c = Global THEN "frame" ELSE IF c = Declared THEN "closure" ELSE "unused"
      /\ \A c \in Cell : heap.count[c] = IF c = Declared THEN 2 ELSE 0
      /\ \A c \in Cell, s \in Slots : heap.held[c][s] = IF c = Global /\ s = "y" THEN Declared ELSE Nil
  BY <1>1, <1>2 DEF Nothing
<1>4. heap \in HeapType
  <2>1. heap.kind \in [Cell -> Kinds]
    BY <1>1, <1>2 DEF Kinds
  <2>2. heap.count \in [Cell -> Int]
    BY <1>1
  <2>3. heap.held \in [Cell -> [Slots -> Cell \union {Nil}]]
    <3>1. Nothing \in [Slots -> Cell \union {Nil}]
      BY DEF Nothing
    <3>2. [Nothing EXCEPT !["y"] = Declared] \in [Slots -> Cell \union {Nil}]
      BY <1>2, <3>1
    <3> QED  BY <1>1, <3>1, <3>2
  <2>4. heap = [kind |-> heap.kind, count |-> heap.count, held |-> heap.held, bad |-> heap.bad]
    BY DEF Init
  <2> QED  BY <1>1, <2>1, <2>2, <2>3, <2>4 DEF HeapType
<1>5. e \in EnvType
  <2>1. <<>> \in Seq(Cell) /\ <<>> \in Seq(PendingType)
    OBVIOUS
  <2> QED  BY <1>2, <2>1 DEF EnvType
<1>6. Lits(e) = {} /\ News(e) = {} /\ e.frame = Global /\ EnvOK(heap, e)
  <2>1. e.lits = <<>> /\ e.pending = <<>> /\ e.frame = Global /\ e.closure = Nil
    OBVIOUS
  <2> HIDE DEF e
  <2>2. Lits(e) = {} /\ News(e) = {}
    BY <2>1 DEF Lits, News
  <2> QED  BY <1>2, <1>3, <2>1, <2>2 DEF EnvOK
<1> HIDE DEF e
<1>7. envs \in Seq(EnvType) /\ envs # <<>> /\ 1..Len(envs) = {1} /\ envs[1] = e
  BY <1>1, <1>5
<1>8. Listed(envs, leaked) = {Declared}
  BY <1>1, <1>6, <1>7 DEF Listed, AllLits
<1>9. Well(heap, All, Extra({Declared}))
  <2>1. Places(heap)
    BY <1>2, <1>3 DEF Places
  <2>2. Zero(heap)
    BY <1>2, <1>3 DEF Zero, Valued
  <2>3. Exact(heap, All, Extra({Declared}))
    <3> SUFFICES ASSUME NEW v \in Cell
                 PROVE  heap.count[v] = Cardinality(Refs(heap, All, v)) + Extra({Declared})[v]
      BY DEF Exact
    <3>0. \A p \in All : p = <<p[1], p[2]>> /\ p[1] \in Cell /\ p[2] \in Slots
      BY DEF All
    <3>1. CASE v = Declared
      <4>1. <<Global, "y">> \in All
        BY <1>2 DEF All, Slots
      <4>2. \A p \in All : heap.held[p[1]][p[2]] = v <=> p = <<Global, "y">>
        BY <1>2, <1>3, <3>0, <3>1
      <4>3. Refs(heap, All, v) = {<<Global, "y">>}
        BY <4>1, <4>2 DEF Refs
      <4>4. Cardinality({<<Global, "y">>}) = 1
        BY FS_Singleton
      <4> QED  BY <1>3, <3>1, <4>3, <4>4 DEF Extra
    <3>2. CASE v # Declared
      <4>1. \A p \in All : heap.held[p[1]][p[2]] # v
        BY <1>2, <1>3, <3>0, <3>2
      <4>2. Refs(heap, All, v) = {}
        BY <4>1 DEF Refs
      <4> QED  BY <1>3, <3>2, <4>2, FS_EmptySet DEF Extra
    <3> QED  BY <3>1, <3>2
  <2>4. Extra({Declared}) \in [Cell -> Nat]
    BY DEF Extra
  <2> QED  BY <1>1, <1>4, <2>1, <2>2, <2>3, <2>4 DEF Well
<1>10. EnvsOK(heap, envs) /\ FramesOK(heap, envs)
  <2>1. FramesOK(heap, envs)
    BY <1>2, <1>3, <1>6, <1>7 DEF FramesOK, Slots
  <2> QED  BY <1>6, <1>7, <2>1 DEF EnvsOK
<1>11. LeakedOK(heap, envs, leaked) /\ CapturedOK(heap, captured) /\ ValueOK(heap, envs, value)
  BY <1>1, <1>2, <1>3, <1>6, <1>7 DEF LeakedOK, CapturedOK, ValueOK
<1>12. Good
  BY <1>1, <1>2, <1>3, <1>8, <1>9, <1>10, <1>11 DEF Good
<1> QED  BY <1>1, <1>2, <1>4, <1>7, <1>12 DEF IInv, Typed

\* Counts, slots, literals and environments agree between any two steps of a script
\* that has not used freed memory.
THEOREM CountingInvariance == Spec => []IInv
<1>1. Init => IInv
  BY InitInv
<1>2. IInv /\ [Next]_vars => IInv'
  <2> SUFFICES ASSUME IInv, [Next]_vars PROVE IInv'
    OBVIOUS
  <2>1. CASE UNCHANGED vars
    BY <2>1 DEF vars, IInv, Typed, Good
  <2>2. CASE Number
    BY <2>2, NumberInv
  <2>3. CASE EmptyLiteral
    BY <2>3, EmptyLiteralInv
  <2>4. CASE Literal \/ Call
    BY <2>4, NewInv
  <2>5. CASE Function
    BY <2>5, FunctionInv
  <2>6. ASSUME NEW w \in Variables, Variable(w) PROVE IInv'
    BY <2>6, VariableInv
  <2>7. ASSUME NEW w \in Variables, Access(w) PROVE IInv'
    BY <2>7, AccessInv
  <2>8. ASSUME NEW w \in Variables, AssignVariable(w) PROVE IInv'
    BY <2>8, AssignVariableInv
  <2>9. ASSUME NEW w \in Variables, AssignProperty(w) PROVE IInv'
    BY <2>9, AssignPropertyInv
  <2>10. ASSUME NEW w \in Variables, Called(w) PROVE IInv'
    BY <2>10, CalledInv
  <2>11. CASE Assigned
    BY <2>11, AssignedInv
  <2>12. CASE LiteralMade
    BY <2>12, LiteralMadeInv
  <2>13. CASE Discarded
    BY <2>13, DiscardedInv
  <2>14. CASE BlockEnded
    BY <2>14, BlockEndedInv
  <2>15. CASE BodyEnded
    BY <2>15, BodyEndedInv
  <2>16. CASE BlockEndsBody
    BY <2>16, BlockEndsBodyInv
  <2>17. CASE Return
    BY <2>17, ReturnInv
  <2>18. CASE ReturnEndsBlock
    BY <2>18, ReturnEndsBlockInv
  <2> QED  BY <2>1, <2>2, <2>3, <2>4, <2>5, <2>6, <2>7, <2>8, <2>9, <2>10, <2>11, <2>12,
              <2>13, <2>14, <2>15, <2>16, <2>17, <2>18 DEF Next
<1> QED  BY <1>1, <1>2, PTL DEF Spec

\* TypeOK: between any two steps the heap and the environments have the shapes of the
\* code, and no count is negative while no freed memory has been used.
LEMMA Shapes == IInv => TypeOK
<1> SUFFICES ASSUME IInv PROVE TypeOK
  OBVIOUS
<1>1. Typed
  BY DEF IInv
<1>2. heap.bad \/ heap.count \in [Cell -> Nat]
  <2> SUFFICES ASSUME ~heap.bad PROVE heap.count \in [Cell -> Nat]
    OBVIOUS
  <2>1. Well(heap, All, Extra(Listed(envs, leaked)))
    BY DEF IInv, Good
  <2>2. \A v \in Cell : heap.count[v] \in Nat
    BY <2>1, Referred
  <2> QED  BY <1>1, <2>2 DEF Typed, HeapType
<1>3. \A k \in DOMAIN envs :
        /\ envs[k].frame \in Cell /\ envs[k].closure \in Cell \union {Nil}
        /\ envs[k].lits \in Seq(Cell)
  <2> SUFFICES ASSUME NEW k \in DOMAIN envs
               PROVE  /\ envs[k].frame \in Cell /\ envs[k].closure \in Cell \union {Nil}
                      /\ envs[k].lits \in Seq(Cell)
    OBVIOUS
  <2>1. envs[k] \in EnvType
    BY <1>1 DEF Typed
  <2> QED  BY <2>1 DEF EnvType
<1> QED  BY <1>1, <1>2, <1>3 DEF TypeOK, Typed, HeapType

\* The slots that hold a cell are those of allocated cells.
LEMMA SlotsCounted ==
  ASSUME Good, NEW v \in Cell
  PROVE  SlotsOf(v) = Refs(heap, All, v)
<1>1. \A p \in All : p[1] \in Cell /\ p[2] \in Slots
  BY DEF All
<1>2. v # Nil
  BY Cells
<1>3. \A p \in All : heap.held[p[1]][p[2]] = v => Allocated(heap, p[1])
  BY <1>1, <1>2 DEF Good, Well, Places, Allocated
<1> QED  BY <1>3 DEF SlotsOf, Refs, All

\* A literal is that of one environment, at one place.
LEMMA LiteralsCounted ==
  ASSUME Good, NEW v \in Cell
  PROVE  Cardinality(LiteralsOf(v)) = IF v \in AllLits(envs) THEN 1 ELSE 0
<1>1. /\ envs \in Seq(EnvType) /\ DOMAIN envs = 1..Len(envs)
      /\ \A k \in 1..Len(envs) : envs[k] \in EnvType /\ EnvOK(heap, envs[k])
      /\ \A k, l \in 1..Len(envs) : k # l => Lits(envs[k]) \intersect Lits(envs[l]) = {}
  BY DEF Good, EnvsOK, Apart
<1>2. \A k \in 1..Len(envs) : DOMAIN envs[k].lits = 1..Len(envs[k].lits)
  BY <1>1 DEF EnvType
<1>3. \A p : p \in LiteralsOf(v) <=>
        \E k \in 1..Len(envs) : \E i \in 1..Len(envs[k].lits) : p = <<k, i>> /\ envs[k].lits[i] = v
  BY <1>1, <1>2 DEF LiteralsOf
<1>4. CASE v \notin AllLits(envs)
  <2>1. \A k \in 1..Len(envs) : \A i \in 1..Len(envs[k].lits) : envs[k].lits[i] # v
    BY <1>4 DEF AllLits, Lits
  <2>2. LiteralsOf(v) = {}
    BY <1>3, <2>1
  <2> QED  BY <1>4, <2>2, FS_EmptySet
<1>5. CASE v \in AllLits(envs)
  <2>1. PICK k \in 1..Len(envs) : v \in Lits(envs[k])
    BY <1>5 DEF AllLits
  <2>2. PICK i \in 1..Len(envs[k].lits) : envs[k].lits[i] = v
    BY <2>1 DEF Lits
  <2>3. ASSUME NEW l \in 1..Len(envs), NEW j \in 1..Len(envs[l].lits), envs[l].lits[j] = v
        PROVE  l = k /\ j = i
    <3>1. v \in Lits(envs[l])
      BY <2>3 DEF Lits
    <3>2. l = k
      BY <1>1, <2>1, <3>1
    <3> QED  BY <1>1, <2>2, <2>3, <3>2 DEF EnvOK
  <2>4. \A p : p \in LiteralsOf(v) <=> p = <<k, i>>
    BY <1>3, <2>2, <2>3
  <2>5. LiteralsOf(v) = {<<k, i>>}
    BY <2>4
  <2>6. Cardinality({<<k, i>>}) = 1
    BY FS_Singleton
  <2> QED  BY <1>5, <2>5, <2>6
<1> QED  BY <1>4, <1>5

\* The count of a value is exactly the number of slots, literal lists and lists left
\* behind it is stored in, a declared function counting one more.
LEMMA Counted == IInv => CountsExact
<1> SUFFICES ASSUME IInv PROVE CountsExact
  OBVIOUS
<1>1. TypeOK
  BY Shapes
<1>2. ASSUME NEW v \in Cell, ~heap.bad, heap.kind[v] \in {"object", "args", "closure"}
      PROVE  heap.count[v] = Stored(v) + (IF v = Declared THEN 1 ELSE 0)
  <2>1. Good
    BY <1>2 DEF IInv
  <2>2. heap.count[v] = Cardinality(Refs(heap, All, v)) + Extra(Listed(envs, leaked))[v]
    BY <2>1 DEF Good, Well, Exact
  <2>3. Cardinality(Refs(heap, All, v)) \in Nat
    BY RefsFinite
  <2>4. Stored(v) = Cardinality(Refs(heap, All, v)) + (IF v \in AllLits(envs) THEN 1 ELSE 0)
                      + (IF v \in leaked THEN 1 ELSE 0)
    BY <2>1, SlotsCounted, LiteralsCounted DEF Stored
  <2>5. ~(v \in AllLits(envs) /\ v \in leaked)
    BY <2>1 DEF Good, LeakedOK
  <2>6. v = Declared => v \notin AllLits(envs) /\ v \notin leaked
    <3> SUFFICES ASSUME v = Declared PROVE v \notin AllLits(envs) /\ v \notin leaked
      OBVIOUS
    <3>1. heap.kind[v] = "closure"
      BY <2>1 DEF Good
    <3>2. v \notin leaked
      BY <2>1, <3>1 DEF Good, LeakedOK
    <3>3. \A k \in 1..Len(envs) : \A i \in 1..Len(envs[k].lits) : heap.kind[envs[k].lits[i]] = "object"
      BY <2>1 DEF Good, EnvsOK, EnvOK
    <3>4. \A k \in 1..Len(envs) : v \notin Lits(envs[k])
      BY <3>1, <3>3 DEF Lits
    <3> QED  BY <3>2, <3>4 DEF AllLits
  <2>7. Extra(Listed(envs, leaked))[v] = IF v \in AllLits(envs) \/ v \in leaked \/ v = Declared THEN 1 ELSE 0
    BY DEF Extra, Listed
  <2> QED  BY <2>2, <2>3, <2>4, <2>5, <2>6, <2>7
<1> QED  BY <1>1, <1>2 DEF CountsExact

\* What a live cell holds is live.
LEMMA Alive == IInv => NothingDangles
<1> SUFFICES ASSUME IInv, ~heap.bad, NEW c \in Cell, NEW s \in Slots, heap.held[c][s] # Nil
             PROVE  Allocated(heap, heap.held[c][s])
  BY DEF NothingDangles
<1>1. Good /\ heap \in HeapType
  BY DEF IInv, Typed
<1>2. State(heap, envs, leaked, captured)
  BY <1>1 DEF Good, State, IInv, Typed
<1>3. heap.kind[heap.held[c][s]] \in Valued
  BY <1>2, Read
<1> QED  BY <1>3 DEF Allocated, Valued

\* A frame lives exactly as long as the call that made it.
LEMMA Running == IInv => FramesRun
<1> SUFFICES ASSUME IInv, ~heap.bad, NEW f \in Cell
             PROVE  heap.kind[f] = "frame" <=> \E k \in DOMAIN envs : envs[k].frame = f
  BY DEF FramesRun
<1>1. Good
  BY DEF IInv
<1>2. DOMAIN envs = 1..Len(envs)
  BY <1>1 DEF Good, EnvsOK
<1> QED  BY <1>1, <1>2 DEF Good, EnvsOK, EnvOK, FramesOK

\* In every state of every script that has not used freed memory, the count of each
\* object, argument list and closure is the number of places it is stored in: deleteValue
\* at zero never takes a value that a slot or a list of literals still has, and no count is
\* gained that nothing accounts for, but those of the literals of a function's own list, which
\* eval_list does not abandon at its end.
THEOREM CountsAreExact == Spec => []CountsExact
BY CountingInvariance, Counted, PTL

\* No live object, argument list or frame refers to freed memory: whatever deleteValue
\* and abandonScope free has first been taken out of everything that lives on.
THEOREM NothingLiveDangles == Spec => []NothingDangles
BY CountingInvariance, Alive, PTL

\* The frames in memory are those of the calls that have not returned: fcnCall frees each
\* when its call returns, whatever closures captured it, and no step frees one before.
THEOREM FramesAreCalls == Spec => []FramesRun
BY CountingInvariance, Running, PTL

=============================================================================
