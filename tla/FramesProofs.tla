---------------------------- MODULE FramesProofs ----------------------------
(***************************************************************************)
(* Proofs about the object allocator, for every set of threads and lists,  *)
(* frames of any size and any number of calls of allocMap that succeed.    *)
(***************************************************************************)
EXTENDS Frames, Lemmas

-----------------------------------------------------------------------------
(* The used slots of a chain, and what is in them.                         *)

Addresses(nx) == [frame : 0..Len(nx), nslot : 0..FrameSlots]

\* A DbAddr that leads to a chain without a cycle.
AddrOK(nx, a) ==
  /\ a \in Addresses(nx)
  /\ a.nslot > 0 => a.frame # 0
  /\ Acyclic(nx, a.frame)

SlotsOK(nx, sl) == sl \in Seq([1..FrameSlots -> Nat]) /\ Len(sl) = Len(nx)

UsedIn(nx, a) ==
  {p \in Reach(nx, a.frame) \X (1..FrameSlots) : p[1] = a.frame => p[2] <= a.nslot}

HeldIn(sl, U) == {sl[p[1]][p[2]] : p \in U}

\* No two slots of U hold the same.
OnceIn(sl, U) == \A p, q \in U : sl[p[1]][p[2]] = sl[q[1]][q[2]] => p = q

LEMMA AddrType ==
  ASSUME NEW nx, NEW a, AddrOK(nx, a)
  PROVE  /\ a.frame \in 0..Len(nx) /\ a.nslot \in 0..FrameSlots
         /\ a = Addr(a.frame, a.nslot)
BY DEF AddrOK, Addresses, Addr

LEMMA UsedSame ==
  ASSUME NEW nx, Links(nx), NEW ny, Links(ny), Len(nx) <= Len(ny), NEW a, AddrOK(nx, a),
         \A g \in Reach(nx, a.frame) : ny[g] = nx[g]
  PROVE  /\ UsedIn(ny, a) = UsedIn(nx, a)
         /\ AddrOK(ny, a)
         /\ Reach(ny, a.frame) = Reach(nx, a.frame)
<1>1. a.frame \in 0..Len(nx) /\ Acyclic(nx, a.frame) /\ (a.nslot > 0 => a.frame # 0) /\ a \in Addresses(nx)
  BY DEF AddrOK, Addresses
<1>2. Reach(ny, a.frame) = Reach(nx, a.frame) /\ Acyclic(ny, a.frame)
  BY <1>1, ReachSame, AcyclicSame
<1>3. Addresses(nx) \subseteq Addresses(ny)
  BY DEF Addresses, Links
<1> QED  BY <1>1, <1>2, <1>3 DEF AddrOK, UsedIn

\* the last used slot of the first frame taken
LEMMA UsedPop ==
  ASSUME NEW nx, Links(nx), NEW a, AddrOK(nx, a), a.nslot > 0
  PROVE  LET b == Addr(a.frame, a.nslot - 1)
         IN /\ AddrOK(nx, b)
            /\ <<a.frame, a.nslot>> \in UsedIn(nx, a)
            /\ UsedIn(nx, b) = UsedIn(nx, a) \ {<<a.frame, a.nslot>>}
<1>1. a.frame \in 1..Len(nx) /\ a.nslot \in 1..FrameSlots /\ Acyclic(nx, a.frame)
  BY FramesAssumption DEF AddrOK, Addresses, Links
<1>2. a.frame \in Reach(nx, a.frame)
  BY <1>1, AcyclicNext
<1> DEFINE b == Addr(a.frame, a.nslot - 1)
<1>3. b.frame = a.frame /\ b.nslot = a.nslot - 1 /\ AddrOK(nx, b)
  BY <1>1, FramesAssumption DEF Addr, AddrOK, Addresses
<1> HIDE DEF b
<1>4. ASSUME NEW p \in Reach(nx, a.frame) \X (1..FrameSlots)
      PROVE  (p[1] = a.frame => p[2] <= a.nslot - 1)
                <=> (p[1] = a.frame => p[2] <= a.nslot) /\ p # <<a.frame, a.nslot>>
  BY <1>1, FramesAssumption
<1>5. UsedIn(nx, b) = UsedIn(nx, a) \ {<<a.frame, a.nslot>>}
  BY <1>3, <1>4 DEF UsedIn
<1> QED  BY <1>1, <1>2, <1>3, <1>5 DEF UsedIn, b

\* the first frame, empty, given up for the next, which is full
LEMMA UsedNext ==
  ASSUME NEW nx, Links(nx), NEW a, AddrOK(nx, a), a.frame # 0, a.nslot = 0
  PROVE  /\ nx[a.frame] \in 0..Len(nx)
         /\ Acyclic(nx, nx[a.frame])
         /\ a.frame \in Reach(nx, a.frame)
         /\ Reach(nx, nx[a.frame]) = Reach(nx, a.frame) \ {a.frame}
         /\ nx[a.frame] = 0 => UsedIn(nx, a) = {}
         /\ nx[a.frame] # 0 => LET b == Addr(nx[a.frame], FrameSlots)
                               IN AddrOK(nx, b) /\ UsedIn(nx, b) = UsedIn(nx, a)
<1>1. a.frame \in 1..Len(nx) /\ Acyclic(nx, a.frame)
  BY DEF AddrOK, Addresses, Links
<1>2. /\ a.frame \in Reach(nx, a.frame)
      /\ nx[a.frame] \in 0..Len(nx)
      /\ Reach(nx, nx[a.frame]) = Reach(nx, a.frame) \ {a.frame}
      /\ Acyclic(nx, nx[a.frame])
  BY <1>1, AcyclicNext
<1>3. ASSUME nx[a.frame] = 0 PROVE UsedIn(nx, a) = {}
  BY <1>2, <1>3, ReachNone, FramesAssumption DEF UsedIn
<1>4. ASSUME nx[a.frame] # 0
      PROVE  LET b == Addr(nx[a.frame], FrameSlots)
             IN AddrOK(nx, b) /\ UsedIn(nx, b) = UsedIn(nx, a)
  <2> DEFINE b == Addr(nx[a.frame], FrameSlots)
  <2>1. b.frame = nx[a.frame] /\ b.nslot = FrameSlots /\ AddrOK(nx, b)
    BY <1>2, <1>4, FramesAssumption DEF Addr, AddrOK, Addresses
  <2> HIDE DEF b
  <2>2. UsedIn(nx, b) = UsedIn(nx, a)
    BY <1>2, <2>1, FramesAssumption DEF UsedIn
  <2> QED  BY <2>1, <2>2 DEF b
<1> QED  BY <1>2, <1>3, <1>4

\* one more slot of the first frame used
LEMMA UsedPush ==
  ASSUME NEW nx, Links(nx), NEW a, AddrOK(nx, a), HasSpace(a)
  PROVE  LET b == Addr(a.frame, a.nslot + 1)
         IN /\ AddrOK(nx, b)
            /\ a.frame \in Reach(nx, a.frame) /\ a.nslot + 1 \in 1..FrameSlots
            /\ <<a.frame, a.nslot + 1>> \notin UsedIn(nx, a)
            /\ UsedIn(nx, b) = UsedIn(nx, a) \union {<<a.frame, a.nslot + 1>>}
<1>1. /\ a.frame \in 1..Len(nx) /\ a.nslot \in 0..FrameSlots /\ a.nslot + 1 \in 1..FrameSlots
      /\ Acyclic(nx, a.frame)
  BY FramesAssumption DEF AddrOK, Addresses, Links, HasSpace, NoFrame
<1>2. a.frame \in Reach(nx, a.frame)
  BY <1>1, AcyclicNext
<1> DEFINE b == Addr(a.frame, a.nslot + 1)
<1>3. b.frame = a.frame /\ b.nslot = a.nslot + 1 /\ AddrOK(nx, b)
  BY <1>1, FramesAssumption DEF Addr, AddrOK, Addresses
<1> HIDE DEF b
<1>4. ASSUME NEW p \in Reach(nx, a.frame) \X (1..FrameSlots)
      PROVE  (p[1] = a.frame => p[2] <= a.nslot + 1)
                <=> (p[1] = a.frame => p[2] <= a.nslot) \/ p = <<a.frame, a.nslot + 1>>
  BY <1>1, FramesAssumption
<1>5. UsedIn(nx, b) = UsedIn(nx, a) \union {<<a.frame, a.nslot + 1>>}
  BY <1>1, <1>2, <1>3, <1>4 DEF UsedIn
<1>6. <<a.frame, a.nslot + 1>> \notin UsedIn(nx, a)
  BY <1>1, FramesAssumption DEF UsedIn
<1> QED  BY <1>1, <1>2, <1>3, <1>5, <1>6 DEF b

\* no frame comes after the first
Alone(nx, a) == a.frame # 0 => nx[a.frame] = 0

LEMMA AloneSame ==
  ASSUME NEW nx, Links(nx), NEW ny, Links(ny), NEW a, AddrOK(nx, a), AddrOK(ny, a),
         UsedIn(ny, a) = UsedIn(nx, a), Alone(nx, a)
  PROVE  Alone(ny, a)
<1> SUFFICES ASSUME a.frame # 0, ny[a.frame] # 0 PROVE FALSE
  BY DEF Alone
<1> DEFINE f == a.frame
           g == ny[f]
<1>1. f \in 1..Len(nx) /\ f \in 1..Len(ny) /\ nx[f] = 0 /\ g \in 0..Len(ny) /\ g # 0
  BY AddrType DEF Alone, Links
<1>2. g \in 1..Len(ny) /\ Acyclic(ny, f)
  BY <1>1 DEF AddrOK, Links
<1> HIDE DEF f
<1>3. Reach(nx, f) = {f}
  BY <1>1, ReachNext, ReachNone
<1>4. Reach(ny, f) = {f} \union Reach(ny, g) /\ g \in Reach(ny, g)
  BY <1>1, <1>2, ReachNext
<1>5. g \in Reach(ny, f) /\ g # f
  BY <1>2, <1>4 DEF Acyclic
<1>6. <<g, 1>> \in UsedIn(ny, a)
  BY <1>5, FramesAssumption DEF UsedIn, f
<1>7. g \in Reach(nx, f)
  BY <1>6 DEF UsedIn, f
<1> QED  BY <1>3, <1>5, <1>7

\* a frame with k used slots put in front of a chain whose first frame is full
PushedFrame(nx, a, g, k, ny, b) ==
  /\ Links(nx) /\ AddrOK(nx, a) /\ ~HasSpace(a)
  /\ g \in 1..Len(nx) /\ g \notin Reach(nx, a.frame) /\ k \in 0..FrameSlots
  /\ ny = [nx EXCEPT ![g] = a.frame] /\ b = Addr(g, k)

LEMMA UsedPushFrame ==
  ASSUME NEW nx, NEW a, NEW g, NEW k, NEW ny, NEW b, PushedFrame(nx, a, g, k, ny, b)
  PROVE  /\ Links(ny) /\ Len(ny) = Len(nx) /\ AddrOK(ny, b)
         /\ Reach(ny, g) = {g} \union Reach(nx, a.frame)
         /\ UsedIn(ny, b) = UsedIn(nx, a) \union ({g} \X (1..k))
<1>1. /\ a.frame \in 0..Len(nx) /\ Acyclic(nx, a.frame) /\ a.nslot \in 0..FrameSlots
      /\ g \in 1..Len(nx) /\ k \in 0..FrameSlots
  BY DEF PushedFrame, AddrOK, Addresses
<1>2. /\ Links(ny) /\ Len(ny) = Len(nx) /\ Acyclic(ny, g)
      /\ Reach(ny, g) = {g} \union Reach(nx, a.frame)
  BY <1>1, ReachPushed DEF PushedFrame
<1>3. b.frame = g /\ b.nslot = k /\ AddrOK(ny, b)
  <2>1. b = Addr(g, k)
    BY DEF PushedFrame
  <2> QED  BY <1>1, <1>2, <2>1, FramesAssumption DEF Addr, AddrOK, Addresses
<1>4. UsedIn(nx, a) = Reach(nx, a.frame) \X (1..FrameSlots)
  <2>1. CASE a.frame = 0
    BY <2>1, ReachNone DEF UsedIn
  <2>2. CASE a.frame # 0
    <3>1. a.nslot = FrameSlots
      BY <1>1, <2>2, FramesAssumption DEF HasSpace, NoFrame, PushedFrame
    <3> QED  BY <3>1, FramesAssumption DEF UsedIn
  <2> QED  BY <2>1, <2>2
<1>5. UsedIn(ny, b) = UsedIn(nx, a) \union ({g} \X (1..k))
  <2>1. \A i \in 1..FrameSlots : i \in 1..k <=> i <= k
    BY FramesAssumption
  <2>2. \A i \in 1..k : i \in 1..FrameSlots
    BY <1>1, FramesAssumption
  <2>3. g \notin Reach(nx, a.frame)
    BY DEF PushedFrame
  <2> QED  BY <1>2, <1>3, <1>4, <2>1, <2>2, <2>3 DEF UsedIn
<1> QED  BY <1>2, <1>3, <1>5

-----------------------------------------------------------------------------
(* What is held, when the used slots change.                               *)

LEMMA HeldSame ==
  ASSUME NEW sl, NEW sm, NEW U, \A p \in U : sm[p[1]][p[2]] = sl[p[1]][p[2]]
  PROVE  HeldIn(sm, U) = HeldIn(sl, U) /\ (OnceIn(sl, U) => OnceIn(sm, U))
BY DEF HeldIn, OnceIn

LEMMA HeldMinus ==
  ASSUME NEW sl, NEW U, NEW p \in U, OnceIn(sl, U)
  PROVE  /\ sl[p[1]][p[2]] \in HeldIn(sl, U)
         /\ HeldIn(sl, U \ {p}) = HeldIn(sl, U) \ {sl[p[1]][p[2]]}
         /\ OnceIn(sl, U \ {p})
BY DEF HeldIn, OnceIn

LEMMA HeldPlus ==
  ASSUME NEW sl, NEW U, NEW p, OnceIn(sl, U), sl[p[1]][p[2]] \notin HeldIn(sl, U)
  PROVE  /\ HeldIn(sl, U \union {p}) = HeldIn(sl, U) \union {sl[p[1]][p[2]]}
         /\ OnceIn(sl, U \union {p})
BY DEF HeldIn, OnceIn

-----------------------------------------------------------------------------
(* The chains of several DbAddr's, which share no frame.                   *)

ChainsOK(nx, D, hs) ==
  /\ \A d \in D : AddrOK(nx, hs[d])
  /\ \A d, e \in D : d # e => Reach(nx, hs[d].frame) \intersect Reach(nx, hs[e].frame) = {}

Chained(nx, D, hs) == UNION {Reach(nx, hs[d].frame) : d \in D}

\* only nslot changed
LEMMA ChainsKept ==
  ASSUME NEW nx, NEW D, NEW hs, ChainsOK(nx, D, hs), NEW gs,
         \A d \in D : gs[d].frame = hs[d].frame /\ AddrOK(nx, gs[d])
  PROVE  ChainsOK(nx, D, gs) /\ Chained(nx, D, gs) = Chained(nx, D, hs)
BY DEF ChainsOK, Chained

\* links changed nowhere in the chains, or more frames
LEMMA ChainsGrown ==
  ASSUME NEW nx, Links(nx), NEW ny, Links(ny), Len(nx) <= Len(ny), NEW D, NEW hs, ChainsOK(nx, D, hs),
         \A g \in Chained(nx, D, hs) : ny[g] = nx[g]
  PROVE  /\ ChainsOK(ny, D, hs) /\ Chained(ny, D, hs) = Chained(nx, D, hs)
         /\ \A d \in D : /\ Reach(ny, hs[d].frame) = Reach(nx, hs[d].frame)
                        /\ UsedIn(ny, hs[d]) = UsedIn(nx, hs[d])
<1>1. ASSUME NEW d \in D
      PROVE  /\ AddrOK(ny, hs[d])
             /\ Reach(ny, hs[d].frame) = Reach(nx, hs[d].frame)
             /\ UsedIn(ny, hs[d]) = UsedIn(nx, hs[d])
  <2>1. AddrOK(nx, hs[d]) /\ \A g \in Reach(nx, hs[d].frame) : ny[g] = nx[g]
    BY DEF ChainsOK, Chained
  <2> QED  BY <2>1, UsedSame
<1>2. ChainsOK(ny, D, hs)
  BY <1>1 DEF ChainsOK
<1>3. Chained(ny, D, hs) = Chained(nx, D, hs)
  BY <1>1 DEF Chained
<1> QED  BY <1>1, <1>2, <1>3

\* the first frame of one given up
LEMMA ChainsPop ==
  ASSUME NEW nx, Links(nx), NEW D, NEW hs, ChainsOK(nx, D, hs), NEW d \in D, hs[d].frame # 0,
         NEW b, AddrOK(nx, b), b.frame = nx[hs[d].frame],
         NEW gs, gs[d] = b, \A e \in D : e # d => gs[e] = hs[e]
  PROVE  /\ ChainsOK(nx, D, gs)
         /\ hs[d].frame \in Chained(nx, D, hs)
         /\ Chained(nx, D, gs) = Chained(nx, D, hs) \ {hs[d].frame}
<1> DEFINE f == hs[d].frame
<1>1. /\ f \in Reach(nx, f)
      /\ Reach(nx, b.frame) = Reach(nx, f) \ {f}
  <2>1. f \in 1..Len(nx) /\ Acyclic(nx, f)
    BY AddrType DEF ChainsOK, AddrOK
  <2> QED  BY <2>1, AcyclicNext
<1>2. \A e \in D : e # d => f \notin Reach(nx, gs[e].frame)
  BY <1>1 DEF ChainsOK
<1>3. ChainsOK(nx, D, gs)
  <2>1. \A e \in D : AddrOK(nx, gs[e])
    BY DEF ChainsOK
  <2>2. \A e \in D : Reach(nx, gs[e].frame) \subseteq Reach(nx, hs[e].frame)
    BY <1>1
  <2> QED  BY <2>1, <2>2 DEF ChainsOK
<1>4. Chained(nx, D, gs) = Chained(nx, D, hs) \ {f}
  BY <1>1, <1>2 DEF Chained
<1> QED  BY <1>1, <1>3, <1>4 DEF Chained

\* a frame of none put in front of one, or alone in the place of one
LEMMA ChainsPush ==
  ASSUME NEW nx, Links(nx), NEW ny, Links(ny), Len(nx) <= Len(ny),
         NEW D, NEW hs, ChainsOK(nx, D, hs), NEW d \in D,
         NEW x \in 1..Len(ny), x \notin Chained(nx, D, hs),
         \A g \in Chained(nx, D, hs) : ny[g] = nx[g],
         NEW b, AddrOK(ny, b), Reach(ny, b.frame) = {x} \union Reach(nx, hs[d].frame),
         NEW gs, gs[d] = b, \A e \in D : e # d => gs[e] = hs[e]
  PROVE  /\ ChainsOK(ny, D, gs)
         /\ Chained(ny, D, gs) = Chained(nx, D, hs) \union {x}
         /\ \A e \in D : e # d => /\ Reach(ny, gs[e].frame) = Reach(nx, hs[e].frame)
                                 /\ UsedIn(ny, gs[e]) = UsedIn(nx, hs[e])
<1>1. \A e \in D : e # d => /\ Reach(ny, gs[e].frame) = Reach(nx, hs[e].frame)
                            /\ UsedIn(ny, gs[e]) = UsedIn(nx, hs[e])
                            /\ AddrOK(ny, gs[e])
  <2>1. /\ ChainsOK(ny, D, hs)
        /\ \A e \in D : /\ Reach(ny, hs[e].frame) = Reach(nx, hs[e].frame)
                       /\ UsedIn(ny, hs[e]) = UsedIn(nx, hs[e])
    BY ChainsGrown
  <2> QED  BY <2>1 DEF ChainsOK
<1>2. \A e \in D : e # d => x \notin Reach(nx, hs[e].frame)
  BY DEF Chained
<1>3. ChainsOK(ny, D, gs)
  <2>1. \A e \in D : AddrOK(ny, gs[e])
    BY <1>1
  <2>2. \A e, c \in D : e # c => Reach(ny, gs[e].frame) \intersect Reach(ny, gs[c].frame) = {}
    <3>1. \A e, c \in D : e # c => Reach(nx, hs[e].frame) \intersect Reach(nx, hs[c].frame) = {}
      BY DEF ChainsOK
    <3> QED  BY <1>1, <1>2, <3>1
  <2> QED  BY <2>1, <2>2 DEF ChainsOK
<1>4. Chained(ny, D, gs) = Chained(nx, D, hs) \union {x}
  BY <1>1 DEF Chained
<1> QED  BY <1>1, <1>3, <1>4

-----------------------------------------------------------------------------
(* Where every frame is: in a chain, in a used slot of the chain of empty  *)
(* frames, out with a thread, or lost.                                     *)

Heads(L, ff, hd) == [d \in L \union {None} |-> IF d = None THEN ff ELSE hd[d]]

Split(all, chained, empty, out, lost) ==
  /\ all = chained \union empty \union out \union lost
  /\ chained \intersect empty = {} /\ chained \intersect out = {} /\ chained \intersect lost = {}
  /\ empty \intersect out = {} /\ empty \intersect lost = {} /\ out \intersect lost = {}

Parts(nx, sl, ff, L, hd, out, lost) ==
  /\ Links(nx) /\ SlotsOK(nx, sl)
  /\ ChainsOK(nx, L \union {None}, Heads(L, ff, hd))
  /\ OnceIn(sl, UsedIn(nx, ff))
  /\ Split(1..Len(nx), Chained(nx, L \union {None}, Heads(L, ff, hd)), HeldIn(sl, UsedIn(nx, ff)), out, lost)

LEMMA PartsPool ==
  ASSUME NEW nx, NEW sl, NEW ff, NEW L, None \notin L, NEW hd, NEW out, NEW lost,
         Parts(nx, sl, ff, L, hd, out, lost)
  PROVE  /\ AddrOK(nx, ff)
         /\ Reach(nx, ff.frame) \subseteq Chained(nx, L \union {None}, Heads(L, ff, hd))
         /\ \A l \in L : /\ AddrOK(nx, hd[l])
                        /\ Reach(nx, hd[l].frame) \subseteq Chained(nx, L \union {None}, Heads(L, ff, hd))
<1>1. Heads(L, ff, hd)[None] = ff /\ \A l \in L : Heads(L, ff, hd)[l] = hd[l]
  BY DEF Heads
<1> QED  BY <1>1 DEF Parts, ChainsOK, Chained

\* allocFrame from a used slot of the chain of empty frames
LEMMA PartsTakeSlot ==
  ASSUME NEW nx, NEW sl, NEW ff, NEW L, None \notin L, NEW hd, NEW out, NEW lost,
         Parts(nx, sl, ff, L, hd, out, lost), ff.nslot > 0
  PROVE  LET x == sl[ff.frame][ff.nslot]
         IN /\ Parts(nx, sl, Addr(ff.frame, ff.nslot - 1), L, hd, out \union {x}, lost)
            /\ x \in 1..Len(nx) /\ x \notin out
<1> DEFINE x == sl[ff.frame][ff.nslot]
           gg == Addr(ff.frame, ff.nslot - 1)
           D == L \union {None}
           U == UsedIn(nx, ff)
           p == <<ff.frame, ff.nslot>>
<1>1. Links(nx) /\ AddrOK(nx, ff)
  BY PartsPool DEF Parts
<1>2. AddrOK(nx, gg) /\ gg.frame = ff.frame /\ p \in U /\ UsedIn(nx, gg) = U \ {p}
  BY <1>1, UsedPop DEF Addr
<1>3. x = sl[p[1]][p[2]]
  OBVIOUS
<1> HIDE DEF x, gg, p, U
<1>4. x \in HeldIn(sl, U) /\ HeldIn(sl, UsedIn(nx, gg)) = HeldIn(sl, U) \ {x} /\ OnceIn(sl, UsedIn(nx, gg))
  <2>1. OnceIn(sl, U)
    BY DEF Parts, U
  <2>2. /\ sl[p[1]][p[2]] \in HeldIn(sl, U)
        /\ HeldIn(sl, U \ {p}) = HeldIn(sl, U) \ {sl[p[1]][p[2]]}
        /\ OnceIn(sl, U \ {p})
    BY <1>2, <2>1, HeldMinus
  <2> QED  BY <1>2, <1>3, <2>2
<1>5. /\ ChainsOK(nx, D, Heads(L, gg, hd))
      /\ Chained(nx, D, Heads(L, gg, hd)) = Chained(nx, D, Heads(L, ff, hd))
  <2>1. \A d \in D : /\ Heads(L, gg, hd)[d].frame = Heads(L, ff, hd)[d].frame
                     /\ AddrOK(nx, Heads(L, gg, hd)[d])
    BY <1>2, PartsPool DEF Heads
  <2>2. ChainsOK(nx, D, Heads(L, ff, hd))
    BY DEF Parts
  <2> HIDE DEF D
  <2> QED  BY <2>1, <2>2, ChainsKept
<1>6. Split(1..Len(nx), Chained(nx, D, Heads(L, ff, hd)), HeldIn(sl, U), out, lost)
  BY DEF Parts, U
<1>7. Split(1..Len(nx), Chained(nx, D, Heads(L, gg, hd)), HeldIn(sl, UsedIn(nx, gg)), out \union {x}, lost)
  BY <1>4, <1>5, <1>6 DEF Split
<1>8. x \in 1..Len(nx) /\ x \notin out
  BY <1>4, <1>6 DEF Split
<1> QED  BY <1>4, <1>5, <1>7, <1>8 DEF Parts, x, gg

\* allocFrame of the first frame of the chain of empty frames
LEMMA PartsTakeFirst ==
  ASSUME NEW nx, NEW sl, NEW ff, NEW L, None \notin L, NEW hd, NEW out, NEW lost,
         Parts(nx, sl, ff, L, hd, out, lost), ff.nslot = 0, ff.frame # 0, nx[ff.frame] # 0
  PROVE  /\ Parts(nx, sl, Addr(nx[ff.frame], FrameSlots), L, hd, out \union {ff.frame}, lost)
         /\ ff.frame \in 1..Len(nx) /\ ff.frame \notin out
<1> DEFINE x == ff.frame
           gg == Addr(nx[x], FrameSlots)
           D == L \union {None}
           hs == Heads(L, ff, hd)
           gs == Heads(L, gg, hd)
<1>1. Links(nx) /\ AddrOK(nx, ff) /\ ChainsOK(nx, D, hs)
  BY PartsPool DEF Parts
<1>2. AddrOK(nx, gg) /\ UsedIn(nx, gg) = UsedIn(nx, ff) /\ gg.frame = nx[x]
  BY <1>1, UsedNext DEF Addr
<1>3. /\ None \in D /\ hs[None].frame = x /\ gs[None] = gg
      /\ \A d \in D : d # None => gs[d] = hs[d]
  BY DEF Heads
<1> HIDE DEF gg, D, hs, gs
<1>4. /\ ChainsOK(nx, D, gs) /\ x \in Chained(nx, D, hs)
      /\ Chained(nx, D, gs) = Chained(nx, D, hs) \ {x}
  <2>1. hs[None].frame # 0 /\ gg.frame = nx[hs[None].frame]
    BY <1>2, <1>3
  <2> HIDE DEF x
  <2>2. /\ ChainsOK(nx, D, gs) /\ hs[None].frame \in Chained(nx, D, hs)
        /\ Chained(nx, D, gs) = Chained(nx, D, hs) \ {hs[None].frame}
    BY <1>1, <1>2, <1>3, <2>1, ChainsPop
  <2> QED  BY <1>3, <2>2
<1>5. Split(1..Len(nx), Chained(nx, D, hs), HeldIn(sl, UsedIn(nx, ff)), out, lost)
  BY DEF Parts, D, hs
<1>6. Split(1..Len(nx), Chained(nx, D, gs), HeldIn(sl, UsedIn(nx, gg)), out \union {x}, lost)
  BY <1>2, <1>4, <1>5 DEF Split
<1>7. x \in 1..Len(nx) /\ x \notin out
  BY <1>4, <1>5 DEF Split
<1> QED  BY <1>2, <1>4, <1>6, <1>7 DEF Parts, gg, D, gs

\* a list gives up its first frame
Drop(nx, sl, ff, L, hd, out, lost, l, b, he) ==
  /\ Parts(nx, sl, ff, L, hd, out, lost) /\ None \notin L
  /\ l \in L /\ hd[l].frame # 0
  /\ AddrOK(nx, b) /\ b.frame = nx[hd[l].frame]
  /\ he[l] = b /\ \A m \in L : m # l => he[m] = hd[m]

LEMMA PartsDrop ==
  ASSUME NEW nx, NEW sl, NEW ff, NEW L, NEW hd, NEW out, NEW lost,
         NEW l, NEW b, NEW he, Drop(nx, sl, ff, L, hd, out, lost, l, b, he)
  PROVE  /\ Parts(nx, sl, ff, L, he, out \union {hd[l].frame}, lost)
         /\ hd[l].frame \in 1..Len(nx) /\ hd[l].frame \notin out
<1> DEFINE x == hd[l].frame
           D == L \union {None}
           hs == Heads(L, ff, hd)
           gs == Heads(L, ff, he)
<1>1. Links(nx) /\ ChainsOK(nx, D, hs) /\ l \in L /\ x # 0 /\ AddrOK(nx, b) /\ b.frame = nx[x]
  BY DEF Parts, Drop
<1>2. /\ l \in D /\ hs[l].frame = x /\ gs[l] = b
      /\ \A d \in D : d # l => gs[d] = hs[d]
  BY DEF Heads, Drop
<1> HIDE DEF D, hs, gs
<1>3. /\ ChainsOK(nx, D, gs) /\ x \in Chained(nx, D, hs)
      /\ Chained(nx, D, gs) = Chained(nx, D, hs) \ {x}
  <2>1. hs[l].frame # 0 /\ b.frame = nx[hs[l].frame]
    BY <1>1, <1>2
  <2> HIDE DEF x
  <2>2. /\ ChainsOK(nx, D, gs) /\ hs[l].frame \in Chained(nx, D, hs)
        /\ Chained(nx, D, gs) = Chained(nx, D, hs) \ {hs[l].frame}
    BY <1>1, <1>2, <2>1, ChainsPop
  <2> QED  BY <1>2, <2>2
<1>4. Split(1..Len(nx), Chained(nx, D, hs), HeldIn(sl, UsedIn(nx, ff)), out, lost)
  BY DEF Parts, Drop, D, hs
<1>5. Split(1..Len(nx), Chained(nx, D, gs), HeldIn(sl, UsedIn(nx, ff)), out \union {x}, lost)
  BY <1>3, <1>4 DEF Split
<1>6. x \in 1..Len(nx) /\ x \notin out
  BY <1>3, <1>4 DEF Split
<1> QED  BY <1>3, <1>5, <1>6 DEF Parts, Drop, D, gs

\* a frame that is out becomes the first of a list, or the only one
Put(nx, sl, ff, L, hd, out, lost, l, x, k, s, ny, sm, he) ==
  /\ Parts(nx, sl, ff, L, hd, out, lost) /\ None \notin L /\ x \in out
  /\ l \in L /\ ~HasSpace(hd[l]) /\ k \in 0..FrameSlots /\ s \in [1..FrameSlots -> Nat]
  /\ ny = [nx EXCEPT ![x] = hd[l].frame] /\ sm = [sl EXCEPT ![x] = s]
  /\ he[l] = Addr(x, k) /\ \A m \in L : m # l => he[m] = hd[m]

HasPut(nx, ff, L, hd, out, lost, l, x, k, ny, sm, he) ==
  /\ Parts(ny, sm, ff, L, he, out \ {x}, lost)
  /\ Len(ny) = Len(nx) /\ x \in 1..Len(nx)
  /\ UsedIn(ny, he[l]) = UsedIn(nx, hd[l]) \union ({x} \X (1..k))
  /\ \A m \in L : x \notin Reach(nx, hd[m].frame)
  /\ \A m \in L : m # l => UsedIn(ny, he[m]) = UsedIn(nx, hd[m])

LEMMA PartsPut ==
  ASSUME NEW nx, NEW sl, NEW ff, NEW L, NEW hd, NEW out, NEW lost,
         NEW l, NEW x, NEW k, NEW s, NEW ny, NEW sm, NEW he,
         Put(nx, sl, ff, L, hd, out, lost, l, x, k, s, ny, sm, he)
  PROVE  HasPut(nx, ff, L, hd, out, lost, l, x, k, ny, sm, he)
<1> DEFINE D == L \union {None}
           hs == Heads(L, ff, hd)
           gs == Heads(L, ff, he)
           b == Addr(x, k)
<1>0. Parts(nx, sl, ff, L, hd, out, lost) /\ None \notin L /\ x \in out /\ l \in L
  BY DEF Put
<1>1. /\ Links(nx) /\ SlotsOK(nx, sl) /\ ChainsOK(nx, D, hs) /\ OnceIn(sl, UsedIn(nx, ff))
      /\ AddrOK(nx, hd[l]) /\ Len(nx) \in Nat
  <2>1. Links(nx) /\ SlotsOK(nx, sl) /\ ChainsOK(nx, D, hs) /\ OnceIn(sl, UsedIn(nx, ff))
    BY <1>0 DEF Parts
  <2>2. AddrOK(nx, hd[l])
    BY <1>0, PartsPool
  <2> QED  BY <2>1, <2>2 DEF Links
<1>2. Split(1..Len(nx), Chained(nx, D, hs), HeldIn(sl, UsedIn(nx, ff)), out, lost)
  BY <1>0 DEF Parts
<1>3. x \in 1..Len(nx) /\ x \notin Chained(nx, D, hs)
  BY <1>0, <1>2 DEF Split
<1>4. /\ l \in D /\ hs[l] = hd[l] /\ gs[l] = b /\ None \in D /\ None # l /\ hs[None] = ff /\ gs[None] = ff
      /\ \A m \in L : m \in D /\ hs[m] = hd[m] /\ gs[m] = he[m]
      /\ \A d \in D : d # l => gs[d] = hs[d]
  BY <1>0 DEF Heads, Put
<1> HIDE DEF D, hs, gs
<1>5. \A m \in L : x \notin Reach(nx, hd[m].frame)
  BY <1>3, <1>4 DEF Chained
<1>6. /\ Links(ny) /\ Len(ny) = Len(nx) /\ AddrOK(ny, b)
      /\ Reach(ny, x) = {x} \union Reach(nx, hd[l].frame)
      /\ UsedIn(ny, b) = UsedIn(nx, hd[l]) \union ({x} \X (1..k))
  <2>1. x \notin Reach(nx, hd[l].frame)
    BY <1>0, <1>5
  <2>2. PushedFrame(nx, hd[l], x, k, ny, b)
    BY <1>1, <1>3, <2>1 DEF PushedFrame, Put
  <2> HIDE DEF b
  <2> QED  BY <2>2, UsedPushFrame
<1>7. \A g \in Chained(nx, D, hs) : ny[g] = nx[g]
  <2>1. \A g \in Chained(nx, D, hs) : g \in 1..Len(nx) /\ g # x
    BY <1>2, <1>3 DEF Split
  <2>2. DOMAIN nx = 1..Len(nx)
    BY <1>1 DEF Links
  <2> QED  BY <2>1, <2>2 DEF Put
<1>8. /\ SlotsOK(ny, sm)
      /\ \A g \in 1..Len(nx) : g # x => sm[g] = sl[g]
  BY <1>1, <1>3, <1>6 DEF SlotsOK, Put
<1>9. /\ ChainsOK(ny, D, gs)
      /\ Chained(ny, D, gs) = Chained(nx, D, hs) \union {x}
      /\ \A d \in D : d # l => UsedIn(ny, gs[d]) = UsedIn(nx, hs[d])
  <2>1. Reach(ny, b.frame) = {x} \union Reach(nx, hs[l].frame)
    BY <1>4, <1>6 DEF Addr
  <2>2. Len(nx) <= Len(ny) /\ x \in 1..Len(ny)
    BY <1>1, <1>3, <1>6
  <2> HIDE DEF b
  <2> QED  BY <1>1, <1>3, <1>4, <1>6, <1>7, <2>1, <2>2, ChainsPush, SMTT(30)
<1>10. UsedIn(ny, ff) = UsedIn(nx, ff) /\ \A m \in L : m # l => UsedIn(ny, he[m]) = UsedIn(nx, hd[m])
  BY <1>4, <1>9
<1>11. HeldIn(sm, UsedIn(nx, ff)) = HeldIn(sl, UsedIn(nx, ff)) /\ OnceIn(sm, UsedIn(nx, ff))
  <2>1. \A p \in UsedIn(nx, ff) : p[1] \in 1..Len(nx) /\ p[1] # x
    <3>1. x \notin Reach(nx, ff.frame)
      BY <1>3, <1>4 DEF Chained
    <3> QED  BY <3>1, ReachFrames DEF UsedIn
  <2> QED  BY <1>1, <1>8, <2>1, HeldSame
<1>12. Split(1..Len(ny), Chained(ny, D, gs), HeldIn(sm, UsedIn(ny, ff)), out \ {x}, lost)
  BY <1>0, <1>2, <1>3, <1>6, <1>9, <1>10, <1>11 DEF Split
<1>13. Parts(ny, sm, ff, L, he, out \ {x}, lost)
  BY <1>6, <1>8, <1>9, <1>10, <1>11, <1>12 DEF Parts, D, gs
<1>14. UsedIn(ny, he[l]) = UsedIn(nx, hd[l]) \union ({x} \X (1..k))
  BY <1>6 DEF Put, b
<1> QED  BY <1>3, <1>5, <1>6, <1>10, <1>13, <1>14 DEF HasPut

\* What is in the used slots of the lists stays as it is.
Kept(nx, sl, ny, sm, L, hd) ==
  \A l \in L : /\ UsedIn(ny, hd[l]) = UsedIn(nx, hd[l])
              /\ \A p \in UsedIn(nx, hd[l]) : sm[p[1]][p[2]] = sl[p[1]][p[2]]

\* returnFreeFrame of a frame that is out, into the first of the empty frames
PutInSlot(sl, ff, x, sm) ==
  HasSpace(ff) /\ sm = [sl EXCEPT ![ff.frame][ff.nslot + 1] = x]

LEMMA PartsReturnSlot ==
  ASSUME NEW nx, NEW sl, NEW ff, NEW L, None \notin L, NEW hd, NEW out, NEW lost,
         Parts(nx, sl, ff, L, hd, out, lost), NEW x \in out, NEW sm, PutInSlot(sl, ff, x, sm)
  PROVE  /\ Parts(nx, sm, Addr(ff.frame, ff.nslot + 1), L, hd, out \ {x}, lost)
         /\ Kept(nx, sl, nx, sm, L, hd)
<1> DEFINE gg == Addr(ff.frame, ff.nslot + 1)
           D == L \union {None}
           U == UsedIn(nx, ff)
           p == <<ff.frame, ff.nslot + 1>>
<1>1. Links(nx) /\ AddrOK(nx, ff) /\ SlotsOK(nx, sl) /\ HasSpace(ff)
  BY PartsPool DEF Parts, PutInSlot
<1>2. /\ AddrOK(nx, gg) /\ gg.frame = ff.frame /\ p \notin U /\ UsedIn(nx, gg) = U \union {p}
      /\ ff.frame \in Reach(nx, ff.frame) /\ ff.nslot + 1 \in 1..FrameSlots
      /\ ff.frame \in 1..Len(nx)
  BY <1>1, UsedPush, ReachFrames DEF Addr
<1>3. Split(1..Len(nx), Chained(nx, D, Heads(L, ff, hd)), HeldIn(sl, U), out, lost)
  BY DEF Parts
<1>4. x \in 1..Len(nx) /\ x \notin HeldIn(sl, U)
  BY <1>3 DEF Split
<1>5. /\ SlotsOK(nx, sm) /\ sm[p[1]][p[2]] = x
      /\ \A g \in 1..Len(nx), i \in 1..FrameSlots : <<g, i>> # p => sm[g][i] = sl[g][i]
  <2>1. /\ sl \in Seq([1..FrameSlots -> Nat]) /\ Len(sl) = Len(nx) /\ Len(nx) \in Nat
    BY <1>1 DEF SlotsOK, Links
  <2>2. x \in Nat /\ ff.frame \in 1..Len(sl) /\ sl[ff.frame] \in [1..FrameSlots -> Nat]
    <3> HIDE DEF p
    <3> QED  BY <1>2, <1>4, <2>1
  <2>6. [sl[ff.frame] EXCEPT ![ff.nslot + 1] = x] \in [1..FrameSlots -> Nat]
    BY <2>2
  <2>3. sm = [sl EXCEPT ![ff.frame] = [sl[ff.frame] EXCEPT ![ff.nslot + 1] = x]]
    BY DEF PutInSlot
  <2>4. sm \in Seq([1..FrameSlots -> Nat]) /\ Len(sm) = Len(nx)
    <3> DEFINE s == [sl[ff.frame] EXCEPT ![ff.nslot + 1] = x]
    <3> HIDE DEF s
    <3> QED  BY <2>1, <2>2, <2>3, <2>6 DEF s
  <2>5. sm[ff.frame] = [sl[ff.frame] EXCEPT ![ff.nslot + 1] = x] /\ \A g \in 1..Len(nx) : g # ff.frame => sm[g] = sl[g]
    <3> DEFINE s == [sl[ff.frame] EXCEPT ![ff.nslot + 1] = x]
    <3> HIDE DEF s
    <3> QED  BY <2>1, <2>2, <2>3 DEF s
  <2>7. sm[ff.frame] = [i \in 1..FrameSlots |-> IF i = ff.nslot + 1 THEN x ELSE sl[ff.frame][i]]
    BY <2>2, <2>5
  <2>8. \A g \in 1..Len(nx), i \in 1..FrameSlots : <<g, i>> # p => sm[g][i] = sl[g][i]
    <3> SUFFICES ASSUME NEW g \in 1..Len(nx), NEW i \in 1..FrameSlots, <<g, i>> # p
                 PROVE  sm[g][i] = sl[g][i]
      OBVIOUS
    <3>1. g = ff.frame => i # ff.nslot + 1
      OBVIOUS
    <3> HIDE DEF p
    <3> QED  BY <2>5, <2>7, <3>1
  <2>9. sm[p[1]][p[2]] = x
    BY <1>2, <2>7
  <2> HIDE DEF p
  <2> QED  BY <2>4, <2>8, <2>9 DEF SlotsOK
<1>6. \A q \in U : q[1] \in 1..Len(nx) /\ q[2] \in 1..FrameSlots /\ q = <<q[1], q[2]>> /\ q # p
  BY <1>2, ReachFrames DEF UsedIn
<1>7. \A l \in L : \A q \in UsedIn(nx, hd[l]) :
         q[1] \in 1..Len(nx) /\ q[2] \in 1..FrameSlots /\ q = <<q[1], q[2]>> /\ q # p
  <2>1. ASSUME NEW l \in L PROVE ff.frame \notin Reach(nx, hd[l].frame)
    <3>1. ChainsOK(nx, D, Heads(L, ff, hd)) /\ Heads(L, ff, hd)[None] = ff /\ Heads(L, ff, hd)[l] = hd[l]
      BY DEF Parts, Heads
    <3> QED  BY <1>2, <3>1 DEF ChainsOK
  <2> QED  BY <2>1, ReachFrames DEF UsedIn
<1> HIDE DEF gg, p, U
<1>8. Kept(nx, sl, nx, sm, L, hd)
  BY <1>5, <1>7 DEF Kept
<1>9. HeldIn(sm, U) = HeldIn(sl, U) /\ OnceIn(sm, U)
  <2>1. OnceIn(sl, U) /\ \A q \in U : sm[q[1]][q[2]] = sl[q[1]][q[2]]
    BY <1>5, <1>6 DEF Parts, U
  <2> QED  BY <2>1, HeldSame
<1>10. HeldIn(sm, UsedIn(nx, gg)) = HeldIn(sl, U) \union {x} /\ OnceIn(sm, UsedIn(nx, gg))
  <2>1. sm[p[1]][p[2]] \notin HeldIn(sm, U)
    BY <1>4, <1>5, <1>9
  <2>2. /\ HeldIn(sm, U \union {p}) = HeldIn(sm, U) \union {sm[p[1]][p[2]]}
        /\ OnceIn(sm, U \union {p})
    BY <1>9, <2>1, HeldPlus
  <2> QED  BY <1>2, <1>5, <1>9, <2>2
<1>11. /\ ChainsOK(nx, D, Heads(L, gg, hd))
       /\ Chained(nx, D, Heads(L, gg, hd)) = Chained(nx, D, Heads(L, ff, hd))
  <2>1. \A d \in D : /\ Heads(L, gg, hd)[d].frame = Heads(L, ff, hd)[d].frame
                     /\ AddrOK(nx, Heads(L, gg, hd)[d])
    BY <1>2, PartsPool DEF Heads
  <2>2. ChainsOK(nx, D, Heads(L, ff, hd))
    BY DEF Parts
  <2> HIDE DEF D
  <2> QED  BY <2>1, <2>2, ChainsKept
<1>12. Split(1..Len(nx), Chained(nx, D, Heads(L, gg, hd)), HeldIn(sm, UsedIn(nx, gg)), out \ {x}, lost)
  BY <1>3, <1>4, <1>10, <1>11 DEF Split
<1>13. Parts(nx, sm, gg, L, hd, out \ {x}, lost)
  BY <1>1, <1>5, <1>10, <1>11, <1>12 DEF Parts
<1> QED  BY <1>8, <1>13 DEF gg

\* and in front of them
PutInFront(nx, ff, x, ny) ==
  ~HasSpace(ff) /\ ny = [nx EXCEPT ![x] = ff.frame]

LEMMA PartsReturnFront ==
  ASSUME NEW nx, NEW sl, NEW ff, NEW L, None \notin L, NEW hd, NEW out, NEW lost,
         Parts(nx, sl, ff, L, hd, out, lost), NEW x \in out, NEW ny, PutInFront(nx, ff, x, ny)
  PROVE  /\ Parts(ny, sl, Addr(x, 0), L, hd, out \ {x}, lost)
         /\ Kept(nx, sl, ny, sl, L, hd)
         /\ Len(ny) = Len(nx) /\ x \in 1..Len(nx)
<1> DEFINE D == L \union {None}
           b == Addr(x, 0)
           hs == Heads(L, ff, hd)
           gs == Heads(L, b, hd)
<1>1. /\ Links(nx) /\ SlotsOK(nx, sl) /\ ChainsOK(nx, D, hs) /\ OnceIn(sl, UsedIn(nx, ff))
      /\ AddrOK(nx, ff) /\ Len(nx) \in Nat
  <2>1. Links(nx) /\ SlotsOK(nx, sl) /\ ChainsOK(nx, D, hs) /\ OnceIn(sl, UsedIn(nx, ff))
    BY DEF Parts
  <2>2. AddrOK(nx, ff)
    BY PartsPool
  <2> QED  BY <2>1, <2>2 DEF Links
<1>2. Split(1..Len(nx), Chained(nx, D, hs), HeldIn(sl, UsedIn(nx, ff)), out, lost)
  BY DEF Parts
<1>3. x \in 1..Len(nx) /\ x \notin Chained(nx, D, hs)
  BY <1>2 DEF Split
<1>4. /\ None \in D /\ hs[None] = ff /\ gs[None] = b
      /\ \A d \in D : d # None => gs[d] = hs[d]
      /\ \A l \in L : l \in D /\ l # None /\ hs[l] = hd[l] /\ gs[l] = hd[l]
  BY DEF Heads
<1> HIDE DEF D, hs, gs, b
<1>5. /\ Links(ny) /\ Len(ny) = Len(nx) /\ AddrOK(ny, b)
      /\ Reach(ny, x) = {x} \union Reach(nx, ff.frame)
      /\ UsedIn(ny, b) = UsedIn(nx, ff)
  <2> DEFINE k == 0
  <2>1. x \notin Reach(nx, ff.frame)
    BY <1>3, <1>4 DEF Chained
  <2>2. PushedFrame(nx, ff, x, k, ny, b)
    BY <1>1, <1>3, <2>1, FramesAssumption DEF PushedFrame, PutInFront, b
  <2>3. ({x} \X (1..k)) = {}
    OBVIOUS
  <2> HIDE DEF k
  <2>4. /\ Links(ny) /\ Len(ny) = Len(nx) /\ AddrOK(ny, b)
        /\ Reach(ny, x) = {x} \union Reach(nx, ff.frame)
        /\ UsedIn(ny, b) = UsedIn(nx, ff) \union ({x} \X (1..k))
    BY <2>2, UsedPushFrame
  <2> QED  BY <2>3, <2>4
<1>6. UsedIn(ny, b) = UsedIn(nx, ff)
  BY <1>5
<1>7. \A g \in Chained(nx, D, hs) : ny[g] = nx[g]
  <2>1. \A g \in Chained(nx, D, hs) : g \in 1..Len(nx) /\ g # x
    BY <1>2, <1>3 DEF Split
  <2>2. DOMAIN nx = 1..Len(nx)
    BY <1>1 DEF Links
  <2> QED  BY <2>1, <2>2 DEF PutInFront
<1>8. /\ ChainsOK(ny, D, gs)
      /\ Chained(ny, D, gs) = Chained(nx, D, hs) \union {x}
      /\ \A d \in D : d # None => UsedIn(ny, gs[d]) = UsedIn(nx, hs[d])
  <2>1. Reach(ny, b.frame) = {x} \union Reach(nx, hs[None].frame)
    BY <1>4, <1>5 DEF Addr, b
  <2>2. Len(nx) <= Len(ny) /\ x \in 1..Len(ny)
    BY <1>1, <1>3, <1>5
  <2> QED  BY <1>1, <1>3, <1>4, <1>5, <1>7, <2>1, <2>2, ChainsPush
<1>9. Kept(nx, sl, ny, sl, L, hd)
  BY <1>4, <1>8 DEF Kept
<1>10. Split(1..Len(ny), Chained(ny, D, gs), HeldIn(sl, UsedIn(ny, b)), out \ {x}, lost)
  BY <1>2, <1>3, <1>5, <1>6, <1>8 DEF Split
<1>11. Parts(ny, sl, b, L, hd, out \ {x}, lost)
  BY <1>1, <1>5, <1>6, <1>8, <1>10 DEF Parts, SlotsOK, D, gs
<1> QED  BY <1>3, <1>5, <1>9, <1>11 DEF b

\* initFreeFrame, when the empty frames, of which there is at most one, have
\* none to give: a frame full of new ones, of which the last slot's is taken
Fresh(nx, sl, ny, sm) ==
  /\ ny = nx \o [k \in 1..FrameSlots + 1 |-> 0]
  /\ sm = sl \o <<[i \in 1..FrameSlots |-> Len(nx) + 1 + FrameSlots + 1 - i]>>
            \o [k \in 1..FrameSlots |-> [i \in 1..FrameSlots |-> 0]]

LEMMA FreshFrames ==
  ASSUME NEW nx, Links(nx), NEW sl, SlotsOK(nx, sl), NEW ny, NEW sm, Fresh(nx, sl, ny, sm)
  PROVE  LET base == Len(nx) + 1
         IN /\ Links(ny) /\ SlotsOK(ny, sm) /\ Len(ny) = base + FrameSlots
            /\ \A g \in 1..Len(nx) : ny[g] = nx[g] /\ sm[g] = sl[g]
            /\ \A g \in base..(base + FrameSlots) : ny[g] = 0
            /\ \A i \in 1..FrameSlots : sm[base][i] = base + FrameSlots + 1 - i
<1> DEFINE zs == [k \in 1..FrameSlots + 1 |-> 0]
           first == [i \in 1..FrameSlots |-> Len(nx) + 1 + FrameSlots + 1 - i]
           empty == [i \in 1..FrameSlots |-> 0]
           es == [k \in 1..FrameSlots |-> empty]
           Slots == [1..FrameSlots -> Nat]
<1>1. /\ FrameSlots \in Nat \ {0} /\ Len(nx) \in Nat /\ nx \in Seq(Nat)
      /\ \A g \in 1..Len(nx) : nx[g] \in 0..Len(nx)
  BY FramesAssumption DEF Links
<1>2. zs \in Seq(Nat) /\ Len(zs) = FrameSlots + 1 /\ \A k \in 1..FrameSlots + 1 : zs[k] = 0
  BY <1>1
<1>3. first \in Slots /\ empty \in Slots
  BY <1>1
<1>4. \A i \in 1..FrameSlots : first[i] = Len(nx) + 1 + FrameSlots + 1 - i
  OBVIOUS
<1>5. sl \in Seq(Slots) /\ Len(sl) = Len(nx)
  BY DEF SlotsOK
<1> HIDE DEF zs, first, empty, Slots
<1>6. es \in Seq(Slots) /\ Len(es) = FrameSlots
  BY <1>1, <1>3
<1> HIDE DEF es
<1>7. ny = nx \o zs /\ sm = sl \o <<first>> \o es
  BY DEF Fresh, zs, first, empty, es
<1>8. /\ ny \in Seq(Nat) /\ Len(ny) = Len(nx) + FrameSlots + 1
      /\ \A g \in 1..Len(nx) : ny[g] = nx[g]
      /\ \A g \in (Len(nx) + 1)..(Len(nx) + 1 + FrameSlots) : ny[g] = 0
  <2>1. ny \in Seq(Nat) /\ Len(ny) = Len(nx) + FrameSlots + 1
    <3>1. Len(ny) = Len(nx) + Len(zs) /\ ny \in Seq(Nat)
      BY <1>1, <1>2, <1>7, ConcatProperties
    <3> QED  BY <1>1, <1>2, <3>1
  <2>2. \A g \in 1..Len(ny) : ny[g] = IF g <= Len(nx) THEN nx[g] ELSE zs[g - Len(nx)]
    BY <1>1, <1>2, <1>7
  <2> QED  BY <1>1, <1>2, <2>1, <2>2, SMTT(30)
<1>9. Links(ny)
  <2> SUFFICES ASSUME NEW g \in 1..Len(ny) PROVE ny[g] \in 0..Len(ny)
    BY <1>8 DEF Links
  <2>1. g \in 1..Len(nx) \/ g \in (Len(nx) + 1)..(Len(nx) + 1 + FrameSlots)
    BY <1>1, <1>8
  <2>2. CASE g \in 1..Len(nx)
    <3>1. ny[g] = nx[g] /\ nx[g] \in 0..Len(nx)
      BY <1>1, <1>8, <2>2
    <3> QED  BY <1>1, <1>8, <3>1
  <2>3. CASE g \in (Len(nx) + 1)..(Len(nx) + 1 + FrameSlots)
    <3>1. ny[g] = 0 /\ Len(ny) \in Nat
      BY <1>1, <1>8, <2>3
    <3> QED  BY <3>1
  <2> QED  BY <2>1, <2>2, <2>3
<1>10. /\ sm \in Seq(Slots) /\ Len(sm) = Len(nx) + FrameSlots + 1
       /\ \A g \in 1..Len(nx) : sm[g] = sl[g]
       /\ sm[Len(nx) + 1] = first
  <2> DEFINE ss == sl \o <<first>>
  <2>1. ss \in Seq(Slots) /\ Len(ss) = Len(nx) + 1
    BY <1>1, <1>3, <1>5
  <2>2. /\ \A g \in 1..Len(nx) : ss[g] = sl[g]
        /\ ss[Len(nx) + 1] = first
    BY <1>1, <1>3, <1>5
  <2>3. sm = ss \o es
    BY <1>7
  <2> HIDE DEF ss
  <2>4. sm \in Seq(Slots) /\ Len(sm) = Len(nx) + FrameSlots + 1
    <3>1. Len(sm) = Len(ss) + Len(es) /\ sm \in Seq(Slots)
      BY <1>6, <2>1, <2>3, ConcatProperties
    <3> QED  BY <1>1, <1>6, <2>1, <3>1
  <2>5. \A g \in 1..(Len(nx) + 1) : sm[g] = ss[g]
    BY <1>1, <1>6, <2>1, <2>3
  <2> QED  BY <1>1, <2>2, <2>4, <2>5
<1>11. SlotsOK(ny, sm)
  BY <1>8, <1>10 DEF SlotsOK, Slots
<1>12. \A i \in 1..FrameSlots : sm[Len(nx) + 1][i] = Len(nx) + 1 + FrameSlots + 1 - i
  BY <1>4, <1>10
<1>13. Len(ny) = Len(nx) + 1 + FrameSlots
  BY <1>1, <1>8
<1>14. \A g \in 1..Len(nx) : ny[g] = nx[g] /\ sm[g] = sl[g]
  BY <1>8, <1>10
<1> QED  BY Zenon, <1>8, <1>9, <1>11, <1>12, <1>13, <1>14

NoneToGive(nx, ff) == ff.nslot = 0 /\ (ff.frame = 0 \/ nx[ff.frame] = 0)

LEMMA PartsFresh ==
  ASSUME NEW nx, NEW sl, NEW ff, NEW L, None \notin L, NEW hd, NEW out, NEW lost,
         Parts(nx, sl, ff, L, hd, out, lost), NoneToGive(nx, ff),
         NEW ny, NEW sm, Fresh(nx, sl, ny, sm)
  PROVE  LET base == Len(nx) + 1
             x == sm[base][FrameSlots]
         IN /\ Parts(ny, sm, Addr(base, FrameSlots - 1), L, hd, out \union {x}, lost \union ({ff.frame} \ {0}))
            /\ Kept(nx, sl, ny, sm, L, hd)
            /\ x \in 1..Len(ny) /\ x \notin out
<1> DEFINE base == Len(nx) + 1
           x == sm[base][FrameSlots]
           D == L \union {None}
           b == Addr(base, FrameSlots - 1)
           hs == Heads(L, ff, hd)
           gs == Heads(L, b, hd)
           gone == {ff.frame} \ {0}
           new == (base + 2)..(base + FrameSlots)
<1>1. /\ Links(nx) /\ SlotsOK(nx, sl) /\ ChainsOK(nx, D, hs) /\ AddrOK(nx, ff)
  <2>1. Links(nx) /\ SlotsOK(nx, sl) /\ ChainsOK(nx, D, hs)
    BY DEF Parts
  <2> QED  BY <2>1, PartsPool
<1>2. /\ Links(ny) /\ SlotsOK(ny, sm) /\ Len(ny) = base + FrameSlots
      /\ \A g \in 1..Len(nx) : ny[g] = nx[g] /\ sm[g] = sl[g]
      /\ \A g \in base..(base + FrameSlots) : ny[g] = 0
      /\ \A i \in 1..FrameSlots : sm[base][i] = base + FrameSlots + 1 - i
  BY <1>1, FreshFrames
<1>3. /\ FrameSlots \in Nat \ {0} /\ Len(nx) \in Nat /\ base \in 1..Len(ny) /\ Len(nx) <= Len(ny)
      /\ base \notin 1..Len(nx)
  <2>1. FrameSlots \in Nat \ {0} /\ Len(nx) \in Nat
    BY <1>1, FramesAssumption DEF Links
  <2> QED  BY <1>2, <2>1
<1>4. x = base + 1
  BY <1>2, <1>3
<1>5. UsedIn(nx, ff) = {} /\ Reach(nx, ff.frame) = gone
  <2>1. CASE ff.frame = 0
    BY <2>1, ReachNone DEF UsedIn
  <2>2. CASE ff.frame # 0
    <3>1. ff.nslot = 0 /\ nx[ff.frame] = 0
      BY <2>2 DEF NoneToGive
    <3>2. UsedIn(nx, ff) = {} /\ Reach(nx, 0) = Reach(nx, ff.frame) \ {ff.frame} /\ ff.frame \in Reach(nx, ff.frame)
      BY <1>1, <2>2, <3>1, UsedNext
    <3> QED  BY <2>2, <3>2, ReachNone
  <2> QED  BY <2>1, <2>2
<1>6. /\ None \in D /\ hs[None] = ff /\ gs[None] = b /\ D = L \union {None}
      /\ \A l \in L : l # None /\ hs[l] = hd[l] /\ gs[l] = hd[l]
  BY DEF Heads
<1> HIDE DEF D, hs, gs
<1>7. /\ b.frame = base /\ b.nslot = FrameSlots - 1
      /\ Reach(ny, base) = {base} /\ AddrOK(ny, b)
  <2>1. b.frame = base /\ b.nslot = FrameSlots - 1
    BY DEF Addr
  <2>2. ny[base] = 0 /\ base # 0
    BY <1>2, <1>3
  <2> HIDE DEF base
  <2>3. Reach(ny, base) = {base}
    BY <1>2, <1>3, <2>2, ReachNext, ReachNone
  <2>4. Acyclic(ny, base)
    BY <2>2, <2>3, ReachNone DEF Acyclic
  <2>5. b \in Addresses(ny)
    BY <1>3 DEF Addresses, Addr
  <2> QED  BY <2>1, <2>2, <2>3, <2>4, <2>5 DEF AddrOK
<1>8. /\ ChainsOK(ny, D, hs) /\ Chained(ny, D, hs) = Chained(nx, D, hs)
      /\ \A d \in D : /\ Reach(ny, hs[d].frame) = Reach(nx, hs[d].frame)
                     /\ UsedIn(ny, hs[d]) = UsedIn(nx, hs[d])
  <2>1. Chained(nx, D, hs) \subseteq 1..Len(nx)
    BY ReachFrames DEF Chained
  <2> QED  BY <1>1, <1>2, <1>3, <2>1, ChainsGrown
<1> HIDE DEF b
<1>9. ChainsOK(ny, D, gs)
  <2>1. \A d \in D : AddrOK(ny, gs[d])
    BY <1>6, <1>7, <1>8 DEF ChainsOK
  <2>2. \A l \in L : Reach(ny, gs[l].frame) = Reach(nx, hs[l].frame) /\ base \notin Reach(nx, hs[l].frame)
    BY <1>3, <1>6, <1>8, ReachFrames
  <2>3. Reach(ny, gs[None].frame) = {base}
    BY <1>6, <1>7
  <2>4. \A l, m \in L : l # m => Reach(nx, hs[l].frame) \intersect Reach(nx, hs[m].frame) = {}
    BY <1>1, <1>6 DEF ChainsOK
  <2> HIDE DEF base
  <2> QED  BY <1>6, <2>1, <2>2, <2>3, <2>4 DEF ChainsOK
<1>10. /\ Chained(ny, D, gs) = (Chained(nx, D, hs) \ gone) \union {base}
       /\ gone \subseteq Chained(nx, D, hs)
  <2>1. \A l \in L : Reach(ny, gs[l].frame) = Reach(nx, hs[l].frame) /\ Reach(nx, hs[l].frame) \intersect gone = {}
    BY <1>1, <1>5, <1>6, <1>8 DEF ChainsOK
  <2>2. Reach(ny, gs[None].frame) = {base} /\ Reach(nx, hs[None].frame) = gone
    BY <1>5, <1>6, <1>7
  <2> HIDE DEF base, gone
  <2> QED  BY <1>6, <2>1, <2>2 DEF Chained
<1>11. /\ HeldIn(sm, UsedIn(ny, b)) = new /\ OnceIn(sm, UsedIn(ny, b))
  <2>1. UsedIn(ny, b) = {base} \X (1..(FrameSlots - 1))
    <3>1. \A p : p \in {base} \X (1..FrameSlots) /\ (p[1] = base => p[2] <= FrameSlots - 1)
                  <=> p \in {base} \X (1..(FrameSlots - 1))
      BY <1>3
    <3> HIDE DEF base
    <3> QED  BY <1>7, <3>1 DEF UsedIn
  <2>2. \A i \in 1..(FrameSlots - 1) : i \in 1..FrameSlots /\ sm[base][i] = base + FrameSlots + 1 - i
    BY <1>2, <1>3
  <2>3. OnceIn(sm, UsedIn(ny, b))
    <3> SUFFICES ASSUME NEW p \in UsedIn(ny, b), NEW q \in UsedIn(ny, b), sm[p[1]][p[2]] = sm[q[1]][q[2]]
                 PROVE  p = q
      BY DEF OnceIn
    <3>1. p = <<base, p[2]>> /\ q = <<base, q[2]>> /\ p[2] \in 1..(FrameSlots - 1) /\ q[2] \in 1..(FrameSlots - 1)
      BY <2>1
    <3>2. base + FrameSlots + 1 - p[2] = base + FrameSlots + 1 - q[2]
      BY <2>2, <3>1
    <3> QED  BY <1>3, <3>1, <3>2
  <2>4. HeldIn(sm, UsedIn(ny, b)) \subseteq new
    <3> SUFFICES ASSUME NEW p \in UsedIn(ny, b) PROVE sm[p[1]][p[2]] \in new
      BY DEF HeldIn
    <3>1. p = <<base, p[2]>> /\ p[2] \in 1..(FrameSlots - 1)
      BY <2>1
    <3> QED  BY <1>3, <2>2, <3>1
  <2>5. new \subseteq HeldIn(sm, UsedIn(ny, b))
    <3> SUFFICES ASSUME NEW y \in new PROVE \E p \in UsedIn(ny, b) : y = sm[p[1]][p[2]]
      BY DEF HeldIn
    <3>1. base + FrameSlots + 1 - y \in 1..(FrameSlots - 1)
      BY <1>3
    <3>2. sm[base][base + FrameSlots + 1 - y] = y
      BY <1>3, <2>2, <3>1
    <3> DEFINE i == base + FrameSlots + 1 - y
    <3> HIDE DEF i, base
    <3>3. <<base, i>> \in UsedIn(ny, b)
      BY <2>1, <3>1 DEF i
    <3>4. sm[<<base, i>>[1]][<<base, i>>[2]] = y
      BY <3>2 DEF i
    <3> QED  BY <3>3, <3>4
  <2> QED  BY <2>3, <2>4, <2>5
<1>12. /\ Split(1..Len(nx), Chained(nx, D, hs), HeldIn(sl, UsedIn(nx, ff)), out, lost)
       /\ HeldIn(sl, UsedIn(nx, ff)) = {}
  BY <1>5 DEF Parts, D, hs, HeldIn
<1>13. Split(1..Len(ny), Chained(ny, D, gs), HeldIn(sm, UsedIn(ny, b)), out \union {x}, lost \union gone)
  <2>1. 1..Len(ny) = (1..Len(nx)) \union {base} \union {x} \union new
    <3>1. \A g : g \in 1..(base + FrameSlots)
                  <=> g \in 1..Len(nx) \/ g = base \/ g = base + 1 \/ g \in (base + 2)..(base + FrameSlots)
      BY <1>3
    <3> HIDE DEF base, x
    <3> QED  BY <1>2, <1>4, <3>1
  <2>2. /\ base \notin 1..Len(nx) /\ x \notin 1..Len(nx) /\ new \intersect (1..Len(nx)) = {}
        /\ base # x /\ base \notin new /\ x \notin new
    BY <1>3, <1>4
  <2> HIDE DEF base, x, new, gone
  <2> QED  BY <1>10, <1>11, <1>12, <2>1, <2>2 DEF Split
<1>14. Parts(ny, sm, b, L, hd, out \union {x}, lost \union gone)
  BY <1>2, <1>9, <1>11, <1>13 DEF Parts, D, gs
<1>15. Kept(nx, sl, ny, sm, L, hd)
  <2>1. \A l \in L : \A p \in UsedIn(nx, hd[l]) : p[1] \in 1..Len(nx)
    BY ReachFrames DEF UsedIn
  <2>2. \A l \in L : UsedIn(ny, hd[l]) = UsedIn(nx, hd[l])
    BY <1>6, <1>8
  <2> QED  BY <1>2, <2>1, <2>2 DEF Kept
<1>16. x \in 1..Len(ny) /\ x \notin out
  <2>1. x \in 1..Len(ny) /\ x \notin 1..Len(nx)
    BY <1>2, <1>3, <1>4
  <2> QED  BY <1>12, <2>1 DEF Split
<1> QED  BY <1>14, <1>15, <1>16 DEF b

-----------------------------------------------------------------------------
(* Sets that share no member, and together have all but the lost ones.     *)

Spread(all, D, F, lost) ==
  /\ lost \subseteq all
  /\ \A d \in D : F[d] \subseteq all /\ F[d] \intersect lost = {}
  /\ \A d, e \in D : d # e => F[d] \intersect F[e] = {}
  /\ \A o \in all : o \in lost \/ \E d \in D : o \in F[d]

\* some of one of them given to another
LEMMA SpreadMove ==
  ASSUME NEW all, NEW D, NEW F, NEW lost, Spread(all, D, F, lost), NEW d \in D, NEW e \in D, d # e,
         NEW X \in SUBSET F[d], NEW G, G[d] = F[d] \ X, G[e] = F[e] \union X,
         \A c \in D \ {d, e} : G[c] = F[c]
  PROVE  Spread(all, D, G, lost)
<1>1. \A c \in D : \A o \in G[c] : o \in F[c] \/ (c = e /\ o \in X)
  OBVIOUS
<1>2. \A c \in D : G[c] \subseteq all /\ G[c] \intersect lost = {}
  BY <1>1 DEF Spread
<1>3. \A c, b \in D : c # b => G[c] \intersect G[b] = {}
  BY <1>1 DEF Spread
<1>4. \A o \in all : o \in lost \/ \E c \in D : o \in G[c]
  BY DEF Spread
<1> QED  BY <1>2, <1>3, <1>4 DEF Spread

\* new ones given to one
LEMMA SpreadMade ==
  ASSUME NEW all, NEW D, NEW F, NEW lost, Spread(all, D, F, lost), NEW e \in D,
         NEW X, X \intersect all = {}, NEW G, G[e] = F[e] \union X, \A c \in D \ {e} : G[c] = F[c]
  PROVE  Spread(all \union X, D, G, lost)
<1>1. \A c \in D : \A o \in G[c] : o \in F[c] \/ (c = e /\ o \in X)
  OBVIOUS
<1>2. \A c \in D : G[c] \subseteq all \union X /\ G[c] \intersect lost = {}
  BY <1>1 DEF Spread
<1>3. \A c, b \in D : c # b => G[c] \intersect G[b] = {}
  BY <1>1 DEF Spread
<1>4. \A o \in all \union X : o \in lost \/ \E c \in D : o \in G[c]
  BY DEF Spread
<1> QED  BY <1>2, <1>3, <1>4 DEF Spread

\* some of one lost
LEMMA SpreadLost ==
  ASSUME NEW all, NEW D, NEW F, NEW lost, Spread(all, D, F, lost), NEW d \in D,
         NEW X \in SUBSET F[d], NEW G, G[d] = F[d] \ X, \A c \in D \ {d} : G[c] = F[c]
  PROVE  Spread(all, D, G, lost \union X)
<1>1. \A c \in D : G[c] \subseteq F[c]
  OBVIOUS
<1>2. \A c \in D : G[c] \subseteq all /\ G[c] \intersect (lost \union X) = {}
  BY <1>1 DEF Spread
<1>3. \A c, b \in D : c # b => G[c] \intersect G[b] = {}
  BY <1>1 DEF Spread
<1>4. \A o \in all : o \in lost \union X \/ \E c \in D : o \in G[c]
  BY DEF Spread
<1> QED  BY <1>2, <1>3, <1>4 DEF Spread

LEMMA SpreadSame ==
  ASSUME NEW all, NEW D, NEW F, NEW lost, Spread(all, D, F, lost), NEW G, \A c \in D : G[c] = F[c]
  PROVE  Spread(all, D, G, lost)
BY DEF Spread

-----------------------------------------------------------------------------
(* The inductive invariant.                                                *)

\* The frames threads have in hand, each its own.
Out == {job[t].frame : t \in Threads} \ {NoFrame}

HandsApart == \A t, u \in Threads : t # u /\ job[t].frame # NoFrame => job[t].frame # job[u].frame

\* Where the frames are.
FramesPart == Parts(next, slots, freeFrame, Lists, head, Out, lostFrames)

\* Where the objects are: on a list, or with a thread.
StockIn(nx, sl, a) == HeldIn(sl, UsedIn(nx, a))

Held(t) == owned[t] \union InHand(t)

CellsIn(nx, sl, hd, hold) ==
  [d \in Lists \union Threads |-> IF d \in Lists THEN StockIn(nx, sl, hd[d]) ELSE hold[d]]

Cells == CellsIn(next, slots, head, [t \in Threads |-> Held(t)])

ObjectsPart ==
  /\ \A l \in Lists : OnceIn(slots, UsedIn(next, head[l]))
  /\ \A t \in Threads : owned[t] \intersect InHand(t) = {}
  /\ Spread(Object, Lists \union Threads, Cells, lostObjects)

\* What the place of a call says.
Stages == {"none", "latch", "get", "return", "objects", "frame", "add"}

Jobs == [op : {"none", "alloc", "add", "return"}, list : Lists \union {None}, at : Stages, obj : Nat, frame : Nat]

OnList(j, t) ==
  /\ j.list \in Lists
  /\ j.at # "latch" => latch[j.list] = t
  /\ \/ j.op = "alloc" /\ j.at \in {"latch", "get", "return"} /\ j.obj = 0
     \/ j.op = "alloc" /\ j.at = "objects" /\ j.obj = 0 /\ UsedIn(next, head[j.list]) = {}
     \/ j.op = "alloc" /\ j.at = "frame" /\ head[j.list].frame = NoFrame
     \/ j.op = "add" /\ j.at \in {"latch", "add"} /\ j.obj # 0

\* A thread may also be in a call of returnFreeFrame of its own, which is about no list.
OffList(j) == j.op = "return" /\ j.at = "return" /\ j.obj = 0 /\ j.list = None

PlaceOK(j, t) ==
  /\ j.frame # NoFrame <=> j.at = "return"
  /\ OnList(j, t) \/ OffList(j)

PlacesOK == \A t \in Threads : job[t] = Idle \/ PlaceOK(job[t], t)

JobsPart ==
  /\ made \in Nat /\ room \in Nat
  /\ head \in [Lists -> [frame : Nat, nslot : Nat]]
  /\ latch \in [Lists -> Threads \union {None}]
  /\ owned \in [Threads -> SUBSET Object]
  /\ job \in [Threads -> Jobs]
  /\ PlacesOK

IInv == FramesPart /\ HandsApart /\ ObjectsPart /\ JobsPart

-----------------------------------------------------------------------------
(* allocFrame, and what is then done with the frame.                       *)

AllocedOK(a, L, hd, out) ==
  /\ Parts(a.next, a.slots, a.head, L, hd, out \union {a.frame}, lostFrames \union a.lost)
  /\ Kept(next, slots, a.next, a.slots, L, hd)
  /\ a.frame \in 1..Len(a.next) /\ a.frame \notin out
  /\ a.room \in Nat

LEMMA AllocParts ==
  ASSUME NEW L, None \notin L, NEW hd, NEW out,
         Parts(next, slots, freeFrame, L, hd, out, lostFrames), room \in Nat, CanAllocFrame
  PROVE  AllocedOK(AllocFrame, L, hd, out)
<1> DEFINE a == AllocFrame
<1>1. AddrOK(next, freeFrame) /\ freeFrame.nslot \in Nat /\ FrameSlots \in Nat \ {0}
  <2>1. AddrOK(next, freeFrame)
    BY PartsPool
  <2>2. freeFrame.nslot \in 0..FrameSlots
    BY <2>1, AddrType
  <2> QED  BY <2>1, <2>2, FramesAssumption
<1>2. CASE freeFrame.nslot > 0
  <2> DEFINE x == slots[freeFrame.frame][freeFrame.nslot]
  <2>1. /\ a.frame = x /\ a.slots = slots /\ a.next = next /\ a.room = room /\ a.lost = {}
        /\ a.head = [freeFrame EXCEPT !.nslot = @ - 1]
    BY <1>2 DEF AllocFrame
  <2>2. a.head = Addr(freeFrame.frame, freeFrame.nslot - 1)
    BY <1>1, <2>1, AddrType DEF Addr
  <2>3. /\ Parts(next, slots, Addr(freeFrame.frame, freeFrame.nslot - 1), L, hd, out \union {x}, lostFrames)
        /\ x \in 1..Len(next) /\ x \notin out
    BY <1>2, PartsTakeSlot
  <2>4. Kept(next, slots, next, slots, L, hd)
    BY DEF Kept
  <2>5. lostFrames \union {} = lostFrames
    OBVIOUS
  <2> HIDE DEF a, x
  <2>6. AllocedOK(a, L, hd, out)
    BY <2>1, <2>2, <2>3, <2>4, <2>5 DEF AllocedOK
  <2> QED  BY <2>6 DEF a
<1>3. CASE ~(freeFrame.nslot > 0) /\ CanGetFree
  <2>1. /\ a.frame = freeFrame.frame /\ a.slots = slots /\ a.next = next /\ a.room = room /\ a.lost = {}
        /\ a.head = Addr(next[freeFrame.frame], FrameSlots)
    BY <1>3 DEF AllocFrame
  <2>2. freeFrame.nslot = 0 /\ freeFrame.frame # 0 /\ next[freeFrame.frame] # 0
    BY <1>1, <1>3 DEF CanGetFree, More, NoFrame
  <2>3. /\ Parts(next, slots, Addr(next[freeFrame.frame], FrameSlots), L, hd, out \union {freeFrame.frame}, lostFrames)
        /\ freeFrame.frame \in 1..Len(next) /\ freeFrame.frame \notin out
    BY <2>2, PartsTakeFirst
  <2>4. Kept(next, slots, next, slots, L, hd)
    BY DEF Kept
  <2>5. lostFrames \union {} = lostFrames
    OBVIOUS
  <2> HIDE DEF a
  <2>6. AllocedOK(a, L, hd, out)
    BY <2>1, <2>3, <2>4, <2>5 DEF AllocedOK
  <2> QED  BY <2>6 DEF a
<1>4. CASE ~(freeFrame.nslot > 0) /\ ~CanGetFree
  <2> DEFINE ny == NewFrames.next
             sm == NewFrames.slots
             base == Len(next) + 1
  <2>1. /\ NewFrames.head = Addr(base, FrameSlots) /\ NewFrames.head.frame = base
        /\ [NewFrames.head EXCEPT !.nslot = @ - 1] = Addr(base, FrameSlots - 1)
    BY DEF NewFrames, Addr
  <2>2. Fresh(next, slots, ny, sm)
    BY DEF NewFrames, Fresh, NoFrame
  <2>3. /\ a.frame = NewFrames.slots[NewFrames.head.frame][FrameSlots]
        /\ a.slots = NewFrames.slots /\ a.next = NewFrames.next /\ a.room = room - 1
        /\ a.lost = {freeFrame.frame} \ {NoFrame} /\ a.head = [NewFrames.head EXCEPT !.nslot = @ - 1]
    BY <1>4 DEF AllocFrame
  <2>4. NoneToGive(next, freeFrame) /\ room > 0
    BY <1>1, <1>4 DEF NoneToGive, CanAllocFrame, CanGetFree, More, NoFrame
  <2> HIDE DEF ny, sm
  <2>5. /\ Parts(ny, sm, Addr(base, FrameSlots - 1), L, hd, out \union {sm[base][FrameSlots]},
                lostFrames \union ({freeFrame.frame} \ {0}))
        /\ Kept(next, slots, ny, sm, L, hd)
        /\ sm[base][FrameSlots] \in 1..Len(ny) /\ sm[base][FrameSlots] \notin out
    BY <2>2, <2>4, PartsFresh
  <2>6. /\ a.frame = sm[base][FrameSlots] /\ a.slots = sm /\ a.next = ny /\ a.room \in Nat
        /\ a.lost = {freeFrame.frame} \ {0} /\ a.head = Addr(base, FrameSlots - 1)
    BY <2>1, <2>3, <2>4 DEF ny, sm, NoFrame
  <2> HIDE DEF a, base
  <2>7. AllocedOK(a, L, hd, out)
    BY <2>5, <2>6 DEF AllocedOK
  <2> QED  BY <2>7 DEF a
<1> QED  BY <1>2, <1>3, <1>4

\* The frame put in front of a list, or in the place of its last, with k slots of it used.
Placed(a, L, hd, l, k, s, ny, sm, he) ==
  /\ l \in L /\ ~HasSpace(hd[l]) /\ k \in 0..FrameSlots /\ s \in [1..FrameSlots -> Nat]
  /\ ny = [a.next EXCEPT ![a.frame] = hd[l].frame]
  /\ sm = [a.slots EXCEPT ![a.frame] = s]
  /\ he[l] = Addr(a.frame, k)
  /\ \A m \in L : m # l => he[m] = hd[m]

FrontOf(s, k) == {s[i] : i \in 1..k}

HasPlaced(a, L, hd, out, l, k, s, ny, sm, he) ==
  /\ Parts(ny, sm, a.head, L, he, out, lostFrames \union a.lost)
  /\ StockIn(ny, sm, he[l]) = StockIn(next, slots, hd[l]) \union FrontOf(s, k)
  /\ \A m \in L : m # l => StockIn(ny, sm, he[m]) = StockIn(next, slots, hd[m])
  /\ \A m \in L : m # l => UsedIn(ny, he[m]) = UsedIn(next, hd[m])
  /\ (/\ \A m \in L : OnceIn(slots, UsedIn(next, hd[m]))
      /\ \A i, j \in 1..k : s[i] = s[j] => i = j
      /\ StockIn(next, slots, hd[l]) \intersect FrontOf(s, k) = {})
     => \A m \in L : OnceIn(sm, UsedIn(ny, he[m]))

LEMMA AllocPlaced ==
  ASSUME NEW L, None \notin L, NEW hd, NEW out, NEW a, AllocedOK(a, L, hd, out),
         NEW l, NEW k, NEW s, NEW ny, NEW sm, NEW he, Placed(a, L, hd, l, k, s, ny, sm, he)
  PROVE  HasPlaced(a, L, hd, out, l, k, s, ny, sm, he)
<1> DEFINE x == a.frame
           nx == a.next
           sl == a.slots
           both == out \union {x}
           pool == a.head
           gone == lostFrames \union a.lost
<1>1. /\ Parts(nx, sl, pool, L, hd, both, gone)
      /\ Kept(next, slots, nx, sl, L, hd) /\ x \in both /\ both \ {x} = out
  BY DEF AllocedOK
<1>2. /\ l \in L /\ ~HasSpace(hd[l]) /\ k \in 0..FrameSlots /\ s \in [1..FrameSlots -> Nat]
      /\ he[l] = Addr(x, k) /\ \A m \in L : m # l => he[m] = hd[m]
      /\ ny = [nx EXCEPT ![x] = hd[l].frame] /\ sm = [sl EXCEPT ![x] = s]
  BY DEF Placed
<1>3. Links(nx) /\ SlotsOK(nx, sl)
  BY <1>1 DEF Parts
<1> HIDE DEF x, nx, sl, both, pool, gone
<1>4. /\ Parts(ny, sm, pool, L, he, both \ {x}, gone)
      /\ x \in 1..Len(nx)
      /\ UsedIn(ny, he[l]) = UsedIn(nx, hd[l]) \union ({x} \X (1..k))
      /\ \A m \in L : x \notin Reach(nx, hd[m].frame)
      /\ \A m \in L : m # l => UsedIn(ny, he[m]) = UsedIn(nx, hd[m])
  <2>1. Put(nx, sl, pool, L, hd, both, gone, l, x, k, s, ny, sm, he)
    BY <1>1, <1>2 DEF Put
  <2>2. HasPut(nx, pool, L, hd, both, gone, l, x, k, ny, sm, he)
    BY <2>1, PartsPut
  <2> QED  BY <2>2 DEF HasPut
<1>5. sm[x] = s /\ \A g \in 1..Len(nx) : g # x => sm[g] = sl[g]
  BY <1>2, <1>3, <1>4 DEF SlotsOK
<1>6. \A m \in L : \A p \in UsedIn(next, hd[m]) :
         /\ p \in UsedIn(nx, hd[m]) /\ p[1] # x /\ sm[p[1]][p[2]] = slots[p[1]][p[2]]
  <2> SUFFICES ASSUME NEW m \in L, NEW p \in UsedIn(next, hd[m])
               PROVE  /\ p \in UsedIn(nx, hd[m]) /\ p[1] # x /\ sm[p[1]][p[2]] = slots[p[1]][p[2]]
    OBVIOUS
  <2>1. p \in UsedIn(nx, hd[m]) /\ sl[p[1]][p[2]] = slots[p[1]][p[2]]
    BY <1>1 DEF Kept
  <2>2. p[1] \in Reach(nx, hd[m].frame) /\ p[1] \in 1..Len(nx)
    BY <2>1, ReachFrames DEF UsedIn
  <2> QED  BY <1>4, <1>5, <2>1, <2>2
<1>7. \A m \in L : UsedIn(nx, hd[m]) = UsedIn(next, hd[m])
  BY <1>1 DEF Kept
<1>8. \A i \in 1..k : sm[x][i] = s[i]
  BY <1>5
<1>9. \A m \in L : m # l => StockIn(ny, sm, he[m]) = StockIn(next, slots, hd[m])
  BY <1>4, <1>6, <1>7 DEF StockIn, HeldIn
<1>10. StockIn(ny, sm, he[l]) = StockIn(next, slots, hd[l]) \union FrontOf(s, k)
  <2> DEFINE U == UsedIn(next, hd[l])
  <2>1. UsedIn(ny, he[l]) = U \union ({x} \X (1..k)) /\ \A p \in U : sm[p[1]][p[2]] = slots[p[1]][p[2]]
    BY <1>2, <1>4, <1>6, <1>7
  <2> HIDE DEF U
  <2>2. HeldIn(sm, {x} \X (1..k)) = FrontOf(s, k)
    <3>1. \A i \in 1..k : <<x, i>> \in {x} \X (1..k) /\ sm[<<x, i>>[1]][<<x, i>>[2]] = s[i]
      BY <1>8
    <3>2. \A p \in {x} \X (1..k) : p[2] \in 1..k /\ sm[p[1]][p[2]] = s[p[2]]
      BY <1>8
    <3>3. ASSUME NEW i \in 1..k PROVE s[i] \in HeldIn(sm, {x} \X (1..k))
      BY <3>1 DEF HeldIn
    <3>4. ASSUME NEW p \in {x} \X (1..k) PROVE sm[p[1]][p[2]] \in FrontOf(s, k)
      BY <3>2 DEF FrontOf
    <3>5. FrontOf(s, k) \subseteq HeldIn(sm, {x} \X (1..k))
      BY <3>3 DEF FrontOf
    <3>6. HeldIn(sm, {x} \X (1..k)) \subseteq FrontOf(s, k)
      BY <3>4 DEF HeldIn
    <3> QED  BY <3>5, <3>6
  <2>3. HeldIn(sm, U) = HeldIn(slots, U)
    BY <2>1, HeldSame
  <2>4. HeldIn(sm, U \union ({x} \X (1..k))) = HeldIn(sm, U) \union HeldIn(sm, {x} \X (1..k))
    BY DEF HeldIn
  <2> QED  BY <2>1, <2>2, <2>3, <2>4 DEF StockIn, U
<1>11. ASSUME /\ \A m \in L : OnceIn(slots, UsedIn(next, hd[m]))
              /\ \A i, j \in 1..k : s[i] = s[j] => i = j
              /\ StockIn(next, slots, hd[l]) \intersect FrontOf(s, k) = {},
              NEW m \in L
       PROVE  OnceIn(sm, UsedIn(ny, he[m]))
  <2>1. CASE m # l
    BY <1>4, <1>6, <1>7, <1>11, <2>1, HeldSame
  <2>2. CASE m = l
    <3> DEFINE U == UsedIn(next, hd[l])
               W == {x} \X (1..k)
    <3>1. UsedIn(ny, he[l]) = U \union W /\ \A p \in U : sm[p[1]][p[2]] = slots[p[1]][p[2]]
      BY <1>2, <1>4, <1>6, <1>7
    <3>2. \A p \in W : p[1] = x /\ p[2] \in 1..k /\ p = <<x, p[2]>> /\ sm[p[1]][p[2]] = s[p[2]]
      BY <1>8
    <3>3. \A p \in U : \A q \in W : sm[p[1]][p[2]] # sm[q[1]][q[2]]
      <4>1. \A p \in U : slots[p[1]][p[2]] \in StockIn(next, slots, hd[l])
        BY DEF StockIn, HeldIn
      <4>2. \A q \in W : sm[q[1]][q[2]] \in FrontOf(s, k)
        BY <3>2 DEF FrontOf
      <4> QED  BY <1>11, <3>1, <4>1, <4>2
    <3>4. \A p, q \in W : sm[p[1]][p[2]] = sm[q[1]][q[2]] => p = q
      BY <1>11, <3>2
    <3>5. \A p, q \in U : slots[p[1]][p[2]] = slots[q[1]][q[2]] => p = q
      BY <1>2, <1>11 DEF OnceIn
    <3> HIDE DEF U, W
    <3> QED  BY <2>2, <3>1, <3>3, <3>4, <3>5 DEF OnceIn
  <2> QED  BY <2>1, <2>2
<1> QED  BY <1>1, <1>4, <1>7, <1>9, <1>10, <1>11 DEF HasPlaced, pool, gone

LEMMA KeptStock ==
  ASSUME NEW nx, NEW sl, NEW ny, NEW sm, NEW L, NEW hd, Kept(nx, sl, ny, sm, L, hd), NEW l \in L
  PROVE  /\ UsedIn(ny, hd[l]) = UsedIn(nx, hd[l])
         /\ StockIn(ny, sm, hd[l]) = StockIn(nx, sl, hd[l])
         /\ OnceIn(sl, UsedIn(nx, hd[l])) => OnceIn(sm, UsedIn(ny, hd[l]))
BY HeldSame DEF Kept, StockIn

\* nslot of a list changed, or the slots of its frames
Nudged(nx, sl, ff, L, hd, sm, he) ==
  /\ SlotsOK(nx, sm)
  /\ \A l \in L : he[l].frame = hd[l].frame /\ AddrOK(nx, he[l])
  /\ \A p \in UsedIn(nx, ff) : sm[p[1]][p[2]] = sl[p[1]][p[2]]

LEMMA PartsNudged ==
  ASSUME NEW nx, NEW sl, NEW ff, NEW L, None \notin L, NEW hd, NEW out, NEW lost,
         Parts(nx, sl, ff, L, hd, out, lost), NEW sm, NEW he, Nudged(nx, sl, ff, L, hd, sm, he)
  PROVE  Parts(nx, sm, ff, L, he, out, lost)
<1> DEFINE D == L \union {None}
           hs == Heads(L, ff, hd)
           gs == Heads(L, ff, he)
<1>1. /\ Links(nx) /\ ChainsOK(nx, D, hs) /\ AddrOK(nx, ff) /\ OnceIn(sl, UsedIn(nx, ff))
      /\ Split(1..Len(nx), Chained(nx, D, hs), HeldIn(sl, UsedIn(nx, ff)), out, lost)
  BY PartsPool DEF Parts
<1>2. HeldIn(sm, UsedIn(nx, ff)) = HeldIn(sl, UsedIn(nx, ff)) /\ OnceIn(sm, UsedIn(nx, ff))
  BY <1>1, HeldSame DEF Nudged
<1>3. \A d \in D : gs[d].frame = hs[d].frame /\ AddrOK(nx, gs[d])
  BY <1>1 DEF Heads, Nudged
<1> HIDE DEF D, hs, gs
<1>4. ChainsOK(nx, D, gs) /\ Chained(nx, D, gs) = Chained(nx, D, hs)
  BY <1>1, <1>3, ChainsKept
<1>5. Split(1..Len(nx), Chained(nx, D, gs), HeldIn(sm, UsedIn(nx, ff)), out, lost)
  BY <1>1, <1>2, <1>4
<1> QED  BY <1>1, <1>2, <1>4, <1>5 DEF Parts, Nudged, D, gs

-----------------------------------------------------------------------------
(* What a step does to the hands and to the places of the calls.           *)

LEMMA HandsSame ==
  ASSUME HandsApart, \A t \in Threads : job'[t].frame = job[t].frame
  PROVE  Out' = Out /\ HandsApart'
BY DEF Out, HandsApart

LEMMA HandTakes ==
  ASSUME HandsApart, NEW t \in Threads, \A u \in Threads \ {t} : job'[u] = job[u],
         job[t].frame = NoFrame, NEW x, x # NoFrame, x \notin Out, job'[t].frame = x
  PROVE  Out' = Out \union {x} /\ HandsApart'
<1>1. HandsApart'
  BY DEF Out, HandsApart
<1>2. Out' \subseteq Out \union {x}
  BY DEF Out
<1>3. Out \union {x} \subseteq Out'
  <2>1. x \in Out'
    BY DEF Out
  <2>2. ASSUME NEW y \in Out PROVE y \in Out'
    BY DEF Out
  <2> QED  BY <2>1, <2>2
<1> QED  BY <1>1, <1>2, <1>3

LEMMA HandGives ==
  ASSUME HandsApart, NEW t \in Threads, \A u \in Threads \ {t} : job'[u] = job[u],
         job[t].frame # NoFrame, job'[t].frame = NoFrame
  PROVE  Out' = Out \ {job[t].frame} /\ HandsApart' /\ job[t].frame \in Out
<1>1. HandsApart' /\ job[t].frame \in Out
  BY DEF Out, HandsApart
<1>2. Out' \subseteq Out \ {job[t].frame}
  BY DEF Out, HandsApart
<1>3. ASSUME NEW y \in Out, y # job[t].frame PROVE y \in Out'
  BY <1>3 DEF Out
<1> QED  BY <1>1, <1>2, <1>3

LEMMA CellsAre ==
  /\ \A l \in Lists : Cells[l] = StockIn(next, slots, head[l]) /\ Cells'[l] = StockIn(next', slots', head'[l])
  /\ \A t \in Threads : Cells[t] = Held(t) /\ Cells'[t] = Held(t)'
BY FramesAssumption DEF Cells, CellsIn

\* Nothing happens to the lists other than l, the one the call of a thread is about.
Undisturbed(l) ==
  \A m \in Lists : m # l =>
    /\ latch'[m] = latch[m] /\ head'[m] = head[m]
    /\ UsedIn(next', head'[m]) = UsedIn(next, head[m])

LEMMA JobStep ==
  ASSUME job \in [Threads -> Jobs], PlacesOK, NEW t \in Threads, NEW j \in Jobs,
         job' = [job EXCEPT ![t] = j], j = Idle \/ PlaceOK(j, t)',
         NEW l, Undisturbed(l), l \in Lists => latch[l] \notin Threads \ {t}
  PROVE  job' \in [Threads -> Jobs] /\ PlacesOK'
<1>1. job' \in [Threads -> Jobs] /\ job'[t] = j /\ \A u \in Threads : u # t => job'[u] = job[u]
  OBVIOUS
<1>2. ASSUME NEW u \in Threads, u # t, job[u] # Idle PROVE PlaceOK(job[u], u)'
  <2>1. PlaceOK(job[u], u) /\ job'[u] = job[u]
    BY <1>1, <1>2 DEF PlacesOK
  <2>2. CASE OnList(job[u], u)
    <3>1. job[u].list \in Lists /\ (job[u].at # "latch" => job[u].list # l)
      BY <1>2, <2>2 DEF OnList
    <3> QED  BY <2>1, <2>2, <3>1 DEF PlaceOK, OnList, Undisturbed
  <2>3. CASE OffList(job[u])
    BY <2>1, <2>3 DEF PlaceOK, OffList
  <2> QED  BY <2>1, <2>2, <2>3 DEF PlaceOK
<1> QED  BY <1>1, <1>2 DEF PlacesOK

LEMMA FramesStill ==
  ASSUME FramesPart, HandsApart, UNCHANGED <<head, slots, next, freeFrame, lostFrames>>,
         \A t \in Threads : job'[t].frame = job[t].frame
  PROVE  FramesPart' /\ HandsApart'
<1>1. Out' = Out /\ HandsApart'
  BY HandsSame
<1>2. <<head', slots', next', freeFrame', lostFrames'>> = <<head, slots, next, freeFrame, lostFrames>>
  OBVIOUS
<1> QED  BY <1>1, <1>2 DEF FramesPart

\* What is on a list and what a thread holds stays.
StockStays(l) ==
  /\ StockIn(next', slots', head'[l]) = StockIn(next, slots, head[l])
  /\ OnceIn(slots', UsedIn(next', head'[l]))

HoldStays(t) == Held(t)' = Held(t) /\ owned'[t] \intersect InHand(t)' = {}

LEMMA ObjectsStill ==
  ASSUME ObjectsPart, made' = made, lostObjects' = lostObjects,
         \A l \in Lists : StockStays(l), \A t \in Threads : HoldStays(t)
  PROVE  ObjectsPart'
<1>1. \A d \in Lists \union Threads : Cells'[d] = Cells[d]
  BY CellsAre DEF StockStays, HoldStays
<1>2. Spread(Object, Lists \union Threads, Cells', lostObjects)
  BY <1>1, SpreadSame DEF ObjectsPart
<1>3. Object' = Object
  BY DEF Object
<1> QED  BY <1>2, <1>3 DEF ObjectsPart, StockStays, HoldStays

LEMMA StockUnmoved ==
  ASSUME ObjectsPart, UNCHANGED <<head, slots, next>>, NEW l \in Lists
  PROVE  StockStays(l)
BY DEF ObjectsPart, StockStays

LEMMA HoldUnmoved ==
  ASSUME ObjectsPart, NEW t \in Threads, owned'[t] = owned[t], job'[t] = job[t]
  PROVE  HoldStays(t)
BY DEF ObjectsPart, HoldStays, Held, InHand, At

LEMMA JobType ==
  ASSUME JobsPart, NEW t \in Threads
  PROVE  job[t] \in Jobs /\ (job[t] = Idle \/ PlaceOK(job[t], t))
BY DEF JobsPart, PlacesOK

\* A call of allocObj or of addSlotToFrame begins.
StartsAlloc(t, l) ==
  /\ job[t] = Idle
  /\ job' = [job EXCEPT ![t] = [Idle EXCEPT !.op = "alloc", !.list = l, !.at = "latch"]]
  /\ UNCHANGED <<head, latch, freeFrame, slots, next, lostFrames, made, room, owned, lostObjects>>

StartsAdd(t, l, o) ==
  /\ job[t] = Idle
  /\ job' = [job EXCEPT ![t] = [Idle EXCEPT !.op = "add", !.list = l, !.at = "latch", !.obj = o]]
  /\ owned' = [owned EXCEPT ![t] = @ \ {o}]
  /\ UNCHANGED <<head, latch, freeFrame, slots, next, lostFrames, made, room, lostObjects>>

LEMMA StartsAllocInv ==
  ASSUME IInv, NEW t \in Threads, NEW l \in Lists, StartsAlloc(t, l)
  PROVE  IInv' /\ Undisturbed(job[t].list)
<1> DEFINE j == [Idle EXCEPT !.op = "alloc", !.list = l, !.at = "latch"]
<1>1. /\ job[t] = Idle /\ job' = [job EXCEPT ![t] = j] /\ job \in [Threads -> Jobs]
      /\ UNCHANGED <<head, latch, freeFrame, slots, next, lostFrames, made, room, owned, lostObjects>>
  BY DEF StartsAlloc, IInv, JobsPart
<1>2. j \in Jobs /\ j.obj = 0 /\ j.frame = NoFrame /\ j.at = "latch" /\ j.op = "alloc" /\ j.list = l
  BY DEF Jobs, Idle, NoFrame, Stages
<1> HIDE DEF j
<1>3. job'[t] = j /\ \A u \in Threads \ {t} : job'[u] = job[u]
  BY <1>1
<1>4. FramesPart' /\ HandsApart'
  <2>1. \A u \in Threads : job'[u].frame = job[u].frame
    BY <1>1, <1>2, <1>3 DEF Idle
  <2> QED  BY <1>1, <2>1, FramesStill DEF IInv
<1>5. ObjectsPart'
  <2>1. HoldStays(t)
    BY <1>1, <1>2, <1>3 DEF HoldStays, Held, InHand, At, Idle, IInv, ObjectsPart
  <2>2. \A u \in Threads : HoldStays(u)
    BY <1>1, <1>3, <2>1, HoldUnmoved DEF IInv
  <2>3. \A m \in Lists : StockStays(m)
    BY <1>1, StockUnmoved DEF IInv
  <2> QED  BY <1>1, <2>2, <2>3, ObjectsStill DEF IInv
<1>6. Undisturbed(job[t].list)
  BY <1>1 DEF Undisturbed
<1>7. JobsPart'
  <2>1. PlaceOK(j, t)'
    BY <1>2 DEF PlaceOK, OnList, OffList
  <2>2. job[t].list \in Lists => latch[job[t].list] \notin Threads \ {t}
    BY <1>1, FramesAssumption DEF Idle
  <2>3. job' \in [Threads -> Jobs] /\ PlacesOK'
    BY <1>1, <1>2, <1>6, <2>1, <2>2, JobStep DEF IInv, JobsPart
  <2> QED  BY <1>1, <2>3 DEF IInv, JobsPart, Object
<1> QED  BY <1>4, <1>5, <1>6, <1>7 DEF IInv

LEMMA StartsAddInv ==
  ASSUME IInv, NEW t \in Threads, NEW l \in Lists, NEW o \in owned[t], StartsAdd(t, l, o)
  PROVE  IInv' /\ Undisturbed(job[t].list)
<1> DEFINE j == [Idle EXCEPT !.op = "add", !.list = l, !.at = "latch", !.obj = o]
<1>1. /\ job[t] = Idle /\ job' = [job EXCEPT ![t] = j] /\ job \in [Threads -> Jobs]
      /\ UNCHANGED <<head, latch, freeFrame, slots, next, lostFrames, made, room, lostObjects>>
      /\ owned' = [owned EXCEPT ![t] = @ \ {o}]
  BY DEF StartsAdd, IInv, JobsPart
<1>2. owned \in [Threads -> SUBSET Object] /\ made \in Nat /\ o \in Nat /\ o # 0
  BY DEF IInv, JobsPart, Object
<1>3. j \in Jobs /\ j.obj = o /\ j.frame = NoFrame /\ j.at = "latch" /\ j.op = "add" /\ j.list = l
  BY <1>2 DEF Jobs, Idle, NoFrame, Stages
<1> HIDE DEF j
<1>4. job'[t] = j /\ \A u \in Threads \ {t} : job'[u] = job[u]
  BY <1>1
<1>5. FramesPart' /\ HandsApart'
  <2>1. \A u \in Threads : job'[u].frame = job[u].frame
    BY <1>1, <1>3, <1>4 DEF Idle
  <2> QED  BY <1>1, <2>1, FramesStill DEF IInv
<1>6. ObjectsPart'
  <2>1. HoldStays(t)
    <3>1. InHand(t) = {} /\ InHand(t)' = {o} /\ owned'[t] = owned[t] \ {o}
      BY <1>1, <1>2, <1>3, <1>4 DEF InHand, At, Idle
    <3> QED  BY <3>1 DEF HoldStays, Held
  <2>2. \A u \in Threads : HoldStays(u)
    <3>1. \A u \in Threads \ {t} : owned'[u] = owned[u]
      BY <1>1
    <3> QED  BY <1>4, <2>1, <3>1, HoldUnmoved DEF IInv
  <2>3. \A m \in Lists : StockStays(m)
    BY <1>1, StockUnmoved DEF IInv
  <2> QED  BY <1>1, <2>2, <2>3, ObjectsStill DEF IInv
<1>7. Undisturbed(job[t].list)
  BY <1>1 DEF Undisturbed
<1>8. JobsPart'
  <2>1. PlaceOK(j, t)'
    BY <1>2, <1>3 DEF PlaceOK, OnList, OffList
  <2>2. job[t].list \in Lists => latch[job[t].list] \notin Threads \ {t}
    BY <1>1, FramesAssumption DEF Idle
  <2>3. job' \in [Threads -> Jobs] /\ PlacesOK'
    BY <1>1, <1>3, <1>7, <2>1, <2>2, JobStep DEF IInv, JobsPart
  <2>4. owned' \in [Threads -> SUBSET Object]
    BY <1>1, <1>2
  <2> QED  BY <1>1, <2>3, <2>4 DEF IInv, JobsPart, Object
<1> QED  BY <1>5, <1>6, <1>7, <1>8 DEF IInv

LEMMA LatchInv ==
  ASSUME IInv, NEW t \in Threads, Latch(t)
  PROVE  IInv' /\ Undisturbed(job[t].list)
<1> DEFINE l == job[t].list
           g == [job[t] EXCEPT !.at = IF job[t].op = "alloc" THEN "get" ELSE "add"]
<1>1. /\ job[t].at = "latch" /\ job' = [job EXCEPT ![t] = g] /\ job \in [Threads -> Jobs]
      /\ latch[l] = None /\ latch' = [latch EXCEPT ![l] = t]
      /\ UNCHANGED <<head, freeFrame, slots, next, lostFrames, made, room, owned, lostObjects>>
  <2>1. [job EXCEPT ![t].at = IF job[t].op = "alloc" THEN "get" ELSE "add"] = [job EXCEPT ![t] = g]
    OBVIOUS
  <2> QED  BY <2>1 DEF Latch, At, poolVars, frameVars, IInv, JobsPart
<1>2. /\ PlaceOK(job[t], t) /\ job[t] \in Jobs
  BY <1>1, JobType DEF IInv, Idle
<1>3. PICK j \in Jobs :
         /\ j = g /\ j.list = l /\ j.obj = job[t].obj /\ j.frame = NoFrame /\ j.op = job[t].op
         /\ job[t].frame = NoFrame
         /\ j.at = IF job[t].op = "alloc" THEN "get" ELSE "add"
  <2>1. /\ g \in Jobs /\ g.list = l /\ g.obj = job[t].obj /\ g.frame = NoFrame /\ g.op = job[t].op
        /\ job[t].frame = NoFrame
        /\ g.at = IF job[t].op = "alloc" THEN "get" ELSE "add"
    BY <1>1, <1>2 DEF Jobs, Stages, PlaceOK, OnList, OffList
  <2> HIDE DEF g
  <2> QED  BY <2>1
<1> HIDE DEF g
<1>4. job'[t] = j /\ \A u \in Threads \ {t} : job'[u] = job[u]
  BY <1>1, <1>3
<1>5. FramesPart' /\ HandsApart'
  <2>1. \A u \in Threads : job'[u].frame = job[u].frame
    BY <1>3, <1>4
  <2> QED  BY <1>1, <2>1, FramesStill DEF IInv
<1>6. ObjectsPart'
  <2>1. HoldStays(t)
    <3>1. InHand(t)' = InHand(t)
      BY <1>1, <1>3, <1>4 DEF InHand, At
    <3> QED  BY <1>1, <3>1 DEF HoldStays, Held, IInv, ObjectsPart
  <2>2. \A u \in Threads : HoldStays(u)
    BY <1>1, <1>4, <2>1, HoldUnmoved DEF IInv
  <2>3. \A m \in Lists : StockStays(m)
    BY <1>1, StockUnmoved DEF IInv
  <2> QED  BY <1>1, <2>2, <2>3, ObjectsStill DEF IInv
<1>7. latch \in [Lists -> Threads \union {None}] /\ l \in Lists
  BY <1>1, <1>2 DEF IInv, JobsPart, PlaceOK, OnList, OffList
<1>8. Undisturbed(job[t].list)
  BY <1>1, <1>7, FramesAssumption DEF Undisturbed
<1>9. JobsPart'
  <2>1. PlaceOK(j, t)'
    BY <1>1, <1>2, <1>3, <1>7 DEF PlaceOK, OnList, OffList
  <2>2. job[t].list \in Lists => latch[job[t].list] \notin Threads \ {t}
    BY <1>1, <1>7, FramesAssumption
  <2>3. job' \in [Threads -> Jobs] /\ PlacesOK'
    BY <1>1, <1>3, <1>8, <2>1, <2>2, JobStep DEF IInv, JobsPart
  <2>4. latch' \in [Lists -> Threads \union {None}]
    BY <1>1, <1>7
  <2> QED  BY <1>1, <2>3, <2>4 DEF IInv, JobsPart, Object
<1> QED  BY <1>5, <1>6, <1>8, <1>9 DEF IInv

-----------------------------------------------------------------------------
(* Objects that change hands.                                              *)

ObjectsApart ==
  /\ \A l \in Lists : OnceIn(slots, UsedIn(next, head[l]))
  /\ \A t \in Threads : owned[t] \intersect InHand(t) = {}

\* X goes from the list or thread d to e.
Moved(d, e, X) ==
  /\ d \in Lists \union Threads /\ e \in Lists \union Threads /\ d # e
  /\ X \subseteq Cells[d] /\ Cells'[d] = Cells[d] \ X /\ Cells'[e] = Cells[e] \union X
  /\ \A c \in (Lists \union Threads) \ {d, e} : Cells'[c] = Cells[c]

LEMMA ObjectsMove ==
  ASSUME ObjectsPart, ObjectsApart', made' = made, lostObjects' = lostObjects,
         NEW d, NEW e, NEW X, Moved(d, e, X)
  PROVE  ObjectsPart'
<1>1. Object' = Object
  BY DEF Object
<1>2. Spread(Object, Lists \union Threads, Cells', lostObjects)
  <2>1. Spread(Object, Lists \union Threads, Cells, lostObjects)
    BY DEF ObjectsPart
  <2> QED  BY <2>1, SpreadMove DEF Moved
<1> QED  BY <1>1, <1>2 DEF ObjectsPart, ObjectsApart

LEMMA ThreadList == \A t \in Threads, l \in Lists : t # l
BY FramesAssumption

-----------------------------------------------------------------------------
(* allocObj                                                                *)

LEMMA GetNodeTakes ==
  ASSUME IInv, NEW t \in Threads, GetNode(t),
         head[job[t].list].frame # NoFrame /\ head[job[t].list].nslot > 0
  PROVE  IInv' /\ Undisturbed(job[t].list)
<1> DEFINE l == job[t].list
           h == head[l]
           x == slots[h.frame][h.nslot]
           b == Addr(h.frame, h.nslot - 1)
<1>1. /\ job[t].at = "get" /\ head' = [head EXCEPT ![l].nslot = @ - 1]
      /\ owned' = [owned EXCEPT ![t] = @ \union {x}]
      /\ latch' = [latch EXCEPT ![l] = None] /\ job' = [job EXCEPT ![t] = Idle]
      /\ UNCHANGED <<freeFrame, room, lostFrames, slots, next, made, lostObjects>>
  <2> HIDE DEF x, l
  <2>1. job[t].at = "get" /\ UNCHANGED <<freeFrame, room, lostFrames, slots, next, made, lostObjects>>
    BY DEF GetNode, At, poolVars, frameVars
  <2>2. /\ head' = [head EXCEPT ![l].nslot = @ - 1]
        /\ owned' = [owned EXCEPT ![t] = @ \union {x}] /\ Unlatch(t)
    <3>1. head[job[t].list].nslot # 0
      OBVIOUS
    <3> QED  BY <3>1, Zenon DEF GetNode, More, x, l
  <2> QED  BY <2>1, <2>2 DEF Unlatch, l
<1>2. /\ job \in [Threads -> Jobs] /\ latch \in [Lists -> Threads \union {None}]
      /\ owned \in [Threads -> SUBSET Object] /\ head \in [Lists -> [frame : Nat, nslot : Nat]]
  BY DEF IInv, JobsPart
<1>3. PlaceOK(job[t], t) /\ l \in Lists /\ latch[l] = t /\ job[t].obj = 0 /\ job[t].frame = NoFrame
  BY <1>1, JobType DEF IInv, Idle, PlaceOK, OnList, OffList
<1>4. /\ Parts(next, slots, freeFrame, Lists, head, Out, lostFrames) /\ None \notin Lists
      /\ Links(next) /\ SlotsOK(next, slots)
  BY FramesAssumption DEF IInv, FramesPart, Parts
<1>5. AddrOK(next, h)
  BY <1>3, <1>4, PartsPool
<1>6. /\ head'[l] = b /\ \A m \in Lists : m # l => head'[m] = head[m]
      /\ b.frame = h.frame
  BY <1>1, <1>2, <1>3 DEF Addr
<1>7. /\ AddrOK(next, b) /\ <<h.frame, h.nslot>> \in UsedIn(next, h)
      /\ UsedIn(next, b) = UsedIn(next, h) \ {<<h.frame, h.nslot>>}
  BY <1>4, <1>5, UsedPop
<1>8. OnceIn(slots, UsedIn(next, h))
  BY <1>3 DEF IInv, ObjectsPart
<1>9. /\ x \in StockIn(next, slots, h) /\ StockIn(next, slots, b) = StockIn(next, slots, h) \ {x}
      /\ OnceIn(slots, UsedIn(next, b))
  <2> DEFINE p == <<h.frame, h.nslot>>
  <2>1. x = slots[p[1]][p[2]] /\ p \in UsedIn(next, h) /\ UsedIn(next, b) = UsedIn(next, h) \ {p}
    BY <1>7
  <2> HIDE DEF p, x, b, h
  <2>2. /\ slots[p[1]][p[2]] \in HeldIn(slots, UsedIn(next, h))
        /\ HeldIn(slots, UsedIn(next, h) \ {p}) = HeldIn(slots, UsedIn(next, h)) \ {slots[p[1]][p[2]]}
        /\ OnceIn(slots, UsedIn(next, h) \ {p})
    BY <1>8, <2>1, HeldMinus
  <2> QED  BY <2>1, <2>2 DEF StockIn
<1> HIDE DEF x, b
<1>10. job'[t] = Idle /\ \A u \in Threads \ {t} : job'[u] = job[u] /\ owned'[u] = owned[u]
  BY <1>1, <1>2
<1>11. FramesPart' /\ HandsApart'
  <2>1. Out' = Out /\ HandsApart'
    BY <1>3, <1>10, HandsSame DEF Idle, IInv
  <2>2. Nudged(next, slots, freeFrame, Lists, head, slots, head')
    <3>1. \A m \in Lists : AddrOK(next, head[m])
      BY <1>4, PartsPool
    <3>2. \A m \in Lists : head'[m].frame = head[m].frame /\ AddrOK(next, head'[m])
      BY <1>6, <1>7, <3>1
    <3> QED  BY <1>4, <3>2 DEF Nudged
  <2>3. Parts(next, slots, freeFrame, Lists, head', Out, lostFrames)
    BY <1>4, <2>2, PartsNudged
  <2> QED  BY <1>1, <2>1, <2>3 DEF FramesPart
<1>12. ObjectsPart'
  <2>1. InHand(t) = {} /\ InHand(t)' = {} /\ owned'[t] = owned[t] \union {x}
    BY <1>1, <1>2, <1>3, <1>10 DEF InHand, At, Idle
  <2>2. \A u \in Threads \ {t} : HoldStays(u)
    BY <1>10, HoldUnmoved DEF IInv
  <2>3. \A m \in Lists \ {l} : StockStays(m)
    BY <1>1, <1>6 DEF IInv, ObjectsPart, StockStays
  <2>4. Moved(l, t, {x})
    <3>1. Cells[l] = StockIn(next, slots, h) /\ Cells'[l] = StockIn(next, slots, b)
      BY <1>1, <1>3, <1>6, CellsAre
    <3>2. Cells'[t] = Cells[t] \union {x}
      BY <2>1, CellsAre DEF Held
    <3>3. \A c \in (Lists \union Threads) \ {l, t} : Cells'[c] = Cells[c]
      BY <2>2, <2>3, CellsAre DEF HoldStays, StockStays
    <3> QED  BY <1>3, <1>9, <3>1, <3>2, <3>3, ThreadList DEF Moved
  <2>5. ObjectsApart'
    <3>1. \A m \in Lists : OnceIn(slots', UsedIn(next', head'[m]))
      BY <1>1, <1>6, <1>9, <2>3 DEF StockStays
    <3>2. \A u \in Threads : owned'[u] \intersect InHand(u)' = {}
      BY <2>1, <2>2 DEF HoldStays
    <3> QED  BY <3>1, <3>2 DEF ObjectsApart
  <2> QED  BY <1>1, <2>4, <2>5, ObjectsMove DEF IInv
<1>13. Undisturbed(job[t].list)
  BY <1>1, <1>2, <1>3, <1>6 DEF Undisturbed
<1>14. JobsPart'
  <2>1. Idle \in Jobs
    BY DEF Idle, Jobs, Stages, NoFrame
  <2>2. job[t].list \in Lists => latch[job[t].list] \notin Threads \ {t}
    BY <1>3
  <2>3. job' \in [Threads -> Jobs] /\ PlacesOK'
    BY <1>1, <1>2, <1>13, <2>1, <2>2, JobStep DEF IInv, JobsPart
  <2>4. head' \in [Lists -> [frame : Nat, nslot : Nat]]
    <3>1. h \in [frame : Nat, nslot : Nat]
      BY <1>2, <1>3
    <3>2. b \in [frame : Nat, nslot : Nat]
      BY <3>1 DEF b, Addr
    <3>3. DOMAIN head' = Lists /\ head' = [m \in Lists |-> head'[m]]
      BY <1>1, <1>2
    <3> HIDE DEF h
    <3> QED  BY <1>2, <1>6, <3>2, <3>3
  <2>5. latch' \in [Lists -> Threads \union {None}]
    BY <1>1, <1>2
  <2>6. owned' \in [Threads -> SUBSET Object]
    <3>1. x \in Object
      BY <1>3, <1>9, CellsAre DEF IInv, ObjectsPart, Spread
    <3> QED  BY <1>1, <1>2, <3>1
  <2> QED  BY <1>1, <2>3, <2>4, <2>5, <2>6 DEF IInv, JobsPart, Object
<1> QED  BY <1>11, <1>12, <1>13, <1>14 DEF IInv

LEMMA GetNodeGivesUp ==
  ASSUME IInv, NEW t \in Threads, GetNode(t),
         head[job[t].list].frame # NoFrame, head[job[t].list].nslot = 0,
         next[head[job[t].list].frame] # NoFrame
  PROVE  IInv' /\ Undisturbed(job[t].list)
<1> DEFINE l == job[t].list
           h == head[l]
           x == h.frame
           b == Addr(next[x], FrameSlots)
           g == [job[t] EXCEPT !.at = "return", !.frame = x]
<1>1. /\ job \in [Threads -> Jobs] /\ latch \in [Lists -> Threads \union {None}]
      /\ owned \in [Threads -> SUBSET Object] /\ head \in [Lists -> [frame : Nat, nslot : Nat]]
  BY DEF IInv, JobsPart
<1>2. /\ job[t].at = "get" /\ head' = [head EXCEPT ![l] = b] /\ job' = [job EXCEPT ![t] = g]
      /\ UNCHANGED <<latch, owned, freeFrame, room, lostFrames, slots, next, made, lostObjects>>
  <2>1. job[t].at = "get" /\ UNCHANGED <<freeFrame, room, lostFrames, slots, next, made, lostObjects>>
    BY DEF GetNode, At, poolVars, frameVars
  <2>2. /\ head' = [head EXCEPT ![l] = b] /\ UNCHANGED <<latch, owned>>
        /\ job' = [job EXCEPT ![t].at = "return", ![t].frame = x]
    <3>1. ~(head[job[t].list].nslot > 0)
      OBVIOUS
    <3> QED  BY <3>1, Zenon DEF GetNode, More, x, l
  <2>3. [job EXCEPT ![t].at = "return", ![t].frame = x] = [job EXCEPT ![t] = g]
    <3> HIDE DEF x
    <3> QED  BY <1>1
  <2> QED  BY <2>1, <2>2, <2>3
<1>3. /\ PlaceOK(job[t], t) /\ l \in Lists /\ latch[l] = t /\ job[t].obj = 0 /\ job[t].frame = NoFrame
      /\ job[t].op = "alloc" /\ job[t] \in Jobs
  BY <1>2, JobType DEF IInv, Idle, PlaceOK, OnList, OffList
<1>4. /\ Parts(next, slots, freeFrame, Lists, head, Out, lostFrames) /\ None \notin Lists /\ Links(next)
  BY FramesAssumption DEF IInv, FramesPart, Parts
<1>5. AddrOK(next, h) /\ x \in Nat /\ x # 0
  BY <1>1, <1>3, <1>4, PartsPool DEF NoFrame
<1>6. head'[l] = b /\ \A m \in Lists : m # l => head'[m] = head[m]
  BY <1>1, <1>2, <1>3
<1>7. AddrOK(next, b) /\ UsedIn(next, b) = UsedIn(next, h) /\ next[x] \in Nat /\ b.frame = next[x]
  <2>1. h.nslot = 0 /\ next[h.frame] # 0
    BY DEF NoFrame
  <2>2. next[x] \in 0..Len(next) /\ AddrOK(next, b) /\ UsedIn(next, b) = UsedIn(next, h)
    BY <1>4, <1>5, <2>1, UsedNext
  <2> QED  BY <2>2 DEF Addr
<1>8. PICK j \in Jobs : j = g /\ j.at = "return" /\ j.frame = x /\ j.list = l /\ j.obj = 0 /\ j.op = "alloc"
  <2>1. g \in Jobs /\ g.at = "return" /\ g.frame = x /\ g.list = l /\ g.obj = 0 /\ g.op = "alloc"
    BY <1>3, <1>5 DEF Jobs, Stages
  <2> HIDE DEF g
  <2> QED  BY <2>1
<1> HIDE DEF g, b
<1>9. job'[t] = j /\ \A u \in Threads \ {t} : job'[u] = job[u] /\ owned'[u] = owned[u]
  BY <1>1, <1>2, <1>8
<1>10. FramesPart' /\ HandsApart'
  <2>1. /\ Parts(next, slots, freeFrame, Lists, head', Out \union {x}, lostFrames)
        /\ x \notin Out
    <3>1. Drop(next, slots, freeFrame, Lists, head, Out, lostFrames, l, b, head')
      BY <1>3, <1>4, <1>5, <1>6, <1>7 DEF Drop
    <3>2. x = head[l].frame
      OBVIOUS
    <3> HIDE DEF x, h, l
    <3>3. Parts(next, slots, freeFrame, Lists, head', Out \union {head[l].frame}, lostFrames)
      BY <3>1, PartsDrop
    <3>4. head[l].frame \notin Out
      BY <3>1, PartsDrop
    <3> QED  BY <3>2, <3>3, <3>4
  <2>2. Out' = Out \union {x} /\ HandsApart'
    <3>1. /\ HandsApart /\ job[t].frame = NoFrame /\ x # NoFrame
          /\ job'[t].frame = x /\ \A u \in Threads \ {t} : job'[u] = job[u]
      <4> HIDE DEF x
      <4>1. job'[t].frame = x /\ \A u \in Threads \ {t} : job'[u] = job[u]
        BY <1>8, <1>9
      <4>2. x # NoFrame
        BY <1>5 DEF NoFrame
      <4>3. HandsApart
        BY DEF IInv
      <4> QED  BY <4>1, <4>2, <4>3, <1>3
    <3>2. x \notin Out
      BY <2>1
    <3> HIDE DEF x
    <3> QED  BY <3>1, <3>2, HandTakes, ZenonT(60)
  <2> QED  BY <1>2, <2>1, <2>2 DEF FramesPart
<1>11. ObjectsPart'
  <2>1. HoldStays(t)
    <3>1. InHand(t)' = InHand(t)
      BY <1>2, <1>3, <1>8, <1>9 DEF InHand, At
    <3> QED  BY <1>2, <3>1 DEF HoldStays, Held, IInv, ObjectsPart
  <2>2. \A u \in Threads : HoldStays(u)
    BY <1>9, <2>1, HoldUnmoved DEF IInv
  <2>3. \A m \in Lists : StockStays(m)
    BY <1>2, <1>6, <1>7 DEF IInv, ObjectsPart, StockStays, StockIn
  <2> QED  BY <1>2, <2>2, <2>3, ObjectsStill DEF IInv
<1>12. Undisturbed(job[t].list)
  BY <1>2, <1>3, <1>6 DEF Undisturbed
<1>13. JobsPart'
  <2>1. PlaceOK(j, t)'
    BY <1>2, <1>3, <1>5, <1>8 DEF PlaceOK, OnList, OffList, NoFrame
  <2>2. job[t].list \in Lists => latch[job[t].list] \notin Threads \ {t}
    BY <1>3
  <2>3. job' \in [Threads -> Jobs] /\ PlacesOK'
    BY <1>1, <1>2, <1>8, <1>12, <2>1, <2>2, JobStep DEF IInv, JobsPart
  <2>4. head' \in [Lists -> [frame : Nat, nslot : Nat]]
    <3>1. b \in [frame : Nat, nslot : Nat]
      BY <1>7, FramesAssumption DEF b, Addr
    <3> QED  BY <1>1, <1>2, <3>1
  <2> QED  BY <1>2, <2>3, <2>4 DEF IInv, JobsPart, Object
<1> QED  BY <1>10, <1>11, <1>12, <1>13 DEF IInv

LEMMA GetNodeFindsNone ==
  ASSUME IInv, NEW t \in Threads, GetNode(t), ~More(head[job[t].list])
  PROVE  IInv' /\ Undisturbed(job[t].list)
<1> DEFINE l == job[t].list
           h == head[l]
           g == [job[t] EXCEPT !.at = "objects"]
<1>1. /\ job \in [Threads -> Jobs] /\ latch \in [Lists -> Threads \union {None}]
      /\ owned \in [Threads -> SUBSET Object] /\ head \in [Lists -> [frame : Nat, nslot : Nat]]
  BY DEF IInv, JobsPart
<1>2. /\ job[t].at = "get" /\ job' = [job EXCEPT ![t] = g]
      /\ UNCHANGED <<head, latch, owned, freeFrame, room, lostFrames, slots, next, made, lostObjects>>
  <2>1. job[t].at = "get" /\ UNCHANGED <<freeFrame, room, lostFrames, slots, next, made, lostObjects>>
    BY DEF GetNode, At, poolVars, frameVars
  <2>2. UNCHANGED <<head, latch, owned>> /\ job' = [job EXCEPT ![t].at = "objects"]
    BY Zenon DEF GetNode, More, l
  <2> QED  BY <2>1, <2>2
<1>3. /\ PlaceOK(job[t], t) /\ l \in Lists /\ latch[l] = t /\ job[t].obj = 0 /\ job[t].frame = NoFrame
      /\ job[t].op = "alloc" /\ job[t] \in Jobs
  BY <1>2, JobType DEF IInv, Idle, PlaceOK, OnList, OffList
<1>4. /\ Parts(next, slots, freeFrame, Lists, head, Out, lostFrames) /\ None \notin Lists /\ Links(next)
  BY FramesAssumption DEF IInv, FramesPart, Parts
<1>5. AddrOK(next, h) /\ h \in [frame : Nat, nslot : Nat]
  BY <1>1, <1>3, <1>4, PartsPool
<1>6. UsedIn(next, h) = {}
  <2>1. CASE h.frame = 0
    BY <2>1, ReachNone DEF UsedIn
  <2>2. CASE h.frame # 0
    <3>1. h.nslot = 0 /\ next[h.frame] = 0
      BY <1>5, <2>2 DEF More, NoFrame
    <3> QED  BY <1>4, <1>5, <2>2, <3>1, UsedNext
  <2> QED  BY <2>1, <2>2
<1>7. PICK j \in Jobs : j = g /\ j.at = "objects" /\ j.frame = NoFrame /\ j.list = l /\ j.obj = 0 /\ j.op = "alloc"
  <2>1. g \in Jobs /\ g.at = "objects" /\ g.frame = NoFrame /\ g.list = l /\ g.obj = 0 /\ g.op = "alloc"
    BY <1>3 DEF Jobs, Stages
  <2> HIDE DEF g
  <2> QED  BY <2>1
<1> HIDE DEF g
<1>8. job'[t] = j /\ \A u \in Threads \ {t} : job'[u] = job[u] /\ owned'[u] = owned[u]
  BY <1>1, <1>2, <1>7
<1>9. FramesPart' /\ HandsApart'
  <2>1. \A u \in Threads : job'[u].frame = job[u].frame
    BY <1>3, <1>7, <1>8
  <2> QED  BY <1>2, <2>1, FramesStill DEF IInv
<1>10. ObjectsPart'
  <2>1. HoldStays(t)
    <3>1. InHand(t)' = InHand(t)
      BY <1>2, <1>3, <1>7, <1>8 DEF InHand, At
    <3> QED  BY <1>2, <3>1 DEF HoldStays, Held, IInv, ObjectsPart
  <2>2. \A u \in Threads : HoldStays(u)
    BY <1>8, <2>1, HoldUnmoved DEF IInv
  <2>3. \A m \in Lists : StockStays(m)
    BY <1>2, StockUnmoved DEF IInv
  <2> QED  BY <1>2, <2>2, <2>3, ObjectsStill DEF IInv
<1>11. Undisturbed(job[t].list)
  BY <1>2 DEF Undisturbed
<1>12. JobsPart'
  <2>1. PlaceOK(j, t)'
    BY <1>2, <1>3, <1>6, <1>7 DEF PlaceOK, OnList, OffList
  <2>2. job[t].list \in Lists => latch[job[t].list] \notin Threads \ {t}
    BY <1>3
  <2>3. job' \in [Threads -> Jobs] /\ PlacesOK'
    BY <1>1, <1>2, <1>7, <1>11, <2>1, <2>2, JobStep DEF IInv, JobsPart
  <2> QED  BY <1>2, <2>3 DEF IInv, JobsPart, Object
<1> QED  BY <1>9, <1>10, <1>11, <1>12 DEF IInv

LEMMA GetNodeInv ==
  ASSUME IInv, NEW t \in Threads, GetNode(t)
  PROVE  IInv' /\ Undisturbed(job[t].list)
<1> DEFINE h == head[job[t].list]
<1>1. head \in [Lists -> [frame : Nat, nslot : Nat]] /\ job[t].list \in Lists
  <2>1. job[t].at = "get"
    BY DEF GetNode, At
  <2>2. head \in [Lists -> [frame : Nat, nslot : Nat]]
    BY DEF IInv, JobsPart
  <2> QED  BY <2>1, <2>2, JobType DEF IInv, Idle, PlaceOK, OnList, OffList
<1>2. h.nslot \in Nat
  BY <1>1
<1>3. \/ h.frame # NoFrame /\ h.nslot > 0
      \/ h.frame # NoFrame /\ h.nslot = 0 /\ next[h.frame] # NoFrame
      \/ ~More(h)
  BY <1>2 DEF More
<1> QED  BY <1>3, GetNodeTakes, GetNodeGivesUp, GetNodeFindsNone

LEMMA ReturnInv ==
  ASSUME IInv, NEW t \in Threads, ReturnFreeFrame(t)
  PROVE  IInv' /\ Undisturbed(job[t].list)
<1> DEFINE x == job[t].frame
           l == job[t].list
           g == [job[t] EXCEPT !.at = "get", !.frame = NoFrame]
<1>1. /\ job \in [Threads -> Jobs] /\ latch \in [Lists -> Threads \union {None}]
      /\ owned \in [Threads -> SUBSET Object] /\ head \in [Lists -> [frame : Nat, nslot : Nat]]
  BY DEF IInv, JobsPart
<1>2. job[t].at = "return" /\ UNCHANGED <<head, latch, room, lostFrames, made, owned, lostObjects>>
  BY DEF ReturnFreeFrame, At
<1>3. /\ PlaceOK(job[t], t) /\ job[t].obj = 0 /\ x # NoFrame /\ job[t] \in Jobs
      /\ l \in Lists => latch[l] = t
  BY <1>2, FramesAssumption, JobType DEF IInv, Idle, PlaceOK, OnList, OffList
<1>4. PICK j \in Jobs :
        /\ job' = [job EXCEPT ![t] = j] /\ j.frame = NoFrame /\ j.obj = 0 /\ j.at # "frame"
        /\ j = Idle \/ (j.at = "get" /\ j.op = "alloc" /\ j.list = l /\ l \in Lists)
  <2>1. CASE OnList(job[t], t)
    <3>1. job[t].op = "alloc" /\ l \in Lists
      BY <1>2, <2>1 DEF OnList
    <3>2. job' = [job EXCEPT ![t] = g]
      BY <1>1, <3>1 DEF ReturnFreeFrame
    <3>3. g \in Jobs /\ g.at = "get" /\ g.frame = NoFrame /\ g.list = l /\ g.obj = 0 /\ g.op = "alloc"
      BY <1>3, <3>1 DEF Jobs, Stages, NoFrame
    <3> HIDE DEF g, l
    <3> QED  BY <3>1, <3>2, <3>3
  <2>2. CASE OffList(job[t])
    <3>1. job[t].op # "alloc"
      BY <2>2 DEF OffList
    <3>2. job' = [job EXCEPT ![t] = Idle]
      BY <1>1, <3>1 DEF ReturnFreeFrame
    <3>3. Idle \in Jobs /\ Idle.frame = NoFrame /\ Idle.obj = 0 /\ Idle.at # "frame"
      BY DEF Idle, Jobs, Stages, NoFrame
    <3> QED  BY <3>2, <3>3
  <2> QED  BY <1>3, <2>1, <2>2 DEF PlaceOK
<1>5. /\ Parts(next, slots, freeFrame, Lists, head, Out, lostFrames) /\ None \notin Lists
  BY FramesAssumption DEF IInv, FramesPart
<1> HIDE DEF g
<1>6. job'[t] = j /\ \A u \in Threads \ {t} : job'[u] = job[u] /\ owned'[u] = owned[u]
  BY <1>1, <1>2, <1>4
<1>7. Out' = Out \ {x} /\ HandsApart' /\ x \in Out
  BY <1>3, <1>4, <1>6, HandGives DEF IInv
<1>8. /\ Parts(next', slots', freeFrame', Lists, head, Out \ {x}, lostFrames)
      /\ Kept(next, slots, next', slots', Lists, head)
  <2>1. CASE HasSpace(freeFrame)
    <3>1. /\ slots' = [slots EXCEPT ![freeFrame.frame][freeFrame.nslot + 1] = x]
          /\ freeFrame' = [freeFrame EXCEPT !.nslot = @ + 1] /\ next' = next
      BY <2>1 DEF ReturnFreeFrame
    <3>2. freeFrame' = Addr(freeFrame.frame, freeFrame.nslot + 1)
      <4>1. freeFrame = Addr(freeFrame.frame, freeFrame.nslot)
        BY <1>5, PartsPool, AddrType
      <4> QED  BY <3>1, <4>1 DEF Addr
    <3>3. PutInSlot(slots, freeFrame, x, slots')
      BY <2>1, <3>1 DEF PutInSlot
    <3> HIDE DEF x
    <3>4. /\ Parts(next, slots', Addr(freeFrame.frame, freeFrame.nslot + 1), Lists, head, Out \ {x}, lostFrames)
          /\ Kept(next, slots, next, slots', Lists, head)
      BY <1>5, <1>7, <3>3, PartsReturnSlot
    <3> QED  BY <3>1, <3>2, <3>4
  <2>2. CASE ~HasSpace(freeFrame)
    <3>1. /\ next' = [next EXCEPT ![x] = freeFrame.frame]
          /\ freeFrame' = Addr(x, 0) /\ slots' = slots
      BY <2>2 DEF ReturnFreeFrame
    <3>2. PutInFront(next, freeFrame, x, next')
      BY <2>2, <3>1 DEF PutInFront
    <3> HIDE DEF x
    <3>3. /\ Parts(next', slots, Addr(x, 0), Lists, head, Out \ {x}, lostFrames)
          /\ Kept(next, slots, next', slots, Lists, head)
      BY <1>5, <1>7, <3>2, PartsReturnFront
    <3> QED  BY <3>1, <3>3
  <2> QED  BY <2>1, <2>2
<1>9. FramesPart' /\ HandsApart'
  BY <1>2, <1>7, <1>8 DEF FramesPart
<1>10. ObjectsPart'
  <2>1. HoldStays(t)
    <3>1. InHand(t)' = InHand(t)
      BY <1>2, <1>3, <1>4, <1>6 DEF InHand, At
    <3> QED  BY <1>2, <3>1 DEF HoldStays, Held, IInv, ObjectsPart
  <2>2. \A u \in Threads : HoldStays(u)
    BY <1>6, <2>1, HoldUnmoved DEF IInv
  <2>3. \A m \in Lists : StockStays(m)
    BY <1>2, <1>8, KeptStock DEF StockStays, IInv, ObjectsPart
  <2> QED  BY <1>2, <2>2, <2>3, ObjectsStill DEF IInv
<1>11. Undisturbed(job[t].list)
  BY <1>2, <1>8, KeptStock DEF Undisturbed
<1>12. JobsPart'
  <2>1. j = Idle \/ PlaceOK(j, t)'
    BY <1>2, <1>3, <1>4 DEF PlaceOK, OnList, OffList
  <2>2. job[t].list \in Lists => latch[job[t].list] \notin Threads \ {t}
    BY <1>3
  <2>3. job' \in [Threads -> Jobs] /\ PlacesOK'
    BY <1>1, <1>4, <1>11, <2>1, <2>2, JobStep DEF IInv, JobsPart
  <2> QED  BY <1>2, <2>3 DEF IInv, JobsPart, Object
<1> QED  BY <1>9, <1>10, <1>11, <1>12 DEF IInv

\* What initObjFrame puts into a frame.
LEMMA FilledFront ==
  ASSUME NEW s \in [1..FrameSlots -> Nat], NEW o \in Nat
  PROVE  /\ Filled(s, o) \in [1..FrameSlots -> Nat]
         /\ FrontOf(Filled(s, o), Batch) = o + 1..o + Batch
         /\ \A i, j \in 1..Batch : Filled(s, o)[i] = Filled(s, o)[j] => i = j
<1>1. Batch \in Nat /\ FrameSlots \in Nat /\ Batch <= FrameSlots
  BY FramesAssumption
<1>2. Filled(s, o) \in [1..FrameSlots -> Nat]
  BY <1>1 DEF Filled
<1>3. \A i \in 1..Batch : Filled(s, o)[i] = o + Batch + 1 - i
  BY <1>1 DEF Filled
<1>4. FrontOf(Filled(s, o), Batch) \subseteq o + 1..o + Batch
  BY <1>1, <1>3 DEF FrontOf
<1>5. ASSUME NEW y \in o + 1..o + Batch PROVE y \in FrontOf(Filled(s, o), Batch)
  <2> DEFINE i == o + Batch + 1 - y
  <2>1. i \in 1..Batch /\ y = o + Batch + 1 - i
    BY <1>1
  <2>2. Filled(s, o)[i] = y
    BY <1>3, <2>1
  <2> HIDE DEF i
  <2> QED  BY <2>1, <2>2 DEF FrontOf
<1>6. FrontOf(Filled(s, o), Batch) = o + 1..o + Batch
  BY <1>4, <1>5
<1>7. ASSUME NEW i \in 1..Batch, NEW j \in 1..Batch, Filled(s, o)[i] = Filled(s, o)[j] PROVE i = j
  <2>1. o + Batch + 1 - i = o + Batch + 1 - j
    BY <1>3, <1>7
  <2> QED  BY <1>1, <2>1
<1> QED  BY <1>2, <1>6, <1>7

\* Objects made by t, in the hand of t or on a list.
LEMMA ObjectsMake ==
  ASSUME ObjectsPart, ObjectsApart', made \in Nat, lostObjects' = lostObjects, made' = made + Batch,
         NEW e \in Lists \union Threads, Cells'[e] = Cells[e] \union (made + 1..made + Batch),
         \A c \in (Lists \union Threads) \ {e} : Cells'[c] = Cells[c]
  PROVE  ObjectsPart'
<1> DEFINE X == made + 1..made + Batch
<1>1. Batch \in Nat
  BY FramesAssumption
<1>2. Object' = Object \union X /\ X \intersect Object = {}
  BY <1>1 DEF Object
<1> HIDE DEF X
<1>3. Spread(Object \union X, Lists \union Threads, Cells', lostObjects)
  <2>1. Spread(Object, Lists \union Threads, Cells, lostObjects)
    BY DEF ObjectsPart
  <2>2. Cells'[e] = Cells[e] \union X
    BY DEF X
  <2> QED  BY <1>2, <2>1, <2>2, SpreadMade
<1> QED  BY <1>2, <1>3 DEF ObjectsPart, ObjectsApart

LEMMA InitObjectsFails ==
  ASSUME IInv, NEW t \in Threads, InitObjects(t), room = 0
  PROVE  IInv' /\ Undisturbed(job[t].list)
<1> DEFINE l == job[t].list
<1>1. /\ job \in [Threads -> Jobs] /\ latch \in [Lists -> Threads \union {None}]
      /\ owned \in [Threads -> SUBSET Object] /\ head \in [Lists -> [frame : Nat, nslot : Nat]]
  BY DEF IInv, JobsPart
<1>2. /\ job[t].at = "objects" /\ job' = [job EXCEPT ![t] = Idle] /\ latch' = [latch EXCEPT ![l] = None]
      /\ UNCHANGED <<head, owned, freeFrame, room, lostFrames, slots, next, made, lostObjects>>
  BY DEF InitObjects, Unlatch, At
<1>3. PlaceOK(job[t], t) /\ l \in Lists /\ latch[l] = t /\ job[t].obj = 0 /\ job[t].frame = NoFrame
  BY <1>2, JobType DEF IInv, Idle, PlaceOK, OnList, OffList
<1>4. job'[t] = Idle /\ \A u \in Threads \ {t} : job'[u] = job[u] /\ owned'[u] = owned[u]
  BY <1>1, <1>2
<1>5. FramesPart' /\ HandsApart'
  <2>1. \A u \in Threads : job'[u].frame = job[u].frame
    BY <1>3, <1>4 DEF Idle
  <2> QED  BY <1>2, <2>1, FramesStill DEF IInv
<1>6. ObjectsPart'
  <2>1. HoldStays(t)
    <3>1. InHand(t)' = InHand(t)
      BY <1>2, <1>3, <1>4 DEF InHand, At, Idle
    <3> QED  BY <1>2, <3>1 DEF HoldStays, Held, IInv, ObjectsPart
  <2>2. \A u \in Threads : HoldStays(u)
    BY <1>4, <2>1, HoldUnmoved DEF IInv
  <2>3. \A m \in Lists : StockStays(m)
    BY <1>2, StockUnmoved DEF IInv
  <2> QED  BY <1>2, <2>2, <2>3, ObjectsStill DEF IInv
<1>7. Undisturbed(job[t].list)
  BY <1>1, <1>2, <1>3 DEF Undisturbed
<1>8. JobsPart'
  <2>1. Idle \in Jobs
    BY DEF Idle, Jobs, Stages, NoFrame
  <2>2. job[t].list \in Lists => latch[job[t].list] \notin Threads \ {t}
    BY <1>3
  <2>3. job' \in [Threads -> Jobs] /\ PlacesOK'
    BY <1>1, <1>2, <1>7, <2>1, <2>2, JobStep DEF IInv, JobsPart
  <2>4. latch' \in [Lists -> Threads \union {None}]
    BY <1>1, <1>2
  <2> QED  BY <1>2, <2>3, <2>4 DEF IInv, JobsPart, Object
<1> QED  BY <1>5, <1>6, <1>7, <1>8 DEF IInv

LEMMA InitObjectsHands ==
  ASSUME IInv, NEW t \in Threads, InitObjects(t), room # 0, head[job[t].list].frame = NoFrame
  PROVE  IInv' /\ Undisturbed(job[t].list)
<1> DEFINE l == job[t].list
           g == [job[t] EXCEPT !.at = "frame", !.obj = made]
<1>1. /\ job \in [Threads -> Jobs] /\ latch \in [Lists -> Threads \union {None}]
      /\ owned \in [Threads -> SUBSET Object] /\ head \in [Lists -> [frame : Nat, nslot : Nat]]
      /\ made \in Nat /\ room \in Nat /\ Batch \in Nat
  BY FramesAssumption DEF IInv, JobsPart
<1>2. /\ job[t].at = "objects" /\ job' = [job EXCEPT ![t] = g]
      /\ room' = room - 1 /\ made' = made + Batch
      /\ UNCHANGED <<head, latch, owned, freeFrame, lostFrames, slots, next, lostObjects>>
  <2>1. /\ job[t].at = "objects" /\ job' = [job EXCEPT ![t].at = "frame", ![t].obj = made]
        /\ room' = room - 1 /\ made' = made + Batch
        /\ UNCHANGED <<head, latch, owned, freeFrame, lostFrames, slots, next, lostObjects>>
    BY DEF InitObjects, At
  <2> QED  BY <1>1, <2>1
<1>3. /\ PlaceOK(job[t], t) /\ l \in Lists /\ latch[l] = t /\ job[t].obj = 0 /\ job[t].frame = NoFrame
      /\ job[t].op = "alloc" /\ job[t] \in Jobs
  BY <1>2, JobType DEF IInv, Idle, PlaceOK, OnList, OffList
<1>4. PICK j \in Jobs : j = g /\ j.at = "frame" /\ j.frame = NoFrame /\ j.list = l /\ j.obj = made /\ j.op = "alloc"
  <2>1. g \in Jobs /\ g.at = "frame" /\ g.frame = NoFrame /\ g.list = l /\ g.obj = made /\ g.op = "alloc"
    BY <1>1, <1>3 DEF Jobs, Stages
  <2> HIDE DEF g
  <2> QED  BY <2>1
<1> HIDE DEF g
<1>5. job'[t] = j /\ \A u \in Threads \ {t} : job'[u] = job[u] /\ owned'[u] = owned[u]
  BY <1>1, <1>2, <1>4
<1>6. FramesPart' /\ HandsApart'
  <2>1. \A u \in Threads : job'[u].frame = job[u].frame
    BY <1>3, <1>4, <1>5
  <2> QED  BY <1>2, <2>1, FramesStill DEF IInv
<1>7. ObjectsPart'
  <2>1. InHand(t) = {} /\ InHand(t)' = made + 1..made + Batch
    BY <1>2, <1>3, <1>4, <1>5 DEF InHand, At
  <2>2. \A u \in Threads \ {t} : HoldStays(u)
    BY <1>5, HoldUnmoved DEF IInv
  <2>3. \A m \in Lists : StockStays(m)
    BY <1>2, StockUnmoved DEF IInv
  <2>4. ObjectsApart'
    <3>1. owned'[t] \intersect InHand(t)' = {}
      BY <1>1, <1>2, <2>1 DEF Object
    <3> QED  BY <2>2, <2>3, <3>1 DEF ObjectsApart, HoldStays, StockStays
  <2>5. Cells'[t] = Cells[t] \union (made + 1..made + Batch)
    BY <1>2, <2>1, CellsAre DEF Held
  <2>6. \A c \in (Lists \union Threads) \ {t} : Cells'[c] = Cells[c]
    BY <2>2, <2>3, CellsAre DEF HoldStays, StockStays
  <2> QED  BY <1>1, <1>2, <2>4, <2>5, <2>6, ObjectsMake DEF IInv
<1>8. Undisturbed(job[t].list)
  BY <1>2 DEF Undisturbed
<1>9. JobsPart'
  <2>1. PlaceOK(j, t)'
    BY <1>2, <1>3, <1>4 DEF PlaceOK, OnList, OffList
  <2>2. job[t].list \in Lists => latch[job[t].list] \notin Threads \ {t}
    BY <1>3
  <2>3. job' \in [Threads -> Jobs] /\ PlacesOK'
    BY <1>1, <1>2, <1>4, <1>8, <2>1, <2>2, JobStep DEF IInv, JobsPart
  <2>4. owned' \in [Threads -> SUBSET Object']
    <3>1. Object \subseteq Object'
      BY <1>1, <1>2 DEF Object
    <3> QED  BY <1>1, <1>2, <3>1
  <2> QED  BY <1>1, <1>2, <2>3, <2>4 DEF IInv, JobsPart
<1> QED  BY <1>6, <1>7, <1>8, <1>9 DEF IInv

LEMMA NothingUsed ==
  ASSUME NEW nx, Links(nx), NEW a, AddrOK(nx, a), UsedIn(nx, a) = {}, a.frame # 0
  PROVE  nx[a.frame] = 0
<1>1. FrameSlots \in Nat \ {0} /\ a.nslot \in Nat
  <2>1. a.nslot \in 0..FrameSlots
    BY AddrType
  <2> QED  BY <2>1, FramesAssumption
<1>2. \A b : AddrOK(nx, b) /\ b.nslot > 0 => UsedIn(nx, b) # {}
  <2> SUFFICES ASSUME NEW b, AddrOK(nx, b), b.nslot > 0 PROVE UsedIn(nx, b) # {}
    OBVIOUS
  <2>1. <<b.frame, b.nslot>> \in UsedIn(nx, b)
    BY UsedPop
  <2> QED  BY <2>1
<1>3. a.nslot = 0
  BY <1>1, <1>2
<1>4. ASSUME nx[a.frame] # 0 PROVE FALSE
  <2> DEFINE b == Addr(nx[a.frame], FrameSlots)
  <2>1. AddrOK(nx, b) /\ UsedIn(nx, b) = UsedIn(nx, a)
    BY <1>3, <1>4, UsedNext
  <2>2. b.nslot > 0
    BY <1>1 DEF Addr
  <2> HIDE DEF b
  <2> QED  BY <1>2, <2>1, <2>2
<1> QED  BY <1>4

LEMMA InitObjectsFills ==
  ASSUME IInv, NEW t \in Threads, InitObjects(t), room # 0, head[job[t].list].frame # NoFrame
  PROVE  IInv' /\ Undisturbed(job[t].list)
<1> DEFINE l == job[t].list
           h == head[l]
           x == h.frame
           g == [job[t] EXCEPT !.at = "get"]
           s == Filled(slots[x], made)
<1>1. /\ job \in [Threads -> Jobs] /\ latch \in [Lists -> Threads \union {None}]
      /\ owned \in [Threads -> SUBSET Object] /\ head \in [Lists -> [frame : Nat, nslot : Nat]]
      /\ made \in Nat /\ room \in Nat /\ Batch \in Nat /\ Batch \in 0..FrameSlots /\ FrameSlots \in Nat
  BY FramesAssumption DEF IInv, JobsPart
<1>2. /\ job[t].at = "objects" /\ job' = [job EXCEPT ![t] = g]
      /\ room' = room - 1 /\ made' = made + Batch
      /\ slots' = [slots EXCEPT ![x] = s] /\ next' = [next EXCEPT ![x] = 0]
      /\ head' = [head EXCEPT ![l].nslot = Batch]
      /\ UNCHANGED <<latch, owned, freeFrame, lostFrames, lostObjects>>
  BY DEF InitObjects, At, NoFrame
<1>3. /\ PlaceOK(job[t], t) /\ l \in Lists /\ latch[l] = t /\ job[t].obj = 0 /\ job[t].frame = NoFrame
      /\ job[t].op = "alloc" /\ job[t] \in Jobs /\ UsedIn(next, h) = {}
  BY <1>2, JobType, SMTT(30) DEF IInv, Idle, PlaceOK, OnList, OffList
<1>4. PICK j \in Jobs : j = g /\ j.at = "get" /\ j.frame = NoFrame /\ j.list = l /\ j.obj = 0 /\ j.op = "alloc"
  <2>1. g \in Jobs /\ g.at = "get" /\ g.frame = NoFrame /\ g.list = l /\ g.obj = 0 /\ g.op = "alloc"
    BY <1>1, <1>3 DEF Jobs, Stages
  <2> HIDE DEF g
  <2> QED  BY <2>1
<1> HIDE DEF g
<1>5. job'[t] = j /\ \A u \in Threads \ {t} : job'[u] = job[u] /\ owned'[u] = owned[u]
  BY <1>1, <1>2, <1>4
<1>6. /\ Parts(next, slots, freeFrame, Lists, head, Out, lostFrames) /\ None \notin Lists
      /\ Links(next) /\ SlotsOK(next, slots)
  BY FramesAssumption DEF IInv, FramesPart, Parts
<1>7. AddrOK(next, h) /\ x # 0
  BY <1>3, <1>6, PartsPool DEF NoFrame
<1>8. next[x] = 0 /\ x \in 1..Len(next)
  BY <1>3, <1>6, <1>7, NothingUsed, AddrType
<1>9. s \in [1..FrameSlots -> Nat] /\ FrontOf(s, Batch) = made + 1..made + Batch
      /\ \A i, k \in 1..Batch : s[i] = s[k] => i = k
  <2>1. slots[x] \in [1..FrameSlots -> Nat]
    BY <1>6, <1>8 DEF SlotsOK
  <2> QED  BY <1>1, <2>1, FilledFront
<1> HIDE DEF s
\* the frame taken from the list, and put back full
<1> DEFINE none == Addr(0, 0)
           hd == [head EXCEPT ![l] = none]
           a == [frame |-> x, slots |-> slots, next |-> next, head |-> freeFrame, room |-> room, lost |-> {}]
<1>10. none.frame = 0 /\ ~HasSpace(none) /\ AddrOK(next, none) /\ UsedIn(next, none) = {}
  <2>1. Reach(next, 0) = {} /\ none.frame = 0 /\ none.nslot = 0
    BY ReachNone DEF Addr
  <2>2. none \in Addresses(next)
    BY <1>1, <1>6 DEF Addresses, Addr, Links
  <2> HIDE DEF none
  <2> QED  BY <2>1, <2>2 DEF AddrOK, Acyclic, UsedIn, HasSpace, NoFrame
<1>11. hd[l] = none /\ \A m \in Lists : m # l => hd[m] = head[m]
  BY <1>1, <1>3
<1>12. head'[l] = Addr(x, Batch) /\ \A m \in Lists : m # l => head'[m] = head[m]
  BY <1>1, <1>2, <1>3 DEF Addr
<1>13. /\ a.frame = x /\ a.slots = slots /\ a.next = next /\ a.head = freeFrame /\ a.room = room /\ a.lost = {}
  OBVIOUS
<1> HIDE DEF none, hd, a
<1>14. AllocedOK(a, Lists, hd, Out)
  <2>1. Drop(next, slots, freeFrame, Lists, head, Out, lostFrames, l, none, hd)
    BY <1>3, <1>6, <1>7, <1>8, <1>10, <1>11 DEF Drop
  <2>2. /\ Parts(next, slots, freeFrame, Lists, hd, Out \union {head[l].frame}, lostFrames)
        /\ head[l].frame \in 1..Len(next) /\ head[l].frame \notin Out
    BY <2>1, PartsDrop
  <2>3. Kept(next, slots, next, slots, Lists, hd)
    BY DEF Kept
  <2>4. lostFrames \union {} = lostFrames
    OBVIOUS
  <2> QED  BY <1>1, <1>13, <2>2, <2>3, <2>4 DEF AllocedOK
<1>15. HasPlaced(a, Lists, hd, Out, l, Batch, s, next', slots', head')
  <2>1. Placed(a, Lists, hd, l, Batch, s, next', slots', head')
    BY <1>1, <1>2, <1>3, <1>9, <1>10, <1>11, <1>12, <1>13 DEF Placed
  <2> QED  BY <1>6, <1>14, <2>1, AllocPlaced
<1>16. /\ Parts(next', slots', freeFrame, Lists, head', Out, lostFrames)
       /\ StockIn(next', slots', head'[l]) = made + 1..made + Batch
       /\ \A m \in Lists : m # l => /\ StockIn(next', slots', head'[m]) = StockIn(next, slots, head[m])
                                   /\ UsedIn(next', head'[m]) = UsedIn(next, head[m])
       /\ \A m \in Lists : OnceIn(slots', UsedIn(next', head'[m]))
  <2>1. StockIn(next, slots, none) = {} /\ lostFrames \union {} = lostFrames
    BY <1>10 DEF StockIn, HeldIn
  <2>2. \A m \in Lists : OnceIn(slots, UsedIn(next, hd[m]))
    <3>1. OnceIn(slots, {})
      BY DEF OnceIn
    <3> QED  BY <1>10, <1>11, <3>1 DEF IInv, ObjectsPart
  <2> QED  BY <1>9, <1>11, <1>13, <1>15, <2>1, <2>2 DEF HasPlaced
<1>17. FramesPart' /\ HandsApart'
  <2>1. Out' = Out /\ HandsApart'
    BY <1>3, <1>4, <1>5, HandsSame DEF IInv
  <2> QED  BY <1>2, <1>16, <2>1 DEF FramesPart
<1>18. ObjectsPart'
  <2>1. HoldStays(t)
    <3>1. InHand(t)' = InHand(t)
      BY <1>2, <1>3, <1>4, <1>5 DEF InHand, At
    <3> QED  BY <1>2, <3>1 DEF HoldStays, Held, IInv, ObjectsPart
  <2>2. \A u \in Threads : HoldStays(u)
    BY <1>5, <2>1, HoldUnmoved DEF IInv
  <2>3. ObjectsApart'
    BY <1>16, <2>2 DEF ObjectsApart, HoldStays
  <2>4. Cells'[l] = Cells[l] \union (made + 1..made + Batch)
    <3>1. Cells[l] = {}
      BY <1>3, CellsAre DEF StockIn, HeldIn
    <3> QED  BY <1>3, <1>16, <3>1, CellsAre
  <2>5. \A c \in (Lists \union Threads) \ {l} : Cells'[c] = Cells[c]
    BY <1>16, <2>2, CellsAre DEF HoldStays
  <2> QED  BY <1>1, <1>2, <1>3, <2>3, <2>4, <2>5, ObjectsMake DEF IInv
<1>19. Undisturbed(job[t].list)
  BY <1>2, <1>3, <1>12, <1>16 DEF Undisturbed
<1>20. JobsPart'
  <2>1. PlaceOK(j, t)'
    BY <1>2, <1>3, <1>4 DEF PlaceOK, OnList, OffList
  <2>2. job[t].list \in Lists => latch[job[t].list] \notin Threads \ {t}
    BY <1>3
  <2>3. job' \in [Threads -> Jobs] /\ PlacesOK'
    BY <1>1, <1>2, <1>4, <1>19, <2>1, <2>2, JobStep DEF IInv, JobsPart
  <2>4. owned' \in [Threads -> SUBSET Object']
    <3>1. Object \subseteq Object'
      BY <1>1, <1>2 DEF Object
    <3> QED  BY <1>1, <1>2, <3>1
  <2>5. head' \in [Lists -> [frame : Nat, nslot : Nat]]
    BY <1>1, <1>2, <1>3
  <2>6. made' \in Nat /\ room' \in Nat
    <3>1. \A r, b, m \in Nat : r # 0 => r - 1 \in Nat /\ m + b \in Nat
      OBVIOUS
    <3>2. room - 1 \in Nat /\ made + Batch \in Nat
      BY <1>1, <3>1
    <3> QED  BY <1>2, <3>2, Zenon
  <2> QED  BY <1>1, <1>2, <2>3, <2>4, <2>5, <2>6 DEF IInv, JobsPart
<1> QED  BY <1>17, <1>18, <1>19, <1>20 DEF IInv

LEMMA InitObjectsInv ==
  ASSUME IInv, NEW t \in Threads, InitObjects(t)
  PROVE  IInv' /\ Undisturbed(job[t].list)
BY InitObjectsFails, InitObjectsHands, InitObjectsFills

\* A frame just taken, in the way the calls take it.
LEMMA AllocTypes ==
  ASSUME NEW L, NEW hd, NEW out, NEW a, AllocedOK(a, L, hd, out)
  PROVE  /\ a.frame \in 1..Len(a.next) /\ a.room \in Nat
         /\ a.slots[a.frame] \in [1..FrameSlots -> Nat]
<1>1. /\ a.frame \in 1..Len(a.next) /\ a.room \in Nat
      /\ a.slots \in Seq([1..FrameSlots -> Nat]) /\ Len(a.slots) = Len(a.next)
  BY DEF AllocedOK, Parts, SlotsOK
<1> QED  BY <1>1

LEMMA InitFrameFills ==
  ASSUME IInv, NEW t \in Threads, InitFrame(t), CanAllocFrame
  PROVE  IInv' /\ Undisturbed(job[t].list)
<1> DEFINE l == job[t].list
           h == head[l]
           o == job[t].obj
           g == [job[t] EXCEPT !.at = "get", !.obj = 0]
           a == AllocFrame
           s == Filled(a.slots[a.frame], o)
<1>1. /\ job \in [Threads -> Jobs] /\ latch \in [Lists -> Threads \union {None}]
      /\ owned \in [Threads -> SUBSET Object] /\ head \in [Lists -> [frame : Nat, nslot : Nat]]
      /\ made \in Nat /\ room \in Nat /\ Batch \in Nat /\ Batch \in 0..FrameSlots /\ FrameSlots \in Nat
  BY FramesAssumption DEF IInv, JobsPart
<1>2. /\ job[t].at = "frame" /\ job' = [job EXCEPT ![t] = g]
      /\ freeFrame' = a.head /\ room' = a.room /\ lostFrames' = lostFrames \union a.lost
      /\ slots' = [a.slots EXCEPT ![a.frame] = s] /\ next' = [a.next EXCEPT ![a.frame] = 0]
      /\ head' = [head EXCEPT ![l] = Addr(a.frame, Batch)]
      /\ UNCHANGED <<latch, owned, made, lostObjects>>
  <2> HIDE DEF a
  <2>1. /\ job[t].at = "frame" /\ job' = [job EXCEPT ![t].at = "get", ![t].obj = 0]
        /\ TakeFrame(a)
        /\ slots' = [a.slots EXCEPT ![a.frame] = Filled(@, o)] /\ next' = [a.next EXCEPT ![a.frame] = 0]
        /\ head' = [head EXCEPT ![l] = Addr(a.frame, Batch)]
        /\ UNCHANGED <<latch, owned, made, lostObjects>>
    BY Zenon DEF InitFrame, At, NoFrame, l, a, o
  <2> QED  BY <1>1, <2>1 DEF TakeFrame
<1>3. /\ PlaceOK(job[t], t) /\ l \in Lists /\ latch[l] = t /\ h.frame = NoFrame /\ job[t].frame = NoFrame
      /\ job[t].op = "alloc" /\ job[t] \in Jobs /\ o \in Nat
  BY <1>2, JobType DEF IInv, Idle, PlaceOK, OnList, OffList, Jobs
<1>4. PICK j \in Jobs : j = g /\ j.at = "get" /\ j.frame = NoFrame /\ j.list = l /\ j.obj = 0 /\ j.op = "alloc"
  <2>1. g \in Jobs /\ g.at = "get" /\ g.frame = NoFrame /\ g.list = l /\ g.obj = 0 /\ g.op = "alloc"
    BY <1>1, <1>3 DEF Jobs, Stages
  <2> HIDE DEF g
  <2> QED  BY <2>1
<1> HIDE DEF g
<1>5. job'[t] = j /\ \A u \in Threads \ {t} : job'[u] = job[u] /\ owned'[u] = owned[u]
  BY <1>1, <1>2, <1>4
<1>6. /\ Parts(next, slots, freeFrame, Lists, head, Out, lostFrames) /\ None \notin Lists
  BY FramesAssumption DEF IInv, FramesPart
<1>7. AllocedOK(a, Lists, head, Out)
  BY <1>1, <1>6, AllocParts
<1> HIDE DEF a
<1>8. a.frame \in 1..Len(a.next) /\ a.room \in Nat /\ a.slots[a.frame] \in [1..FrameSlots -> Nat]
  BY <1>7, AllocTypes
<1>9. s \in [1..FrameSlots -> Nat] /\ FrontOf(s, Batch) = o + 1..o + Batch
      /\ \A i, k \in 1..Batch : s[i] = s[k] => i = k
  BY <1>3, <1>8, FilledFront
<1> HIDE DEF s
<1>10. head'[l] = Addr(a.frame, Batch) /\ \A m \in Lists : m # l => head'[m] = head[m]
  BY <1>1, <1>2, <1>3
<1>11. HasPlaced(a, Lists, head, Out, l, Batch, s, next', slots', head')
  <2>1. Placed(a, Lists, head, l, Batch, s, next', slots', head')
    <3>1. ~HasSpace(head[l]) /\ head[l].frame = 0
      BY <1>3 DEF HasSpace, NoFrame
    <3> QED  BY <1>1, <1>2, <1>3, <1>9, <1>10, <3>1 DEF Placed
  <2> QED  BY <1>6, <1>7, <2>1, AllocPlaced
<1> DEFINE new == o + 1..o + Batch
<1>12. InHand(t) = new /\ InHand(t)' = {} /\ owned'[t] = owned[t] /\ owned[t] \intersect new = {}
  <2>1. InHand(t) = new /\ InHand(t)' = {} /\ owned'[t] = owned[t]
    BY <1>2, <1>4, <1>5 DEF InHand, At
  <2> QED  BY <2>1 DEF IInv, ObjectsPart
<1> HIDE DEF new
<1>13. StockIn(next, slots, head[l]) = {}
  <2>1. UsedIn(next, head[l]) = {}
    BY <1>3, ReachNone DEF UsedIn, NoFrame
  <2> QED  BY <2>1 DEF StockIn, HeldIn
<1>14. /\ Parts(next', slots', freeFrame', Lists, head', Out, lostFrames')
       /\ StockIn(next', slots', head'[l]) = new
       /\ \A m \in Lists : m # l => /\ StockIn(next', slots', head'[m]) = StockIn(next, slots, head[m])
                                   /\ UsedIn(next', head'[m]) = UsedIn(next, head[m])
       /\ \A m \in Lists : OnceIn(slots', UsedIn(next', head'[m]))
  <2>1. \A m \in Lists : OnceIn(slots, UsedIn(next, head[m]))
    BY DEF IInv, ObjectsPart
  <2> QED  BY <1>2, <1>9, <1>11, <1>13, <2>1 DEF HasPlaced, new
<1>15. FramesPart' /\ HandsApart'
  <2>1. Out' = Out /\ HandsApart'
    BY <1>3, <1>4, <1>5, HandsSame DEF IInv
  <2> QED  BY <1>2, <1>14, <2>1 DEF FramesPart
<1>16. ObjectsPart'
  <2>1. \A u \in Threads \ {t} : HoldStays(u)
    BY <1>5, HoldUnmoved DEF IInv
  <2>2. ObjectsApart'
    <3>1. \A u \in Threads : owned'[u] \intersect InHand(u)' = {}
      BY <1>12, <2>1 DEF HoldStays
    <3> QED  BY <1>14, <3>1 DEF ObjectsApart
  <2>3. Moved(t, l, new)
    <3>1. Cells[t] = owned[t] \union new /\ Cells'[t] = owned[t]
      BY <1>12, CellsAre DEF Held
    <3>2. Cells[l] = {} /\ Cells'[l] = new
      BY <1>3, <1>13, <1>14, CellsAre
    <3>3. \A c \in (Lists \union Threads) \ {t, l} : Cells'[c] = Cells[c]
      BY <1>14, <2>1, CellsAre DEF HoldStays
    <3> QED  BY <1>3, <1>12, <3>1, <3>2, <3>3, ThreadList DEF Moved
  <2> QED  BY <1>2, <2>2, <2>3, ObjectsMove DEF IInv
<1>17. Undisturbed(job[t].list)
  BY <1>2, <1>3, <1>10, <1>14 DEF Undisturbed
<1>18. JobsPart'
  <2>1. PlaceOK(j, t)'
    BY <1>2, <1>3, <1>4 DEF PlaceOK, OnList, OffList
  <2>2. job[t].list \in Lists => latch[job[t].list] \notin Threads \ {t}
    BY <1>3
  <2>3. job' \in [Threads -> Jobs] /\ PlacesOK'
    BY <1>1, <1>2, <1>4, <1>17, <2>1, <2>2, JobStep DEF IInv, JobsPart
  <2>4. head' \in [Lists -> [frame : Nat, nslot : Nat]]
    <3>1. Addr(a.frame, Batch) \in [frame : Nat, nslot : Nat]
      <4>1. a.frame \in Nat
        BY <1>8
      <4> QED  BY <1>1, <4>1 DEF Addr
    <3>2. head' = [head EXCEPT ![l] = Addr(a.frame, Batch)]
      BY <1>2
    <3> QED  BY <1>1, <1>3, <3>1, <3>2
  <2> QED  BY <1>1, <1>2, <1>8, <2>3, <2>4 DEF IInv, JobsPart, Object
<1> QED  BY <1>15, <1>16, <1>17, <1>18 DEF IInv

LEMMA InitFrameFails ==
  ASSUME IInv, NEW t \in Threads, InitFrame(t), ~CanAllocFrame
  PROVE  IInv' /\ Undisturbed(job[t].list)
<1> DEFINE l == job[t].list
           new == job[t].obj + 1..job[t].obj + Batch
<1>1. /\ job \in [Threads -> Jobs] /\ latch \in [Lists -> Threads \union {None}]
      /\ owned \in [Threads -> SUBSET Object] /\ head \in [Lists -> [frame : Nat, nslot : Nat]]
  BY DEF IInv, JobsPart
<1>2. /\ job[t].at = "frame" /\ job' = [job EXCEPT ![t] = Idle] /\ latch' = [latch EXCEPT ![l] = None]
      /\ lostObjects' = lostObjects \union new
      /\ UNCHANGED <<head, owned, freeFrame, room, lostFrames, slots, next, made>>
  BY DEF InitFrame, Unlatch, At, poolVars, frameVars
<1>3. PlaceOK(job[t], t) /\ l \in Lists /\ latch[l] = t /\ job[t].frame = NoFrame
  BY <1>2, JobType DEF IInv, Idle, PlaceOK, OnList, OffList
<1>4. job'[t] = Idle /\ \A u \in Threads \ {t} : job'[u] = job[u] /\ owned'[u] = owned[u]
  BY <1>1, <1>2
<1>5. FramesPart' /\ HandsApart'
  <2>1. \A u \in Threads : job'[u].frame = job[u].frame
    BY <1>3, <1>4 DEF Idle
  <2> QED  BY <1>2, <2>1, FramesStill DEF IInv
<1>6. ObjectsPart'
  <2>1. InHand(t) = new /\ InHand(t)' = {} /\ owned'[t] = owned[t] /\ owned[t] \intersect new = {}
    <3>1. InHand(t) = new /\ InHand(t)' = {} /\ owned'[t] = owned[t]
      BY <1>2, <1>4 DEF InHand, At, Idle
    <3> QED  BY <3>1 DEF IInv, ObjectsPart
  <2> HIDE DEF new
  <2>2. \A u \in Threads \ {t} : HoldStays(u)
    BY <1>4, HoldUnmoved DEF IInv
  <2>3. \A m \in Lists : StockStays(m)
    BY <1>2, StockUnmoved DEF IInv
  <2>4. Cells[t] = owned[t] \union new /\ Cells'[t] = owned[t]
    BY <2>1, CellsAre DEF Held
  <2>5. \A c \in (Lists \union Threads) \ {t} : Cells'[c] = Cells[c]
    BY <2>2, <2>3, CellsAre DEF HoldStays, StockStays
  <2>6. Spread(Object, Lists \union Threads, Cells', lostObjects \union new)
    <3>1. Spread(Object, Lists \union Threads, Cells, lostObjects)
      BY DEF IInv, ObjectsPart
    <3>2. new \in SUBSET Cells[t] /\ Cells'[t] = Cells[t] \ new
      BY <2>1, <2>4
    <3> QED  BY <2>5, <3>1, <3>2, SpreadLost
  <2>7. \A m \in Lists : OnceIn(slots', UsedIn(next', head'[m]))
    BY <2>3 DEF StockStays
  <2>8. \A u \in Threads : owned'[u] \intersect InHand(u)' = {}
    BY <2>1, <2>2 DEF HoldStays
  <2> QED  BY <1>2, <2>6, <2>7, <2>8 DEF ObjectsPart, Object
<1>7. Undisturbed(job[t].list)
  BY <1>1, <1>2, <1>3 DEF Undisturbed
<1>8. JobsPart'
  <2>1. Idle \in Jobs
    BY DEF Idle, Jobs, Stages, NoFrame
  <2>2. job[t].list \in Lists => latch[job[t].list] \notin Threads \ {t}
    BY <1>3
  <2>3. job' \in [Threads -> Jobs] /\ PlacesOK'
    BY <1>1, <1>2, <1>7, <2>1, <2>2, JobStep DEF IInv, JobsPart
  <2>4. latch' \in [Lists -> Threads \union {None}]
    BY <1>1, <1>2
  <2> QED  BY <1>2, <2>3, <2>4 DEF IInv, JobsPart, Object
<1> QED  BY <1>5, <1>6, <1>7, <1>8 DEF IInv

-----------------------------------------------------------------------------
(* addSlotToFrame                                                          *)

\* The chains of a list, of the other lists and of the empty frames share no frame.
LEMMA PartsApart ==
  ASSUME NEW nx, NEW sl, NEW ff, NEW L, None \notin L, NEW hd, NEW out, NEW lost,
         Parts(nx, sl, ff, L, hd, out, lost), NEW l \in L
  PROVE  /\ Reach(nx, ff.frame) \intersect Reach(nx, hd[l].frame) = {}
         /\ \A m \in L : m # l => Reach(nx, hd[m].frame) \intersect Reach(nx, hd[l].frame) = {}
<1> DEFINE D == L \union {None}
           hs == Heads(L, ff, hd)
<1>1. ChainsOK(nx, D, hs)
  BY DEF Parts
<1>2. hs[None] = ff /\ \A m \in L : hs[m] = hd[m]
  BY DEF Heads
<1> HIDE DEF hs
<1> QED  BY <1>1, <1>2 DEF ChainsOK

\* What addSlotToFrame has in hand is on no list.
LEMMA AddsNew ==
  ASSUME IInv, NEW t \in Threads, job[t].at = "add"
  PROVE  /\ PlaceOK(job[t], t) /\ job[t].list \in Lists /\ latch[job[t].list] = t
         /\ job[t].frame = NoFrame /\ job[t].obj \in Nat
         /\ InHand(t) = {job[t].obj} /\ job[t].obj \notin owned[t] /\ job[t].obj \in Object
         /\ \A m \in Lists : job[t].obj \notin StockIn(next, slots, head[m])
<1>1. /\ PlaceOK(job[t], t) /\ job[t].list \in Lists /\ latch[job[t].list] = t
      /\ job[t].frame = NoFrame /\ job[t].obj \in Nat /\ job[t].obj # 0
  BY JobType DEF IInv, Idle, PlaceOK, OnList, OffList, Jobs
<1>2. InHand(t) = {job[t].obj} /\ owned[t] \intersect InHand(t) = {}
  BY <1>1 DEF InHand, At, IInv, ObjectsPart
<1>3. job[t].obj \in Cells[t] /\ \A m \in Lists : Cells[m] = StockIn(next, slots, head[m]) /\ m # t
  BY <1>2, CellsAre, ThreadList DEF Held
<1>4. Spread(Object, Lists \union Threads, Cells, lostObjects)
  BY DEF IInv, ObjectsPart
<1>5. \A m \in Lists : Cells[m] \intersect Cells[t] = {}
  BY <1>3, <1>4 DEF Spread
<1>6. job[t].obj \in Object
  BY <1>3, <1>4 DEF Spread
<1> QED  BY <1>1, <1>2, <1>3, <1>5, <1>6

LEMMA AddSlotFits ==
  ASSUME IInv, NEW t \in Threads, AddSlot(t), HasSpace(head[job[t].list])
  PROVE  IInv' /\ Undisturbed(job[t].list)
<1> DEFINE l == job[t].list
           h == head[l]
           o == job[t].obj
           b == Addr(h.frame, h.nslot + 1)
           p == <<h.frame, h.nslot + 1>>
<1>1. /\ job \in [Threads -> Jobs] /\ latch \in [Lists -> Threads \union {None}]
      /\ owned \in [Threads -> SUBSET Object] /\ head \in [Lists -> [frame : Nat, nslot : Nat]]
  BY DEF IInv, JobsPart
<1>2. /\ job[t].at = "add" /\ job' = [job EXCEPT ![t] = Idle] /\ latch' = [latch EXCEPT ![l] = None]
      /\ slots' = [slots EXCEPT ![h.frame][h.nslot + 1] = o]
      /\ head' = [head EXCEPT ![l].nslot = @ + 1]
      /\ UNCHANGED <<owned, freeFrame, room, lostFrames, next, made, lostObjects>>
  BY Zenon DEF AddSlot, Unlatch, At, poolVars
<1>3. /\ l \in Lists /\ latch[l] = t /\ job[t].frame = NoFrame /\ o \in Nat
      /\ InHand(t) = {o} /\ o \notin owned[t] /\ o \notin StockIn(next, slots, h)
  BY <1>2, AddsNew
<1>4. job'[t] = Idle /\ \A u \in Threads \ {t} : job'[u] = job[u] /\ owned'[u] = owned[u]
  BY <1>1, <1>2
<1>5. /\ Parts(next, slots, freeFrame, Lists, head, Out, lostFrames) /\ None \notin Lists
      /\ Links(next) /\ SlotsOK(next, slots)
  BY FramesAssumption DEF IInv, FramesPart, Parts
<1>6. AddrOK(next, h)
  BY <1>3, <1>5, PartsPool
<1>7. /\ head'[l] = b /\ \A m \in Lists : m # l => head'[m] = head[m]
      /\ b.frame = h.frame
  BY <1>1, <1>2, <1>3 DEF Addr
<1>8. /\ AddrOK(next, b) /\ h.frame \in Reach(next, h.frame) /\ h.nslot + 1 \in 1..FrameSlots
      /\ p \notin UsedIn(next, h) /\ UsedIn(next, b) = UsedIn(next, h) \union {p}
  BY <1>5, <1>6, UsedPush
<1>9. /\ slots'[p[1]][p[2]] = o /\ SlotsOK(next, slots')
      /\ \A g \in 1..Len(next), i \in 1..FrameSlots : <<g, i>> # p => slots'[g][i] = slots[g][i]
  <2>1. h.frame \in 1..Len(next)
    BY <1>8, ReachFrames
  <2> DEFINE x == h.frame
             k == h.nslot + 1
  <2>2. slots' = [slots EXCEPT ![x] = [@ EXCEPT ![k] = o]] /\ x \in 1..Len(slots) /\ k \in 1..FrameSlots
        /\ slots \in Seq([1..FrameSlots -> Nat]) /\ Len(slots) = Len(next) /\ p = <<x, k>>
    BY <1>2, <1>5, <1>8, <2>1 DEF SlotsOK
  <2> HIDE DEF x, k, p, l, h, o
  <2>3. [slots[x] EXCEPT ![k] = o] \in [1..FrameSlots -> Nat]
    BY <1>3, <2>2
  <2>4. slots' \in Seq([1..FrameSlots -> Nat]) /\ Len(slots') = Len(slots)
    BY <2>2, <2>3
  <2>5. slots'[x] = [slots[x] EXCEPT ![k] = o] /\ \A g \in 1..Len(slots) : g # x => slots'[g] = slots[g]
    BY <2>2
  <2>6. slots[x] \in [1..FrameSlots -> Nat]
    BY <2>2
  <2>7. slots'[x][k] = o /\ \A i \in 1..FrameSlots : i # k => slots'[x][i] = slots[x][i]
    BY <2>2, <2>5, <2>6, ZenonT(60)
  <2> QED  BY <2>2, <2>4, <2>5, <2>7 DEF SlotsOK
<1>10. \A q \in UsedIn(next, h) : slots'[q[1]][q[2]] = slots[q[1]][q[2]]
  <2> SUFFICES ASSUME NEW q \in UsedIn(next, h)
               PROVE  slots'[q[1]][q[2]] = slots[q[1]][q[2]]
    OBVIOUS
  <2>1. q \in Reach(next, h.frame) \X (1..FrameSlots) /\ q # p
    BY <1>8 DEF UsedIn
  <2>2. q[1] \in 1..Len(next) /\ q[2] \in 1..FrameSlots /\ q = <<q[1], q[2]>>
    BY <2>1, ReachFrames
  <2> HIDE DEF p, h
  <2> QED  BY <1>9, <2>1, <2>2
<1>11. \A c : Reach(next, c.frame) \intersect Reach(next, h.frame) = {} =>
         \A q \in UsedIn(next, c) : slots'[q[1]][q[2]] = slots[q[1]][q[2]]
  <2> SUFFICES ASSUME NEW c, Reach(next, c.frame) \intersect Reach(next, h.frame) = {},
                      NEW q \in UsedIn(next, c)
               PROVE  slots'[q[1]][q[2]] = slots[q[1]][q[2]]
    OBVIOUS
  <2>1. q \in Reach(next, c.frame) \X (1..FrameSlots) /\ q[1] \in 1..Len(next) /\ q[1] # h.frame
    BY <1>8, ReachFrames DEF UsedIn
  <2>2. q = <<q[1], q[2]>> /\ q[2] \in 1..FrameSlots /\ <<q[1], q[2]>> # p
    BY <2>1
  <2> QED  BY <1>9, <2>1, <2>2
<1>12. /\ StockIn(next, slots', b) = StockIn(next, slots, h) \union {o}
       /\ OnceIn(slots', UsedIn(next, b))
  <2>1. HeldIn(slots', UsedIn(next, h)) = HeldIn(slots, UsedIn(next, h)) /\ OnceIn(slots', UsedIn(next, h))
    BY <1>3, <1>10, HeldSame DEF IInv, ObjectsPart
  <2> HIDE DEF p, b, h
  <2>2. slots'[p[1]][p[2]] \notin HeldIn(slots', UsedIn(next, h))
    BY <1>3, <1>9, <2>1 DEF StockIn
  <2>3. /\ HeldIn(slots', UsedIn(next, h) \union {p}) = HeldIn(slots', UsedIn(next, h)) \union {slots'[p[1]][p[2]]}
        /\ OnceIn(slots', UsedIn(next, h) \union {p})
    <3> DEFINE U == UsedIn(next, h)
    <3> HIDE DEF U
    <3> QED  BY <2>1, <2>2, HeldPlus DEF U
  <2>4. slots'[p[1]][p[2]] = o /\ UsedIn(next, b) = UsedIn(next, h) \union {p}
    BY <1>8, <1>9
  <2> QED  BY <2>1, <2>3, <2>4 DEF StockIn
<1> HIDE DEF b, p
<1>13. FramesPart' /\ HandsApart'
  <2>1. Out' = Out /\ HandsApart'
    BY <1>3, <1>4, HandsSame DEF Idle, IInv
  <2>2. Nudged(next, slots, freeFrame, Lists, head, slots', head')
    <3>1. \A m \in Lists : AddrOK(next, head[m])
      BY <1>5, PartsPool
    <3>2. \A m \in Lists : head'[m].frame = head[m].frame /\ AddrOK(next, head'[m])
      BY <1>7, <1>8, <3>1
    <3>3. \A q \in UsedIn(next, freeFrame) : slots'[q[1]][q[2]] = slots[q[1]][q[2]]
      BY <1>3, <1>5, <1>11, PartsApart
    <3> QED  BY <1>9, <3>2, <3>3 DEF Nudged
  <2>3. Parts(next, slots', freeFrame, Lists, head', Out, lostFrames)
    BY <1>5, <2>2, PartsNudged
  <2> QED  BY <1>2, <2>1, <2>3 DEF FramesPart
<1>14. ObjectsPart'
  <2>1. InHand(t) = {o} /\ InHand(t)' = {} /\ owned'[t] = owned[t]
    BY <1>2, <1>3, <1>4 DEF InHand, At, Idle
  <2>2. \A u \in Threads \ {t} : HoldStays(u)
    BY <1>4, HoldUnmoved DEF IInv
  <2>3. \A m \in Lists \ {l} : StockStays(m)
    <3> SUFFICES ASSUME NEW m \in Lists, m # l PROVE StockStays(m)
      OBVIOUS
    <3>1. \A q \in UsedIn(next, head[m]) : slots'[q[1]][q[2]] = slots[q[1]][q[2]]
      BY <1>3, <1>5, <1>11, PartsApart
    <3>2. OnceIn(slots, UsedIn(next, head[m]))
      BY DEF IInv, ObjectsPart
    <3>3. /\ HeldIn(slots', UsedIn(next, head[m])) = HeldIn(slots, UsedIn(next, head[m]))
          /\ OnceIn(slots', UsedIn(next, head[m]))
      BY <3>1, <3>2, HeldSame
    <3> QED  BY <1>2, <1>7, <3>3 DEF StockStays, StockIn
  <2>4. Moved(t, l, {o})
    <3>1. Cells[l] = StockIn(next, slots, h) /\ Cells'[l] = StockIn(next, slots, h) \union {o}
      BY <1>2, <1>3, <1>7, <1>12, CellsAre
    <3>2. Cells[t] = owned[t] \union {o} /\ Cells'[t] = owned[t]
      BY <2>1, CellsAre DEF Held
    <3>3. \A c \in (Lists \union Threads) \ {t, l} : Cells'[c] = Cells[c]
      BY <2>2, <2>3, CellsAre DEF HoldStays, StockStays
    <3> QED  BY <1>3, <3>1, <3>2, <3>3, ThreadList DEF Moved
  <2>5. ObjectsApart'
    <3>1. \A m \in Lists : OnceIn(slots', UsedIn(next', head'[m]))
      BY <1>2, <1>7, <1>12, <2>3 DEF StockStays
    <3>2. \A u \in Threads : owned'[u] \intersect InHand(u)' = {}
      BY <2>1, <2>2 DEF HoldStays
    <3> QED  BY <3>1, <3>2 DEF ObjectsApart
  <2> QED  BY <1>2, <2>4, <2>5, ObjectsMove DEF IInv
<1>15. Undisturbed(job[t].list)
  BY <1>1, <1>2, <1>3, <1>7 DEF Undisturbed
<1>16. JobsPart'
  <2>1. Idle \in Jobs
    BY DEF Idle, Jobs, Stages, NoFrame
  <2>2. job[t].list \in Lists => latch[job[t].list] \notin Threads \ {t}
    BY <1>3
  <2>3. job' \in [Threads -> Jobs] /\ PlacesOK'
    BY <1>1, <1>2, <1>15, <2>1, <2>2, JobStep DEF IInv, JobsPart
  <2>4. head' \in [Lists -> [frame : Nat, nslot : Nat]]
    <3>1. h \in [frame : Nat, nslot : Nat]
      BY <1>1, <1>3
    <3>2. b \in [frame : Nat, nslot : Nat]
      BY <3>1 DEF b, Addr
    <3>3. DOMAIN head' = Lists /\ head' = [m \in Lists |-> head'[m]]
      BY <1>1, <1>2
    <3> HIDE DEF h
    <3> QED  BY <1>1, <1>7, <3>2, <3>3
  <2>5. latch' \in [Lists -> Threads \union {None}]
    BY <1>1, <1>2
  <2> QED  BY <1>1, <1>2, <2>3, <2>4, <2>5 DEF IInv, JobsPart, Object
<1> QED  BY <1>13, <1>14, <1>15, <1>16 DEF IInv

LEMMA AddSlotFrame ==
  ASSUME IInv, NEW t \in Threads, AddSlot(t), ~HasSpace(head[job[t].list]), CanAllocFrame
  PROVE  IInv' /\ Undisturbed(job[t].list)
<1> DEFINE l == job[t].list
           h == head[l]
           o == job[t].obj
           a == AllocFrame
           s == [a.slots[a.frame] EXCEPT ![1] = o]
<1>1. /\ job \in [Threads -> Jobs] /\ latch \in [Lists -> Threads \union {None}]
      /\ owned \in [Threads -> SUBSET Object] /\ head \in [Lists -> [frame : Nat, nslot : Nat]]
      /\ made \in Nat /\ room \in Nat /\ FrameSlots \in Nat /\ 1 \in 1..FrameSlots
  BY FramesAssumption DEF IInv, JobsPart
<1>2. /\ job[t].at = "add" /\ job' = [job EXCEPT ![t] = Idle] /\ latch' = [latch EXCEPT ![l] = None]
      /\ freeFrame' = a.head /\ room' = a.room /\ lostFrames' = lostFrames \union a.lost
      /\ slots' = [a.slots EXCEPT ![a.frame] = s] /\ next' = [a.next EXCEPT ![a.frame] = h.frame]
      /\ head' = [head EXCEPT ![l] = Addr(a.frame, 1)]
      /\ UNCHANGED <<owned, made, lostObjects>>
  <2> HIDE DEF a
  <2>1. /\ job[t].at = "add" /\ Unlatch(t) /\ TakeFrame(a)
        /\ slots' = [a.slots EXCEPT ![a.frame][1] = o] /\ next' = [a.next EXCEPT ![a.frame] = h.frame]
        /\ head' = [head EXCEPT ![l] = Addr(a.frame, 1)]
        /\ UNCHANGED <<owned, made, lostObjects>>
    BY Zenon DEF AddSlot, At, l, a, o, h
  <2> QED  BY <2>1 DEF TakeFrame, Unlatch
<1>3. /\ l \in Lists /\ latch[l] = t /\ job[t].frame = NoFrame /\ o \in Nat
      /\ InHand(t) = {o} /\ o \notin owned[t] /\ o \notin StockIn(next, slots, h)
  BY <1>2, AddsNew
<1>4. job'[t] = Idle /\ \A u \in Threads \ {t} : job'[u] = job[u] /\ owned'[u] = owned[u]
  BY <1>1, <1>2
<1>5. Parts(next, slots, freeFrame, Lists, head, Out, lostFrames) /\ None \notin Lists
  BY FramesAssumption DEF IInv, FramesPart
<1>6. AllocedOK(a, Lists, head, Out)
  BY <1>1, <1>5, AllocParts
<1> HIDE DEF a
<1>7. a.frame \in 1..Len(a.next) /\ a.room \in Nat /\ a.slots[a.frame] \in [1..FrameSlots -> Nat]
  BY <1>6, AllocTypes
<1>8. s \in [1..FrameSlots -> Nat] /\ FrontOf(s, 1) = {o} /\ \A i, k \in 1..1 : s[i] = s[k] => i = k
  <2>1. s \in [1..FrameSlots -> Nat] /\ s[1] = o
    BY <1>1, <1>3, <1>7
  <2>2. 1..1 = {1}
    OBVIOUS
  <2> HIDE DEF s
  <2> QED  BY <2>1, <2>2 DEF FrontOf
<1> HIDE DEF s
<1>9. head'[l] = Addr(a.frame, 1) /\ \A m \in Lists : m # l => head'[m] = head[m]
  BY <1>1, <1>2, <1>3
<1>10. HasPlaced(a, Lists, head, Out, l, 1, s, next', slots', head')
  <2>1. 1 \in 0..FrameSlots
    BY <1>1
  <2>2. Placed(a, Lists, head, l, 1, s, next', slots', head')
    BY <1>2, <1>3, <1>8, <1>9, <2>1 DEF Placed
  <2> QED  BY <1>5, <1>6, <2>2, AllocPlaced
<1>11. /\ Parts(next', slots', freeFrame', Lists, head', Out, lostFrames')
       /\ StockIn(next', slots', head'[l]) = StockIn(next, slots, h) \union {o}
       /\ \A m \in Lists : m # l => /\ StockIn(next', slots', head'[m]) = StockIn(next, slots, head[m])
                                   /\ UsedIn(next', head'[m]) = UsedIn(next, head[m])
       /\ \A m \in Lists : OnceIn(slots', UsedIn(next', head'[m]))
  <2>1. \A m \in Lists : OnceIn(slots, UsedIn(next, head[m]))
    BY DEF IInv, ObjectsPart
  <2>2. StockIn(next, slots, h) \intersect FrontOf(s, 1) = {}
    BY <1>3, <1>8
  <2> QED  BY <1>2, <1>8, <1>10, <2>1, <2>2 DEF HasPlaced
<1>12. FramesPart' /\ HandsApart'
  <2>1. Out' = Out /\ HandsApart'
    BY <1>3, <1>4, HandsSame DEF Idle, IInv
  <2> QED  BY <1>11, <2>1 DEF FramesPart
<1>13. ObjectsPart'
  <2>1. InHand(t) = {o} /\ InHand(t)' = {} /\ owned'[t] = owned[t]
    BY <1>2, <1>3, <1>4 DEF InHand, At, Idle
  <2>2. \A u \in Threads \ {t} : HoldStays(u)
    BY <1>4, HoldUnmoved DEF IInv
  <2>3. ObjectsApart'
    <3>1. \A u \in Threads : owned'[u] \intersect InHand(u)' = {}
      BY <2>1, <2>2 DEF HoldStays
    <3> QED  BY <1>11, <3>1 DEF ObjectsApart
  <2>4. Moved(t, l, {o})
    <3>1. Cells[l] = StockIn(next, slots, h) /\ Cells'[l] = StockIn(next, slots, h) \union {o}
      BY <1>3, <1>11, CellsAre
    <3>2. Cells[t] = owned[t] \union {o} /\ Cells'[t] = owned[t]
      BY <2>1, CellsAre DEF Held
    <3>3. \A c \in (Lists \union Threads) \ {t, l} : Cells'[c] = Cells[c]
      BY <1>11, <2>2, CellsAre DEF HoldStays
    <3> QED  BY <1>3, <3>1, <3>2, <3>3, ThreadList DEF Moved
  <2> QED  BY <1>2, <2>3, <2>4, ObjectsMove DEF IInv
<1>14. Undisturbed(job[t].list)
  BY <1>1, <1>2, <1>3, <1>9, <1>11 DEF Undisturbed
<1>15. JobsPart'
  <2>1. Idle \in Jobs
    BY DEF Idle, Jobs, Stages, NoFrame
  <2>2. job[t].list \in Lists => latch[job[t].list] \notin Threads \ {t}
    BY <1>3
  <2>3. job' \in [Threads -> Jobs] /\ PlacesOK'
    BY <1>1, <1>2, <1>14, <2>1, <2>2, JobStep DEF IInv, JobsPart
  <2>4. head' \in [Lists -> [frame : Nat, nslot : Nat]]
    <3>1. Addr(a.frame, 1) \in [frame : Nat, nslot : Nat]
      <4>1. a.frame \in Nat
        BY <1>7
      <4> QED  BY <4>1 DEF Addr
    <3>2. head' = [head EXCEPT ![l] = Addr(a.frame, 1)]
      BY <1>2
    <3> QED  BY <1>1, <1>3, <3>1, <3>2
  <2>5. latch' \in [Lists -> Threads \union {None}]
    BY <1>1, <1>2
  <2> QED  BY <1>1, <1>2, <1>7, <2>3, <2>4, <2>5 DEF IInv, JobsPart, Object
<1> QED  BY <1>12, <1>13, <1>14, <1>15 DEF IInv

LEMMA AddSlotFails ==
  ASSUME IInv, NEW t \in Threads, AddSlot(t), ~HasSpace(head[job[t].list]), ~CanAllocFrame
  PROVE  IInv' /\ Undisturbed(job[t].list)
<1> DEFINE o == job[t].obj
<1>1. /\ job \in [Threads -> Jobs] /\ latch \in [Lists -> Threads \union {None}]
      /\ owned \in [Threads -> SUBSET Object] /\ head \in [Lists -> [frame : Nat, nslot : Nat]]
  BY DEF IInv, JobsPart
<1>2. /\ job[t].at = "add" /\ job' = [job EXCEPT ![t] = Idle]
      /\ owned' = [owned EXCEPT ![t] = @ \union {o}]
      /\ UNCHANGED <<head, latch, freeFrame, room, lostFrames, slots, next, made, lostObjects>>
  BY DEF AddSlot, At, poolVars, frameVars
<1>3. /\ job[t].frame = NoFrame /\ InHand(t) = {o} /\ o \notin owned[t] /\ o \in Object
      /\ latch[job[t].list] = t
  BY <1>2, AddsNew
<1>4. job'[t] = Idle /\ \A u \in Threads \ {t} : job'[u] = job[u] /\ owned'[u] = owned[u]
  BY <1>1, <1>2
<1>5. FramesPart' /\ HandsApart'
  <2>1. \A u \in Threads : job'[u].frame = job[u].frame
    BY <1>3, <1>4 DEF Idle
  <2> QED  BY <1>2, <2>1, FramesStill DEF IInv
<1>6. ObjectsPart'
  <2>1. HoldStays(t)
    <3>1. InHand(t)' = {} /\ owned'[t] = owned[t] \union {o}
      BY <1>1, <1>2, <1>4 DEF InHand, At, Idle
    <3> QED  BY <1>3, <3>1 DEF HoldStays, Held
  <2>2. \A u \in Threads : HoldStays(u)
    BY <1>4, <2>1, HoldUnmoved DEF IInv
  <2>3. \A m \in Lists : StockStays(m)
    BY <1>2, StockUnmoved DEF IInv
  <2> QED  BY <1>2, <2>2, <2>3, ObjectsStill DEF IInv
<1>7. Undisturbed(job[t].list)
  BY <1>2 DEF Undisturbed
<1>8. JobsPart'
  <2>1. Idle \in Jobs
    BY DEF Idle, Jobs, Stages, NoFrame
  <2>2. job[t].list \in Lists => latch[job[t].list] \notin Threads \ {t}
    BY <1>3
  <2>3. job' \in [Threads -> Jobs] /\ PlacesOK'
    BY <1>1, <1>2, <1>7, <2>1, <2>2, JobStep DEF IInv, JobsPart
  <2>4. owned' \in [Threads -> SUBSET Object']
    BY <1>1, <1>2, <1>3 DEF Object
  <2> QED  BY <1>2, <2>3, <2>4 DEF IInv, JobsPart
<1> QED  BY <1>5, <1>6, <1>7, <1>8 DEF IInv

-----------------------------------------------------------------------------
(* The invariant.                                                          *)

LEMMA InitInv ==
  ASSUME Init PROVE IInv
<1>1. /\ next = <<>> /\ slots = <<>> /\ freeFrame = Addr(0, 0) /\ made = 0 /\ room = Room
      /\ lostFrames = {} /\ lostObjects = {} /\ latch = [l \in Lists |-> None]
      /\ head = [l \in Lists |-> Addr(0, 0)] /\ job = [t \in Threads |-> Idle]
      /\ owned = [t \in Threads |-> {}] /\ Object = {}
  BY DEF Init, Object, NoFrame
<1>2. Len(next) = 0 /\ Links(next) /\ SlotsOK(next, slots) /\ 1..Len(next) = {}
  BY <1>1 DEF Links, SlotsOK
<1> DEFINE z == Addr(0, 0)
<1>3. AddrOK(next, z) /\ Reach(next, z.frame) = {} /\ UsedIn(next, z) = {}
  <2>1. z.frame = 0 /\ z.nslot = 0 /\ z \in Addresses(next)
    BY <1>2, FramesAssumption DEF Addr, Addresses
  <2> HIDE DEF z
  <2> QED  BY <2>1, ReachNone DEF AddrOK, Acyclic, UsedIn
<1> HIDE DEF z
<1>4. Out = {} /\ HandsApart
  BY <1>1 DEF Out, HandsApart, Idle
<1>5. FramesPart
  <2> DEFINE D == Lists \union {None}
             hs == Heads(Lists, freeFrame, head)
  <2>1. \A d \in D : hs[d] = z
    BY <1>1 DEF Heads, z
  <2> HIDE DEF D, hs
  <2>2. ChainsOK(next, D, hs) /\ Chained(next, D, hs) = {}
    BY <1>3, <2>1 DEF ChainsOK, Chained
  <2>3. UsedIn(next, freeFrame) = {}
    BY <1>1, <1>3 DEF z
  <2>4. OnceIn(slots, {}) /\ HeldIn(slots, {}) = {}
    BY DEF OnceIn, HeldIn
  <2> QED  BY <1>1, <1>2, <1>4, <2>2, <2>3, <2>4 DEF FramesPart, Parts, Split, D, hs
<1>6. ObjectsPart
  <2>1. \A l \in Lists : UsedIn(next, head[l]) = {}
    BY <1>1, <1>3 DEF z
  <2>2. \A t \in Threads : owned[t] = {} /\ InHand(t) = {}
    BY <1>1 DEF InHand, At, Idle
  <2>3. \A d \in Lists \union Threads : Cells[d] = {}
    BY <2>1, <2>2, CellsAre DEF StockIn, HeldIn, Held
  <2>4. Spread(Object, Lists \union Threads, Cells, lostObjects)
    BY <1>1, <2>3 DEF Spread
  <2> QED  BY <2>1, <2>2, <2>4 DEF ObjectsPart, OnceIn
<1>7. JobsPart
  <2>1. Idle \in Jobs /\ PlacesOK
    BY <1>1 DEF Idle, Jobs, Stages, PlacesOK, NoFrame
  <2>2. head \in [Lists -> [frame : Nat, nslot : Nat]]
    BY <1>1 DEF Addr
  <2> QED  BY <1>1, <2>1, <2>2, FramesAssumption DEF JobsPart
<1> QED  BY <1>4, <1>5, <1>6, <1>7 DEF IInv

LEMMA StutterInv ==
  ASSUME IInv, UNCHANGED vars PROVE IInv'
<1>1. UNCHANGED <<head, latch, freeFrame, slots, next, made, room, job, owned, lostFrames, lostObjects>>
  BY DEF vars
<1>2. FramesPart' /\ HandsApart'
  BY <1>1, FramesStill DEF IInv
<1>3. ObjectsPart'
  <2>1. \A u \in Threads : HoldStays(u)
    BY <1>1, HoldUnmoved DEF IInv
  <2>2. \A m \in Lists : StockStays(m)
    BY <1>1, StockUnmoved DEF IInv
  <2> QED  BY <1>1, <2>1, <2>2, ObjectsStill DEF IInv
<1>4. JobsPart'
  <2>1. PlacesOK'
    BY <1>1 DEF IInv, JobsPart, PlacesOK, PlaceOK, OnList, OffList
  <2> QED  BY <1>1, <2>1 DEF IInv, JobsPart, Object
<1> QED  BY <1>2, <1>3, <1>4 DEF IInv

LEMMA RunInv ==
  ASSUME IInv, NEW t \in Threads, Run(t)
  PROVE  IInv' /\ Undisturbed(job[t].list)
<1>1. CASE InitFrame(t)
  BY <1>1, InitFrameFills, InitFrameFails
<1>2. CASE AddSlot(t)
  BY <1>2, AddSlotFits, AddSlotFrame, AddSlotFails
<1> QED  BY <1>1, <1>2, LatchInv, GetNodeInv, ReturnInv, InitObjectsInv DEF Run

LEMMA StepInv ==
  IInv /\ [Next]_vars => IInv'
<1> SUFFICES ASSUME IInv, [Next]_vars PROVE IInv'
  OBVIOUS
<1>1. ASSUME NEW t \in Threads, Run(t) PROVE IInv'
  BY <1>1, RunInv
<1>2. ASSUME NEW t \in Threads, NEW l \in Lists, CallAlloc(t, l) PROVE IInv'
  BY <1>2, StartsAllocInv DEF CallAlloc, StartsAlloc, poolVars, frameVars
<1>3. ASSUME NEW t \in Threads, NEW l \in Lists, NEW o \in owned[t], CallAdd(t, l, o) PROVE IInv'
  BY <1>3, StartsAddInv DEF CallAdd, StartsAdd, poolVars, frameVars
<1>4. CASE UNCHANGED vars
  BY <1>4, StutterInv
<1> QED  BY <1>1, <1>2, <1>3, <1>4 DEF Next, Finished

\* The invariant of every run of the allocator: frames and objects are each in
\* one place, and a call is where its place says.
THEOREM Invariance == Spec => []IInv
<1>1. Init => IInv
  BY InitInv
<1> QED  BY <1>1, StepInv, PTL DEF Spec

-----------------------------------------------------------------------------
(* What the invariant says in terms of the properties.                     *)

LEMMA ChainIs ==
  ASSUME IInv, NEW a, AddrOK(next, a)
  PROVE  Chain(a) = Reach(next, a.frame) /\ Used(a) = UsedIn(next, a)
<1>1. Links(next)
  BY DEF IInv, FramesPart, Parts
<1>2. a.frame \in 0..Len(next)
  BY AddrType
<1>3. ChainOf(next, a.frame) = Reach(next, a.frame)
  BY <1>1, <1>2, ChainOfReach
<1>4. Chain(a) = ChainOf(next, a.frame)
  BY Zenon DEF Chain, ChainOf, NoFrame
<1> QED  BY <1>3, <1>4 DEF Used, UsedIn

LEMMA ListsAre ==
  ASSUME IInv
  PROVE  /\ Links(next) /\ SlotsOK(next, slots) /\ AddrOK(next, freeFrame)
         /\ Chain(freeFrame) = Reach(next, freeFrame.frame)
         /\ Used(freeFrame) = UsedIn(next, freeFrame)
         /\ \A l \in Lists : /\ AddrOK(next, head[l])
                            /\ Chain(head[l]) = Reach(next, head[l].frame)
                            /\ Used(head[l]) = UsedIn(next, head[l])
<1>1. Parts(next, slots, freeFrame, Lists, head, Out, lostFrames) /\ None \notin Lists
  BY FramesAssumption DEF IInv, FramesPart
<1>2. AddrOK(next, freeFrame) /\ \A l \in Lists : AddrOK(next, head[l])
  BY <1>1, PartsPool
<1> QED  BY <1>1, <1>2, ChainIs DEF Parts

LEMMA InvTypeOK == IInv => TypeOK
<1> SUFFICES ASSUME IInv PROVE TypeOK
  OBVIOUS
<1>1. /\ head \in [Lists -> [frame : Nat, nslot : Nat]] /\ owned \in [Threads -> SUBSET Object]
      /\ latch \in [Lists -> Threads \union {None}]
  BY DEF IInv, JobsPart
<1>2. freeFrame \in [frame : Frame \union {NoFrame}, nslot : 0..FrameSlots]
  <2>1. 0..Len(next) = Frame \union {NoFrame}
    BY ListsAre DEF Links, Frame, NoFrame
  <2> QED  BY <2>1, ListsAre DEF AddrOK, Addresses
<1>3. \A l \in Lists : head[l] \in [frame : Frame \union {NoFrame}, nslot : 0..FrameSlots]
  <2>1. 0..Len(next) = Frame \union {NoFrame}
    BY ListsAre DEF Links, Frame, NoFrame
  <2> QED  BY <2>1, ListsAre DEF AddrOK, Addresses
<1>4. head \in [Lists -> [frame : Frame \union {NoFrame}, nslot : 0..FrameSlots]]
  BY <1>1, <1>3
<1>5. slots \in [Frame -> [1..FrameSlots -> Nat]]
  BY ListsAre DEF SlotsOK, Frame
<1>6. next \in [Frame -> Frame \union {NoFrame}]
  <2>1. next \in Seq(Nat) /\ \A f \in Frame : next[f] \in 0..Len(next)
    BY ListsAre DEF Links, Frame
  <2>2. \A f \in Frame : next[f] \in Frame \union {NoFrame}
    BY <2>1 DEF Frame, NoFrame
  <2> QED  BY <2>1, <2>2 DEF Frame
<1>7. \A t \in Threads : job[t].frame \in Frame \union {NoFrame}
  <2>1. Out \subseteq 1..Len(next)
    BY DEF IInv, FramesPart, Parts, Split
  <2> QED  BY <2>1 DEF Out, Frame
<1> QED  BY <1>1, <1>2, <1>4, <1>5, <1>6, <1>7 DEF TypeOK

\* An object that is not lost is in one cell, and in one place of it.
LEMMA PlacesAre ==
  ASSUME IInv, NEW o, NEW q
  PROVE  q \in Places(o) <=>
           \/ \E l \in Lists : \E p \in UsedIn(next, head[l]) : slots[p[1]][p[2]] = o /\ q = <<l, p>>
           \/ \E t \in Threads : o \in owned[t] /\ q = <<t, <<0, 0>>>>
           \/ \E t \in Threads : o \in InHand(t) /\ q = <<t, <<0, 1>>>>
<1>1. \A l \in Lists : Used(head[l]) = UsedIn(next, head[l])
  BY ListsAre
<1>2. q \in Places(o) <=>
        \/ \E l \in Lists : \E p \in Used(head[l]) : slots[p[1]][p[2]] = o /\ q = <<l, p>>
        \/ \E t \in Threads : o \in owned[t] /\ q = <<t, <<0, 0>>>>
        \/ \E t \in Threads : o \in InHand(t) /\ q = <<t, <<0, 1>>>>
  <2> DEFINE On(l) == {<<l, p>> : p \in {r \in Used(head[l]) : slots[r[1]][r[2]] = o}}
             A == UNION {On(l) : l \in Lists}
             B == {<<t, <<0, 0>>>> : t \in {u \in Threads : o \in owned[u]}}
             C == {<<t, <<0, 1>>>> : t \in {u \in Threads : o \in InHand(u)}}
  <2>1. Places(o) = A \union B \union C
    BY Zenon DEF Places, PlacesIn
  <2>2. \A l \in Lists : q \in On(l) <=> \E p \in Used(head[l]) : slots[p[1]][p[2]] = o /\ q = <<l, p>>
    OBVIOUS
  <2>3. q \in B <=> \E t \in Threads : o \in owned[t] /\ q = <<t, <<0, 0>>>>
    OBVIOUS
  <2>4. q \in C <=> \E t \in Threads : o \in InHand(t) /\ q = <<t, <<0, 1>>>>
    OBVIOUS
  <2> HIDE DEF On, B, C
  <2>5. q \in A <=> \E l \in Lists : q \in On(l)
    OBVIOUS
  <2> HIDE DEF A
  <2> QED  BY <2>1, <2>2, <2>3, <2>4, <2>5
<1> QED  BY <1>1, <1>2

LEMMA PlaceInCell ==
  ASSUME IInv, NEW o, NEW q, q \in Places(o)
  PROVE  \E d \in Lists \union Threads : o \in Cells[d] /\ q = <<d, q[2]>>
<1>1. ASSUME NEW l \in Lists, NEW p \in UsedIn(next, head[l]), slots[p[1]][p[2]] = o, q = <<l, p>>
      PROVE  o \in Cells[l] /\ q = <<l, q[2]>>
  BY <1>1, CellsAre DEF StockIn, HeldIn
<1>2. ASSUME NEW t \in Threads, o \in owned[t], q = <<t, <<0, 0>>>>
      PROVE  o \in Cells[t] /\ q = <<t, q[2]>>
  BY <1>2, CellsAre DEF Held
<1>3. ASSUME NEW t \in Threads, o \in InHand(t), q = <<t, <<0, 1>>>>
      PROVE  o \in Cells[t] /\ q = <<t, q[2]>>
  BY <1>3, CellsAre DEF Held
<1> QED  BY <1>1, <1>2, <1>3, PlacesAre

LEMMA PlacesAtMostOne ==
  ASSUME IInv, NEW o, NEW q \in Places(o), NEW r \in Places(o)
  PROVE  q = r
<1>1. PICK d \in Lists \union Threads : o \in Cells[d] /\ q = <<d, q[2]>>
  BY PlaceInCell
<1>2. PICK e \in Lists \union Threads : o \in Cells[e] /\ r = <<e, r[2]>>
  BY PlaceInCell
<1>3. d = e
  BY <1>1, <1>2 DEF IInv, ObjectsPart, Spread
<1>4. CASE d \in Lists
  <2>1. d \notin Threads
    BY <1>4, ThreadList
  <2>2. PICK p \in UsedIn(next, head[d]) : slots[p[1]][p[2]] = o /\ q = <<d, p>>
    BY <1>1, <2>1, PlacesAre
  <2>3. PICK s \in UsedIn(next, head[d]) : slots[s[1]][s[2]] = o /\ r = <<d, s>>
    BY <1>2, <1>3, <2>1, PlacesAre
  <2>4. OnceIn(slots, UsedIn(next, head[d]))
    BY <1>4 DEF IInv, ObjectsPart
  <2> QED  BY <2>2, <2>3, <2>4 DEF OnceIn
<1>5. CASE d \in Threads
  <2>1. d \notin Lists
    BY <1>5, ThreadList
  <2>2. \/ o \in owned[d] /\ q = <<d, <<0, 0>>>>
        \/ o \in InHand(d) /\ q = <<d, <<0, 1>>>>
    BY <1>1, <2>1, PlacesAre
  <2>3. \/ o \in owned[d] /\ r = <<d, <<0, 0>>>>
        \/ o \in InHand(d) /\ r = <<d, <<0, 1>>>>
    BY <1>2, <1>3, <2>1, PlacesAre
  <2>4. owned[d] \intersect InHand(d) = {}
    BY <1>5 DEF IInv, ObjectsPart
  <2> QED  BY <2>2, <2>3, <2>4
<1> QED  BY <1>4, <1>5

LEMMA CellHasPlace ==
  ASSUME IInv, NEW d \in Lists \union Threads, NEW o \in Cells[d]
  PROVE  \E q : q \in Places(o)
<1>1. CASE d \in Lists
  <2>1. o \in HeldIn(slots, UsedIn(next, head[d]))
    BY <1>1, CellsAre DEF StockIn
  <2>2. PICK p \in UsedIn(next, head[d]) : slots[p[1]][p[2]] = o
    BY <2>1 DEF HeldIn
  <2>3. <<d, p>> \in Places(o)
    BY <1>1, <2>2, PlacesAre
  <2> QED  BY <2>3
<1>2. CASE d \in Threads
  <2>1. o \in owned[d] \/ o \in InHand(d)
    BY <1>2, CellsAre DEF Held
  <2>2. <<d, <<0, 0>>>> \in Places(o) \/ <<d, <<0, 1>>>> \in Places(o)
    BY <1>2, <2>1, PlacesAre
  <2> QED  BY <2>2
<1> QED  BY <1>1, <1>2

\* A set with one member at most.
LEMMA OneOrNone ==
  ASSUME NEW S, \A q, r \in S : q = r
  PROVE  Cardinality(S) = IF S = {} THEN 0 ELSE 1
<1>1. CASE S = {}
  BY <1>1, FS_EmptySet
<1>2. CASE S # {}
  <2>1. PICK q : q \in S
    BY <1>2
  <2>2. S = {q}
    BY <2>1
  <2> QED  BY <2>2, FS_Singleton
<1> QED  BY <1>1, <1>2

LEMMA InvObjectsOnce == IInv => ObjectsOnce
<1> SUFFICES ASSUME IInv PROVE ObjectsOnce
  OBVIOUS
<1>1. ASSUME NEW o \in Object PROVE Cardinality(Places(o)) = IF o \in lostObjects THEN 0 ELSE 1
  <2>1. Spread(Object, Lists \union Threads, Cells, lostObjects)
    BY DEF IInv, ObjectsPart
  <2>2. o \in lostObjects <=> \A d \in Lists \union Threads : o \notin Cells[d]
    BY <2>1 DEF Spread
  <2>3. o \in lostObjects <=> Places(o) = {}
    BY <2>2, PlaceInCell, CellHasPlace
  <2>4. Cardinality(Places(o)) = IF Places(o) = {} THEN 0 ELSE 1
    BY PlacesAtMostOne, OneOrNone
  <2> QED  BY <2>3, <2>4
<1> QED  BY <1>1, InvTypeOK DEF ObjectsOnce

LEMMA InvFullBehind == IInv => FullBehind
<1> SUFFICES ASSUME IInv, NEW l \in Lists, NEW p \in Used(head[l]) PROVE slots[p[1]][p[2]] \in Object
  BY DEF FullBehind
<1>1. slots[p[1]][p[2]] \in Cells[l]
  BY ListsAre, CellsAre DEF StockIn, HeldIn
<1> QED  BY <1>1 DEF IInv, ObjectsPart, Spread

-----------------------------------------------------------------------------
(* Where a frame is.                                                       *)

LEMMA FramePlacesAre ==
  ASSUME IInv, NEW f \in Frame, NEW q
  PROVE  q \in FramePlacesIn(Lists, f) <=>
           \/ \E l \in Lists : f \in Reach(next, head[l].frame) /\ q = <<l, <<0, 0>>>>
           \/ f \in Reach(next, freeFrame.frame) /\ q = <<None, <<f, 0>>>>
           \/ \E p \in UsedIn(next, freeFrame) : slots[p[1]][p[2]] = f /\ q = <<None, p>>
           \/ \E t \in Threads : job[t].frame = f /\ q = <<t, <<0, 0>>>>
<1> DEFINE A == {<<l, <<0, 0>>>> : l \in {m \in Lists : f \in Chain(head[m])}}
           B == {<<None, <<g, 0>>>> : g \in Chain(freeFrame) \intersect {f}}
           C == {<<None, p>> : p \in {r \in Used(freeFrame) : slots[r[1]][r[2]] = f}}
           D == {<<t, <<0, 0>>>> : t \in {u \in Threads : job[u].frame = f}}
<1>1. FramePlacesIn(Lists, f) = A \union B \union C \union D
  BY Zenon DEF FramePlacesIn
<1>2. q \in A <=> \E l \in Lists : f \in Chain(head[l]) /\ q = <<l, <<0, 0>>>>
  OBVIOUS
<1>3. q \in B <=> f \in Chain(freeFrame) /\ q = <<None, <<f, 0>>>>
  OBVIOUS
<1>4. q \in C <=> \E p \in Used(freeFrame) : slots[p[1]][p[2]] = f /\ q = <<None, p>>
  OBVIOUS
<1>5. q \in D <=> \E t \in Threads : job[t].frame = f /\ q = <<t, <<0, 0>>>>
  OBVIOUS
<1> HIDE DEF A, B, C, D
<1> QED  BY <1>1, <1>2, <1>3, <1>4, <1>5, ListsAre

\* The four ways to be somewhere, for a frame that is not lost, exclude each other.
LEMMA WaysAre ==
  ASSUME IInv, NEW f \in Frame
  PROVE  /\ f \in lostFrames <=>
              /\ \A l \in Lists : f \notin Reach(next, head[l].frame)
              /\ f \notin Reach(next, freeFrame.frame)
              /\ f \notin HeldIn(slots, UsedIn(next, freeFrame))
              /\ \A t \in Threads : job[t].frame # f
         /\ \A l, m \in Lists : f \in Reach(next, head[l].frame) /\ f \in Reach(next, head[m].frame) => l = m
         /\ f \in Reach(next, freeFrame.frame) =>
              /\ \A l \in Lists : f \notin Reach(next, head[l].frame)
              /\ f \notin HeldIn(slots, UsedIn(next, freeFrame))
              /\ \A t \in Threads : job[t].frame # f
         /\ f \in HeldIn(slots, UsedIn(next, freeFrame)) =>
              /\ \A l \in Lists : f \notin Reach(next, head[l].frame)
              /\ \A t \in Threads : job[t].frame # f
         /\ \A t \in Threads : job[t].frame = f =>
              /\ \A l \in Lists : f \notin Reach(next, head[l].frame)
              /\ \A u \in Threads : job[u].frame = f => u = t
<1> DEFINE D == Lists \union {None}
           hs == Heads(Lists, freeFrame, head)
           empty == HeldIn(slots, UsedIn(next, freeFrame))
<1>1. /\ ChainsOK(next, D, hs)
      /\ Split(1..Len(next), Chained(next, D, hs), empty, Out, lostFrames)
  BY DEF IInv, FramesPart, Parts
<1>2. hs[None] = freeFrame /\ \A m \in Lists : hs[m] = head[m] /\ m # None
  BY FramesAssumption DEF Heads
<1> HIDE DEF hs, empty
<1>3. f \in Chained(next, D, hs) <=>
        f \in Reach(next, freeFrame.frame) \/ \E l \in Lists : f \in Reach(next, head[l].frame)
  <2>1. f \in Chained(next, D, hs) <=> \E d \in D : f \in Reach(next, hs[d].frame)
    BY DEF Chained
  <2> QED  BY <1>2, <2>1
<1>4. f \in Out <=> \E t \in Threads : job[t].frame = f
  <2>1. f # NoFrame
    BY DEF Frame, NoFrame
  <2> QED  BY <2>1 DEF Out
<1>5. f \in 1..Len(next)
  BY DEF Frame
<1>6. \A t, u \in Threads : job[t].frame = f /\ job[u].frame = f => t = u
  <2>1. f # NoFrame
    BY DEF Frame, NoFrame
  <2> QED  BY <2>1 DEF IInv, HandsApart
<1>7. /\ \A l, m \in Lists : f \in Reach(next, head[l].frame) /\ f \in Reach(next, head[m].frame) => l = m
      /\ \A l \in Lists : ~(f \in Reach(next, head[l].frame) /\ f \in Reach(next, freeFrame.frame))
  BY <1>1, <1>2 DEF ChainsOK
<1>8. /\ f \in Chained(next, D, hs) \/ f \in empty \/ f \in Out \/ f \in lostFrames
      /\ f \in Chained(next, D, hs) => f \notin empty /\ f \notin Out /\ f \notin lostFrames
      /\ f \in empty => f \notin Out /\ f \notin lostFrames
      /\ f \in Out => f \notin lostFrames
  BY <1>1, <1>5 DEF Split
<1> HIDE DEF D
<1> QED  BY <1>3, <1>4, <1>6, <1>7, <1>8 DEF empty

LEMMA FramePlacesAtMostOne ==
  ASSUME IInv, NEW f \in Frame, NEW q \in FramePlacesIn(Lists, f), NEW r \in FramePlacesIn(Lists, f)
  PROVE  q = r
<1> DEFINE chained(l) == f \in Reach(next, head[l].frame)
           pool == f \in Reach(next, freeFrame.frame)
           slot(p) == p \in UsedIn(next, freeFrame) /\ slots[p[1]][p[2]] = f
           hand(t) == job[t].frame = f
<1>1. \/ \E l \in Lists : chained(l) /\ q = <<l, <<0, 0>>>>
      \/ pool /\ q = <<None, <<f, 0>>>>
      \/ \E p : slot(p) /\ q = <<None, p>>
      \/ \E t \in Threads : hand(t) /\ q = <<t, <<0, 0>>>>
  BY FramePlacesAre
<1>2. \/ \E l \in Lists : chained(l) /\ r = <<l, <<0, 0>>>>
      \/ pool /\ r = <<None, <<f, 0>>>>
      \/ \E p : slot(p) /\ r = <<None, p>>
      \/ \E t \in Threads : hand(t) /\ r = <<t, <<0, 0>>>>
  BY FramePlacesAre
<1>3. \A p : slot(p) => f \in HeldIn(slots, UsedIn(next, freeFrame))
  BY DEF HeldIn
<1>4. \A p, s : slot(p) /\ slot(s) => p = s
  BY DEF IInv, FramesPart, Parts, OnceIn
<1>5. /\ \A l, m \in Lists : chained(l) /\ chained(m) => l = m
      /\ pool => (\A l \in Lists : ~chained(l)) /\ (\A p : ~slot(p)) /\ \A t \in Threads : ~hand(t)
      /\ \A p : slot(p) => (\A l \in Lists : ~chained(l)) /\ \A t \in Threads : ~hand(t)
      /\ \A t \in Threads : hand(t) => (\A l \in Lists : ~chained(l)) /\ \A u \in Threads : hand(u) => u = t
  BY <1>3, WaysAre
<1> HIDE DEF chained, pool, slot, hand
<1> QED  BY <1>1, <1>2, <1>4, <1>5

LEMMA InvFramesOnce == IInv => FramesOnce
<1> SUFFICES ASSUME IInv, NEW f \in Frame
             PROVE  Cardinality(FramePlacesIn(Lists, f)) = IF f \in lostFrames THEN 0 ELSE 1
  BY DEF FramesOnce
<1>1. Cardinality(FramePlacesIn(Lists, f)) = IF FramePlacesIn(Lists, f) = {} THEN 0 ELSE 1
  BY FramePlacesAtMostOne, OneOrNone
<1>2. ASSUME f \notin lostFrames PROVE \E q : q \in FramePlacesIn(Lists, f)
  <2>1. CASE \E l \in Lists : f \in Reach(next, head[l].frame)
    BY <2>1, FramePlacesAre
  <2>2. CASE f \in Reach(next, freeFrame.frame)
    BY <2>2, FramePlacesAre
  <2>3. CASE f \in HeldIn(slots, UsedIn(next, freeFrame))
    <3>1. PICK p \in UsedIn(next, freeFrame) : slots[p[1]][p[2]] = f
      BY <2>3 DEF HeldIn
    <3> QED  BY <3>1, FramePlacesAre
  <2>4. CASE \E t \in Threads : job[t].frame = f
    BY <2>4, FramePlacesAre
  <2> QED  BY <1>2, <2>1, <2>2, <2>3, <2>4, WaysAre
<1>3. ASSUME f \in lostFrames, NEW q \in FramePlacesIn(Lists, f) PROVE FALSE
  <2>1. \A p \in UsedIn(next, freeFrame) : slots[p[1]][p[2]] = f => f \in HeldIn(slots, UsedIn(next, freeFrame))
    BY DEF HeldIn
  <2> QED  BY <1>3, <2>1, WaysAre, FramePlacesAre
<1> QED  BY <1>1, <1>2, <1>3

-----------------------------------------------------------------------------
(* The allocator of PoolSpec: what each step gives or takes.               *)

LEMMA GetNodeGives ==
  ASSUME IInv, NEW t \in Threads, GetNode(t), owned' # owned
  PROVE  Promise!Give(t)
<1> DEFINE l == job[t].list
           h == head[l]
           x == slots[h.frame][h.nslot]
<1>1. /\ job[t].at = "get" /\ h.nslot > 0 /\ owned' = [owned EXCEPT ![t] = @ \union {x}]
  <2> HIDE DEF x
  <2> QED  BY Zenon DEF GetNode, At, x, h, l
<1>2. l \in Lists /\ owned \in [Threads -> SUBSET Object]
  <2>1. JobsPart
    BY DEF IInv
  <2>2. job[t] # Idle
    <3>1. job[t].at = "get"
      BY <1>1
    <3> QED  BY <3>1 DEF Idle
  <2>3. PlaceOK(job[t], t)
    BY <2>1, <2>2, JobType
  <2>4. l \in Lists
    BY <1>1, <2>3 DEF PlaceOK, OnList, OffList
  <2> QED  BY <2>1, <2>4 DEF JobsPart
<1>3. Links(next) /\ AddrOK(next, h)
  BY <1>2, ListsAre
<1>4. <<h.frame, h.nslot>> \in UsedIn(next, h)
  BY <1>1, <1>3, UsedPop
<1>5. x \in Cells[l]
  BY <1>2, <1>4, CellsAre DEF StockIn, HeldIn
<1> HIDE DEF x
<1>6. \A u \in Threads : x \notin owned[u]
  <2>1. \A u \in Threads : Cells[u] = Held(u) /\ u # l
    BY <1>2, CellsAre, ThreadList
  <2>2. \A u \in Threads : x \notin Cells[u]
    BY <1>2, <1>5, <2>1 DEF IInv, ObjectsPart, Spread
  <2> QED  BY <2>1, <2>2 DEF Held
<1>7. x \in owned'[t]
  BY <1>1, <1>2
<1> QED  BY <1>1, <1>6, <1>7 DEF Promise!Give

LEMMA AddSlotGives ==
  ASSUME IInv, NEW t \in Threads, AddSlot(t), owned' # owned
  PROVE  Promise!Give(t)
<1> DEFINE o == job[t].obj
<1>1. job[t].at = "add" /\ owned' = [owned EXCEPT ![t] = @ \union {o}]
  BY Zenon DEF AddSlot, At
<1>2. o \notin owned[t] /\ InHand(t) = {o} /\ owned \in [Threads -> SUBSET Object]
  BY <1>1, AddsNew DEF IInv, JobsPart
<1>3. \A u \in Threads : o \notin owned[u]
  <2>1. \A u \in Threads : Cells[u] = owned[u] \union InHand(u)
    BY CellsAre DEF Held
  <2>2. \A u \in Threads : u # t => o \notin Cells[u]
    BY <1>2, <2>1 DEF IInv, ObjectsPart, Spread
  <2> QED  BY <1>2, <2>1, <2>2
<1>4. o \in owned'[t]
  BY <1>1, <1>2
<1> QED  BY <1>1, <1>3, <1>4 DEF Promise!Give

LEMMA CallAddTakes ==
  ASSUME NEW t \in Threads, NEW l \in Lists, NEW o \in owned[t], CallAdd(t, l, o)
  PROVE  Promise!Take(t)
BY DEF CallAdd, Promise!Take

LEMMA PoolStep ==
  IInv /\ [Next]_vars => [Promise!PoolNext]_owned
<1> SUFFICES ASSUME IInv, Next, owned' # owned PROVE Promise!PoolNext
  BY DEF vars
<1>1. ASSUME NEW t \in Threads, Run(t) PROVE Promise!PoolNext
  <2>1. CASE GetNode(t)
    BY <2>1, GetNodeGives DEF Promise!PoolNext
  <2>2. CASE AddSlot(t)
    BY <2>2, AddSlotGives DEF Promise!PoolNext
  <2>3. CASE Latch(t) \/ ReturnFreeFrame(t) \/ InitObjects(t) \/ InitFrame(t)
    BY <2>3 DEF Latch, ReturnFreeFrame, InitObjects, InitFrame
  <2> QED  BY <1>1, <2>1, <2>2, <2>3 DEF Run
<1>2. ASSUME NEW t \in Threads, NEW l \in Lists, CallAlloc(t, l) PROVE FALSE
  BY <1>2 DEF CallAlloc
<1>3. ASSUME NEW t \in Threads, NEW l \in Lists, NEW o \in owned[t], CallAdd(t, l, o)
      PROVE  Promise!PoolNext
  BY <1>3, CallAddTakes DEF Promise!PoolNext
<1>4. ~UNCHANGED vars
  BY DEF vars
<1> QED  BY <1>1, <1>2, <1>3, <1>4 DEF Next, Finished

-----------------------------------------------------------------------------
(* The theorems                                                            *)

\* Every object made is on one free list once, or with one thread, and what is lost is
\* nowhere, whatever frames the lists and the chain of empty frames pass to each other, and
\* wherever allocMap fails.
THEOREM Objects == Spec => []ObjectsOnce
<1> QED  BY Invariance, InvObjectsOnce, PTL

\* Every frame is in one chain, or in a slot of the chain of empty frames, or in the hand of
\* a thread between allocFrame or getNodeFromFrame and returnFreeFrame, once.
THEOREM FrameOwners == Spec => []FramesOnce
<1> QED  BY Invariance, InvFramesOnce, PTL

\* The frames behind the first of a list are full of objects, as getNodeFromFrame takes them
\* to be when it comes to one.
THEOREM Behind == Spec => []FullBehind
<1> QED  BY Invariance, InvFullBehind, PTL

\* allocObj and addSlotToFrame are the allocator of PoolSpec: no object is given to a thread
\* while another has it.
THEOREM Allocator == Spec => Implements
<1>1. Init => Promise!PoolInit
  BY DEF Init, Promise!PoolInit
<1>2. IInv /\ [Next]_vars => [Promise!PoolNext]_owned
  BY PoolStep
<1> QED  BY <1>1, <1>2, Invariance, PTL DEF Spec, Implements, Promise!Pool

-----------------------------------------------------------------------------
(* What else a thread does with a list of its own, one no call is about:   *)
(* the steps of txnCommit and txnRollback.                                 *)

\* An object of the list l is taken off it, to be added to the list m.
TakesOff(t, l, m) ==
  LET h == head[l] IN
  /\ job[t] = Idle /\ latch[l] = None /\ l # m /\ h.nslot > 0
  /\ head' = [head EXCEPT ![l] = Addr(h.frame, h.nslot - 1)]
  /\ job' = [job EXCEPT ![t] = [Idle EXCEPT !.op = "add", !.list = m, !.at = "latch",
                                  !.obj = slots[h.frame][h.nslot]]]
  /\ UNCHANGED <<latch, freeFrame, slots, next, lostFrames, made, room, owned, lostObjects>>

LEMMA TakesOffInv ==
  ASSUME IInv, NEW t \in Threads, NEW l \in Lists, NEW m \in Lists, TakesOff(t, l, m)
  PROVE  IInv' /\ Undisturbed(l)
<1> DEFINE h == head[l]
           x == slots[h.frame][h.nslot]
           b == Addr(h.frame, h.nslot - 1)
           j == [Idle EXCEPT !.op = "add", !.list = m, !.at = "latch", !.obj = x]
<1>1. /\ job \in [Threads -> Jobs] /\ latch \in [Lists -> Threads \union {None}]
      /\ owned \in [Threads -> SUBSET Object] /\ head \in [Lists -> [frame : Nat, nslot : Nat]]
      /\ made \in Nat
  BY DEF IInv, JobsPart
<1>2. /\ job[t] = Idle /\ latch[l] = None /\ l # m /\ h.nslot > 0
      /\ head' = [head EXCEPT ![l] = b] /\ job' = [job EXCEPT ![t] = j]
      /\ UNCHANGED <<latch, freeFrame, slots, next, lostFrames, made, room, owned, lostObjects>>
  BY DEF TakesOff
<1>3. /\ Parts(next, slots, freeFrame, Lists, head, Out, lostFrames) /\ None \notin Lists
      /\ Links(next) /\ SlotsOK(next, slots)
  BY FramesAssumption DEF IInv, FramesPart, Parts
<1>4. AddrOK(next, h)
  BY <1>3, PartsPool
<1>5. h.nslot \in Nat /\ h.frame # 0
  BY <1>1, <1>2, <1>4 DEF AddrOK
<1>6. head'[l] = b /\ b.frame = h.frame /\ \A n \in Lists : n # l => head'[n] = head[n]
  BY <1>1, <1>2 DEF Addr
<1>7. /\ AddrOK(next, b) /\ <<h.frame, h.nslot>> \in UsedIn(next, h)
      /\ UsedIn(next, b) = UsedIn(next, h) \ {<<h.frame, h.nslot>>}
  BY <1>2, <1>3, <1>4, UsedPop
<1>8. OnceIn(slots, UsedIn(next, h))
  BY DEF IInv, ObjectsPart
<1>9. /\ x \in StockIn(next, slots, h) /\ StockIn(next, slots, b) = StockIn(next, slots, h) \ {x}
      /\ OnceIn(slots, UsedIn(next, b))
  <2> DEFINE p == <<h.frame, h.nslot>>
  <2>1. x = slots[p[1]][p[2]] /\ p \in UsedIn(next, h) /\ UsedIn(next, b) = UsedIn(next, h) \ {p}
    BY <1>7
  <2> HIDE DEF p, x, b, h
  <2>2. /\ slots[p[1]][p[2]] \in HeldIn(slots, UsedIn(next, h))
        /\ HeldIn(slots, UsedIn(next, h) \ {p}) = HeldIn(slots, UsedIn(next, h)) \ {slots[p[1]][p[2]]}
        /\ OnceIn(slots, UsedIn(next, h) \ {p})
    BY <1>8, <2>1, HeldMinus
  <2> QED  BY <2>1, <2>2 DEF StockIn
<1> HIDE DEF x, b
<1>10. x \in Object /\ x \in Nat /\ x # 0
  <2>1. x \in Object
    BY <1>9, CellsAre DEF IInv, ObjectsPart, Spread
  <2> QED  BY <1>1, <2>1 DEF Object
<1>11. PICK g \in Jobs : /\ g = j /\ g.obj = x /\ g.frame = NoFrame /\ g.at = "latch"
                         /\ g.op = "add" /\ g.list = m
  <2>1. j \in Jobs /\ j.obj = x /\ j.frame = NoFrame /\ j.at = "latch" /\ j.op = "add" /\ j.list = m
    BY <1>10 DEF Jobs, Idle, NoFrame, Stages
  <2> HIDE DEF j
  <2> QED  BY <2>1
<1> HIDE DEF j
<1>12. job'[t] = g /\ \A u \in Threads \ {t} : job'[u] = job[u]
  BY <1>1, <1>2, <1>11
<1>13. FramesPart' /\ HandsApart'
  <2>1. Out' = Out /\ HandsApart'
    <3>1. \A u \in Threads : job'[u].frame = job[u].frame
      BY <1>2, <1>11, <1>12 DEF Idle
    <3> QED  BY <3>1, HandsSame DEF IInv
  <2>2. Nudged(next, slots, freeFrame, Lists, head, slots, head')
    <3>1. \A n \in Lists : AddrOK(next, head[n])
      BY <1>3, PartsPool
    <3>2. \A n \in Lists : head'[n].frame = head[n].frame /\ AddrOK(next, head'[n])
      BY <1>6, <1>7, <3>1
    <3> QED  BY <1>3, <3>2 DEF Nudged
  <2>3. Parts(next, slots, freeFrame, Lists, head', Out, lostFrames)
    BY <1>3, <2>2, PartsNudged
  <2> QED  BY <1>2, <2>1, <2>3 DEF FramesPart
<1>14. ObjectsPart'
  <2>1. InHand(t) = {} /\ InHand(t)' = {x} /\ owned'[t] = owned[t]
    BY <1>2, <1>10, <1>11, <1>12 DEF InHand, At, Idle
  <2>2. \A u \in Threads \ {t} : HoldStays(u)
    BY <1>2, <1>12, HoldUnmoved DEF IInv
  <2>3. \A n \in Lists \ {l} : StockStays(n)
    BY <1>2, <1>6 DEF IInv, ObjectsPart, StockStays
  <2>4. Moved(l, t, {x})
    <3>1. Cells[l] = StockIn(next, slots, h) /\ Cells'[l] = StockIn(next, slots, b)
      BY <1>2, <1>6, CellsAre
    <3>2. Cells'[t] = Cells[t] \union {x}
      BY <2>1, CellsAre DEF Held
    <3>3. \A c \in (Lists \union Threads) \ {l, t} : Cells'[c] = Cells[c]
      BY <2>2, <2>3, CellsAre DEF HoldStays, StockStays
    <3> QED  BY <1>9, <3>1, <3>2, <3>3, ThreadList DEF Moved
  <2>5. ObjectsApart'
    <3>1. \A n \in Lists : OnceIn(slots', UsedIn(next', head'[n]))
      BY <1>2, <1>6, <1>9, <2>3 DEF StockStays
    <3>2. x \notin owned[t]
      <4>1. x \in Cells[l] /\ owned[t] \subseteq Cells[t] /\ l # t
        BY <1>9, CellsAre, ThreadList DEF Held
      <4> QED  BY <4>1 DEF IInv, ObjectsPart, Spread
    <3>3. \A u \in Threads : owned'[u] \intersect InHand(u)' = {}
      BY <2>1, <2>2, <3>2 DEF HoldStays
    <3> QED  BY <3>1, <3>3 DEF ObjectsApart
  <2> QED  BY <1>2, <2>4, <2>5, ObjectsMove DEF IInv
<1>15. Undisturbed(l)
  BY <1>2, <1>6 DEF Undisturbed
<1>16. JobsPart'
  <2>1. PlaceOK(g, t)'
    BY <1>10, <1>11 DEF PlaceOK, OnList, OffList
  <2>2. latch[l] \notin Threads \ {t}
    BY <1>2, FramesAssumption
  <2>3. job' \in [Threads -> Jobs] /\ PlacesOK'
    BY <1>1, <1>2, <1>11, <1>15, <2>1, <2>2, JobStep DEF IInv, JobsPart
  <2>4. head' \in [Lists -> [frame : Nat, nslot : Nat]]
    <3>1. b \in [frame : Nat, nslot : Nat]
      <4>1. h.frame \in Nat /\ h.nslot - 1 \in Nat
        BY <1>1, <1>2, <1>5
      <4> QED  BY <4>1 DEF b, Addr
    <3> QED  BY <1>1, <1>2, <3>1
  <2> QED  BY <1>1, <1>2, <2>3, <2>4 DEF IInv, JobsPart, Object
<1> QED  BY <1>13, <1>14, <1>15, <1>16 DEF IInv

\* The only frame of the list l, empty by now, is taken off it and returned.
GivesUp(t, l) ==
  LET h == head[l] IN
  /\ job[t] = Idle /\ latch[l] = None /\ h.frame # NoFrame /\ h.nslot = 0 /\ next[h.frame] = NoFrame
  /\ head' = [head EXCEPT ![l] = Addr(NoFrame, 0)]
  /\ job' = [job EXCEPT ![t] = [Idle EXCEPT !.op = "return", !.at = "return", !.frame = h.frame]]
  /\ UNCHANGED <<latch, freeFrame, slots, next, lostFrames, made, room, owned, lostObjects>>

LEMMA GivesUpInv ==
  ASSUME IInv, NEW t \in Threads, NEW l \in Lists, GivesUp(t, l)
  PROVE  IInv' /\ Undisturbed(l)
<1> DEFINE h == head[l]
           x == h.frame
           b == Addr(NoFrame, 0)
           j == [Idle EXCEPT !.op = "return", !.at = "return", !.frame = x]
<1>1. /\ job \in [Threads -> Jobs] /\ latch \in [Lists -> Threads \union {None}]
      /\ owned \in [Threads -> SUBSET Object] /\ head \in [Lists -> [frame : Nat, nslot : Nat]]
  BY DEF IInv, JobsPart
<1>2. /\ job[t] = Idle /\ latch[l] = None /\ x # 0 /\ h.nslot = 0 /\ next[x] = 0
      /\ head' = [head EXCEPT ![l] = b] /\ job' = [job EXCEPT ![t] = j]
      /\ UNCHANGED <<latch, freeFrame, slots, next, lostFrames, made, room, owned, lostObjects>>
  BY DEF GivesUp, NoFrame
<1>3. /\ Parts(next, slots, freeFrame, Lists, head, Out, lostFrames) /\ None \notin Lists /\ Links(next)
  BY FramesAssumption DEF IInv, FramesPart, Parts
<1>4. AddrOK(next, h) /\ x \in Nat
  BY <1>1, <1>3, PartsPool
<1>5. head'[l] = b /\ b.frame = next[x] /\ \A n \in Lists : n # l => head'[n] = head[n]
  BY <1>1, <1>2 DEF Addr, NoFrame
<1>6. AddrOK(next, b) /\ UsedIn(next, b) = {}
  <2>1. b \in Addresses(next) /\ b.frame = 0 /\ b.nslot = 0
    BY <1>3, FramesAssumption DEF Addresses, Addr, NoFrame, Links
  <2> HIDE DEF b
  <2> QED  BY <2>1, ReachNone DEF AddrOK, Acyclic, UsedIn
<1>7. UsedIn(next, h) = {}
  BY <1>2, <1>3, <1>4, UsedNext
<1>8. PICK g \in Jobs : /\ g = j /\ g.obj = 0 /\ g.frame = x /\ g.at = "return"
                        /\ g.op = "return" /\ g.list = None
  <2>1. j \in Jobs /\ j.obj = 0 /\ j.frame = x /\ j.at = "return" /\ j.op = "return" /\ j.list = None
    BY <1>4 DEF Jobs, Idle, NoFrame, Stages
  <2> HIDE DEF j
  <2> QED  BY <2>1
<1> HIDE DEF j, b
<1>9. job'[t] = g /\ \A u \in Threads \ {t} : job'[u] = job[u]
  BY <1>1, <1>2, <1>8
<1>10. FramesPart' /\ HandsApart'
  <2>1. /\ Parts(next, slots, freeFrame, Lists, head', Out \union {x}, lostFrames)
        /\ x \notin Out
    <3>1. Drop(next, slots, freeFrame, Lists, head, Out, lostFrames, l, b, head')
      BY <1>2, <1>3, <1>5, <1>6 DEF Drop
    <3> QED  BY <3>1, PartsDrop
  <2>2. Out' = Out \union {x} /\ HandsApart'
    <3>1. job[t].frame = NoFrame /\ x # NoFrame
      BY <1>2 DEF Idle, NoFrame
    <3> QED  BY <1>8, <1>9, <2>1, <3>1, HandTakes DEF IInv
  <2> QED  BY <1>2, <2>1, <2>2 DEF FramesPart
<1>11. ObjectsPart'
  <2>1. HoldStays(t)
    <3>1. InHand(t)' = InHand(t)
      BY <1>2, <1>8, <1>9 DEF InHand, At, Idle
    <3> QED  BY <1>2, <3>1 DEF HoldStays, Held, IInv, ObjectsPart
  <2>2. \A u \in Threads : HoldStays(u)
    BY <1>2, <1>9, <2>1, HoldUnmoved DEF IInv
  <2>3. \A n \in Lists : StockStays(n)
    BY <1>2, <1>5, <1>6, <1>7 DEF IInv, ObjectsPart, StockStays, StockIn
  <2> QED  BY <1>2, <2>2, <2>3, ObjectsStill DEF IInv
<1>12. Undisturbed(l)
  BY <1>2, <1>5 DEF Undisturbed
<1>13. JobsPart'
  <2>1. PlaceOK(g, t)'
    BY <1>2, <1>8 DEF PlaceOK, OnList, OffList, NoFrame
  <2>2. latch[l] \notin Threads \ {t}
    BY <1>2, FramesAssumption
  <2>3. job' \in [Threads -> Jobs] /\ PlacesOK'
    BY <1>1, <1>2, <1>8, <1>12, <2>1, <2>2, JobStep DEF IInv, JobsPart
  <2>4. head' \in [Lists -> [frame : Nat, nslot : Nat]]
    <3>1. b \in [frame : Nat, nslot : Nat]
      BY DEF b, Addr, NoFrame
    <3> QED  BY <1>1, <1>2, <3>1
  <2> QED  BY <1>1, <1>2, <2>3, <2>4 DEF IInv, JobsPart, Object
<1> QED  BY <1>10, <1>11, <1>12, <1>13 DEF IInv

LEMMA AddrsAre == IInv => Links(next) /\ \A m \in Lists : AddrOK(next, head[m])
BY ListsAre

LEMMA AddrsAreNext == (IInv => Links(next) /\ \A m \in Lists : AddrOK(next, head[m]))'
BY AddrsAre, PTL

LEMMA AloneStays ==
  ASSUME IInv, IInv', NEW l, Undisturbed(l), NEW m \in Lists, m # l, Alone(next, head[m])
  PROVE  head'[m] = head[m] /\ Alone(next', head'[m])
<1>1. head'[m] = head[m] /\ UsedIn(next', head'[m]) = UsedIn(next, head[m])
  BY DEF Undisturbed
<1>2. Links(next) /\ AddrOK(next, head[m])
  BY ListsAre
<1>3. Links(next') /\ AddrOK(next', head'[m])
  BY AddrsAreNext
<1> QED  BY <1>1, <1>2, <1>3, AloneSame

-----------------------------------------------------------------------------
(* What a step of a call does while memory is left, seen from outside.     *)

GoesOn(t) ==
  LET j == job[t]  l == j.list IN
  /\ job'[t].op = j.op /\ job'[t].list = l /\ l \in Lists /\ owned'[t] = owned[t]
  /\ latch'[l] = latch[l] \/ latch'[l] = t
  /\ j.op = "add" => head'[l] = head[l] /\ next' = next

Ends(t) ==
  LET j == job[t]  l == j.list  h == head[l] IN
  /\ job'[t] = Idle
  /\ \/ j.op = "return" /\ l = None /\ owned'[t] = owned[t] /\ latch' = latch
     \/ /\ j.op = "alloc" /\ l \in Lists /\ latch'[l] = None
        /\ \E x \in Object : owned'[t] = owned[t] \union {x}
     \/ /\ j.op = "add" /\ l \in Lists /\ latch'[l] = None /\ owned'[t] = owned[t]
        /\ \/ HasSpace(h) /\ head'[l] = Addr(h.frame, h.nslot + 1) /\ next' = next
           \/ ~HasSpace(h) /\ \E f : f # 0 /\ head'[l] = Addr(f, 1) /\ next'[f] = h.frame

Effect(t) ==
  /\ \A u \in Threads \ {t} : job'[u] = job[u] /\ owned'[u] = owned[u]
  /\ lostObjects' = lostObjects
  /\ GoesOn(t) \/ Ends(t)

LEMMA RunEffect ==
  ASSUME IInv, room > 0, NEW t \in Threads, Run(t)
  PROVE  Effect(t)
<1> DEFINE l == job[t].list
           h == head[l]
<1>1. /\ job \in [Threads -> Jobs] /\ latch \in [Lists -> Threads \union {None}]
      /\ owned \in [Threads -> SUBSET Object] /\ head \in [Lists -> [frame : Nat, nslot : Nat]]
  BY DEF IInv, JobsPart
<1>2. job[t] = Idle \/ PlaceOK(job[t], t)
  BY JobType DEF IInv
<1>3. CanAllocFrame
  BY DEF CanAllocFrame
<1>4. CASE Latch(t)
  <2>1. /\ job[t].at = "latch" /\ latch' = [latch EXCEPT ![l] = t]
        /\ job' = [job EXCEPT ![t] = [@ EXCEPT !.at = IF job[t].op = "alloc" THEN "get" ELSE "add"]]
        /\ UNCHANGED <<head, next, owned, lostObjects>>
    BY <1>4 DEF Latch, At, poolVars, frameVars
  <2>2. l \in Lists
    BY <1>2, <2>1 DEF Idle, PlaceOK, OnList, OffList
  <2>3. job'[t].op = job[t].op /\ job'[t].list = l /\ \A u \in Threads \ {t} : job'[u] = job[u]
    BY <1>1, <2>1 DEF Jobs
  <2> QED  BY <1>1, <2>1, <2>2, <2>3 DEF Effect, GoesOn
<1>5. CASE GetNode(t)
  <2>1. job[t].at = "get" /\ UNCHANGED lostObjects
    BY <1>5 DEF GetNode, At
  <2>2. l \in Lists /\ job[t].op = "alloc"
    BY <1>2, <2>1 DEF Idle, PlaceOK, OnList, OffList
  <2>3. CASE h.frame # NoFrame /\ h.nslot > 0
    <3> DEFINE x == slots[h.frame][h.nslot]
    <3>1. owned' = [owned EXCEPT ![t] = @ \union {x}] /\ Unlatch(t)
      <4>1. h.nslot # 0
        BY <2>3
      <4> HIDE DEF x
      <4> QED  BY <1>5, <2>3, <4>1, Zenon DEF GetNode, More, h, l, x
    <3>2. x \in Object
      <4>1. Links(next) /\ AddrOK(next, h)
        BY <2>2, ListsAre
      <4>2. <<h.frame, h.nslot>> \in UsedIn(next, h)
        BY <2>3, <4>1, UsedPop DEF NoFrame
      <4>3. x \in StockIn(next, slots, h)
        BY <4>2 DEF StockIn, HeldIn
      <4> HIDE DEF x
      <4> QED  BY <2>2, <4>3, CellsAre DEF IInv, ObjectsPart, Spread
    <3> HIDE DEF x
    <3> QED  BY <1>1, <2>1, <2>2, <3>1, <3>2 DEF Effect, Ends, Unlatch
  <2>4. CASE ~(h.frame # NoFrame /\ h.nslot > 0)
    <3>1. UNCHANGED <<latch, owned>> /\ \E p, f : job' = [job EXCEPT ![t] = [@ EXCEPT !.at = p, !.frame = f]]
      <4>1. CASE /\ job' = [job EXCEPT ![t].at = "return", ![t].frame = h.frame]
                 /\ UNCHANGED <<latch, owned>>
        <5>1. job' = [job EXCEPT ![t] = [@ EXCEPT !.at = "return", !.frame = h.frame]]
          BY <1>1, <4>1
        <5> QED  BY <4>1, <5>1
      <4>2. CASE job' = [job EXCEPT ![t].at = "objects"] /\ UNCHANGED <<head, latch, owned>>
        <5>1. job' = [job EXCEPT ![t] = [@ EXCEPT !.at = "objects", !.frame = job[t].frame]]
          BY <1>1, <4>2 DEF Jobs
        <5> QED  BY <4>2, <5>1
      <4> QED  BY <1>5, <2>4, <4>1, <4>2 DEF GetNode
    <3>2. job'[t].op = job[t].op /\ job'[t].list = l /\ \A u \in Threads \ {t} : job'[u] = job[u]
      BY <1>1, <3>1 DEF Jobs
    <3> QED  BY <1>1, <2>1, <2>2, <3>1, <3>2 DEF Effect, GoesOn
  <2> QED  BY <2>3, <2>4
<1>6. CASE ReturnFreeFrame(t)
  <2>1. /\ job[t].at = "return" /\ UNCHANGED <<head, latch, owned, lostObjects>>
        /\ job' = [job EXCEPT ![t] = IF @.op = "alloc" THEN [@ EXCEPT !.at = "get", !.frame = NoFrame]
                                     ELSE Idle]
    BY <1>6 DEF ReturnFreeFrame, At
  <2>2. CASE OnList(job[t], t)
    <3>1. job[t].op = "alloc" /\ l \in Lists
      BY <2>1, <2>2 DEF OnList
    <3>2. job'[t].op = job[t].op /\ job'[t].list = l /\ \A u \in Threads \ {t} : job'[u] = job[u]
      BY <1>1, <2>1, <3>1 DEF Jobs
    <3> QED  BY <1>1, <2>1, <3>1, <3>2 DEF Effect, GoesOn
  <2>3. CASE OffList(job[t])
    <3>1. job[t].op = "return" /\ l = None
      BY <2>3 DEF OffList
    <3>2. job'[t] = Idle /\ \A u \in Threads \ {t} : job'[u] = job[u]
      BY <1>1, <2>1, <3>1
    <3> QED  BY <1>1, <2>1, <3>1, <3>2 DEF Effect, Ends
  <2> QED  BY <1>2, <2>1, <2>2, <2>3 DEF PlaceOK, Idle
<1>7. CASE InitObjects(t)
  <2>1. /\ job[t].at = "objects" /\ UNCHANGED <<latch, owned, lostObjects>>
        /\ \/ job' = [job EXCEPT ![t].at = "get"]
           \/ job' = [job EXCEPT ![t].at = "frame", ![t].obj = made]
    BY <1>7 DEF InitObjects, At
  <2>2. l \in Lists /\ job[t].op = "alloc"
    BY <1>2, <2>1 DEF Idle, PlaceOK, OnList, OffList
  <2>3. job'[t].op = job[t].op /\ job'[t].list = l /\ \A u \in Threads \ {t} : job'[u] = job[u]
    BY <1>1, <2>1 DEF Jobs
  <2> QED  BY <1>1, <2>1, <2>2, <2>3 DEF Effect, GoesOn
<1>8. CASE InitFrame(t)
  <2>1. /\ job[t].at = "frame" /\ UNCHANGED <<latch, owned, lostObjects>>
        /\ job' = [job EXCEPT ![t].at = "get", ![t].obj = 0]
    BY <1>3, <1>8 DEF InitFrame, At
  <2>2. l \in Lists /\ job[t].op = "alloc"
    BY <1>2, <2>1 DEF Idle, PlaceOK, OnList, OffList
  <2>3. job'[t].op = job[t].op /\ job'[t].list = l /\ \A u \in Threads \ {t} : job'[u] = job[u]
    BY <1>1, <2>1 DEF Jobs
  <2> QED  BY <1>1, <2>1, <2>2, <2>3 DEF Effect, GoesOn
<1>9. CASE AddSlot(t)
  <2>1. job[t].at = "add" /\ UNCHANGED lostObjects
    BY <1>9 DEF AddSlot, At
  <2>2. l \in Lists /\ job[t].op = "add"
    BY <1>2, <2>1 DEF Idle, PlaceOK, OnList, OffList
  <2>3. CASE HasSpace(h)
    <3>1. /\ head' = [head EXCEPT ![l].nslot = @ + 1] /\ Unlatch(t) /\ UNCHANGED <<next, owned>>
      BY <1>9, <2>3 DEF AddSlot
    <3>2. head'[l] = Addr(h.frame, h.nslot + 1)
      BY <1>1, <2>2, <3>1 DEF Addr
    <3> QED  BY <1>1, <2>1, <2>2, <2>3, <3>1, <3>2 DEF Effect, Ends, Unlatch
  <2>4. CASE ~HasSpace(h)
    <3> DEFINE a == AllocFrame
    <3> HIDE DEF a
    <3>1. /\ next' = [a.next EXCEPT ![a.frame] = h.frame] /\ head' = [head EXCEPT ![l] = Addr(a.frame, 1)]
          /\ Unlatch(t) /\ UNCHANGED owned
      BY <1>3, <1>9, <2>4 DEF AddSlot, a
    <3>2. a.frame \in 1..Len(a.next) /\ a.next \in Seq(Nat)
      <4>1. /\ Parts(next, slots, freeFrame, Lists, head, Out, lostFrames) /\ None \notin Lists /\ room \in Nat
        BY FramesAssumption DEF IInv, FramesPart, JobsPart
      <4>2. AllocedOK(a, Lists, head, Out)
        BY <1>3, <4>1, AllocParts DEF a
      <4> QED  BY <4>2 DEF AllocedOK, Parts, Links
    <3>3. next'[a.frame] = h.frame /\ head'[l] = Addr(a.frame, 1) /\ a.frame # 0
      BY <1>1, <2>2, <3>1, <3>2
    <3> QED  BY <1>1, <2>1, <2>2, <2>4, <3>1, <3>3 DEF Effect, Ends, Unlatch
  <2> QED  BY <2>3, <2>4
<1> QED  BY <1>4, <1>5, <1>6, <1>7, <1>8, <1>9 DEF Run

=============================================================================
