---------------------------- MODULE BtreeProofs ----------------------------
(***************************************************************************)
(* Proofs about Btree, for every set of threads, every page size and every *)
(* choice of split points: pages, frames and leaf links are well formed,   *)
(* no key whose insertion has returned leaves the chain of leaves, and the *)
(* locks are held by exactly the frames that work under them.  The second  *)
(* half is about the order of the tree: which slot leads to which page,    *)
(* also while splits are half posted, so that every search finds its key   *)
(* and the tree implements the set of BtreeSpec.                           *)
(***************************************************************************)
EXTENDS Btree, Lemmas

-----------------------------------------------------------------------------
(* The invariant: pages                                                    *)

KeySet == Keys \union {Stopper}
SlotType == [key : KeySet, child : Nat, stop : BOOLEAN]
PageType == [lvl : Nat, slots : Seq(SlotType), right : Nat, left : Nat]

Cap(l) == IF l = 0 THEN LeafCap ELSE NodeCap

\* Page p of ps has slots, but not too many; its children are one level down
\* and its right sibling on its level; only the root is on the root's level.
PageOK(ps, p) ==
  /\ Len(ps[p].slots) \in 1..Cap(ps[p].lvl)
  /\ ps[p].left \in {NoPage} \union 1..Len(ps)
  /\ ps[p].right # NoPage => /\ ps[p].right \in 1..Len(ps)
                             /\ ps[p].right # p
                             /\ ps[ps[p].right].lvl = ps[p].lvl
  /\ ps[p].lvl > 0 => \A i \in 1..Len(ps[p].slots) :
                        /\ ps[p].slots[i].child \in 1..Len(ps)
                        /\ ps[ps[p].slots[i].child].lvl = ps[p].lvl - 1
  /\ IF p = Root THEN ps[p].right = NoPage ELSE ps[p].lvl < ps[Root].lvl
  /\ ps[p].lvl = 0 /\ ps[p].right # NoPage => ps[ps[p].right].left = p

PagesOK(ps) ==
  /\ ps \in Seq(PageType)
  /\ Len(ps) \in 2..MaxPages
  /\ ps[Leaf].lvl = 0
  /\ \A p \in 1..Len(ps) : PageOK(ps, p)

-----------------------------------------------------------------------------
(* The invariant: frames                                                   *)

FrameType ==
  [op : {"insert", "fix"}, key : KeySet, child : Nat, stop : BOOLEAN, lvl : Nat,
   pageNo : Nat, drill : Nat, at : {"load", "page", "split", "parent"},
   low : Nat, fence : Nat, right : Nat, last : BOOLEAN]

\* A frame is on a page of the level it is for, or on its way to one.
FrameOK(ps, f) ==
  /\ f \in FrameType
  /\ f.pageNo \in 1..Len(ps)
  /\ f.lvl <= ps[Root].lvl
  /\ IF f.lvl = 0 THEN f.op = "insert" /\ f.key \in Keys
     ELSE f.child \in 1..Len(ps) /\ ps[f.child].lvl = f.lvl - 1
  /\ f.at = "load" => /\ ps[f.pageNo].lvl >= f.lvl
                      /\ f.pageNo # Root => ps[f.pageNo].lvl = f.drill
  /\ f.at # "load" => ps[f.pageNo].lvl = f.lvl
  /\ f.at = "page" => FindSlot(ps[f.pageNo], f.key, f.stop) # 0
  /\ f.at \in {"split", "parent"} =>
       /\ f.op = "insert" /\ f.pageNo # Root
       /\ f.right \in 1..Len(ps) /\ ps[f.right].lvl = f.lvl
       /\ f.low \in KeySet /\ f.fence \in KeySet

\* The frames under the top one wait with the parent locks of their split, and
\* each is one level below the one above it, the last one on the leaves.
StackOK(ps, s) ==
  /\ s \in Seq(FrameType)
  /\ \A i \in 1..Len(s) : FrameOK(ps, s[i])
  /\ \A i \in 1..Len(s) : s[i].at = "parent" <=> i > 1
  /\ \A i \in 1..Len(s) : s[i].lvl = Len(s) - i

\* Thread t has the write lock on the page it has come to.
Holds(wl, t, s) ==
  s # <<>> /\ s[1].at \in {"page", "split"} => wl[s[1].pageNo] = t

LocksTyped ==
  /\ wlock \in [Pages -> Threads \union {None}]
  /\ plock \in [Pages -> Threads \union {None}]

StacksOK == \A t \in Threads : StackOK(pages, stack[t]) /\ Holds(wlock, t, stack[t])

-----------------------------------------------------------------------------
(* The invariant: the chain of leaves                                      *)

InLeaf(ps, k) == \E p \in 1..Len(ps) :
  ps[p].lvl = 0 /\ \E i \in 1..Len(ps[p].slots) : ps[p].slots[i].key = k

\* A set of pages that a walk along the leaves, once in it, never leaves.
RightClosed(ps, S) ==
  \A p \in S \intersect 1..Len(ps) :
     ps[p].lvl = 0 /\ ps[p].right # NoPage => ps[p].right \in S

\* A walk from the leftmost leaf along right links comes to page p.
OnChain(ps, p) ==
  \A S \in SUBSET (1..Len(ps)) : Leaf \in S /\ RightClosed(ps, S) => p \in S

ChainOK(ps) == \A p \in 1..Len(ps) : ps[p].lvl = 0 => OnChain(ps, p)

ReturnedOK == \A k \in returned : InLeaf(pages, k)

IInv ==
  /\ PagesOK(pages)
  /\ LocksTyped
  /\ stack \in [Threads -> Seq(FrameType)]
  /\ StacksOK
  /\ ChainOK(pages)
  /\ ReturnedOK

-----------------------------------------------------------------------------
(* The invariant: who holds which lock                                     *)

WriteLocks ==
  \A p \in Pages, t \in Threads :
     wlock[p] = t => /\ stack[t] # <<>>
                     /\ Top(t).at \in {"page", "split"}
                     /\ Top(t).pageNo = p

\* Frame f of a thread waits with the parent lock of page p.
Waits(f, p) == f.at = "parent" /\ p \in {f.pageNo, f.right}

ParentLocks ==
  \A p \in Pages, t \in Threads :
     plock[p] = t <=> \E i \in 1..Len(stack[t]) : Waits(stack[t][i], p)

\* No page leads to page r, but for the right link of page p.
NoLink(ps, r, p) ==
  \A q \in 1..Len(ps) :
     /\ ps[q].right = r => q = p
     /\ ps[q].lvl > 0 => \A i \in 1..Len(ps[q].slots) : ps[q].slots[i].child # r

\* Frame f has nothing to do with page r.
Unknown(f, r) ==
  /\ f.pageNo # r
  /\ f.at \in {"split", "parent"} => f.right # r
  /\ f.lvl > 0 => f.child # r

\* Until its fence is posted nobody can come to the new page of a split, but
\* through the page that was split, which is still write-locked.
Private ==
  \A t \in Threads : stack[t] # <<>> /\ Top(t).at = "split" =>
    /\ NoLink(pages, Top(t).right, Top(t).pageNo)
    /\ \A u \in Threads : \A i \in 1..Len(stack[u]) :
         u # t \/ i # 1 => Unknown(stack[u][i], Top(t).right)

LInv == WriteLocks /\ ParentLocks /\ Private

-----------------------------------------------------------------------------
(* What FindSlot finds                                                     *)

LEMMA SlotFound ==
  ASSUME NEW pg, NEW k, NEW stop \in BOOLEAN, Len(pg.slots) \in Nat, Len(pg.slots) > 0
  PROVE  /\ FindSlot(pg, k, stop) \in 0..Len(pg.slots)
         /\ FindSlot(pg, k, stop) = 0 => pg.right # NoPage
<1> DEFINE n == Len(pg.slots)
           S == {i \in 1..n : NotBelow(pg.slots[i], k) \/ (i = n /\ pg.right = NoPage)}
<1>1. S \in SUBSET Nat /\ S \subseteq 1..n
  OBVIOUS
<1>2. S = {} => pg.right # NoPage
  <2>1. ASSUME pg.right = NoPage PROVE n \in S
    BY <2>1
  <2> QED  BY <2>1
<1>3. FindSlot(pg, k, stop) = IF stop THEN n ELSE IF S = {} THEN 0
                              ELSE CHOOSE i \in S : \A j \in S : i <= j
  BY DEF FindSlot
<1> HIDE DEF S
<1>4. ASSUME S # {} PROVE (CHOOSE i \in S : \A j \in S : i <= j) \in S
  BY <1>1, <1>4, LeastNumber
<1>5. CASE stop
  BY <1>3, <1>5
<1>6. CASE ~stop /\ S = {}
  BY <1>2, <1>3, <1>6
<1>7. CASE ~stop /\ S # {}
  <2> DEFINE x == FindSlot(pg, k, stop)
  <2>1. x \in S
    BY <1>3, <1>4, <1>7
  <2> HIDE DEF x
  <2>2. x \in 1..n
    BY <2>1, <1>1
  <2>3. x \in 0..n /\ x # 0
    BY <2>2
  <2> QED  BY <2>3 DEF x
<1> QED  BY <1>5, <1>6, <1>7

-----------------------------------------------------------------------------
(* Frames stay well formed while other threads make the tree grow          *)

\* Between ps and qs pages were added, and none but the root changed its level.
Grown(ps, qs) ==
  /\ Len(qs) \in Nat
  /\ Len(ps) <= Len(qs)
  /\ ps[Root].lvl <= qs[Root].lvl
  /\ qs[Root].lvl \in Nat
  /\ \A p \in 1..Len(ps) : p # Root => qs[p].lvl = ps[p].lvl

\* What a thread with the write lock on page p relies on.
Same(ps, qs, p) ==
  qs[p].lvl = ps[p].lvl /\ qs[p].slots = ps[p].slots /\ qs[p].right = ps[p].right

LEMMA PagesTyped ==
  ASSUME NEW ps, PagesOK(ps)
  PROVE  /\ Len(ps) \in Nat /\ Len(ps) >= 2
         /\ Root \in 1..Len(ps) /\ Leaf \in 1..Len(ps)
         /\ \A p \in 1..Len(ps) :
              /\ ps[p] \in PageType
              /\ ps[p].lvl \in Nat /\ ps[p].right \in Nat /\ ps[p].left \in Nat
              /\ ps[p].slots \in Seq(SlotType)
              /\ Len(ps[p].slots) \in Nat /\ Len(ps[p].slots) > 0
              /\ \A i \in 1..Len(ps[p].slots) :
                   /\ ps[p].slots[i] \in SlotType
                   /\ ps[p].slots[i].key \in KeySet /\ ps[p].slots[i].child \in Nat
<1>1. Len(ps) \in Nat /\ Len(ps) >= 2 /\ Root \in 1..Len(ps) /\ Leaf \in 1..Len(ps)
  BY DEF PagesOK, Root, Leaf
<1>2. ASSUME NEW p \in 1..Len(ps) PROVE ps[p] \in PageType /\ PageOK(ps, p)
  BY <1>1 DEF PagesOK
<1>3. ASSUME NEW p \in 1..Len(ps)
      PROVE  /\ ps[p].lvl \in Nat /\ ps[p].right \in Nat /\ ps[p].left \in Nat
             /\ ps[p].slots \in Seq(SlotType)
  BY <1>2 DEF PageType
<1>4. ASSUME NEW p \in 1..Len(ps) PROVE Len(ps[p].slots) \in Nat /\ Len(ps[p].slots) > 0
  <2>1. Len(ps[p].slots) \in 1..Cap(ps[p].lvl)
    BY <1>2 DEF PageOK
  <2>2. Len(ps[p].slots) \in Nat
    BY <1>3
  <2> QED  BY <2>1, <2>2
<1>5. ASSUME NEW p \in 1..Len(ps), NEW i \in 1..Len(ps[p].slots)
      PROVE  /\ ps[p].slots[i] \in SlotType
             /\ ps[p].slots[i].key \in KeySet /\ ps[p].slots[i].child \in Nat
  <2>1. ps[p].slots[i] \in SlotType
    BY <1>3
  <2> QED  BY <2>1 DEF SlotType
<1> QED  BY <1>1, <1>2, <1>3, <1>4, <1>5

LEMMA FrameTyped ==
  ASSUME NEW f \in FrameType
  PROVE  /\ f.op \in {"insert", "fix"} /\ f.key \in KeySet /\ f.child \in Nat
         /\ f.stop \in BOOLEAN /\ f.lvl \in Nat /\ f.pageNo \in Nat /\ f.drill \in Nat
         /\ f.at \in {"load", "page", "split", "parent"}
         /\ f.low \in Nat /\ f.fence \in Nat /\ f.right \in Nat /\ f.last \in BOOLEAN
BY DEF FrameType

LEMMA FrameKept ==
  ASSUME NEW ps, NEW qs, NEW f, PagesOK(ps), Grown(ps, qs), FrameOK(ps, f),
         f.at = "page" => Same(ps, qs, f.pageNo)
  PROVE  FrameOK(qs, f)
<1>1. /\ f \in FrameType /\ f.lvl \in Nat /\ f.pageNo \in Nat /\ f.child \in Nat /\ f.right \in Nat
  BY FrameTyped DEF FrameOK
<1>2. /\ Len(ps) \in Nat /\ Len(qs) \in Nat /\ Len(ps) <= Len(qs) /\ ps[Root].lvl \in Nat
      /\ qs[Root].lvl \in Nat /\ ps[Root].lvl <= qs[Root].lvl
  BY PagesTyped DEF Grown
<1>3. ASSUME NEW p \in 1..Len(ps)
      PROVE  p \in 1..Len(qs) /\ (p # Root => qs[p].lvl = ps[p].lvl /\ ps[p].lvl < ps[Root].lvl)
  BY <1>2 DEF Grown, PagesOK, PageOK
<1>4. f.pageNo \in 1..Len(qs) /\ f.lvl <= qs[Root].lvl
  BY <1>1, <1>2, <1>3, SMTT(30) DEF FrameOK
<1>5. IF f.lvl = 0 THEN f.op = "insert" /\ f.key \in Keys
      ELSE f.child \in 1..Len(qs) /\ qs[f.child].lvl = f.lvl - 1
  <2>1. CASE f.lvl = 0
    BY <2>1 DEF FrameOK
  <2>2. CASE f.lvl # 0
    <3>1. f.child \in 1..Len(ps) /\ ps[f.child].lvl = f.lvl - 1 /\ f.lvl <= ps[Root].lvl
      BY <2>2 DEF FrameOK
    <3>2. f.child # Root
      BY <3>1, <1>1, <1>2
    <3> QED  BY <2>2, <3>1, <3>2, <1>3
  <2> QED  BY <2>1, <2>2
<1>6. f.at = "load" => /\ qs[f.pageNo].lvl >= f.lvl
                       /\ f.pageNo # Root => qs[f.pageNo].lvl = f.drill
  <2>1. SUFFICES ASSUME f.at = "load"
                 PROVE  /\ qs[f.pageNo].lvl >= f.lvl
                        /\ f.pageNo # Root => qs[f.pageNo].lvl = f.drill
    OBVIOUS
  <2>2. /\ ps[f.pageNo].lvl >= f.lvl /\ f.pageNo \in 1..Len(ps)
        /\ f.pageNo # Root => ps[f.pageNo].lvl = f.drill
    BY <2>1 DEF FrameOK
  <2>3. CASE f.pageNo = Root
    BY <2>2, <2>3, <1>1, <1>2
  <2>4. CASE f.pageNo # Root
    BY <2>2, <2>4, <1>3
  <2> QED  BY <2>3, <2>4
<1>7. f.at \in {"split", "parent"} =>
        /\ f.op = "insert" /\ f.pageNo # Root /\ qs[f.pageNo].lvl = f.lvl
        /\ f.right \in 1..Len(qs) /\ qs[f.right].lvl = f.lvl
        /\ f.low \in KeySet /\ f.fence \in KeySet
  <2>1. SUFFICES ASSUME f.at \in {"split", "parent"}
                 PROVE  /\ f.op = "insert" /\ f.pageNo # Root /\ qs[f.pageNo].lvl = f.lvl
                        /\ f.right \in 1..Len(qs) /\ qs[f.right].lvl = f.lvl
                        /\ f.low \in KeySet /\ f.fence \in KeySet
    OBVIOUS
  <2>2. /\ f.op = "insert" /\ f.pageNo # Root /\ f.pageNo \in 1..Len(ps)
        /\ ps[f.pageNo].lvl = f.lvl /\ f.right \in 1..Len(ps) /\ ps[f.right].lvl = f.lvl
        /\ f.low \in KeySet /\ f.fence \in KeySet
    BY <2>1 DEF FrameOK
  <2>3. qs[f.pageNo].lvl = f.lvl /\ f.lvl < ps[Root].lvl
    BY <2>2, <1>3
  <2>4. f.right # Root
    BY <2>2, <2>3, <1>1, <1>2
  <2> QED  BY <2>2, <2>3, <2>4, <1>3
<1>8. f.at = "page" => qs[f.pageNo].lvl = f.lvl /\ FindSlot(qs[f.pageNo], f.key, f.stop) # 0
  <2>1. SUFFICES ASSUME f.at = "page"
                 PROVE  qs[f.pageNo].lvl = f.lvl /\ FindSlot(qs[f.pageNo], f.key, f.stop) # 0
    OBVIOUS
  <2>2. ps[f.pageNo].lvl = f.lvl /\ FindSlot(ps[f.pageNo], f.key, f.stop) # 0
    BY <2>1 DEF FrameOK
  <2>3. Same(ps, qs, f.pageNo)
    BY <2>1
  <2>4. FindSlot(qs[f.pageNo], f.key, f.stop) = FindSlot(ps[f.pageNo], f.key, f.stop)
    BY <2>3 DEF Same, FindSlot
  <2> QED  BY <2>2, <2>3, <2>4 DEF Same
<1>9. f.at # "load" => qs[f.pageNo].lvl = f.lvl
  BY <1>7, <1>8, FrameTyped, <1>1
<1> QED  BY <1>1, <1>4, <1>5, <1>6, <1>7, <1>8, <1>9 DEF FrameOK

LEMMA StackKept ==
  ASSUME NEW ps, NEW qs, NEW s, PagesOK(ps), Grown(ps, qs), StackOK(ps, s),
         s # <<>> /\ s[1].at = "page" => Same(ps, qs, s[1].pageNo)
  PROVE  StackOK(qs, s)
<1>1. ASSUME NEW i \in 1..Len(s) PROVE FrameOK(qs, s[i])
  <2>1. FrameOK(ps, s[i]) /\ (s[i].at = "parent" <=> i > 1) /\ s # <<>>
    BY DEF StackOK
  <2>2. s[i].at = "page" => Same(ps, qs, s[i].pageNo)
    BY <2>1
  <2> QED  BY <2>1, <2>2, FrameKept
<1> QED  BY <1>1 DEF StackOK

-----------------------------------------------------------------------------
(* What a thread does to its stack                                         *)

LEMMA TopOfStack ==
  ASSUME NEW ps, NEW s, StackOK(ps, s), s # <<>>
  PROVE  /\ s \in Seq(FrameType) /\ Len(s) \in Nat /\ Len(s) >= 1
         /\ \A i \in 1..Len(s) : s[i] \in FrameType /\ FrameOK(ps, s[i]) /\ s[i].lvl \in Nat
         /\ s[1].at # "parent"
<1>1. s \in Seq(FrameType) /\ Len(s) \in Nat /\ Len(s) >= 1
  BY DEF StackOK
<1>2. ASSUME NEW i \in 1..Len(s) PROVE s[i] \in FrameType /\ FrameOK(ps, s[i]) /\ s[i].lvl \in Nat
  BY <1>1, FrameTyped DEF StackOK
<1>3. 1 \in 1..Len(s)
  BY <1>1
<1>4. s[1].at # "parent"
  BY <1>3 DEF StackOK
<1> QED  BY <1>1, <1>2, <1>4

\* The top frame goes on.
LEMMA TopChanged ==
  ASSUME NEW ps, NEW s, StackOK(ps, s), s # <<>>,
         NEW g, FrameOK(ps, g), g.at # "parent", g.lvl = s[1].lvl
  PROVE  StackOK(ps, <<g>> \o Tail(s))
<1> DEFINE w == <<g>> \o Tail(s)
<1>1. s \in Seq(FrameType) /\ Len(s) \in Nat /\ Len(s) >= 1
  BY TopOfStack
<1>2. g \in FrameType
  BY DEF FrameOK
<1>3. /\ w \in Seq(FrameType) /\ Len(w) = Len(s) /\ w[1] = g
      /\ \A i \in 2..Len(s) : w[i] = s[i]
  BY <1>1, <1>2
<1> HIDE DEF w
<1>4. ASSUME NEW i \in 1..Len(s) PROVE FrameOK(ps, w[i]) /\ (w[i].at = "parent" <=> i > 1)
  <2>1. CASE i = 1
    BY <2>1, <1>3
  <2>2. CASE i # 1
    <3>1. i \in 2..Len(s)
      BY <2>2, <1>1
    <3> QED  BY <3>1, <1>3, <1>4 DEF StackOK
  <2> QED  BY <2>1, <2>2
<1>5. ASSUME NEW i \in 1..Len(s) PROVE w[i].lvl = s[i].lvl
  BY <1>3, <1>1
<1>6. \A i \in 1..Len(w) : w[i].lvl = Len(w) - i
  BY <1>3, <1>5 DEF StackOK
<1> QED  BY <1>3, <1>4, <1>6 DEF StackOK, w

\* The top frame starts to wait for one that works one level up.
LEMMA FramePushed ==
  ASSUME NEW ps, NEW s, StackOK(ps, s), s # <<>>,
         NEW f, FrameOK(ps, f), f.at = "parent", f.lvl = s[1].lvl,
         NEW g, FrameOK(ps, g), g.at # "parent", g.lvl = f.lvl + 1
  PROVE  StackOK(ps, <<g, f>> \o Tail(s))
<1> DEFINE w == <<g, f>> \o Tail(s)
<1>1. s \in Seq(FrameType) /\ Len(s) \in Nat /\ Len(s) >= 1
  BY TopOfStack
<1>2. g \in FrameType /\ f \in FrameType /\ f.lvl \in Nat
  BY FrameTyped DEF FrameOK
<1>3. /\ w \in Seq(FrameType) /\ Len(w) = Len(s) + 1 /\ w[1] = g /\ w[2] = f
      /\ \A i \in 2..Len(s) : w[i + 1] = s[i]
  BY <1>1, <1>2
<1> HIDE DEF w
<1>4. ASSUME NEW i \in 3..Len(s) + 1 PROVE i - 1 \in 2..Len(s) /\ w[i] = s[i - 1]
  <2>1. i - 1 \in 2..Len(s) /\ (i - 1) + 1 = i
    BY <1>1
  <2> QED  BY <2>1, <1>3
<1>5. ASSUME NEW i \in 1..Len(s) + 1 PROVE FrameOK(ps, w[i]) /\ (w[i].at = "parent" <=> i > 1)
  <2>1. CASE i = 1
    BY <2>1, <1>3
  <2>2. CASE i = 2
    BY <2>2, <1>3
  <2>3. CASE i # 1 /\ i # 2
    <3>1. i \in 3..Len(s) + 1
      BY <2>3, <1>1
    <3>2. i - 1 \in 1..Len(s) /\ i - 1 > 1 /\ w[i] = s[i - 1]
      BY <3>1, <1>4, <1>1
    <3> QED  BY <3>1, <3>2 DEF StackOK
  <2> QED  BY <2>1, <2>2, <2>3
<1>6. ASSUME NEW i \in 1..Len(s) + 1 PROVE w[i].lvl = Len(s) + 1 - i
  <2>1. s[1].lvl = Len(s) - 1
    BY <1>1 DEF StackOK
  <2>2. CASE i = 1
    BY <2>1, <2>2, <1>1, <1>3
  <2>3. CASE i = 2
    BY <2>1, <2>3, <1>1, <1>3
  <2>4. CASE i # 1 /\ i # 2
    <3>1. i \in 3..Len(s) + 1 /\ i - 1 \in 1..Len(s) /\ Len(s) - (i - 1) = Len(s) + 1 - i
      BY <2>4, <1>1
    <3>2. w[i] = s[i - 1] /\ s[i - 1].lvl = Len(s) - (i - 1)
      BY <3>1, <1>4 DEF StackOK
    <3> QED  BY <3>1, <3>2
  <2> QED  BY <2>2, <2>3, <2>4
<1>7. StackOK(ps, w)
  <2>1. Len(w) = Len(s) + 1
    BY <1>3
  <2>2. \A i \in 1..Len(w) : w[i].lvl = Len(w) - i
    BY <2>1, <1>6
  <2> QED  BY <2>1, <2>2, <1>3, <1>5 DEF StackOK
<1> QED  BY <1>7 DEF w

\* The frame that waited for the top one starts over.
LEMMA FramePopped ==
  ASSUME NEW ps, NEW s, StackOK(ps, s), Len(s) >= 2,
         NEW g, FrameOK(ps, g), g.at # "parent", g.lvl = s[2].lvl
  PROVE  StackOK(ps, <<g>> \o SubSeq(s, 3, Len(s)))
<1> DEFINE w == <<g>> \o SubSeq(s, 3, Len(s))
<1>1. s \in Seq(FrameType) /\ Len(s) \in Nat
  BY DEF StackOK
<1>2. g \in FrameType
  BY DEF FrameOK
<1>3. /\ w \in Seq(FrameType) /\ Len(w) = Len(s) - 1 /\ w[1] = g
      /\ \A i \in 2..Len(s) - 1 : w[i] = s[i + 1]
  <2>1. SubSeq(s, 3, Len(s)) \in Seq(FrameType) /\ Len(SubSeq(s, 3, Len(s))) = Len(s) - 2
    <3>1. \A i \in 3..Len(s) : s[i] \in FrameType
      BY <1>1
    <3> DEFINE q == SubSeq(s, 3, Len(s))
               n == Len(s)
    <3>2. q \in Seq(FrameType) /\ Len(q) = IF 3 <= n THEN n - 3 + 1 ELSE 0
      BY <1>1, <3>1, SubSeqProperties
    <3>3. n \in Nat /\ n >= 2
      BY <1>1
    <3> HIDE DEF q, n
    <3>4. Len(q) = n - 2
      BY <3>2, <3>3
    <3> QED  BY <3>2, <3>4 DEF q, n
  <2>2. \A i \in 1..Len(s) - 2 : SubSeq(s, 3, Len(s))[i] = s[i + 2]
    BY <1>1
  <2>3. w \in Seq(FrameType) /\ Len(w) = Len(s) - 1 /\ w[1] = g
    BY <1>1, <1>2, <2>1
  <2>4. ASSUME NEW i \in 2..Len(s) - 1 PROVE w[i] = s[i + 1]
    <3>1. i - 1 \in 1..Len(s) - 2 /\ (i - 1) + 2 = i + 1
      BY <1>1
    <3>2. w[i] = SubSeq(s, 3, Len(s))[i - 1]
      BY <1>1, <1>2, <2>1, <3>1
    <3> QED  BY <3>1, <3>2, <2>2
  <2> QED  BY <2>3, <2>4
<1> HIDE DEF w
<1>4. ASSUME NEW i \in 1..Len(s) - 1
      PROVE  FrameOK(ps, w[i]) /\ (w[i].at = "parent" <=> i > 1) /\ w[i].lvl = s[i + 1].lvl
  <2>1. CASE i = 1
    BY <2>1, <1>3
  <2>2. CASE i # 1
    <3>1. i \in 2..Len(s) - 1 /\ i + 1 \in 1..Len(s) /\ i + 1 > 1
      BY <2>2, <1>1
    <3>2. w[i] = s[i + 1]
      BY <3>1, <1>3
    <3> QED  BY <3>1, <3>2 DEF StackOK
  <2> QED  BY <2>1, <2>2
<1>5. ASSUME NEW i \in 1..Len(w) PROVE w[i].lvl = Len(w) - i
  <2>1. i \in 1..Len(s) - 1 /\ i + 1 \in 1..Len(s) /\ Len(s) - (i + 1) = Len(w) - i
    BY <1>1, <1>3
  <2>2. w[i].lvl = s[i + 1].lvl /\ s[i + 1].lvl = Len(s) - (i + 1)
    BY <2>1, <1>4 DEF StackOK
  <2> QED  BY <2>1, <2>2
<1> QED  BY <1>3, <1>4, <1>5 DEF StackOK, w

-----------------------------------------------------------------------------
(* A step of one thread leaves the frames of the others well formed        *)

\* Thread t changes its stack to s, adds to the tree, and touches no page that
\* another thread has locked, but for its left link.
Turn(t, s) ==
  /\ Grown(pages, pages')
  /\ \A p \in 1..Len(pages) : wlock[p] \notin {t, None} =>
       Same(pages, pages', p) /\ wlock'[p] = wlock[p]
  /\ stack' = [stack EXCEPT ![t] = s]
  /\ StackOK(pages', s)
  /\ Holds(wlock', t, s)

LEMMA TurnKeepsStacks ==
  ASSUME IInv, NEW t \in Threads, NEW s, Turn(t, s)
  PROVE  stack' \in [Threads -> Seq(FrameType)] /\ StacksOK'
<1>1. s \in Seq(FrameType) /\ stack \in [Threads -> Seq(FrameType)] /\ PagesOK(pages)
  BY DEF Turn, StackOK, IInv
<1>2. stack' = [stack EXCEPT ![t] = s] /\ stack'[t] = s
  BY <1>1 DEF Turn
<1>3. ASSUME NEW u \in Threads, u # t
      PROVE  StackOK(pages', stack'[u]) /\ Holds(wlock', u, stack'[u])
  <2>1. stack'[u] = stack[u] /\ StackOK(pages, stack[u]) /\ Holds(wlock, u, stack[u])
    BY <1>1, <1>2, <1>3 DEF IInv, StacksOK
  <2> DEFINE w == stack[u]
  <2>2. ASSUME w # <<>>, w[1].at \in {"page", "split"}
        PROVE  Same(pages, pages', w[1].pageNo) /\ wlock'[w[1].pageNo] = u
    <3>1. w[1].pageNo \in 1..Len(pages)
      BY <2>1, <2>2, TopOfStack DEF FrameOK
    <3>2. wlock[w[1].pageNo] = u
      BY <2>1, <2>2 DEF Holds
    <3>3. u \notin {t, None}
      BY <1>3, BtreeAssumption
    <3> QED  BY <3>1, <3>2, <3>3 DEF Turn
  <2>3. StackOK(pages', w)
    <3>1. Grown(pages, pages') /\ StackOK(pages, w)
      BY <2>1 DEF Turn
    <3>2. w # <<>> /\ w[1].at = "page" => Same(pages, pages', w[1].pageNo)
      BY <2>2
    <3> HIDE DEF w
    <3> QED  BY <3>1, <3>2, <1>1, StackKept
  <2>4. Holds(wlock', u, w)
    BY <2>2 DEF Holds
  <2> QED  BY <2>1, <2>3, <2>4
<1>4. StackOK(pages', stack'[t]) /\ Holds(wlock', t, stack'[t])
  BY <1>2 DEF Turn
<1>5. stack' \in [Threads -> Seq(FrameType)]
  BY <1>1, <1>2
<1> QED  BY <1>3, <1>4, <1>5 DEF StacksOK

-----------------------------------------------------------------------------
(* Slots are added to a page or changed                                    *)

\* btreeInsertSlot moves the slots from position i on one up.
LEMMA InsertedAt ==
  ASSUME NEW S, NEW s \in Seq(S), NEW i \in 1..Len(s), NEW e \in S
  PROVE  /\ InsertAt(s, i, e) \in Seq(S)
         /\ Len(InsertAt(s, i, e)) = Len(s) + 1
         /\ InsertAt(s, i, e)[i] = e
         /\ \A j \in 1..i - 1 : InsertAt(s, i, e)[j] = s[j]
         /\ \A j \in i..Len(s) : InsertAt(s, i, e)[j + 1] = s[j]
<1> DEFINE a == SubSeq(s, 1, i - 1)
           b == SubSeq(s, i, Len(s))
<1>1. Len(s) \in Nat /\ i \in 1..Len(s) /\ \A j \in 1..Len(s) : s[j] \in S
  OBVIOUS
<1>2. a \in Seq(S) /\ Len(a) = i - 1 /\ \A j \in 1..i - 1 : a[j] = s[j]
  <2>1. \A j \in 1..i - 1 : s[j] \in S
    BY <1>1
  <2>2. /\ a \in Seq(S) /\ Len(a) = IF 1 <= i - 1 THEN i - 1 - 1 + 1 ELSE 0
        /\ \A j \in 1..i - 1 - 1 + 1 : a[j] = s[1 + j - 1]
    BY <1>1, <2>1, SubSeqProperties
  <2> HIDE DEF a
  <2>3. Len(a) = i - 1
    BY <1>1, <2>2
  <2>4. ASSUME NEW j \in 1..i - 1 PROVE a[j] = s[j]
    <3>1. j \in 1..i - 1 - 1 + 1 /\ 1 + j - 1 = j
      BY <1>1
    <3> QED  BY <2>2, <3>1
  <2> QED  BY <2>2, <2>3, <2>4
<1>3. b \in Seq(S) /\ Len(b) = Len(s) - i + 1 /\ \A j \in i..Len(s) : b[j - i + 1] = s[j]
  <2>1. \A j \in i..Len(s) : s[j] \in S
    BY <1>1
  <2>2. /\ b \in Seq(S) /\ Len(b) = IF i <= Len(s) THEN Len(s) - i + 1 ELSE 0
        /\ \A j \in 1..Len(s) - i + 1 : b[j] = s[i + j - 1]
    BY <1>1, <2>1, SubSeqProperties
  <2> HIDE DEF b
  <2>3. Len(b) = Len(s) - i + 1
    BY <1>1, <2>2
  <2>4. ASSUME NEW j \in i..Len(s) PROVE b[j - i + 1] = s[j]
    <3>1. j - i + 1 \in 1..Len(s) - i + 1 /\ i + (j - i + 1) - 1 = j
      BY <1>1
    <3> QED  BY <2>2, <3>1
  <2> QED  BY <2>2, <2>3, <2>4
<1>4. InsertAt(s, i, e) = (a \o <<e>>) \o b
  BY DEF InsertAt
<1> HIDE DEF a, b
<1> DEFINE c == a \o <<e>>
<1>5. c \in Seq(S) /\ Len(c) = i /\ c[i] = e /\ \A j \in 1..i - 1 : c[j] = s[j]
  BY <1>1, <1>2
<1> HIDE DEF c
<1> DEFINE d == c \o b
<1>6. d \in Seq(S) /\ Len(d) = Len(s) + 1 /\ \A j \in 1..i : d[j] = c[j]
  <2>1. d \in Seq(S) /\ Len(d) = Len(c) + Len(b)
    BY <1>3, <1>5, ConcatProperties
  <2>2. Len(d) = Len(s) + 1
    BY <2>1, <1>1, <1>3, <1>5
  <2>3. ASSUME NEW j \in 1..i PROVE d[j] = c[j]
    <3>1. j \in 1..Len(c) + Len(b) /\ j <= Len(c)
      BY <1>1, <1>3, <1>5
    <3> QED  BY <3>1, <1>3, <1>5
  <2> HIDE DEF d
  <2> QED  BY <2>1, <2>2, <2>3
<1>7. ASSUME NEW j \in i..Len(s) PROVE d[j + 1] = s[j]
  <2>1. j + 1 \in i + 1..Len(c) + Len(b) /\ (j + 1) - Len(c) = j - i + 1 /\ j - i + 1 \in 1..Len(b)
    BY <1>1, <1>3, <1>5
  <2>2. d[j + 1] = b[(j + 1) - Len(c)]
    BY <2>1, <1>1, <1>3, <1>5
  <2> QED  BY <2>1, <2>2, <1>3
<1>8. InsertAt(s, i, e) = d
  BY <1>4 DEF c
<1> HIDE DEF d
<1> QED  BY <1>1, <1>5, <1>6, <1>7, <1>8

\* From ps to qs the slots of page p change: all keys stay, and no child but c is new.
Edit(ps, qs, p, c) ==
  /\ qs \in Seq(PageType) /\ Len(qs) = Len(ps) /\ p \in 1..Len(ps)
  /\ \A q \in 1..Len(ps) : q # p => qs[q] = ps[q]
  /\ qs[p].lvl = ps[p].lvl /\ qs[p].right = ps[p].right /\ qs[p].left = ps[p].left
  /\ Len(qs[p].slots) \in 1..Cap(ps[p].lvl)
  /\ ps[p].lvl > 0 => \A i \in 1..Len(qs[p].slots) :
                        /\ qs[p].slots[i].child \in 1..Len(ps)
                        /\ ps[qs[p].slots[i].child].lvl = ps[p].lvl - 1
  /\ \A i \in 1..Len(ps[p].slots) : \E j \in 1..Len(qs[p].slots) :
       qs[p].slots[j].key = ps[p].slots[i].key
  /\ \A j \in 1..Len(qs[p].slots) : \/ qs[p].slots[j].child = c
                                     \/ \E i \in 1..Len(ps[p].slots) : qs[p].slots[j] = ps[p].slots[i]

LEMMA Edited ==
  ASSUME NEW ps, NEW qs, NEW p, NEW c, PagesOK(ps), Edit(ps, qs, p, c)
  PROVE  /\ PagesOK(qs) /\ Grown(ps, qs)
         /\ \A q \in 1..Len(ps) : q # p => Same(ps, qs, q)
         /\ ChainOK(ps) => ChainOK(qs)
         /\ \A k : InLeaf(ps, k) => InLeaf(qs, k)
<1>1. /\ Len(ps) \in Nat /\ Len(ps) >= 2 /\ Root \in 1..Len(ps) /\ Leaf \in 1..Len(ps)
      /\ \A q \in 1..Len(ps) : ps[q].lvl \in Nat
  BY PagesTyped
<1>2. ASSUME NEW q \in 1..Len(ps)
      PROVE  qs[q].lvl = ps[q].lvl /\ qs[q].right = ps[q].right /\ qs[q].left = ps[q].left
  BY DEF Edit
<1>3. ASSUME NEW q \in 1..Len(ps) PROVE PageOK(qs, q)
  <2>1. PageOK(ps, q) /\ Len(qs) = Len(ps)
    BY DEF PagesOK, Edit
  <2>2. Len(qs[q].slots) \in 1..Cap(qs[q].lvl)
    BY <2>1, <1>2 DEF Edit, PageOK
  <2>3. qs[q].right # NoPage => /\ qs[q].right \in 1..Len(qs)
                                /\ qs[q].right # q
                                /\ qs[qs[q].right].lvl = qs[q].lvl
    BY <2>1, <1>2 DEF PageOK
  <2>4. qs[q].lvl > 0 => \A i \in 1..Len(qs[q].slots) :
                           /\ qs[q].slots[i].child \in 1..Len(qs)
                           /\ qs[qs[q].slots[i].child].lvl = qs[q].lvl - 1
    <3>1. SUFFICES ASSUME ps[q].lvl > 0, NEW i \in 1..Len(qs[q].slots)
                   PROVE  /\ qs[q].slots[i].child \in 1..Len(ps)
                          /\ ps[qs[q].slots[i].child].lvl = ps[q].lvl - 1
      BY <1>2, <2>1
    <3>2. CASE q = p
      BY <3>1, <3>2 DEF Edit
    <3>3. CASE q # p
      BY <3>1, <3>3, <2>1 DEF Edit, PageOK
    <3> QED  BY <3>2, <3>3
  <2>5. IF q = Root THEN qs[q].right = NoPage ELSE qs[q].lvl < qs[Root].lvl
    BY <2>1, <1>1, <1>2 DEF PageOK
  <2>6. qs[q].lvl = 0 /\ qs[q].right # NoPage => qs[qs[q].right].left = q
    BY <2>1, <1>2 DEF PageOK
  <2>7. qs[q].left \in {NoPage} \union 1..Len(qs)
    BY <2>1, <1>2 DEF PageOK
  <2> QED  BY <2>2, <2>3, <2>4, <2>5, <2>6, <2>7 DEF PageOK
<1>4. PagesOK(qs)
  BY <1>1, <1>2, <1>3 DEF PagesOK, Edit
<1>5. Grown(ps, qs)
  BY <1>1, <1>2 DEF Grown, Edit
<1>6. \A q \in 1..Len(ps) : q # p => Same(ps, qs, q)
  BY DEF Edit, Same
<1>7. ASSUME ChainOK(ps) PROVE ChainOK(qs)
  <2>1. ASSUME NEW q \in 1..Len(qs), qs[q].lvl = 0,
               NEW S \in SUBSET (1..Len(qs)), Leaf \in S, RightClosed(qs, S)
        PROVE  q \in S
    <3>1. Len(qs) = Len(ps)
      BY DEF Edit
    <3>2. RightClosed(ps, S)
      BY <2>1, <3>1, <1>2 DEF RightClosed
    <3>3. OnChain(ps, q)
      BY <1>7, <2>1, <3>1, <1>2 DEF ChainOK
    <3> QED  BY <2>1, <3>1, <3>2, <3>3 DEF OnChain
  <2> QED  BY <2>1 DEF ChainOK, OnChain
<1>8. ASSUME NEW k, InLeaf(ps, k) PROVE InLeaf(qs, k)
  <2>1. PICK q \in 1..Len(ps) : ps[q].lvl = 0 /\ \E i \in 1..Len(ps[q].slots) : ps[q].slots[i].key = k
    BY <1>8 DEF InLeaf
  <2>2. \E i \in 1..Len(qs[q].slots) : qs[q].slots[i].key = k
    <3>1. CASE q = p
      <4>1. PICK i \in 1..Len(ps[p].slots) : ps[p].slots[i].key = k
        BY <2>1, <3>1
      <4>2. \E j \in 1..Len(qs[p].slots) : qs[p].slots[j].key = ps[p].slots[i].key
        BY DEF Edit
      <4> QED  BY <3>1, <4>1, <4>2
    <3>2. CASE q # p
      <4>1. qs[q] = ps[q]
        BY <3>2 DEF Edit
      <4> QED  BY <2>1, <4>1
    <3> QED  BY <3>1, <3>2
  <2>3. q \in 1..Len(qs) /\ qs[q].lvl = 0
    BY <2>1, <1>2 DEF Edit
  <2> QED  BY <2>2, <2>3 DEF InLeaf
<1> QED  BY <1>4, <1>5, <1>6, <1>7, <1>8

-----------------------------------------------------------------------------
(* A page is split                                                         *)

\* The slots s of a page are divided between two pages, and neither is empty.
Halved(s, a, b) ==
  /\ Len(a) \in 1..Len(s) - 1 /\ Len(b) \in 1..Len(s) - 1
  /\ \A i \in 1..Len(a) : \E j \in 1..Len(s) : a[i] = s[j]
  /\ \A i \in 1..Len(b) : \E j \in 1..Len(s) : b[i] = s[j]
  /\ \A j \in 1..Len(s) : \/ \E i \in 1..Len(a) : a[i] = s[j]
                          \/ \E i \in 1..Len(b) : b[i] = s[j]

LEMMA HalvesOf ==
  ASSUME NEW S, NEW s \in Seq(S), NEW m \in 1..Len(s) - 1
  PROVE  /\ SubSeq(s, 1, m) \in Seq(S) /\ SubSeq(s, m + 1, Len(s)) \in Seq(S)
         /\ Halved(s, SubSeq(s, 1, m), SubSeq(s, m + 1, Len(s)))
         /\ Len(SubSeq(s, 1, m)) = m /\ \A j \in 1..m : SubSeq(s, 1, m)[j] = s[j]
         /\ Len(SubSeq(s, m + 1, Len(s))) = Len(s) - m
         /\ \A j \in 1..Len(s) - m : SubSeq(s, m + 1, Len(s))[j] = s[m + j]
<1> DEFINE a == SubSeq(s, 1, m)
           b == SubSeq(s, m + 1, Len(s))
<1>1. Len(s) \in Nat /\ m \in 1..Len(s) - 1 /\ \A j \in 1..Len(s) : s[j] \in S
  OBVIOUS
<1>2. a \in Seq(S) /\ Len(a) = m /\ \A j \in 1..m : a[j] = s[j]
  <2>1. \A j \in 1..m : s[j] \in S
    BY <1>1
  <2>2. /\ a \in Seq(S) /\ Len(a) = IF 1 <= m THEN m - 1 + 1 ELSE 0
        /\ \A j \in 1..m - 1 + 1 : a[j] = s[1 + j - 1]
    BY <1>1, <2>1, SubSeqProperties
  <2> HIDE DEF a
  <2>3. Len(a) = m
    BY <1>1, <2>2
  <2>4. ASSUME NEW j \in 1..m PROVE a[j] = s[j]
    <3>1. j \in 1..m - 1 + 1 /\ 1 + j - 1 = j
      BY <1>1
    <3> QED  BY <2>2, <3>1
  <2> QED  BY <2>2, <2>3, <2>4
<1>3. b \in Seq(S) /\ Len(b) = Len(s) - m /\ \A j \in 1..Len(s) - m : b[j] = s[m + j]
  <2>1. \A j \in m + 1..Len(s) : s[j] \in S
    BY <1>1
  <2>2. /\ b \in Seq(S) /\ Len(b) = IF m + 1 <= Len(s) THEN Len(s) - (m + 1) + 1 ELSE 0
        /\ \A j \in 1..Len(s) - (m + 1) + 1 : b[j] = s[m + 1 + j - 1]
    BY <1>1, <2>1, SubSeqProperties
  <2> HIDE DEF b
  <2>3. Len(b) = Len(s) - m
    BY <1>1, <2>2
  <2>4. ASSUME NEW j \in 1..Len(s) - m PROVE b[j] = s[m + j]
    <3>1. j \in 1..Len(s) - (m + 1) + 1 /\ m + 1 + j - 1 = m + j
      BY <1>1
    <3> QED  BY <2>2, <3>1
  <2> QED  BY <2>2, <2>3, <2>4
<1> HIDE DEF a, b
<1>4. Len(a) \in 1..Len(s) - 1 /\ Len(b) \in 1..Len(s) - 1
  BY <1>1, <1>2, <1>3
<1>5. ASSUME NEW i \in 1..Len(a) PROVE \E j \in 1..Len(s) : a[i] = s[j]
  <2>1. i \in 1..m /\ i \in 1..Len(s)
    BY <1>1, <1>2
  <2> QED  BY <2>1, <1>2
<1>6. ASSUME NEW i \in 1..Len(b) PROVE \E j \in 1..Len(s) : b[i] = s[j]
  <2>1. i \in 1..Len(s) - m /\ m + i \in 1..Len(s)
    BY <1>1, <1>3
  <2> QED  BY <2>1, <1>3
<1>7. ASSUME NEW j \in 1..Len(s)
      PROVE  (\E i \in 1..Len(a) : a[i] = s[j]) \/ (\E i \in 1..Len(b) : b[i] = s[j])
  <2>1. CASE j <= m
    <3>1. j \in 1..m
      BY <2>1, <1>1
    <3> QED  BY <3>1, <1>2
  <2>2. CASE j > m
    <3>1. j - m \in 1..Len(s) - m /\ m + (j - m) = j
      BY <2>2, <1>1
    <3>2. b[j - m] = s[j]
      BY <3>1, <1>3
    <3> QED  BY <3>1, <3>2, <1>3
  <2> QED  BY <2>1, <2>2, <1>1
<1>8. Halved(s, a, b)
  BY <1>4, <1>5, <1>6, <1>7 DEF Halved
<1> QED  BY <1>2, <1>3, <1>8 DEF a, b

\* The upper slots of page p of ps have gone to a new page, its right sibling.
SplitOf(ps, qs, p) ==
  LET r == Len(ps) + 1 IN
  /\ p \in 1..Len(ps) /\ p # Root
  /\ qs \in Seq(PageType) /\ Len(qs) = r /\ r <= MaxPages
  /\ \A q \in 1..Len(ps) : qs[q].lvl = ps[q].lvl
  /\ \A q \in 1..Len(ps) : q # p => qs[q].slots = ps[q].slots /\ qs[q].right = ps[q].right
  /\ \A q \in 1..Len(ps) :
       qs[q].left = IF q # p /\ ps[p].lvl = 0 /\ q = ps[p].right THEN r ELSE ps[q].left
  /\ qs[p].right = r
  /\ qs[r].lvl = ps[p].lvl /\ qs[r].right = ps[p].right /\ qs[r].left = p
  /\ Halved(ps[p].slots, qs[p].slots, qs[r].slots)

\* The slots of page p of ps, after the first m, are those of page r of qs; the
\* first m are those of page a.
Divided(ps, qs, p, m, a, r) ==
  /\ m \in 1..Len(ps[p].slots) - 1
  /\ Len(qs[a].slots) = m /\ Len(qs[r].slots) = Len(ps[p].slots) - m
  /\ \A j \in 1..m : qs[a].slots[j] = ps[p].slots[j]
  /\ \A j \in 1..Len(ps[p].slots) - m : qs[r].slots[j] = ps[p].slots[m + j]

\* btreeSplitPage as far as slots, levels and right links go.
Pieces(ps, qs, p, m) ==
  LET r == Len(ps) + 1 IN
  /\ p \in 1..Len(ps) /\ p # Root /\ Len(qs) = r
  /\ \A q \in 1..Len(ps) : qs[q].lvl = ps[q].lvl
  /\ \A q \in 1..Len(ps) : q # p => qs[q].slots = ps[q].slots /\ qs[q].right = ps[q].right
  /\ qs[p].right = r /\ qs[r].lvl = ps[p].lvl /\ qs[r].right = ps[p].right
  /\ Divided(ps, qs, p, m, p, r)

LEMMA Split ==
  ASSUME NEW ps, NEW qs, NEW p, PagesOK(ps), SplitOf(ps, qs, p)
  PROVE  /\ PagesOK(qs) /\ Grown(ps, qs)
         /\ \A q \in 1..Len(ps) : q # p => Same(ps, qs, q)
         /\ ChainOK(ps) => ChainOK(qs)
         /\ \A k : InLeaf(ps, k) => InLeaf(qs, k)
<1> DEFINE r == Len(ps) + 1
           n == Len(ps)
<1>1. /\ n \in Nat /\ n >= 2 /\ Root \in 1..n /\ Leaf \in 1..n
      /\ \A q \in 1..n : ps[q].lvl \in Nat
  BY PagesTyped
<1>2. /\ p \in 1..n /\ p # Root /\ qs \in Seq(PageType) /\ Len(qs) = r /\ r <= MaxPages
      /\ qs[p].right = r /\ qs[r].lvl = ps[p].lvl /\ qs[r].right = ps[p].right /\ qs[r].left = p
      /\ Halved(ps[p].slots, qs[p].slots, qs[r].slots)
      /\ \A q \in 1..n : qs[q].lvl = ps[q].lvl
      /\ \A q \in 1..n : q # p => qs[q].slots = ps[q].slots /\ qs[q].right = ps[q].right
      /\ \A q \in 1..n :
           qs[q].left = IF q # p /\ ps[p].lvl = 0 /\ q = ps[p].right THEN r ELSE ps[q].left
  BY DEF SplitOf
<1>3. ASSUME NEW q \in 1..n PROVE PageOK(ps, q)
  BY DEF PagesOK
<1>4. 1..n \subseteq 1..r /\ r \in 1..r /\ r \notin 1..n /\ NoPage \notin 1..r
      /\ \A q \in 1..r : q = r \/ q \in 1..n
  BY <1>1 DEF NoPage
<1>5. ASSUME NEW i \in 1..Len(qs[p].slots) PROVE \E j \in 1..Len(ps[p].slots) : qs[p].slots[i] = ps[p].slots[j]
  BY <1>2 DEF Halved
<1>6. ASSUME NEW i \in 1..Len(qs[r].slots) PROVE \E j \in 1..Len(ps[p].slots) : qs[r].slots[i] = ps[p].slots[j]
  BY <1>2 DEF Halved
<1>7. Len(qs[p].slots) \in 1..Cap(ps[p].lvl) /\ Len(qs[r].slots) \in 1..Cap(ps[p].lvl)
  <2>1. Len(ps[p].slots) \in 1..Cap(ps[p].lvl) /\ Cap(ps[p].lvl) \in Nat
    BY <1>2, <1>3, BtreeAssumption DEF PageOK, Cap
  <2> QED  BY <2>1, <1>2 DEF Halved
<1> HIDE DEF r, n
<1>8. ASSUME NEW q \in 1..r PROVE Len(qs[q].slots) \in 1..Cap(qs[q].lvl)
  <2>1. CASE q = r \/ q = p
    BY <2>1, <1>2, <1>7
  <2>2. CASE q # r /\ q # p
    BY <2>2, <1>2, <1>3, <1>4 DEF PageOK
  <2> QED  BY <2>1, <2>2
<1>9. ASSUME NEW q \in 1..r PROVE qs[q].left \in {NoPage} \union 1..r
  <2>1. CASE q = r
    BY <2>1, <1>2, <1>4
  <2>2. CASE q # r
    <3>1. q \in 1..n /\ ps[q].left \in {NoPage} \union 1..n
      BY <2>2, <1>3, <1>4 DEF PageOK, n
    <3> QED  BY <3>1, <1>2, <1>4
  <2> QED  BY <2>1, <2>2
<1>10. ASSUME NEW q \in 1..r
       PROVE  qs[q].right # NoPage => /\ qs[q].right \in 1..r
                                      /\ qs[q].right # q
                                      /\ qs[qs[q].right].lvl = qs[q].lvl
  <2>1. CASE q = p
    BY <2>1, <1>2, <1>4
  <2>2. CASE q = r
    <3>1. ps[p].right # NoPage => ps[p].right \in 1..n /\ ps[ps[p].right].lvl = ps[p].lvl
      BY <1>2, <1>3 DEF PageOK, n
    <3> QED  BY <2>2, <3>1, <1>2, <1>4
  <2>3. CASE q # p /\ q # r
    <3>1. q \in 1..n /\ qs[q].right = ps[q].right
      BY <2>3, <1>2, <1>4
    <3>2. ps[q].right # NoPage => /\ ps[q].right \in 1..n /\ ps[q].right # q
                                  /\ ps[ps[q].right].lvl = ps[q].lvl
      BY <3>1, <1>3 DEF PageOK, n
    <3> QED  BY <3>1, <3>2, <1>2, <1>4
  <2> QED  BY <2>1, <2>2, <2>3
<1>11. ASSUME NEW q \in 1..r, qs[q].lvl > 0, NEW i \in 1..Len(qs[q].slots)
       PROVE  /\ qs[q].slots[i].child \in 1..r
              /\ qs[qs[q].slots[i].child].lvl = qs[q].lvl - 1
  <2> DEFINE o == IF q = r THEN p ELSE q
  <2>1. o \in 1..n /\ ps[o].lvl = qs[q].lvl
    BY <1>2, <1>4
  <2>2. PICK j \in 1..Len(ps[o].slots) : qs[q].slots[i] = ps[o].slots[j]
    <3>1. CASE q = r
      BY <3>1, <1>6, <1>11
    <3>2. CASE q = p
      BY <3>2, <1>5, <1>11, <1>2, <1>4
    <3>3. CASE q # r /\ q # p
      BY <3>3, <1>2, <1>4, <1>11
    <3> QED  BY <3>1, <3>2, <3>3
  <2>3. ps[o].slots[j].child \in 1..n /\ ps[ps[o].slots[j].child].lvl = ps[o].lvl - 1
    BY <2>1, <1>3, <1>11 DEF PageOK, n
  <2> QED  BY <2>1, <2>2, <2>3, <1>2, <1>4, SMTT(30)
<1>12. ASSUME NEW q \in 1..r
       PROVE  IF q = Root THEN qs[q].right = NoPage ELSE qs[q].lvl < qs[Root].lvl
  <2>1. CASE q = r
    <3>1. ps[p].lvl < ps[Root].lvl /\ q # Root
      BY <2>1, <1>1, <1>2, <1>3, <1>4 DEF PageOK
    <3> QED  BY <2>1, <3>1, <1>1, <1>2
  <2>2. CASE q # r
    <3>1. q \in 1..n /\ IF q = Root THEN ps[q].right = NoPage ELSE ps[q].lvl < ps[Root].lvl
      BY <2>2, <1>3, <1>4 DEF PageOK
    <3> QED  BY <3>1, <1>1, <1>2
  <2> QED  BY <2>1, <2>2
<1>13. ASSUME NEW q \in 1..r, qs[q].lvl = 0, qs[q].right # NoPage
       PROVE  qs[qs[q].right].left = q
  <2>1. CASE q = p
    BY <2>1, <1>2
  <2>2. CASE q = r
    <3>1. ps[p].right \in 1..n /\ ps[p].right # p /\ ps[p].lvl = 0
      BY <2>2, <1>2, <1>3, <1>13 DEF PageOK, n
    <3> QED  BY <2>2, <3>1, <1>2
  <2>3. CASE q # p /\ q # r
    <3>1. q \in 1..n /\ qs[q].right = ps[q].right /\ ps[q].lvl = 0
      BY <2>3, <1>2, <1>4, <1>13
    <3>2. ps[q].right \in 1..n /\ ps[ps[q].right].left = q
      BY <3>1, <1>3, <1>13 DEF PageOK, n
    <3>3. ps[p].lvl = 0 /\ ps[p].right # NoPage => ps[ps[p].right].left = p
      BY <1>2, <1>3 DEF PageOK
    <3>4. ~(ps[p].lvl = 0 /\ ps[q].right = ps[p].right)
      BY <3>1, <3>2, <3>3, <2>3, <1>13
    <3> QED  BY <3>1, <3>2, <3>4, <1>2
  <2> QED  BY <2>1, <2>2, <2>3
<1>14. ASSUME NEW q \in 1..r PROVE PageOK(qs, q)
  BY <1>2, <1>8, <1>9, <1>10, <1>11, <1>12, <1>13 DEF PageOK
<1>15. PagesOK(qs)
  <2>1. r \in 2..MaxPages
    BY <1>1, <1>2, BtreeAssumption DEF r, n
  <2>2. qs[Leaf].lvl = 0
    BY <1>1, <1>2 DEF PagesOK
  <2> QED  BY <2>1, <2>2, <1>2, <1>14 DEF PagesOK
<1>16. Grown(ps, qs)
  BY <1>1, <1>2 DEF Grown, r, n
<1>17. \A q \in 1..n : q # p => Same(ps, qs, q)
  BY <1>2 DEF Same
<1>18. ASSUME ChainOK(ps), NEW q \in 1..r, qs[q].lvl = 0,
              NEW S \in SUBSET (1..r), Leaf \in S, RightClosed(qs, S)
       PROVE  q \in S
  <2>1. \A x \in S \intersect 1..r : qs[x].lvl = 0 /\ qs[x].right # NoPage => qs[x].right \in S
    BY <1>18, <1>2 DEF RightClosed
  <2> DEFINE T == S \intersect 1..n
  <2>2. ASSUME NEW x \in T, ps[x].lvl = 0, ps[x].right # NoPage PROVE ps[x].right \in T
    <3>1. x \in S \intersect 1..r /\ qs[x].lvl = 0 /\ ps[x].right \in 1..n
      BY <2>2, <1>2, <1>3, <1>4 DEF PageOK, n
    <3>2. CASE x = p
      <4>1. r \in S /\ qs[r].lvl = 0 /\ qs[r].right # NoPage
        BY <2>1, <2>2, <3>1, <3>2, <1>2, <1>4
      <4> QED  BY <2>1, <3>1, <3>2, <4>1, <1>2, <1>4
    <3>3. CASE x # p
      BY <2>1, <2>2, <3>1, <3>3, <1>2
    <3> QED  BY <3>2, <3>3
  <2>3. RightClosed(ps, T) /\ T \in SUBSET (1..n) /\ Leaf \in T
    BY <2>2, <1>18, <1>1 DEF RightClosed, n
  <2>4. ASSUME NEW x \in 1..n, ps[x].lvl = 0 PROVE x \in T
    <3>1. OnChain(ps, x)
      BY <1>18, <2>4 DEF ChainOK, n
    <3> HIDE DEF T
    <3> QED  BY <2>3, <3>1 DEF OnChain, n
  <2>5. CASE q = r
    <3>1. p \in T /\ qs[p].lvl = 0
      BY <2>4, <2>5, <1>2, <1>18
    <3> QED  BY <3>1, <2>1, <2>5, <1>2, <1>4
  <2>6. CASE q # r
    BY <2>6, <2>4, <1>2, <1>4, <1>18
  <2> QED  BY <2>5, <2>6
<1>19. ChainOK(ps) => ChainOK(qs)
  BY <1>18, <1>2 DEF ChainOK, OnChain
<1>20. ASSUME NEW k, InLeaf(ps, k) PROVE InLeaf(qs, k)
  <2>1. PICK q \in 1..n : ps[q].lvl = 0 /\ \E i \in 1..Len(ps[q].slots) : ps[q].slots[i].key = k
    BY <1>20 DEF InLeaf, n
  <2>2. CASE q # p
    BY <2>1, <2>2, <1>2, <1>4 DEF InLeaf
  <2>3. CASE q = p
    <3>1. PICK j \in 1..Len(ps[p].slots) : ps[p].slots[j].key = k
      BY <2>1, <2>3
    <3>2. \/ \E i \in 1..Len(qs[p].slots) : qs[p].slots[i].key = k
          \/ \E i \in 1..Len(qs[r].slots) : qs[r].slots[i].key = k
      BY <3>1, <1>2 DEF Halved
    <3>3. p \in 1..r /\ r \in 1..r /\ Len(qs) = r /\ qs[p].lvl = 0 /\ qs[r].lvl = 0
      BY <2>1, <2>3, <1>2, <1>4
    <3> QED  BY <3>2, <3>3 DEF InLeaf
  <2> QED  BY <2>2, <2>3
<1> QED  BY <1>15, <1>16, <1>17, <1>19, <1>20 DEF n

\* The slots of the root have gone to two new pages, and the root is one level up.
RootSplitOf(ps, qs) ==
  LET r == Len(ps) + 1
      l == Len(ps) + 2
  IN
  /\ qs \in Seq(PageType) /\ Len(qs) = l /\ l <= MaxPages
  /\ \A q \in 1..Len(ps) : q # Root => qs[q] = ps[q]
  /\ qs[Root].lvl = ps[Root].lvl + 1 /\ qs[Root].right = NoPage /\ qs[Root].left = NoPage
  /\ Len(qs[Root].slots) = 2 /\ qs[Root].slots[1].child = l /\ qs[Root].slots[2].child = r
  /\ qs[r].lvl = ps[Root].lvl /\ qs[r].right = ps[Root].right /\ qs[r].left = l
  /\ qs[l].lvl = ps[Root].lvl /\ qs[l].right = r /\ qs[l].left = ps[Root].left
  /\ Halved(ps[Root].slots, qs[l].slots, qs[r].slots)

\* btreeSplitRoot likewise.
RootPieces(ps, qs, m) ==
  LET r == Len(ps) + 1
      l == Len(ps) + 2
  IN
  /\ Len(qs) = l
  /\ \A q \in 1..Len(ps) : q # Root => qs[q] = ps[q]
  /\ qs[Root].lvl = ps[Root].lvl + 1 /\ qs[Root].right = NoPage
  /\ Len(qs[Root].slots) = 2
  /\ qs[Root].slots[1] = Slot(ps[Root].slots[m].key, l, FALSE)
  /\ qs[Root].slots[2] = Slot(Stopper, r, FALSE)
  /\ qs[r].lvl = ps[Root].lvl /\ qs[r].right = NoPage
  /\ qs[l].lvl = ps[Root].lvl /\ qs[l].right = r
  /\ Divided(ps, qs, Root, m, l, r)

LEMMA RootSplit ==
  ASSUME NEW ps, NEW qs, PagesOK(ps), RootSplitOf(ps, qs)
  PROVE  /\ PagesOK(qs) /\ Grown(ps, qs)
         /\ \A q \in 1..Len(ps) : q # Root => Same(ps, qs, q)
         /\ ChainOK(ps) => ChainOK(qs)
         /\ \A k : InLeaf(ps, k) => InLeaf(qs, k)
<1> DEFINE r == Len(ps) + 1
           l == Len(ps) + 2
           n == Len(ps)
<1>1. /\ n \in Nat /\ n >= 2 /\ Root \in 1..n /\ Leaf \in 1..n /\ Leaf # Root
      /\ \A q \in 1..n : ps[q].lvl \in Nat
  BY PagesTyped DEF Root, Leaf
<1>2. /\ qs \in Seq(PageType) /\ Len(qs) = l /\ l <= MaxPages
      /\ qs[Root].lvl = ps[Root].lvl + 1 /\ qs[Root].right = NoPage /\ qs[Root].left = NoPage
      /\ Len(qs[Root].slots) = 2 /\ qs[Root].slots[1].child = l /\ qs[Root].slots[2].child = r
      /\ qs[r].lvl = ps[Root].lvl /\ qs[r].right = ps[Root].right /\ qs[r].left = l
      /\ qs[l].lvl = ps[Root].lvl /\ qs[l].right = r /\ qs[l].left = ps[Root].left
      /\ Halved(ps[Root].slots, qs[l].slots, qs[r].slots)
      /\ \A q \in 1..n : q # Root => qs[q] = ps[q]
  BY DEF RootSplitOf
<1>3. ASSUME NEW q \in 1..n PROVE PageOK(ps, q)
  BY DEF PagesOK
<1>4. /\ 1..n \subseteq 1..l /\ r \in 1..l /\ l \in 1..l /\ r \notin 1..n /\ l \notin 1..n /\ r # l
      /\ NoPage \notin 1..l /\ \A q \in 1..l : q = r \/ q = l \/ q = Root \/ (q \in 1..n /\ q # Root)
  BY <1>1 DEF NoPage
<1>5. /\ ps[Root].right = NoPage /\ ps[Root].lvl \in Nat /\ ps[Root].lvl > 0
      /\ \A q \in 1..n : q # Root => ps[q].lvl < ps[Root].lvl
  <2>1. \A q \in 1..n : q # Root => ps[q].lvl < ps[Root].lvl
    BY <1>3 DEF PageOK
  <2> QED  BY <2>1, <1>1, <1>3 DEF PageOK
<1>6. ASSUME NEW q \in {r, l}, NEW i \in 1..Len(qs[q].slots)
      PROVE  \E j \in 1..Len(ps[Root].slots) : qs[q].slots[i] = ps[Root].slots[j]
  <2>1. CASE q = r
    BY <2>1, <1>2 DEF Halved
  <2>2. CASE q = l
    BY <2>2, <1>2 DEF Halved
  <2> QED  BY <2>1, <2>2
<1>7. /\ Len(qs[r].slots) \in 1..Cap(ps[Root].lvl) /\ Len(qs[l].slots) \in 1..Cap(ps[Root].lvl)
      /\ Len(qs[Root].slots) \in 1..Cap(ps[Root].lvl + 1)
  <2>1. Len(ps[Root].slots) \in 1..Cap(ps[Root].lvl) /\ Cap(ps[Root].lvl) \in Nat
    BY <1>1, <1>3, BtreeAssumption DEF PageOK, Cap
  <2>2. 2 \in 1..Cap(ps[Root].lvl + 1)
    BY <1>5, BtreeAssumption DEF Cap
  <2> QED  BY <2>1, <2>2, <1>2, SMTT(30) DEF Halved
\* A page of ps that is not the root leads to no root and no new page.
<1>8. ASSUME NEW q \in 1..n, q # Root
      PROVE  /\ ps[q].right # NoPage => ps[q].right \in 1..n /\ ps[q].right # Root
             /\ ps[q].lvl > 0 => \A i \in 1..Len(ps[q].slots) :
                   ps[q].slots[i].child \in 1..n /\ ps[q].slots[i].child # Root
  <2>1. PageOK(ps, q) /\ ps[q].lvl < ps[Root].lvl /\ ps[q].lvl \in Nat /\ ps[Root].lvl \in Nat
    BY <1>1, <1>3, <1>5, <1>8
  <2>2. ps[q].right # NoPage => ps[q].right \in 1..n /\ ps[ps[q].right].lvl = ps[q].lvl
    BY <2>1 DEF PageOK
  <2>3. ASSUME ps[q].lvl > 0, NEW i \in 1..Len(ps[q].slots)
        PROVE  ps[q].slots[i].child \in 1..n /\ ps[ps[q].slots[i].child].lvl = ps[q].lvl - 1
    BY <2>1, <2>3 DEF PageOK
  <2>4. ps[q].right # Root
    BY <2>1, <2>2, <1>1, <1>4
  <2>5. ASSUME ps[q].lvl > 0, NEW i \in 1..Len(ps[q].slots) PROVE ps[q].slots[i].child # Root
    BY <2>1, <2>3, <2>5
  <2> QED  BY <2>2, <2>3, <2>4, <2>5
<1> HIDE DEF r, l, n
<1>9. ASSUME NEW q \in 1..l PROVE Len(qs[q].slots) \in 1..Cap(qs[q].lvl)
  <2>1. CASE q \in {r, l, Root}
    BY <2>1, <1>2, <1>7
  <2>2. CASE q \in 1..n /\ q # Root
    BY <2>2, <1>2, <1>3, <1>4 DEF PageOK
  <2> QED  BY <2>1, <2>2, <1>4
<1>10. ASSUME NEW q \in 1..l PROVE qs[q].left \in {NoPage} \union 1..l
  <2>1. CASE q \in {r, Root}
    BY <2>1, <1>2, <1>4
  <2>2. CASE q = l
    <3>1. ps[Root].left \in {NoPage} \union 1..n
      BY <1>1, <1>3 DEF PageOK, n
    <3> QED  BY <2>2, <3>1, <1>2, <1>4
  <2>3. CASE q \in 1..n /\ q # Root
    <3>1. ps[q].left \in {NoPage} \union 1..n
      BY <2>3, <1>3 DEF PageOK, n
    <3> QED  BY <2>3, <3>1, <1>2, <1>4
  <2> QED  BY <2>1, <2>2, <2>3, <1>4
<1>11. ASSUME NEW q \in 1..l, qs[q].right # NoPage
       PROVE  qs[q].right \in 1..l /\ qs[q].right # q /\ qs[qs[q].right].lvl = qs[q].lvl
  <2>1. CASE q \in {r, Root}
    BY <2>1, <1>2, <1>5, <1>11
  <2>2. CASE q = l
    BY <2>2, <1>2, <1>4
  <2>3. CASE q \in 1..n /\ q # Root
    <3>1. qs[q] = ps[q] /\ ps[q].right \in 1..n /\ ps[q].right # Root
      BY <2>3, <1>2, <1>8, <1>11
    <3>2. ps[q].right # q /\ ps[ps[q].right].lvl = ps[q].lvl
      BY <3>1, <2>3, <1>3, <1>11 DEF PageOK
    <3> QED  BY <3>1, <3>2, <1>2, <1>4
  <2> QED  BY <2>1, <2>2, <2>3, <1>4
<1>12. ASSUME NEW q \in 1..l, qs[q].lvl > 0, NEW i \in 1..Len(qs[q].slots)
       PROVE  /\ qs[q].slots[i].child \in 1..l
              /\ qs[qs[q].slots[i].child].lvl = qs[q].lvl - 1
  <2>1. CASE q = Root
    <3>1. i \in {1, 2}
      BY <2>1, <1>2, <1>12
    <3>2. qs[q].slots[i].child \in {r, l}
      BY <2>1, <3>1, <1>2
    <3> QED  BY <2>1, <3>2, <1>1, <1>2, <1>4
  <2>2. CASE q \in {r, l}
    <3>1. PICK j \in 1..Len(ps[Root].slots) : qs[q].slots[i] = ps[Root].slots[j]
      BY <2>2, <1>6, <1>12
    <3>2. /\ ps[Root].slots[j].child \in 1..n
          /\ ps[ps[Root].slots[j].child].lvl = ps[Root].lvl - 1
      BY <1>1, <1>3, <1>5 DEF PageOK, n
    <3>3. ps[Root].slots[j].child # Root
      BY <3>2, <1>5
    <3> QED  BY <2>2, <3>1, <3>2, <3>3, <1>2, <1>4
  <2>3. CASE q \in 1..n /\ q # Root
    <3>1. qs[q] = ps[q] /\ ps[q].slots[i].child \in 1..n /\ ps[q].slots[i].child # Root
      BY <2>3, <1>2, <1>8, <1>12
    <3>2. ps[ps[q].slots[i].child].lvl = ps[q].lvl - 1
      BY <3>1, <2>3, <1>3, <1>12 DEF PageOK
    <3> QED  BY <3>1, <3>2, <1>2, <1>4
  <2> QED  BY <2>1, <2>2, <2>3, <1>4
<1>13. ASSUME NEW q \in 1..l
       PROVE  IF q = Root THEN qs[q].right = NoPage ELSE qs[q].lvl < qs[Root].lvl
  <2>1. CASE q \in {r, l}
    BY <2>1, <1>1, <1>2, <1>4, <1>5
  <2>2. CASE q = Root
    BY <2>2, <1>2
  <2>3. CASE q \in 1..n /\ q # Root
    BY <2>3, <1>1, <1>2, <1>5
  <2> QED  BY <2>1, <2>2, <2>3, <1>4
<1>14. ASSUME NEW q \in 1..l, qs[q].lvl = 0, qs[q].right # NoPage
       PROVE  qs[qs[q].right].left = q
  <2>1. q \in 1..n /\ q # Root
    BY <1>14, <1>2, <1>4, <1>5
  <2>2. qs[q] = ps[q] /\ ps[q].right \in 1..n /\ ps[q].right # Root
    BY <2>1, <1>2, <1>8, <1>14
  <2>3. ps[ps[q].right].left = q
    BY <2>1, <2>2, <1>3, <1>14 DEF PageOK
  <2> QED  BY <2>2, <2>3, <1>2
<1>15. ASSUME NEW q \in 1..l PROVE PageOK(qs, q)
  BY <1>2, <1>9, <1>10, <1>11, <1>12, <1>13, <1>14 DEF PageOK
<1>16. PagesOK(qs)
  <2>1. l \in 2..MaxPages
    BY <1>1, <1>2, BtreeAssumption DEF l, n
  <2>2. qs[Leaf].lvl = 0
    BY <1>1, <1>2 DEF PagesOK
  <2> QED  BY <2>1, <2>2, <1>2, <1>15 DEF PagesOK
<1>17. Grown(ps, qs)
  BY <1>1, <1>2, <1>5 DEF Grown, l, n
<1>18. \A q \in 1..n : q # Root => Same(ps, qs, q)
  BY <1>2 DEF Same
<1>19. ASSUME ChainOK(ps), NEW q \in 1..l, qs[q].lvl = 0,
              NEW S \in SUBSET (1..l), Leaf \in S, RightClosed(qs, S)
       PROVE  q \in S
  <2>1. \A x \in S \intersect 1..l : qs[x].lvl = 0 /\ qs[x].right # NoPage => qs[x].right \in S
    BY <1>19, <1>2 DEF RightClosed
  <2>2. q \in 1..n /\ q # Root /\ ps[q].lvl = 0
    BY <1>19, <1>2, <1>4, <1>5
  <2> DEFINE T == S \intersect 1..n
  <2>3. ASSUME NEW x \in T, ps[x].lvl = 0, ps[x].right # NoPage PROVE ps[x].right \in T
    <3>1. x # Root
      BY <2>3, <1>5
    <3>2. qs[x] = ps[x] /\ ps[x].right \in 1..n
      BY <2>3, <3>1, <1>2, <1>8
    <3> QED  BY <2>1, <2>3, <3>2, <1>4
  <2>4. RightClosed(ps, T) /\ T \in SUBSET (1..n) /\ Leaf \in T
    BY <2>3, <1>19, <1>1 DEF RightClosed, n
  <2>5. OnChain(ps, q)
    BY <1>19, <2>2 DEF ChainOK, n
  <2>6. q \in T
    <3> HIDE DEF T
    <3> QED  BY <2>4, <2>5 DEF OnChain, n
  <2> QED  BY <2>6
<1>20. ChainOK(ps) => ChainOK(qs)
  BY <1>19, <1>2 DEF ChainOK, OnChain
<1>21. ASSUME NEW k, InLeaf(ps, k) PROVE InLeaf(qs, k)
  <2>1. PICK q \in 1..n : ps[q].lvl = 0 /\ \E i \in 1..Len(ps[q].slots) : ps[q].slots[i].key = k
    BY <1>21 DEF InLeaf, n
  <2>2. qs[q] = ps[q] /\ q \in 1..l
    BY <2>1, <1>2, <1>4, <1>5
  <2> QED  BY <2>1, <2>2, <1>2 DEF InLeaf
<1> QED  BY <1>16, <1>17, <1>18, <1>20, <1>21 DEF n

-----------------------------------------------------------------------------
(* The thread at work                                                      *)

LEMMA KeysTyped == KeySet \subseteq Nat /\ Keys \subseteq KeySet /\ Keys \subseteq Nat /\ Stopper \in KeySet
BY BtreeAssumption DEF KeySet, Stopper

\* What the invariant says of the top frame of a thread.
LEMMA TopFacts ==
  ASSUME IInv, NEW t \in Threads, stack[t] # <<>>
  PROVE  /\ PagesOK(pages) /\ StackOK(pages, stack[t])
         /\ Len(stack[t]) \in Nat /\ Len(stack[t]) >= 1
         /\ FrameOK(pages, Top(t)) /\ Top(t) \in FrameType /\ Top(t).lvl \in Nat
         /\ Top(t).at # "parent"
         /\ Top(t).pageNo \in 1..Len(pages) /\ Top(t).pageNo \in Pages
         /\ Top(t).at \in {"page", "split"} => wlock[Top(t).pageNo] = t
<1>1. PagesOK(pages) /\ StackOK(pages, stack[t]) /\ Holds(wlock, t, stack[t])
  BY DEF IInv, StacksOK
<1>2. /\ Len(stack[t]) \in Nat /\ Len(stack[t]) >= 1
      /\ FrameOK(pages, Top(t)) /\ Top(t) \in FrameType /\ Top(t).lvl \in Nat
      /\ Top(t).at # "parent"
  BY <1>1, TopOfStack DEF Top
<1>3. Top(t).pageNo \in 1..Len(pages) /\ Top(t).pageNo \in Pages
  <2>1. Top(t).pageNo \in 1..Len(pages)
    BY <1>2 DEF FrameOK
  <2>2. Len(pages) \in 2..MaxPages
    BY <1>1 DEF PagesOK
  <2> QED  BY <2>1, <2>2, BtreeAssumption DEF Pages
<1>4. Top(t).at \in {"page", "split"} => wlock[Top(t).pageNo] = t
  BY <1>1 DEF Holds, Top
<1> QED  BY <1>1, <1>2, <1>3, <1>4

LEMMA NewFrame ==
  ASSUME NEW ps, PagesOK(ps), NEW op \in {"insert", "fix"}, NEW k \in KeySet, NEW c \in Nat,
         NEW b \in BOOLEAN, NEW l \in Nat, l <= ps[Root].lvl,
         IF l = 0 THEN op = "insert" /\ k \in Keys
         ELSE c \in 1..Len(ps) /\ ps[c].lvl = l - 1
  PROVE  /\ FrameOK(ps, Frame(op, k, c, b, l))
         /\ Frame(op, k, c, b, l).at = "load" /\ Frame(op, k, c, b, l).lvl = l
         /\ Frame(op, k, c, b, l).pageNo = Root /\ Frame(op, k, c, b, l).right = NoPage
         /\ Frame(op, k, c, b, l).child = c
<1> DEFINE g == Frame(op, k, c, b, l)
<1>1. g \in FrameType
  BY DEF Frame, FrameType, Root, NoLevel, NoPage
<1>2. /\ g.op = op /\ g.key = k /\ g.child = c /\ g.lvl = l /\ g.at = "load" /\ g.pageNo = Root
      /\ g.right = NoPage
  BY DEF Frame
<1>3. Root \in 1..Len(ps) /\ ps[Root].lvl \in Nat
  BY PagesTyped
<1> HIDE DEF g
<1>4. FrameOK(ps, g)
  BY <1>1, <1>2, <1>3 DEF FrameOK
<1> QED  BY <1>2, <1>4 DEF g

LEMMA RestartedFrame ==
  ASSUME NEW ps, PagesOK(ps), NEW f, FrameOK(ps, f)
  PROVE  /\ FrameOK(ps, Restart(f)) /\ Restart(f).at = "load" /\ Restart(f).lvl = f.lvl
         /\ Restart(f).pageNo = Root /\ Restart(f).right = NoPage /\ Restart(f).child = f.child
<1>1. f \in FrameType
  BY DEF FrameOK
<1>2. /\ f.op \in {"insert", "fix"} /\ f.key \in KeySet /\ f.child \in Nat
      /\ f.stop \in BOOLEAN /\ f.lvl \in Nat
  BY <1>1, FrameTyped
<1>3. /\ f.lvl <= ps[Root].lvl
      /\ IF f.lvl = 0 THEN f.op = "insert" /\ f.key \in Keys
         ELSE f.child \in 1..Len(ps) /\ ps[f.child].lvl = f.lvl - 1
  BY DEF FrameOK
<1> QED  BY <1>2, <1>3, NewFrame DEF Restart

\* The tree does not change, or changes not.
LEMMA NotGrown ==
  ASSUME NEW ps, PagesOK(ps)
  PROVE  Grown(ps, ps) /\ \A p : Same(ps, ps, p)
BY PagesTyped DEF Grown, Same

-----------------------------------------------------------------------------
(* Calls and visits                                                        *)

LEMMA InsertKeyKeeps ==
  ASSUME IInv, NEW t \in Threads, NEW k \in Keys, InsertKey(t, k)
  PROVE  IInv'
<1> DEFINE g == Frame("insert", k, NoPage, FALSE, 0)
<1>1. UNCHANGED <<pages, wlock, plock, returned>> /\ stack' = [stack EXCEPT ![t] = <<g>>]
  BY DEF InsertKey
<1>2. PagesOK(pages) /\ k \in KeySet /\ NoPage \in Nat
  BY KeysTyped DEF IInv, NoPage
<1>3. FrameOK(pages, g) /\ g.at = "load" /\ g.lvl = 0 /\ g \in FrameType
  <2>1. 0 <= pages[Root].lvl
    BY <1>2, PagesTyped
  <2> DEFINE l == 0
             op == "insert"
             no == FALSE
  <2>2. op \in {"insert", "fix"} /\ no \in BOOLEAN /\ l \in Nat /\ l <= pages[Root].lvl /\ l = 0
        /\ op = "insert"
    BY <2>1
  <2> HIDE DEF l, op, no
  <2>3. IF l = 0 THEN op = "insert" /\ k \in Keys
        ELSE NoPage \in 1..Len(pages) /\ pages[NoPage].lvl = l - 1
    BY <2>2
  <2>4. /\ FrameOK(pages, Frame(op, k, NoPage, no, l)) /\ Frame(op, k, NoPage, no, l).at = "load"
        /\ Frame(op, k, NoPage, no, l).lvl = l
    BY <1>2, <2>2, <2>3, NewFrame
  <2> QED  BY <2>4 DEF FrameOK, l, op, no
<1> HIDE DEF g
<1>4. StackOK(pages, <<g>>)
  <2> DEFINE s == <<g>>
  <2>1. s \in Seq(FrameType) /\ Len(s) = 1 /\ s[1] = g
    BY <1>3
  <2> HIDE DEF s
  <2>2. ASSUME NEW i \in 1..Len(s) PROVE FrameOK(pages, s[i]) /\ (s[i].at = "parent" <=> i > 1)
    BY <2>1, <1>3
  <2>3. \A i \in 1..Len(s) : s[i].lvl = Len(s) - i
    BY <2>1, <1>3
  <2>4. StackOK(pages, s)
    BY <2>1, <2>2, <2>3 DEF StackOK
  <2> QED  BY <2>4 DEF s
<1>5. Turn(t, <<g>>)
  <2>1. Holds(wlock', t, <<g>>)
    BY <1>3 DEF Holds
  <2> QED  BY <1>1, <1>2, <1>4, <2>1, NotGrown DEF Turn
<1>6. stack' \in [Threads -> Seq(FrameType)] /\ StacksOK'
  BY <1>5, TurnKeepsStacks
<1>7. PagesOK(pages') /\ LocksTyped' /\ ChainOK(pages') /\ ReturnedOK'
  BY <1>1 DEF IInv, LocksTyped, ReturnedOK
<1> QED  BY <1>6, <1>7 DEF IInv

\* The frame of a visit, after it.
LEMMA VisitFrame ==
  ASSUME NEW ps, PagesOK(ps), NEW f, FrameOK(ps, f), f.at = "load",
         NEW g,
         LET pg   == ps[f.pageNo]
             slot == FindSlot(pg, f.key, f.stop)
         IN  \/ pg.lvl # f.drill /\ pg.lvl = f.lvl /\ g = [f EXCEPT !.drill = pg.lvl]
             \/ pg.lvl = f.lvl /\ slot # 0 /\ g = [f EXCEPT !.at = "page"]
             \/ pg.lvl # f.lvl /\ slot # 0
                /\ g = [f EXCEPT !.pageNo = pg.slots[slot].child, !.drill = pg.lvl - 1]
             \/ slot = 0 /\ g = [f EXCEPT !.pageNo = pg.right, !.drill = pg.lvl]
  PROVE  FrameOK(ps, g) /\ g.lvl = f.lvl /\ g.at # "parent"
<1> DEFINE pg == ps[f.pageNo]
           slot == FindSlot(pg, f.key, f.stop)
<1>1. /\ f \in FrameType /\ f.pageNo \in 1..Len(ps) /\ f.lvl <= ps[Root].lvl
      /\ IF f.lvl = 0 THEN f.op = "insert" /\ f.key \in Keys
         ELSE f.child \in 1..Len(ps) /\ ps[f.child].lvl = f.lvl - 1
      /\ pg.lvl >= f.lvl
  BY DEF FrameOK
<1>2. /\ f.stop \in BOOLEAN /\ f.lvl \in Nat /\ f.pageNo \in Nat /\ f.drill \in Nat
  BY <1>1, FrameTyped
<1>3. /\ pg.lvl \in Nat /\ pg.right \in Nat /\ Len(pg.slots) \in Nat /\ Len(pg.slots) > 0
      /\ \A i \in 1..Len(pg.slots) : pg.slots[i].child \in Nat
  BY <1>1, PagesTyped
<1>4. slot \in 0..Len(pg.slots) /\ (slot = 0 => pg.right # NoPage)
  BY <1>2, <1>3, SlotFound
<1>5. PageOK(ps, f.pageNo)
  BY <1>1 DEF PagesOK
<1>6. CASE g = [f EXCEPT !.drill = pg.lvl]
  <2>1. /\ g \in FrameType /\ g.pageNo = f.pageNo /\ g.lvl = f.lvl /\ g.op = f.op /\ g.key = f.key
        /\ g.child = f.child /\ g.at = "load" /\ g.drill = pg.lvl
    BY <1>1, <1>3, <1>6 DEF FrameType
  <2> QED  BY <2>1, <1>1 DEF FrameOK
<1>7. CASE pg.lvl = f.lvl /\ slot # 0 /\ g = [f EXCEPT !.at = "page"]
  <2>1. /\ g \in FrameType /\ g.pageNo = f.pageNo /\ g.lvl = f.lvl /\ g.op = f.op /\ g.key = f.key
        /\ g.child = f.child /\ g.at = "page" /\ g.stop = f.stop
    BY <1>1, <1>3, <1>7 DEF FrameType
  <2> QED  BY <2>1, <1>1, <1>7 DEF FrameOK
<1>8. CASE /\ pg.lvl # f.lvl /\ slot # 0
           /\ g = [f EXCEPT !.pageNo = pg.slots[slot].child, !.drill = pg.lvl - 1]
  <2> DEFINE c == pg.slots[slot].child
  <2>1. c \in 1..Len(ps) /\ ps[c].lvl = pg.lvl - 1 /\ c \in Nat
    <3>1. pg.lvl > 0 /\ slot \in 1..Len(pg.slots)
      BY <1>1, <1>2, <1>3, <1>4, <1>8
    <3> HIDE DEF slot
    <3> QED  BY <3>1, <1>3, <1>5 DEF PageOK
  <2>2. pg.lvl - 1 \in Nat /\ pg.lvl - 1 >= f.lvl
    BY <1>1, <1>2, <1>3, <1>8
  <2> HIDE DEF c
  <2>3. g = [f EXCEPT !.pageNo = c, !.drill = pg.lvl - 1]
    BY <1>8 DEF c
  <2>4. /\ g \in FrameType /\ g.pageNo = c /\ g.lvl = f.lvl /\ g.op = f.op /\ g.key = f.key
        /\ g.child = f.child /\ g.at = "load" /\ g.drill = pg.lvl - 1
    BY <2>1, <2>2, <2>3, <1>1 DEF FrameType
  <2> QED  BY <2>1, <2>2, <2>4, <1>1 DEF FrameOK
<1>9. CASE slot = 0 /\ g = [f EXCEPT !.pageNo = pg.right, !.drill = pg.lvl]
  <2>1. pg.right \in 1..Len(ps) /\ ps[pg.right].lvl = pg.lvl
    BY <1>4, <1>5, <1>9 DEF PageOK
  <2>2. /\ g \in FrameType /\ g.pageNo = pg.right /\ g.lvl = f.lvl /\ g.op = f.op /\ g.key = f.key
        /\ g.child = f.child /\ g.at = "load" /\ g.drill = pg.lvl
    BY <1>1, <1>3, <1>9 DEF FrameType
  <2> QED  BY <2>1, <2>2, <1>1 DEF FrameOK
<1> QED  BY <1>6, <1>7, <1>8, <1>9

LEMMA VisitKeeps ==
  ASSUME IInv, NEW t \in Threads, Visit(t)
  PROVE  IInv'
<1> DEFINE f    == Top(t)
           pg   == pages[f.pageNo]
           slot == FindSlot(pg, f.key, f.stop)
           Next1(g) ==
             \/ pg.lvl # f.drill /\ pg.lvl = f.lvl /\ g = [f EXCEPT !.drill = pg.lvl]
             \/ pg.lvl = f.lvl /\ slot # 0 /\ g = [f EXCEPT !.at = "page"]
             \/ pg.lvl # f.lvl /\ slot # 0
                /\ g = [f EXCEPT !.pageNo = pg.slots[slot].child, !.drill = pg.lvl - 1]
             \/ slot = 0 /\ g = [f EXCEPT !.pageNo = pg.right, !.drill = pg.lvl]
           Lock1(g) ==
             \/ wlock' = wlock /\ g.at = "load"
             \/ wlock' = [wlock EXCEPT ![f.pageNo] = t] /\ g.at = "page" /\ g.pageNo = f.pageNo
<1>1. /\ stack[t] # <<>> /\ f.at = "load" /\ UNCHANGED <<pages, plock, returned>>
      /\ wlock[f.pageNo] = None
  BY DEF Visit
<1>2. /\ PagesOK(pages) /\ StackOK(pages, stack[t]) /\ FrameOK(pages, f) /\ f \in FrameType
      /\ f.pageNo \in Pages
  BY <1>1, TopFacts
<1>3. PICK g : SetTop(t, g) /\ Next1(g) /\ Lock1(g)
  <2>1. CASE pg.lvl # f.drill /\ pg.lvl = f.lvl /\ SetTop(t, [f EXCEPT !.drill = pg.lvl])
             /\ UNCHANGED wlock
    <3> DEFINE g == [f EXCEPT !.drill = pg.lvl]
    <3>1. g.at = "load"
      BY <1>1, <1>2 DEF FrameType
    <3> QED  BY <2>1, <3>1
  <2>2. CASE pg.lvl = f.lvl /\ slot # 0 /\ SetTop(t, [f EXCEPT !.at = "page"])
             /\ wlock' = [wlock EXCEPT ![f.pageNo] = t]
    <3> DEFINE g == [f EXCEPT !.at = "page"]
    <3>1. g.at = "page" /\ g.pageNo = f.pageNo
      BY <1>1, <1>2 DEF FrameType
    <3> QED  BY <2>2, <3>1
  <2>3. CASE pg.lvl # f.lvl /\ slot # 0 /\ UNCHANGED wlock
             /\ SetTop(t, [f EXCEPT !.pageNo = pg.slots[slot].child, !.drill = pg.lvl - 1])
    <3> DEFINE g == [f EXCEPT !.pageNo = pg.slots[slot].child, !.drill = pg.lvl - 1]
    <3>1. g.at = "load"
      BY <1>1, <1>2 DEF FrameType
    <3> QED  BY <2>3, <3>1
  <2>4. CASE slot = 0 /\ SetTop(t, [f EXCEPT !.pageNo = pg.right, !.drill = pg.lvl])
             /\ UNCHANGED wlock
    <3> DEFINE g == [f EXCEPT !.pageNo = pg.right, !.drill = pg.lvl]
    <3>1. g.at = "load"
      BY <1>1, <1>2 DEF FrameType
    <3> QED  BY <2>4, <3>1
  <2> QED  BY <2>1, <2>2, <2>3, <2>4 DEF Visit
<1>4. FrameOK(pages, g) /\ g.lvl = f.lvl /\ g.at # "parent"
  BY <1>1, <1>2, <1>3, VisitFrame
<1> HIDE DEF Next1, slot, pg, f
<1> DEFINE s == <<g>> \o Tail(stack[t])
<1>5. stack' = [stack EXCEPT ![t] = s]
  BY <1>3 DEF SetTop
<1>6. StackOK(pages, s)
  BY <1>1, <1>2, <1>4, TopChanged DEF f, Top
<1>7. s[1] = g
  <2>1. stack[t] \in Seq(FrameType) /\ stack[t] # <<>>
    BY <1>1, <1>2 DEF StackOK
  <2> QED  BY <2>1
<1> HIDE DEF s
<1>8. wlock \in [Pages -> Threads \union {None}]
  BY DEF IInv, LocksTyped
<1>9. Holds(wlock', t, s)
  <2>1. CASE wlock' = wlock /\ g.at = "load"
    BY <2>1, <1>7 DEF Holds
  <2>2. CASE wlock' = [wlock EXCEPT ![f.pageNo] = t] /\ g.at = "page" /\ g.pageNo = f.pageNo
    BY <2>2, <1>2, <1>7, <1>8 DEF Holds
  <2> QED  BY <2>1, <2>2, <1>3
<1>10. ASSUME NEW p \in 1..Len(pages), wlock[p] \notin {t, None} PROVE wlock'[p] = wlock[p]
  <2>1. p # f.pageNo
    BY <1>1, <1>10 DEF f
  <2>2. p \in Pages
    BY <1>2, BtreeAssumption DEF PagesOK, Pages
  <2> QED  BY <2>1, <2>2, <1>3, <1>8
<1>11. Turn(t, s)
  BY <1>1, <1>2, <1>5, <1>6, <1>9, <1>10, NotGrown DEF Turn
<1>12. stack' \in [Threads -> Seq(FrameType)] /\ StacksOK'
  BY <1>11, TurnKeepsStacks
<1>13. wlock' \in [Pages -> Threads \union {None}]
  BY <1>3, <1>8
<1>14. PagesOK(pages') /\ LocksTyped' /\ ChainOK(pages') /\ ReturnedOK'
  BY <1>1, <1>13 DEF IInv, LocksTyped, ReturnedOK
<1> QED  BY <1>12, <1>14 DEF IInv

-----------------------------------------------------------------------------
(* btreeInsertSlot and btreeFixKey                                         *)

\* The slots of page p of qs are those of ps with slot e at position i.
AddedSlot(ps, qs, p, i, e) ==
  /\ Len(qs) = Len(ps) /\ p \in 1..Len(ps)
  /\ \A q \in 1..Len(ps) : q # p => qs[q] = ps[q]
  /\ qs[p].lvl = ps[p].lvl /\ qs[p].right = ps[p].right
  /\ i \in 1..Len(ps[p].slots) /\ Len(qs[p].slots) = Len(ps[p].slots) + 1
  /\ qs[p].slots[i] = e
  /\ \A j \in 1..i - 1 : qs[p].slots[j] = ps[p].slots[j]
  /\ \A j \in i..Len(ps[p].slots) : qs[p].slots[j + 1] = ps[p].slots[j]

\* The new slot has its place on the page, and all keys stay.
LEMMA InsertSlotEdits ==
  ASSUME IInv, NEW t \in Threads, InsertSlot(t)
  PROVE  /\ Edit(pages, pages', Top(t).pageNo, Top(t).child)
         /\ \E i \in 1..Len(pages'[Top(t).pageNo].slots) :
              pages'[Top(t).pageNo].slots[i].key = Top(t).key
         /\ AddedSlot(pages, pages', Top(t).pageNo,
                      FindSlot(pages[Top(t).pageNo], Top(t).key, Top(t).stop),
                      Slot(Top(t).key, Top(t).child, FALSE))
<1> DEFINE f    == Top(t)
           p    == f.pageNo
           pg   == pages[p]
           slot == FindSlot(pg, f.key, f.stop)
           e    == Slot(f.key, f.child, FALSE)
           ss   == InsertAt(pg.slots, slot, e)
<1>1. /\ stack[t] # <<>> /\ f.at = "page" /\ ~Full(pg)
      /\ pages' = [pages EXCEPT ![p].slots = ss]
  BY DEF InsertSlot, OnPage
<1>2. PagesOK(pages) /\ FrameOK(pages, f) /\ f \in FrameType /\ p \in 1..Len(pages)
  BY <1>1, TopFacts
<1>3. /\ pages \in Seq(PageType) /\ Len(pages) \in Nat /\ pg \in PageType
      /\ pg.slots \in Seq(SlotType) /\ Len(pg.slots) \in Nat /\ Len(pg.slots) > 0
      /\ pg.lvl \in Nat
  BY <1>2, PagesTyped DEF PagesOK
<1>4. slot \in 1..Len(pg.slots)
  <2>1. slot # 0
    BY <1>1, <1>2 DEF FrameOK
  <2>2. slot \in 0..Len(pg.slots)
    BY <1>2, <1>3, FrameTyped, SlotFound
  <2> HIDE DEF slot
  <2> QED  BY <2>1, <2>2, <1>3
<1>5. e \in SlotType /\ e.key = f.key /\ e.child = f.child
  BY <1>2, FrameTyped DEF Slot, SlotType
<1> HIDE DEF slot, e
<1>6. /\ ss \in Seq(SlotType) /\ Len(ss) = Len(pg.slots) + 1 /\ ss[slot] = e
      /\ \A j \in 1..slot - 1 : ss[j] = pg.slots[j]
      /\ \A j \in slot..Len(pg.slots) : ss[j + 1] = pg.slots[j]
  <2> DEFINE os == pg.slots
  <2>1. os \in Seq(SlotType) /\ slot \in 1..Len(os) /\ e \in SlotType
    BY <1>3, <1>4, <1>5
  <2> HIDE DEF os
  <2>2. /\ InsertAt(os, slot, e) \in Seq(SlotType)
        /\ Len(InsertAt(os, slot, e)) = Len(os) + 1
        /\ InsertAt(os, slot, e)[slot] = e
        /\ \A j \in 1..slot - 1 : InsertAt(os, slot, e)[j] = os[j]
        /\ \A j \in slot..Len(os) : InsertAt(os, slot, e)[j + 1] = os[j]
    BY <2>1, InsertedAt
  <2> QED  BY <2>2 DEF os
<1> HIDE DEF ss
<1>7. /\ pages' \in Seq(PageType) /\ Len(pages') = Len(pages)
      /\ \A q \in 1..Len(pages) : q # p => pages'[q] = pages[q]
      /\ pages'[p] = [pg EXCEPT !.slots = ss]
  <2> DEFINE new == [pg EXCEPT !.slots = ss]
  <2>1. new \in PageType
    BY <1>3, <1>6 DEF PageType
  <2>2. pages' = [pages EXCEPT ![p] = new]
    BY <1>1
  <2> HIDE DEF new, pg, p
  <2>3. pages' \in Seq(PageType) /\ Len(pages') = Len(pages)
    BY <2>1, <2>2, <1>2, <1>3 DEF p
  <2>4. pages'[p] = new /\ \A q \in 1..Len(pages) : q # p => pages'[q] = pages[q]
    BY <2>2, <1>2, <1>3 DEF p
  <2> QED  BY <2>3, <2>4 DEF new
<1>8. /\ pages'[p].lvl = pg.lvl /\ pages'[p].right = pg.right /\ pages'[p].left = pg.left
      /\ pages'[p].slots = ss
  BY <1>3, <1>7 DEF PageType
<1> DEFINE n == Len(pg.slots)
<1>9. n + 1 \in 1..Cap(pg.lvl)
  <2>1. ~(n >= Cap(pg.lvl))
    BY <1>1 DEF Full, Cap
  <2>2. Cap(pg.lvl) \in Nat
    BY BtreeAssumption DEF Cap
  <2> HIDE DEF pg
  <2> QED  BY <2>1, <2>2, <1>3
<1>10. ASSUME NEW i \in 1..n + 1 PROVE ss[i] = e \/ \E j \in 1..n : ss[i] = pg.slots[j]
  <2>1. CASE i < slot
    <3>1. i \in 1..slot - 1 /\ i \in 1..n
      BY <2>1, <1>3, <1>4
    <3> QED  BY <3>1, <1>6
  <2>2. CASE i = slot
    BY <2>2, <1>6
  <2>3. CASE i > slot
    <3>1. i - 1 \in slot..n /\ i - 1 \in 1..n /\ (i - 1) + 1 = i
      BY <2>3, <1>3, <1>4
    <3>2. ss[(i - 1) + 1] = pg.slots[i - 1]
      BY <3>1, <1>6
    <3> QED  BY <3>1, <3>2
  <2> QED  BY <2>1, <2>2, <2>3, <1>3, <1>4
<1>11. ASSUME NEW j \in 1..n PROVE \E i \in 1..n + 1 : ss[i].key = pg.slots[j].key
  <2>1. CASE j < slot
    <3>1. j \in 1..slot - 1 /\ j \in 1..n + 1
      BY <2>1, <1>3, <1>4
    <3> QED  BY <3>1, <1>6
  <2>2. CASE j >= slot
    <3>1. j \in slot..n /\ j + 1 \in 1..n + 1
      BY <2>2, <1>3, <1>4
    <3> QED  BY <3>1, <1>6
  <2> QED  BY <2>1, <2>2, <1>3, <1>4
<1>12. ASSUME pg.lvl > 0, NEW i \in 1..n + 1
       PROVE  ss[i].child \in 1..Len(pages) /\ pages[ss[i].child].lvl = pg.lvl - 1
  <2>1. CASE ss[i] = e
    <3>1. f.lvl = pg.lvl
      BY <1>1, <1>2 DEF FrameOK
    <3>2. f.child \in 1..Len(pages) /\ pages[f.child].lvl = f.lvl - 1
      BY <3>1, <1>2, <1>12 DEF FrameOK
    <3> QED  BY <2>1, <3>1, <3>2, <1>5
  <2>2. CASE \E j \in 1..n : ss[i] = pg.slots[j]
    <3>1. PageOK(pages, p)
      BY <1>2 DEF PagesOK
    <3> QED  BY <2>2, <3>1, <1>12 DEF PageOK
  <2> QED  BY <2>1, <2>2, <1>10
<1>13. ASSUME NEW i \in 1..n + 1
       PROVE  ss[i].child = f.child \/ \E j \in 1..n : ss[i] = pg.slots[j]
  BY <1>5, <1>10
<1>14. Edit(pages, pages', p, f.child)
  BY <1>2, <1>6, <1>7, <1>8, <1>9, <1>11, <1>12, <1>13 DEF Edit
<1>15. \E i \in 1..Len(pages'[p].slots) : pages'[p].slots[i].key = f.key
  <2>1. slot \in 1..n + 1
    BY <1>3, <1>4
  <2> QED  BY <2>1, <1>5, <1>6, <1>8
<1>16. AddedSlot(pages, pages', p, slot, e)
  BY <1>2, <1>4, <1>6, <1>7, <1>8 DEF AddedSlot
<1> QED  BY <1>14, <1>15, <1>16 DEF slot, e

\* The child of slot i of page p changes to c.
FixedSlot(ps, qs, p, i, c) ==
  /\ Len(qs) = Len(ps) /\ p \in 1..Len(ps) /\ ps[p].lvl > 0
  /\ \A q \in 1..Len(ps) : q # p => qs[q] = ps[q]
  /\ qs[p].lvl = ps[p].lvl /\ qs[p].right = ps[p].right
  /\ i \in 1..Len(ps[p].slots) /\ Len(qs[p].slots) = Len(ps[p].slots)
  /\ \A j \in 1..Len(ps[p].slots) :
       /\ qs[p].slots[j].key = ps[p].slots[j].key
       /\ qs[p].slots[j].stop = ps[p].slots[j].stop
       /\ qs[p].slots[j].child = IF j = i THEN c ELSE ps[p].slots[j].child

LEMMA FixKeyEdits ==
  ASSUME IInv, NEW t \in Threads, FixKey(t)
  PROVE  /\ Edit(pages, pages', Top(t).pageNo, Top(t).child)
         /\ FixedSlot(pages, pages', Top(t).pageNo,
                      FindSlot(pages[Top(t).pageNo], Top(t).key, Top(t).stop), Top(t).child)
<1> DEFINE f    == Top(t)
           p    == f.pageNo
           pg   == pages[p]
           slot == FindSlot(pg, f.key, f.stop)
           e    == [pg.slots[slot] EXCEPT !.child = f.child]
           ss   == [pg.slots EXCEPT ![slot] = e]
           new  == [pg EXCEPT !.slots = ss]
<1>1. /\ stack[t] # <<>> /\ f.at = "page" /\ f.op = "fix"
      /\ pages' = [pages EXCEPT ![p] = new]
  BY DEF FixKey, OnPage
<1>2. PagesOK(pages) /\ FrameOK(pages, f) /\ f \in FrameType /\ p \in 1..Len(pages)
  BY <1>1, TopFacts
<1>3. /\ pages \in Seq(PageType) /\ Len(pages) \in Nat /\ pg \in PageType
      /\ pg.slots \in Seq(SlotType) /\ Len(pg.slots) \in Nat /\ Len(pg.slots) > 0
      /\ pg.lvl \in Nat
  BY <1>2, PagesTyped DEF PagesOK
<1>4. slot \in 1..Len(pg.slots)
  <2>1. slot # 0
    BY <1>1, <1>2 DEF FrameOK
  <2>2. slot \in 0..Len(pg.slots)
    BY <1>2, <1>3, FrameTyped, SlotFound
  <2> HIDE DEF slot
  <2> QED  BY <2>1, <2>2, <1>3
<1> HIDE DEF slot
<1>5. e \in SlotType /\ e.key = pg.slots[slot].key /\ e.stop = pg.slots[slot].stop /\ e.child = f.child
  <2>1. pg.slots[slot] \in SlotType /\ f.child \in Nat
    BY <1>2, <1>3, <1>4, FrameTyped
  <2> QED  BY <2>1 DEF SlotType
<1> HIDE DEF e
<1>6. /\ ss \in Seq(SlotType) /\ Len(ss) = Len(pg.slots) /\ ss[slot] = e
      /\ \A j \in 1..Len(pg.slots) : j # slot => ss[j] = pg.slots[j]
  <2>1. ss \in Seq(SlotType) /\ Len(ss) = Len(pg.slots)
    BY <1>3, <1>4, <1>5
  <2>2. ss[slot] = e /\ \A j \in 1..Len(pg.slots) : j # slot => ss[j] = pg.slots[j]
    BY <1>3, <1>4
  <2> QED  BY <2>1, <2>2
<1> HIDE DEF ss
<1>7. /\ pages' \in Seq(PageType) /\ Len(pages') = Len(pages)
      /\ \A q \in 1..Len(pages) : q # p => pages'[q] = pages[q]
      /\ pages'[p] = new
  <2>1. new \in PageType
    BY <1>3, <1>6 DEF PageType
  <2> HIDE DEF new, pg, p
  <2>2. pages' \in Seq(PageType) /\ Len(pages') = Len(pages)
    BY <2>1, <1>1, <1>2, <1>3 DEF p
  <2>3. pages'[p] = new /\ \A q \in 1..Len(pages) : q # p => pages'[q] = pages[q]
    BY <1>1, <1>2, <1>3 DEF p
  <2> QED  BY <2>2, <2>3
<1>8. /\ pages'[p].lvl = pg.lvl /\ pages'[p].right = pg.right /\ pages'[p].left = pg.left
      /\ pages'[p].slots = ss
  BY <1>3, <1>7 DEF PageType
<1>9. PageOK(pages, p)
  BY <1>2 DEF PagesOK
<1>10. Len(pages'[p].slots) \in 1..Cap(pg.lvl)
  BY <1>6, <1>8, <1>9 DEF PageOK
<1>11. ASSUME pg.lvl > 0, NEW i \in 1..Len(pages'[p].slots)
       PROVE  /\ pages'[p].slots[i].child \in 1..Len(pages)
              /\ pages[pages'[p].slots[i].child].lvl = pg.lvl - 1
  <2>1. CASE i = slot
    <3>1. f.lvl = pg.lvl
      BY <1>1, <1>2 DEF FrameOK
    <3>2. f.child \in 1..Len(pages) /\ pages[f.child].lvl = f.lvl - 1
      BY <3>1, <1>2, <1>11 DEF FrameOK
    <3> QED  BY <2>1, <3>1, <3>2, <1>5, <1>6, <1>8
  <2>2. CASE i # slot
    <3>1. i \in 1..Len(pg.slots) /\ pages'[p].slots[i] = pg.slots[i]
      BY <2>2, <1>6, <1>8, <1>11
    <3> QED  BY <3>1, <1>9, <1>11 DEF PageOK
  <2> QED  BY <2>1, <2>2
<1>12. ASSUME NEW j \in 1..Len(pg.slots)
       PROVE  \E i \in 1..Len(pages'[p].slots) : pages'[p].slots[i].key = pg.slots[j].key
  <2>1. ss[j].key = pg.slots[j].key
    BY <1>5, <1>6
  <2> QED  BY <2>1, <1>6, <1>8
<1>13. ASSUME NEW i \in 1..Len(pages'[p].slots)
       PROVE  \/ pages'[p].slots[i].child = f.child
              \/ \E j \in 1..Len(pg.slots) : pages'[p].slots[i] = pg.slots[j]
  BY <1>5, <1>6, <1>8
<1>14. pg.lvl > 0
  BY <1>1, <1>2, <1>3 DEF FrameOK
<1>15. ASSUME NEW j \in 1..Len(pg.slots)
       PROVE  /\ ss[j].key = pg.slots[j].key /\ ss[j].stop = pg.slots[j].stop
              /\ ss[j].child = IF j = slot THEN f.child ELSE pg.slots[j].child
  BY <1>5, <1>6
<1> HIDE DEF new
<1>16. Edit(pages, pages', p, f.child)
  BY <1>2, <1>7, <1>8, <1>10, <1>11, <1>12, <1>13 DEF Edit
<1>17. FixedSlot(pages, pages', p, slot, f.child)
  BY <1>2, <1>4, <1>6, <1>7, <1>8, <1>14, <1>15 DEF FixedSlot
<1> QED  BY <1>16, <1>17 DEF slot

\* The write lock on page p goes back.
LEMMA Unlocked ==
  ASSUME IInv, NEW p, wlock' = [wlock EXCEPT ![p] = None], NEW t, wlock[p] = t
  PROVE  /\ wlock' \in [Pages -> Threads \union {None}]
         /\ \A q \in Pages : wlock[q] \notin {t, None} => wlock'[q] = wlock[q]
<1>1. wlock \in [Pages -> Threads \union {None}]
  BY DEF IInv, LocksTyped
<1> QED  BY <1>1

LEMMA PagesAreNumbered ==
  ASSUME IInv PROVE 1..Len(pages) \subseteq Pages
BY BtreeAssumption DEF IInv, PagesOK, Pages

LEMMA InsertSlotKeeps ==
  ASSUME IInv, NEW t \in Threads, InsertSlot(t)
  PROVE  IInv'
<1> DEFINE f  == Top(t)
           up == stack[t][2]
           s  == IF Len(stack[t]) = 1 THEN <<>>
                 ELSE <<Frame("fix", up.fence, up.right, up.last, f.lvl)>> \o Tail(stack[t])
<1>1. /\ stack[t] # <<>> /\ f.at = "page" /\ f.op = "insert" /\ UNCHANGED plock
      /\ wlock' = [wlock EXCEPT ![f.pageNo] = None]
      /\ stack' = [stack EXCEPT ![t] = s]
      /\ IF Len(stack[t]) = 1 THEN returned' = returned \union {f.key} ELSE returned' = returned
  BY DEF InsertSlot, OnPage, SetTop
<1>2. /\ PagesOK(pages) /\ StackOK(pages, stack[t]) /\ FrameOK(pages, f) /\ f \in FrameType
      /\ f.pageNo \in Pages /\ f.pageNo \in 1..Len(pages) /\ wlock[f.pageNo] = t
      /\ Len(stack[t]) \in Nat /\ Len(stack[t]) >= 1
  BY <1>1, TopFacts
<1>3. /\ Edit(pages, pages', f.pageNo, f.child)
      /\ \E i \in 1..Len(pages'[f.pageNo].slots) : pages'[f.pageNo].slots[i].key = f.key
  BY InsertSlotEdits
<1>4. /\ PagesOK(pages') /\ Grown(pages, pages')
      /\ \A q \in 1..Len(pages) : q # f.pageNo => Same(pages, pages', q)
      /\ ChainOK(pages) => ChainOK(pages')
      /\ \A k : InLeaf(pages, k) => InLeaf(pages', k)
  BY <1>2, <1>3, Edited
<1>5. /\ wlock' \in [Pages -> Threads \union {None}]
      /\ \A q \in Pages : wlock[q] \notin {t, None} => wlock'[q] = wlock[q]
  BY <1>1, <1>2, Unlocked
<1>6. /\ StackOK(pages', s)
      /\ s # <<>> => s[1].at = "load"
  <2>1. CASE Len(stack[t]) = 1
    <3>1. s = <<>>
      BY <2>1
    <3>2. <<>> \in Seq(FrameType) /\ Len(<<>>) = 0
      OBVIOUS
    <3>3. StackOK(pages', <<>>)
      BY <3>2 DEF StackOK
    <3> QED  BY <3>1, <3>3
  <2>2. CASE Len(stack[t]) # 1
    <3>1. 2 \in 1..Len(stack[t]) /\ 1 \in 1..Len(stack[t]) /\ Len(stack[t]) - 1 = Len(stack[t]) - 2 + 1
      <4> DEFINE n == Len(stack[t])
      <4>1. n \in Nat /\ n >= 1 /\ n # 1
        BY <2>2, <1>2
      <4> HIDE DEF n
      <4>2. 2 \in 1..n /\ 1 \in 1..n /\ n - 1 = n - 2 + 1
        BY <4>1
      <4> QED  BY <4>2 DEF n
    <3>2. FrameOK(pages, up) /\ up.at = "parent" /\ f.lvl = up.lvl + 1
      BY <3>1, <1>2 DEF StackOK, Top
    <3>3. up \in FrameType /\ up.lvl \in Nat /\ up.right \in Nat /\ up.last \in BOOLEAN
      BY <3>2, FrameTyped DEF FrameOK
    <3>4. /\ up.right \in 1..Len(pages) /\ pages[up.right].lvl = up.lvl
          /\ up.fence \in KeySet
      BY <3>2 DEF FrameOK
    <3>5. f.lvl \in Nat /\ f.lvl <= pages[Root].lvl /\ f.lvl # 0 /\ f.lvl - 1 = up.lvl
      BY <3>2, <3>3, <1>2, SMTT(30) DEF FrameOK
    <3> DEFINE g == Frame("fix", up.fence, up.right, up.last, f.lvl)
    <3>6. FrameOK(pages, g) /\ g.at = "load" /\ g.lvl = f.lvl
      BY <3>3, <3>4, <3>5, <1>2, NewFrame, SMTT(30)
    <3> HIDE DEF g
    <3> DEFINE w == <<g>> \o Tail(stack[t])
    <3>7. StackOK(pages, w)
      BY <3>6, <1>1, <1>2, TopChanged DEF Top
    <3>8. w[1] = g
      <4>1. stack[t] \in Seq(FrameType) /\ stack[t] # <<>>
        BY <1>1, <1>2 DEF StackOK
      <4> QED  BY <4>1
    <3>9. s = w
      BY <2>2 DEF g
    <3> HIDE DEF w, s
    <3>10. StackOK(pages', w)
      BY <3>6, <3>7, <3>8, <1>2, <1>4, StackKept
    <3> QED  BY <3>6, <3>8, <3>9, <3>10
  <2> QED  BY <2>1, <2>2
<1>7. Turn(t, s)
  <2>1. Holds(wlock', t, s)
    BY <1>6 DEF Holds
  <2>2. ASSUME NEW p \in 1..Len(pages), wlock[p] \notin {t, None}
        PROVE  Same(pages, pages', p) /\ wlock'[p] = wlock[p]
    <3>1. p # f.pageNo /\ p \in Pages
      BY <2>2, <1>2, PagesAreNumbered
    <3> QED  BY <3>1, <2>2, <1>4, <1>5
  <2> QED  BY <2>1, <2>2, <1>1, <1>4, <1>6 DEF Turn
<1>8. stack' \in [Threads -> Seq(FrameType)] /\ StacksOK'
  BY <1>7, TurnKeepsStacks
<1>9. ReturnedOK'
  <2>1. ASSUME NEW k \in returned PROVE InLeaf(pages', k)
    BY <1>4 DEF IInv, ReturnedOK
  <2>2. CASE Len(stack[t]) # 1
    BY <2>1, <2>2, <1>1 DEF ReturnedOK
  <2>3. CASE Len(stack[t]) = 1
    <3>1. pages[f.pageNo].lvl = 0
      BY <2>3, <1>1, <1>2 DEF StackOK, FrameOK, Top
    <3>2. pages'[f.pageNo].lvl = 0 /\ f.pageNo \in 1..Len(pages')
      BY <3>1, <1>2, <1>3 DEF Edit
    <3>3. InLeaf(pages', f.key)
      BY <3>2, <1>3 DEF InLeaf
    <3> QED  BY <2>1, <2>3, <3>3, <1>1 DEF ReturnedOK
  <2> QED  BY <2>2, <2>3
<1>10. LocksTyped'
  BY <1>1, <1>5 DEF IInv, LocksTyped
<1> QED  BY <1>4, <1>8, <1>9, <1>10 DEF IInv

LEMMA FixKeyKeeps ==
  ASSUME IInv, NEW t \in Threads, FixKey(t)
  PROVE  IInv'
<1> DEFINE f  == Top(t)
           up == stack[t][2]
           s  == <<Restart(up)>> \o SubSeq(stack[t], 3, Len(stack[t]))
<1>1. /\ stack[t] # <<>> /\ f.at = "page" /\ f.op = "fix" /\ UNCHANGED returned
      /\ wlock' = [wlock EXCEPT ![f.pageNo] = None]
      /\ plock' = [plock EXCEPT ![up.pageNo] = None, ![up.right] = None]
      /\ stack' = [stack EXCEPT ![t] = s]
  BY DEF FixKey, OnPage
<1>2. /\ PagesOK(pages) /\ StackOK(pages, stack[t]) /\ FrameOK(pages, f) /\ f \in FrameType
      /\ f.pageNo \in Pages /\ f.pageNo \in 1..Len(pages) /\ wlock[f.pageNo] = t
      /\ Len(stack[t]) \in Nat /\ Len(stack[t]) >= 1
  BY <1>1, TopFacts
<1>3. /\ PagesOK(pages') /\ Grown(pages, pages')
      /\ \A q \in 1..Len(pages) : q # f.pageNo => Same(pages, pages', q)
      /\ ChainOK(pages) => ChainOK(pages')
      /\ \A k : InLeaf(pages, k) => InLeaf(pages', k)
  <2>1. Edit(pages, pages', f.pageNo, f.child)
    BY FixKeyEdits
  <2> QED  BY <2>1, <1>2, Edited
<1>4. /\ wlock' \in [Pages -> Threads \union {None}]
      /\ \A q \in Pages : wlock[q] \notin {t, None} => wlock'[q] = wlock[q]
  BY <1>1, <1>2, Unlocked
<1>5. Len(stack[t]) >= 2
  <2>1. f.lvl # 0
    BY <1>1, <1>2 DEF FrameOK
  <2>2. Len(stack[t]) # 1
    BY <2>1, <1>1, <1>2 DEF StackOK, Top
  <2> DEFINE n == Len(stack[t])
  <2>3. n \in Nat /\ n >= 1 /\ n # 1
    BY <2>2, <1>2
  <2> HIDE DEF n
  <2>4. n >= 2
    BY <2>3
  <2> QED  BY <2>4 DEF n
<1>6. StackOK(pages', s) /\ s[1].at = "load"
  <2>1. FrameOK(pages, up)
    BY <1>2, <1>5 DEF StackOK
  <2> DEFINE g == Restart(up)
  <2>2. FrameOK(pages, g) /\ g.at = "load" /\ g.lvl = up.lvl
    BY <2>1, <1>2, RestartedFrame
  <2> HIDE DEF g
  <2> DEFINE w == <<g>> \o SubSeq(stack[t], 3, Len(stack[t]))
  <2>3. StackOK(pages, w)
    BY <2>2, <1>2, <1>5, FramePopped
  <2>4. w[1] = g
    <3>1. SubSeq(stack[t], 3, Len(stack[t])) \in Seq(FrameType)
      BY <1>2, <1>5, SubSeqProperties DEF StackOK
    <3> QED  BY <3>1
  <2>5. s = w
    BY DEF g
  <2> HIDE DEF w, s
  <2>6. StackOK(pages', w)
    BY <2>2, <2>3, <2>4, <1>2, <1>3, StackKept
  <2> QED  BY <2>2, <2>4, <2>5, <2>6
<1>7. Turn(t, s)
  <2>1. Holds(wlock', t, s)
    BY <1>6 DEF Holds
  <2>2. ASSUME NEW p \in 1..Len(pages), wlock[p] \notin {t, None}
        PROVE  Same(pages, pages', p) /\ wlock'[p] = wlock[p]
    <3>1. p # f.pageNo /\ p \in Pages
      BY <2>2, <1>2, PagesAreNumbered
    <3> QED  BY <3>1, <2>2, <1>3, <1>4
  <2> QED  BY <2>1, <2>2, <1>1, <1>3, <1>6 DEF Turn
<1>8. stack' \in [Threads -> Seq(FrameType)] /\ StacksOK'
  BY <1>7, TurnKeepsStacks
<1>9. ReturnedOK' /\ LocksTyped' /\ ChainOK(pages')
  BY <1>1, <1>3, <1>4 DEF IInv, ReturnedOK, LocksTyped
<1> QED  BY <1>3, <1>8, <1>9 DEF IInv

-----------------------------------------------------------------------------
(* btreeSplitPage and btreeSplitRoot                                       *)

LEMMA LockParentsKeeps ==
  ASSUME IInv, NEW t \in Threads, LockParents(t)
  PROVE  IInv'
<1> DEFINE f == Top(t)
           g == Frame("insert", f.low, f.pageNo, FALSE, f.lvl + 1)
           h == [f EXCEPT !.at = "parent"]
           s == <<g, h>> \o Tail(stack[t])
<1>1. /\ stack[t] # <<>> /\ f.at = "split" /\ UNCHANGED <<pages, returned>>
      /\ wlock' = [wlock EXCEPT ![f.pageNo] = None]
      /\ plock' = [plock EXCEPT ![f.pageNo] = t, ![f.right] = t]
      /\ stack' = [stack EXCEPT ![t] = s]
  BY DEF LockParents
<1>2. /\ PagesOK(pages) /\ StackOK(pages, stack[t]) /\ FrameOK(pages, f) /\ f \in FrameType
      /\ f.pageNo \in Pages /\ f.pageNo \in 1..Len(pages) /\ wlock[f.pageNo] = t
      /\ Len(stack[t]) \in Nat /\ Len(stack[t]) >= 1 /\ f.lvl \in Nat
  BY <1>1, TopFacts
<1>3. /\ wlock' \in [Pages -> Threads \union {None}]
      /\ \A q \in Pages : wlock[q] \notin {t, None} => wlock'[q] = wlock[q]
  BY <1>1, <1>2, Unlocked
<1>4. /\ f.op = "insert" /\ f.pageNo # Root /\ f.right \in 1..Len(pages)
      /\ pages[f.pageNo].lvl = f.lvl /\ pages[f.right].lvl = f.lvl
      /\ f.low \in KeySet /\ f.fence \in KeySet
  BY <1>1, <1>2 DEF FrameOK
<1>5. FrameOK(pages, g) /\ g.at = "load" /\ g.lvl = f.lvl + 1
  <2>1. pages[f.pageNo].lvl < pages[Root].lvl /\ pages[Root].lvl \in Nat
    BY <1>2, <1>4, PagesTyped DEF PagesOK, PageOK
  <2> DEFINE l == f.lvl + 1
             no == FALSE
  <2>2. /\ l \in Nat /\ l <= pages[Root].lvl /\ l # 0 /\ l - 1 = f.lvl /\ no \in BOOLEAN
        /\ f.pageNo \in Nat
    BY <2>1, <1>2, <1>4, FrameTyped
  <2>3. IF l = 0 THEN "insert" = "insert" /\ f.low \in Keys
        ELSE f.pageNo \in 1..Len(pages) /\ pages[f.pageNo].lvl = l - 1
    BY <2>2, <1>2, <1>4
  <2> HIDE DEF l, no
  <2>4. /\ FrameOK(pages, Frame("insert", f.low, f.pageNo, no, l))
        /\ Frame("insert", f.low, f.pageNo, no, l).at = "load"
        /\ Frame("insert", f.low, f.pageNo, no, l).lvl = l
    BY <2>2, <2>3, <1>2, <1>4, NewFrame
  <2> QED  BY <2>4 DEF l, no
<1>6. FrameOK(pages, h) /\ h.at = "parent" /\ h.lvl = f.lvl
  <2>1. /\ h \in FrameType /\ h.pageNo = f.pageNo /\ h.lvl = f.lvl /\ h.op = f.op /\ h.key = f.key
        /\ h.child = f.child /\ h.at = "parent" /\ h.right = f.right /\ h.low = f.low
        /\ h.fence = f.fence
    BY <1>2 DEF FrameType
  <2> HIDE DEF h
  <2> QED  BY <2>1, <1>1, <1>2, <1>4 DEF FrameOK
<1> HIDE DEF g, h
<1>7. StackOK(pages, s)
  BY <1>1, <1>2, <1>5, <1>6, FramePushed DEF Top
<1>8. s[1] = g
  <2>1. stack[t] \in Seq(FrameType) /\ stack[t] # <<>>
    BY <1>1, <1>2 DEF StackOK
  <2> QED  BY <2>1
<1> HIDE DEF s
<1>9. Turn(t, s)
  <2>1. Holds(wlock', t, s)
    BY <1>5, <1>8 DEF Holds
  <2>2. ASSUME NEW p \in 1..Len(pages), wlock[p] \notin {t, None}
        PROVE  wlock'[p] = wlock[p]
    BY <2>2, <1>3, PagesAreNumbered
  <2> QED  BY <2>1, <2>2, <1>1, <1>2, <1>7, NotGrown DEF Turn
<1>10. stack' \in [Threads -> Seq(FrameType)] /\ StacksOK'
  BY <1>9, TurnKeepsStacks
<1>11. plock' \in [Pages -> Threads \union {None}]
  BY <1>1 DEF IInv, LocksTyped
<1>12. PagesOK(pages') /\ ReturnedOK' /\ LocksTyped' /\ ChainOK(pages')
  BY <1>1, <1>2, <1>3, <1>11 DEF IInv, ReturnedOK, LocksTyped
<1> QED  BY <1>10, <1>12 DEF IInv

\* A full page has slots enough for both halves.
LEMMA SplitPoint ==
  ASSUME NEW ps, PagesOK(ps), NEW p \in 1..Len(ps), Full(ps[p]),
         NEW m, m \in SplitPoints(Len(ps[p].slots))
  PROVE  m \in 1..Len(ps[p].slots) - 1
<1> DEFINE n == Len(ps[p].slots)
<1>1. n \in 1..Cap(ps[p].lvl) /\ n >= Cap(ps[p].lvl) /\ n \in Nat
  BY PagesTyped DEF PagesOK, PageOK, Full, Cap
<1> HIDE DEF n
<1>2. Cap(ps[p].lvl) \in 2..LeafCap + NodeCap
  BY BtreeAssumption DEF Cap
<1>3. n \in 2..LeafCap + NodeCap
  BY <1>1, <1>2, BtreeAssumption
<1>4. SplitPoints(n) \subseteq 1..n - 1
  BY <1>3, BtreeAssumption
<1> QED  BY <1>4 DEF n

LEMMA SplitPageSplits ==
  ASSUME IInv, NEW t \in Threads, NEW m, SplitPage(t, m)
  PROVE  SplitOf(pages, pages', Top(t).pageNo) /\ Pieces(pages, pages', Top(t).pageNo, m)
<1> DEFINE f     == Top(t)
           x     == f.pageNo
           pg    == pages[x]
           n     == Len(pages)
           right == n + 1
           low   == LowerHalf(pg, m, right)
           upper == [UpperHalf(pg, m) EXCEPT !.left = x]
           far   == IF pg.lvl = 0 THEN pg.right ELSE NoPage
           mid   == [p \in 1..n |-> CASE p = x   -> low
                                      [] p = far -> [pages[p] EXCEPT !.left = right]
                                      [] OTHER   -> pages[p]]
<1>1. /\ stack[t] # <<>> /\ Full(pg) /\ x # Root /\ n < MaxPages
      /\ m \in SplitPoints(Len(pg.slots)) /\ pages' = Append(mid, upper)
  BY DEF SplitPage, OnPage
<1>2. PagesOK(pages) /\ x \in 1..n
  BY <1>1, TopFacts
<1>3. /\ pages \in Seq(PageType) /\ n \in Nat /\ pg \in PageType /\ x \in Nat
      /\ pg.slots \in Seq(SlotType) /\ pg.lvl \in Nat /\ pg.right \in Nat /\ pg.left \in Nat
      /\ \A p \in 1..n : pages[p] \in PageType
  BY <1>2, PagesTyped DEF PagesOK
<1>4. m \in 1..Len(pg.slots) - 1
  BY <1>1, <1>2, SplitPoint
<1> DEFINE a == SubSeq(pg.slots, 1, m)
           b == SubSeq(pg.slots, m + 1, Len(pg.slots))
<1>5. /\ a \in Seq(SlotType) /\ b \in Seq(SlotType) /\ Halved(pg.slots, a, b)
      /\ Len(a) = m /\ Len(b) = Len(pg.slots) - m /\ \A j \in 1..m : a[j] = pg.slots[j]
      /\ \A j \in 1..Len(pg.slots) - m : b[j] = pg.slots[m + j]
  <2> DEFINE os == pg.slots
  <2>1. os \in Seq(SlotType) /\ m \in 1..Len(os) - 1
    BY <1>3, <1>4
  <2> HIDE DEF os
  <2>2. /\ SubSeq(os, 1, m) \in Seq(SlotType) /\ SubSeq(os, m + 1, Len(os)) \in Seq(SlotType)
        /\ Halved(os, SubSeq(os, 1, m), SubSeq(os, m + 1, Len(os)))
        /\ Len(SubSeq(os, 1, m)) = m /\ \A j \in 1..m : SubSeq(os, 1, m)[j] = os[j]
        /\ Len(SubSeq(os, m + 1, Len(os))) = Len(os) - m
        /\ \A j \in 1..Len(os) - m : SubSeq(os, m + 1, Len(os))[j] = os[m + j]
    BY <2>1, HalvesOf
  <2> QED  BY <2>2 DEF os
<1>6. low = [pg EXCEPT !.slots = a, !.right = right]
  BY DEF LowerHalf
<1>7. upper = [[pg EXCEPT !.slots = b] EXCEPT !.left = x]
  BY DEF UpperHalf
<1> HIDE DEF a, b, low, upper, pg, x
<1>8. /\ low \in PageType /\ low.lvl = pg.lvl /\ low.slots = a /\ low.right = right
      /\ low.left = pg.left
  <2>1. right \in Nat
    BY <1>3
  <2> HIDE DEF right
  <2> QED  BY <2>1, <1>3, <1>5, <1>6 DEF PageType
<1>9. /\ upper \in PageType /\ upper.lvl = pg.lvl /\ upper.slots = b /\ upper.right = pg.right
      /\ upper.left = x
  BY <1>3, <1>5, <1>7 DEF PageType
\* No page is its own right sibling, so that the cases of mid exclude each other.
<1>10. far # x
  <2>1. PageOK(pages, x) /\ x # NoPage
    BY <1>2, <1>3 DEF PagesOK, NoPage
  <2> QED  BY <2>1 DEF PageOK, pg
<1> HIDE DEF far
<1>11. ASSUME NEW p \in 1..n
       PROVE  /\ mid[p] \in PageType
              /\ mid[p].lvl = pages[p].lvl
              /\ mid[p].left = IF p # x /\ p = far THEN right ELSE pages[p].left
              /\ p # x => mid[p].slots = pages[p].slots /\ mid[p].right = pages[p].right
              /\ p = x => mid[p] = low
  <2>1. pages[p] \in PageType
    BY <1>3
  <2>2. CASE p = x
    <3>1. mid[p] = low
      BY <2>2, <1>10
    <3> HIDE DEF mid
    <3> QED  BY <2>1, <2>2, <3>1, <1>8 DEF pg
  <2>3. CASE p # x /\ p = far
    <3>1. mid[p] = [pages[p] EXCEPT !.left = right]
      BY <2>3
    <3>2. right \in Nat
      BY <1>3
    <3> HIDE DEF mid, right
    <3> QED  BY <2>1, <2>3, <3>1, <3>2 DEF PageType
  <2>4. CASE p # x /\ p # far
    <3>1. mid[p] = pages[p]
      BY <2>4
    <3> HIDE DEF mid
    <3> QED  BY <2>1, <2>4, <3>1
  <2> QED  BY <2>2, <2>3, <2>4
<1>12. mid \in Seq(PageType) /\ Len(mid) = n
  <2>1. mid \in [1..n -> PageType]
    BY <1>11
  <2>2. DOMAIN mid = 1..n
    OBVIOUS
  <2> HIDE DEF mid
  <2> QED  BY <2>1, <2>2, <1>3
<1> HIDE DEF mid
<1>13. /\ pages' \in Seq(PageType) /\ Len(pages') = right /\ pages'[right] = upper
       /\ \A p \in 1..n : pages'[p] = mid[p]
  <2>1. pages' \in Seq(PageType) /\ Len(pages') = right
    BY <1>1, <1>9, <1>12
  <2>2. pages'[right] = upper
    BY <1>1, <1>3, <1>9, <1>12
  <2>3. \A p \in 1..n : pages'[p] = mid[p]
    BY <1>1, <1>3, <1>9, <1>12
  <2> QED  BY <2>1, <2>2, <2>3
<1>14. ASSUME NEW q \in 1..n
       PROVE  pages'[q].left = IF q # x /\ pages[x].lvl = 0 /\ q = pages[x].right THEN right
                               ELSE pages[q].left
  <2>1. q # 0
    BY <1>3
  <2> QED  BY <2>1, <1>11, <1>13 DEF far, pg, NoPage
<1>15. right <= MaxPages
  BY <1>1, <1>3, BtreeAssumption
<1>16. Halved(pages[x].slots, pages'[x].slots, pages'[right].slots)
  BY <1>2, <1>5, <1>8, <1>9, <1>11, <1>13, ZenonT(60) DEF pg
<1>17. /\ pages'[x].right = right /\ pages'[right].lvl = pages[x].lvl
       /\ pages'[right].right = pages[x].right /\ pages'[right].left = x
  BY <1>2, <1>8, <1>9, <1>11, <1>13 DEF pg
<1>18. SplitOf(pages, pages', x)
  BY <1>1, <1>2, <1>11, <1>13, <1>14, <1>15, <1>16, <1>17 DEF SplitOf
<1>19. Divided(pages, pages', x, m, x, right)
  <2>1. pages'[x].slots = a /\ pages'[right].slots = b /\ pages[x].slots = pg.slots
    BY <1>2, <1>8, <1>9, <1>11, <1>13 DEF pg
  <2> HIDE DEF right
  <2> QED  BY <2>1, <1>4, <1>5 DEF Divided
<1>20. Pieces(pages, pages', x, m)
  BY <1>1, <1>2, <1>11, <1>13, <1>17, <1>19 DEF Pieces
<1> QED  BY <1>18, <1>20 DEF x

LEMMA SplitPageKeeps ==
  ASSUME IInv, NEW t \in Threads, NEW m, SplitPage(t, m)
  PROVE  IInv'
<1> DEFINE f  == Top(t)
           pg == pages[f.pageNo]
           r  == Len(pages) + 1
           lo == pg.slots[m].key
           fe == Last(pg.slots).key
           la == Last(pg.slots).stop
           g  == [f EXCEPT !.at = "split", !.low = lo, !.fence = fe, !.last = la, !.right = r]
           s  == <<g>> \o Tail(stack[t])
<1>1. /\ stack[t] # <<>> /\ f.at = "page" /\ f.op = "insert" /\ Full(pg) /\ f.pageNo # Root
      /\ UNCHANGED <<wlock, plock, returned>> /\ stack' = [stack EXCEPT ![t] = s]
      /\ m \in SplitPoints(Len(pg.slots))
  BY DEF SplitPage, OnPage, SetTop
<1>2. /\ PagesOK(pages) /\ StackOK(pages, stack[t]) /\ FrameOK(pages, f) /\ f \in FrameType
      /\ f.pageNo \in Pages /\ f.pageNo \in 1..Len(pages) /\ wlock[f.pageNo] = t
      /\ Len(stack[t]) \in Nat /\ Len(stack[t]) >= 1 /\ f.lvl \in Nat
  BY <1>1, TopFacts
<1>3. SplitOf(pages, pages', f.pageNo)
  BY SplitPageSplits
<1>4. /\ PagesOK(pages') /\ Grown(pages, pages')
      /\ \A q \in 1..Len(pages) : q # f.pageNo => Same(pages, pages', q)
      /\ ChainOK(pages) => ChainOK(pages')
      /\ \A k : InLeaf(pages, k) => InLeaf(pages', k)
  BY <1>2, <1>3, Split
<1>5. /\ Len(pages') = r /\ r \in 1..r /\ f.pageNo \in 1..r /\ r \in Nat
      /\ pages'[r].lvl = pg.lvl /\ pages'[f.pageNo].lvl = pg.lvl /\ f.lvl = pg.lvl
      /\ f.pageNo # Root
  <2>1. Len(pages) \in Nat
    BY <1>2 DEF PagesOK
  <2>2. f.lvl = pg.lvl
    BY <1>1, <1>2 DEF FrameOK
  <2> QED  BY <2>1, <2>2, <1>2, <1>3 DEF SplitOf
<1>6. lo \in KeySet /\ fe \in KeySet /\ la \in BOOLEAN
  <2> DEFINE os == pg.slots
  <2>1. os \in Seq(SlotType) /\ Len(os) \in Nat /\ m \in 1..Len(os) - 1
    BY <1>1, <1>2, PagesTyped, SplitPoint
  <2>2. Last(os) = os[Len(os)]
    BY DEF Last
  <2> HIDE DEF os
  <2>3. os[m] \in SlotType /\ Last(os) \in SlotType
    BY <2>1, <2>2
  <2>4. os[m].key \in KeySet /\ Last(os).key \in KeySet /\ Last(os).stop \in BOOLEAN
    BY <2>3 DEF SlotType
  <2> QED  BY <2>4 DEF os
<1> HIDE DEF lo, fe, la

<1>7. /\ f.lvl <= pages'[Root].lvl
      /\ IF f.lvl = 0 THEN f.op = "insert" /\ f.key \in Keys
         ELSE f.child \in 1..Len(pages') /\ pages'[f.child].lvl = f.lvl - 1
  <2> DEFINE h == Restart(f)
  <2>1. FrameOK(pages, h) /\ h.at = "load"
    BY <1>2, RestartedFrame
  <2>2. h.lvl = f.lvl /\ h.op = f.op /\ h.key = f.key /\ h.child = f.child
    BY DEF Restart, Frame
  <2> HIDE DEF h
  <2>3. FrameOK(pages', h)
    BY <2>1, <1>2, <1>4, FrameKept
  <2> QED  BY <2>2, <2>3 DEF FrameOK
<1>8. /\ g \in FrameType /\ g.pageNo = f.pageNo /\ g.lvl = f.lvl /\ g.op = f.op /\ g.key = f.key
      /\ g.child = f.child /\ g.at = "split" /\ g.low = lo /\ g.fence = fe /\ g.right = r
  BY <1>2, <1>5, <1>6, KeysTyped DEF FrameType
<1> HIDE DEF g
<1>9. FrameOK(pages', g)
  BY <1>1, <1>5, <1>6, <1>7, <1>8 DEF FrameOK
<1>10. ASSUME NEW p \in 1..Len(pages), wlock[p] \notin {t, None}
       PROVE  Same(pages, pages', p) /\ wlock'[p] = wlock[p]
  BY <1>1, <1>2, <1>4, <1>10
<1>11. StackOK(pages', s) /\ s[1] = g
  <2> DEFINE o == Restart(f)
             w == <<o>> \o Tail(stack[t])
  <2>1. FrameOK(pages, o) /\ o.at = "load" /\ o.lvl = f.lvl
    BY <1>2, RestartedFrame
  <2> HIDE DEF o
  <2>2. StackOK(pages, w)
    BY <2>1, <1>1, <1>2, TopChanged DEF Top
  <2>3. w # <<>> /\ w[1] = o /\ Tail(w) = Tail(stack[t])
    <3>1. stack[t] \in Seq(FrameType) /\ stack[t] # <<>>
      BY <1>1, <1>2 DEF StackOK
    <3>2. o \in FrameType
      BY <2>1 DEF FrameOK
    <3> QED  BY <3>1, <3>2
  <2> HIDE DEF w
  <2>4. StackOK(pages', w)
    BY <2>1, <2>2, <2>3, <1>2, <1>4, StackKept
  <2>5. StackOK(pages', <<g>> \o Tail(w))
    BY <2>1, <2>3, <2>4, <1>8, <1>9, TopChanged
  <2>6. s[1] = g
    <3>1. stack[t] \in Seq(FrameType) /\ stack[t] # <<>>
      BY <1>1, <1>2 DEF StackOK
    <3> QED  BY <3>1
  <2> QED  BY <2>3, <2>5, <2>6
<1> HIDE DEF s
<1>12. Holds(wlock', t, s)
  BY <1>1, <1>2, <1>8, <1>11 DEF Holds
<1>13. Turn(t, s)
  BY <1>1, <1>4, <1>10, <1>11, <1>12 DEF Turn
<1>14. stack' \in [Threads -> Seq(FrameType)] /\ StacksOK'
  BY <1>13, TurnKeepsStacks
<1>15. ReturnedOK' /\ LocksTyped' /\ ChainOK(pages')
  BY <1>1, <1>4 DEF IInv, ReturnedOK, LocksTyped
<1> QED  BY <1>4, <1>14, <1>15 DEF IInv

LEMMA SplitRootSplits ==
  ASSUME IInv, NEW t \in Threads, NEW m, SplitRoot(t, m)
  PROVE  RootSplitOf(pages, pages') /\ RootPieces(pages, pages', m)
<1> DEFINE pg    == pages[Root]
           n     == Len(pages)
           right == n + 1
           left  == n + 2
           top   == <<Slot(pg.slots[m].key, left, FALSE), Slot(Stopper, right, FALSE)>>
           root  == [lvl |-> pg.lvl + 1, left |-> NoPage, right |-> NoPage, slots |-> top]
           upper == [UpperHalf(pg, m) EXCEPT !.left = left]
           low   == LowerHalf(pg, m, right)
           mid   == [pages EXCEPT ![Root] = root]
<1>1. /\ stack[t] # <<>> /\ Full(pg) /\ n + 1 < MaxPages
      /\ m \in SplitPoints(Len(pg.slots)) /\ pages' = mid \o <<upper, low>>
  BY DEF SplitRoot, OnPage
<1>2. PagesOK(pages)
  BY DEF IInv
<1>3. /\ pages \in Seq(PageType) /\ n \in Nat /\ n >= 2 /\ pg \in PageType /\ Root \in 1..n
      /\ pg.slots \in Seq(SlotType) /\ pg.lvl \in Nat /\ pg.right \in Nat /\ pg.left \in Nat
      /\ \A p \in 1..n : pages[p] \in PageType
  BY <1>2, PagesTyped DEF PagesOK
<1>4. m \in 1..Len(pg.slots) - 1
  BY <1>1, <1>2, <1>3, SplitPoint
<1> DEFINE a == SubSeq(pg.slots, 1, m)
           b == SubSeq(pg.slots, m + 1, Len(pg.slots))
           k == pg.slots[m].key
<1>5. /\ a \in Seq(SlotType) /\ b \in Seq(SlotType) /\ Halved(pg.slots, a, b)
      /\ k \in KeySet
      /\ Len(a) = m /\ Len(b) = Len(pg.slots) - m /\ \A j \in 1..m : a[j] = pg.slots[j]
      /\ \A j \in 1..Len(pg.slots) - m : b[j] = pg.slots[m + j]
  <2> DEFINE os == pg.slots
  <2>1. os \in Seq(SlotType) /\ m \in 1..Len(os) - 1 /\ Len(os) \in Nat
    BY <1>3, <1>4
  <2> HIDE DEF os
  <2>2. /\ SubSeq(os, 1, m) \in Seq(SlotType) /\ SubSeq(os, m + 1, Len(os)) \in Seq(SlotType)
        /\ Halved(os, SubSeq(os, 1, m), SubSeq(os, m + 1, Len(os)))
        /\ Len(SubSeq(os, 1, m)) = m /\ \A j \in 1..m : SubSeq(os, 1, m)[j] = os[j]
        /\ Len(SubSeq(os, m + 1, Len(os))) = Len(os) - m
        /\ \A j \in 1..Len(os) - m : SubSeq(os, m + 1, Len(os))[j] = os[m + j]
    BY <2>1, HalvesOf
  <2>3. os[m].key \in KeySet
    <3>1. os[m] \in SlotType
      BY <2>1
    <3> QED  BY <3>1 DEF SlotType
  <2> QED  BY <2>2, <2>3 DEF os
<1>6. low = [pg EXCEPT !.slots = a, !.right = right]
  BY DEF LowerHalf
<1>7. upper = [[pg EXCEPT !.slots = b] EXCEPT !.left = left]
  BY DEF UpperHalf
<1>8. /\ top \in Seq(SlotType) /\ Len(top) = 2 /\ top[1].child = left /\ top[2].child = right
      /\ top[1] = Slot(k, left, FALSE) /\ top[2] = Slot(Stopper, right, FALSE)
  <2> DEFINE s1 == Slot(k, left, FALSE)
             s2 == Slot(Stopper, right, FALSE)
  <2>1. s1 \in SlotType /\ s1.child = left
    BY <1>3, <1>5 DEF Slot, SlotType
  <2>2. s2 \in SlotType /\ s2.child = right
    BY <1>3, KeysTyped DEF Slot, SlotType
  <2>3. top = <<s1, s2>>
    OBVIOUS
  <2> HIDE DEF s1, s2, top
  <2>4. top \in Seq(SlotType) /\ Len(top) = 2 /\ top[1] = s1 /\ top[2] = s2
    BY <2>1, <2>2, <2>3
  <2> QED  BY <2>1, <2>2, <2>4 DEF s1, s2
<1> DEFINE one == pg.lvl + 1
<1>9. right \in Nat /\ left \in Nat /\ one \in Nat
  BY <1>3
<1> HIDE DEF a, b, k, low, upper, pg, top
<1>10. /\ low \in PageType /\ low.lvl = pg.lvl /\ low.slots = a /\ low.right = right
      /\ low.left = pg.left
  <2> HIDE DEF right, left
  <2> QED  BY <1>9, <1>3, <1>5, <1>6 DEF PageType
<1>11. /\ upper \in PageType /\ upper.lvl = pg.lvl /\ upper.slots = b /\ upper.right = pg.right
       /\ upper.left = left
  <2> HIDE DEF right, left
  <2> QED  BY <1>9, <1>3, <1>5, <1>7 DEF PageType
<1>12. /\ root \in PageType /\ root.lvl = pg.lvl + 1 /\ root.slots = top /\ root.right = NoPage
       /\ root.left = NoPage
  <2>1. root = [lvl |-> one, left |-> NoPage, right |-> NoPage, slots |-> top]
    OBVIOUS
  <2> HIDE DEF root, one
  <2>2. root \in PageType /\ root.lvl = one /\ root.slots = top /\ root.right = NoPage
        /\ root.left = NoPage
    BY <2>1, <1>9, <1>8 DEF PageType, NoPage
  <2> QED  BY <2>2 DEF one
<1> HIDE DEF root
<1>13. /\ mid \in Seq(PageType) /\ Len(mid) = n /\ mid[Root] = root
       /\ \A p \in 1..n : p # Root => mid[p] = pages[p]
  BY <1>3, <1>12
<1> HIDE DEF mid
<1> DEFINE two == <<upper, low>>
<1>14. two \in Seq(PageType) /\ Len(two) = 2 /\ two[1] = upper /\ two[2] = low
  BY <1>10, <1>11
<1> HIDE DEF two
<1>15. /\ pages' \in Seq(PageType) /\ Len(pages') = left /\ pages'[right] = upper
       /\ pages'[left] = low /\ \A p \in 1..n : pages'[p] = mid[p]
  <2>1. pages' = mid \o two
    BY <1>1 DEF two
  <2>2. /\ pages' \in Seq(PageType) /\ Len(pages') = n + 2
        /\ \A i \in 1..n + 2 : pages'[i] = IF i <= n THEN mid[i] ELSE two[i - n]
    <3>1. /\ mid \o two \in Seq(PageType) /\ Len(mid \o two) = Len(mid) + Len(two)
          /\ \A i \in 1..Len(mid) + Len(two) :
               (mid \o two)[i] = IF i <= Len(mid) THEN mid[i] ELSE two[i - Len(mid)]
      <4>1. mid \in Seq(PageType) /\ two \in Seq(PageType)
        BY <1>13, <1>14
      <4> QED  BY <4>1, ConcatProperties, Zenon
    <3> HIDE DEF n
    <3> QED  BY <2>1, <3>1, <1>13, <1>14
  <2>3. pages'[right] = upper
    <3>1. right \in 1..n + 2 /\ ~(right <= n) /\ right - n = 1
      BY <1>3
    <3> QED  BY <3>1, <2>2, <1>14
  <2>4. pages'[left] = low
    <3>1. left \in 1..n + 2 /\ ~(left <= n) /\ left - n = 2
      BY <1>3
    <3> QED  BY <3>1, <2>2, <1>14
  <2>5. ASSUME NEW p \in 1..n PROVE pages'[p] = mid[p]
    <3>1. p \in 1..n + 2 /\ p <= n
      BY <1>3
    <3> QED  BY <3>1, <2>2
  <2> QED  BY <2>2, <2>3, <2>4, <2>5
<1>16. left <= MaxPages
  BY <1>1, <1>3, BtreeAssumption
<1>17. pages'[Root] = root
  BY <1>3, <1>13, <1>15
<1>18. \A q \in 1..n : q # Root => pages'[q] = pages[q]
  BY <1>13, <1>15
<1>19. /\ pages'[Root].lvl = pages[Root].lvl + 1 /\ pages'[Root].right = NoPage
       /\ pages'[Root].left = NoPage /\ Len(pages'[Root].slots) = 2
       /\ pages'[Root].slots[1].child = left /\ pages'[Root].slots[2].child = right
  BY <1>8, <1>12, <1>17 DEF pg
<1>20. /\ pages'[right].lvl = pages[Root].lvl /\ pages'[right].right = pages[Root].right
       /\ pages'[right].left = left
       /\ pages'[left].lvl = pages[Root].lvl /\ pages'[left].right = right
       /\ pages'[left].left = pages[Root].left
       /\ Halved(pages[Root].slots, pages'[left].slots, pages'[right].slots)
  BY <1>5, <1>10, <1>11, <1>15 DEF pg
<1>21. RootSplitOf(pages, pages')
  BY <1>15, <1>16, <1>18, <1>19, <1>20 DEF RootSplitOf
<1>22. Divided(pages, pages', Root, m, left, right)
  <2>1. pages'[left].slots = a /\ pages'[right].slots = b /\ pages[Root].slots = pg.slots
    BY <1>10, <1>11, <1>15 DEF pg
  <2> HIDE DEF right, left
  <2> QED  BY <2>1, <1>4, <1>5 DEF Divided
<1>23. /\ pages'[Root].slots[1] = Slot(pages[Root].slots[m].key, left, FALSE)
       /\ pages'[Root].slots[2] = Slot(Stopper, right, FALSE)
  BY <1>8, <1>12, <1>17 DEF pg, k
<1>24. pages[Root].right = NoPage
  BY <1>2, <1>3 DEF PagesOK, PageOK
<1>25. RootPieces(pages, pages', m)
  BY <1>15, <1>18, <1>19, <1>20, <1>22, <1>23, <1>24 DEF RootPieces
<1> QED  BY <1>21, <1>25

LEMMA SplitRootKeeps ==
  ASSUME IInv, NEW t \in Threads, NEW m, SplitRoot(t, m)
  PROVE  IInv'
<1> DEFINE f == Top(t)
           g == Restart(f)
           s == <<g>> \o Tail(stack[t])
<1>1. /\ stack[t] # <<>> /\ f.at = "page" /\ f.op = "insert" /\ f.pageNo = Root
      /\ UNCHANGED <<plock, returned>> /\ stack' = [stack EXCEPT ![t] = s]
      /\ wlock' = [wlock EXCEPT ![Root] = None]
  BY DEF SplitRoot, OnPage, SetTop
<1>2. /\ PagesOK(pages) /\ StackOK(pages, stack[t]) /\ FrameOK(pages, f) /\ f \in FrameType
      /\ Root \in Pages /\ Root \in 1..Len(pages) /\ wlock[Root] = t
      /\ Len(stack[t]) \in Nat /\ Len(stack[t]) >= 1 /\ f.lvl \in Nat
  BY <1>1, TopFacts
<1>3. /\ PagesOK(pages') /\ Grown(pages, pages')
      /\ \A q \in 1..Len(pages) : q # Root => Same(pages, pages', q)
      /\ ChainOK(pages) => ChainOK(pages')
      /\ \A k : InLeaf(pages, k) => InLeaf(pages', k)
  BY <1>2, SplitRootSplits, RootSplit
<1>4. /\ wlock' \in [Pages -> Threads \union {None}]
      /\ \A q \in Pages : wlock[q] \notin {t, None} => wlock'[q] = wlock[q]
  BY <1>1, <1>2, Unlocked
<1>5. FrameOK(pages, g) /\ g.at = "load" /\ g.lvl = f.lvl
  BY <1>2, RestartedFrame
<1> HIDE DEF g
<1>6. StackOK(pages, s)
  BY <1>1, <1>2, <1>5, TopChanged DEF Top
<1>7. s[1] = g
  <2>1. stack[t] \in Seq(FrameType) /\ stack[t] # <<>>
    BY <1>1, <1>2 DEF StackOK
  <2> QED  BY <2>1
<1> HIDE DEF s
<1>8. StackOK(pages', s)
  BY <1>2, <1>3, <1>5, <1>6, <1>7, StackKept
<1>9. Turn(t, s)
  <2>1. Holds(wlock', t, s)
    BY <1>5, <1>7 DEF Holds
  <2>2. ASSUME NEW p \in 1..Len(pages), wlock[p] \notin {t, None}
        PROVE  Same(pages, pages', p) /\ wlock'[p] = wlock[p]
    <3>1. p # Root /\ p \in Pages
      BY <2>2, <1>2, PagesAreNumbered
    <3> QED  BY <3>1, <2>2, <1>3, <1>4
  <2> QED  BY <2>1, <2>2, <1>1, <1>3, <1>8 DEF Turn
<1>10. stack' \in [Threads -> Seq(FrameType)] /\ StacksOK'
  BY <1>9, TurnKeepsStacks
<1>11. ReturnedOK' /\ LocksTyped' /\ ChainOK(pages')
  BY <1>1, <1>3, <1>4 DEF IInv, ReturnedOK, LocksTyped
<1> QED  BY <1>3, <1>10, <1>11 DEF IInv

-----------------------------------------------------------------------------
(* The invariant holds                                                     *)

LEMMA InitIInv == Init => IInv
<1> SUFFICES ASSUME Init PROVE IInv
  OBVIOUS
<1> DEFINE s1 == Slot(Stopper, Leaf, TRUE)
           s2 == Slot(Stopper, NoPage, TRUE)
           p1 == [lvl |-> 1, slots |-> <<s1>>, right |-> NoPage, left |-> NoPage]
           p2 == [lvl |-> 0, slots |-> <<s2>>, right |-> NoPage, left |-> NoPage]
<1>1. /\ pages = <<p1, p2>> /\ wlock = [p \in Pages |-> None] /\ plock = [p \in Pages |-> None]
      /\ stack = [t \in Threads |-> <<>>] /\ returned = {}
  BY DEF Init
<1>2. s1 \in SlotType /\ s1.child = Leaf /\ s2 \in SlotType
  BY KeysTyped DEF Slot, SlotType, Leaf, NoPage
<1> HIDE DEF s1, s2
<1>3. <<s1>> \in Seq(SlotType) /\ Len(<<s1>>) = 1 /\ <<s1>>[1] = s1
  BY <1>2
<1>4. <<s2>> \in Seq(SlotType) /\ Len(<<s2>>) = 1
  BY <1>2
<1>5. /\ p1 \in PageType /\ p1.lvl = 1 /\ Len(p1.slots) = 1 /\ p1.slots[1].child = Leaf
      /\ p1.right = NoPage /\ p1.left = NoPage
  BY <1>2, <1>3 DEF PageType, NoPage
<1>6. /\ p2 \in PageType /\ p2.lvl = 0 /\ Len(p2.slots) = 1
      /\ p2.right = NoPage /\ p2.left = NoPage
  BY <1>4 DEF PageType, NoPage
<1> HIDE DEF p1, p2
<1>7. /\ pages \in Seq(PageType) /\ Len(pages) = 2 /\ pages[1] = p1 /\ pages[2] = p2
      /\ Root = 1 /\ Leaf = 2 /\ \A p \in 1..2 : p = 1 \/ p = 2
  BY <1>1, <1>5, <1>6 DEF Root, Leaf
<1>8. 1 \in 1..Cap(0) /\ 1 \in 1..Cap(1)
  BY BtreeAssumption DEF Cap
<1>9. PageOK(pages, 1)
  <2>1. \A i \in 1..Len(p1.slots) : p1.slots[i].child \in 1..2 /\ pages[p1.slots[i].child].lvl = 0
    <3>1. \A i \in 1..Len(p1.slots) : p1.slots[i].child = 2
      BY <1>5, <1>7
    <3> QED  BY <3>1, <1>6, <1>7
  <2>2. /\ pages[1].lvl = 1 /\ pages[1].right = NoPage /\ pages[1].left = NoPage
        /\ Len(pages[1].slots) = 1 /\ Len(pages) = 2 /\ 1 = Root /\ 1 - 1 = 0
        /\ pages[1].slots = p1.slots
    BY <1>5, <1>7
  <2> QED  BY <2>1, <2>2, <1>8 DEF PageOK
<1>10. PageOK(pages, 2)
  <2>1. /\ pages[2].lvl = 0 /\ pages[2].right = NoPage /\ pages[2].left = NoPage
        /\ Len(pages[2].slots) = 1 /\ Len(pages) = 2 /\ 2 # Root /\ pages[Root].lvl = 1
        /\ ~(0 > 0) /\ 0 < 1
    BY <1>5, <1>6, <1>7
  <2> QED  BY <2>1, <1>8 DEF PageOK
<1>11. PagesOK(pages)
  <2>1. Len(pages) \in 2..MaxPages /\ pages[Leaf].lvl = 0
    BY <1>6, <1>7, BtreeAssumption
  <2> QED  BY <2>1, <1>7, <1>9, <1>10 DEF PagesOK
<1>12. LocksTyped /\ ReturnedOK
  BY <1>1 DEF LocksTyped, ReturnedOK
<1>13. <<>> \in Seq(FrameType) /\ Len(<<>>) = 0
  OBVIOUS
<1>14. StackOK(pages, <<>>)
  BY <1>13 DEF StackOK
<1>15. stack \in [Threads -> Seq(FrameType)] /\ \A t \in Threads : stack[t] = <<>>
  BY <1>1, <1>13
<1>16. StacksOK
  BY <1>14, <1>15 DEF StacksOK, Holds
<1>17. ChainOK(pages)
  <2>1. ASSUME NEW p \in 1..2, pages[p].lvl = 0 PROVE p = Leaf
    BY <2>1, <1>5, <1>7
  <2> QED  BY <2>1, <1>7 DEF ChainOK, OnChain
<1> QED  BY <1>11, <1>12, <1>15, <1>16, <1>17 DEF IInv

LEMMA StepIInv == IInv /\ [Next]_vars => IInv'
<1> SUFFICES ASSUME IInv, [Next]_vars PROVE IInv'
  OBVIOUS
<1>1. CASE UNCHANGED vars
  BY <1>1 DEF vars, IInv, LocksTyped, StacksOK, ReturnedOK
<1>2. CASE AllDone
  BY <1>1, <1>2 DEF AllDone
<1>3. ASSUME NEW t \in Threads, NEW k \in Keys, InsertKey(t, k) PROVE IInv'
  BY <1>3, InsertKeyKeeps
<1>4. ASSUME NEW t \in Threads, Visit(t) PROVE IInv'
  BY <1>4, VisitKeeps
<1>5. ASSUME NEW t \in Threads, InsertSlot(t) PROVE IInv'
  BY <1>5, InsertSlotKeeps
<1>6. ASSUME NEW t \in Threads, LockParents(t) PROVE IInv'
  BY <1>6, LockParentsKeeps
<1>7. ASSUME NEW t \in Threads, FixKey(t) PROVE IInv'
  BY <1>7, FixKeyKeeps
<1>8. ASSUME NEW t \in Threads, NEW m, SplitPage(t, m) PROVE IInv'
  BY <1>8, SplitPageKeeps
<1>9. ASSUME NEW t \in Threads, NEW m, SplitRoot(t, m) PROVE IInv'
  BY <1>9, SplitRootKeeps
<1> QED  BY <1>1, <1>2, <1>3, <1>4, <1>5, <1>6, <1>7, <1>8, <1>9 DEF Next, Run

LEMMA AlwaysIInv == Spec => []IInv
<1>1. Init => IInv
  BY InitIInv
<1>2. IInv /\ [Next]_vars => IInv'
  BY StepIInv
<1> QED  BY <1>1, <1>2, PTL DEF Spec

\* However the splits of neighbouring leaves overlap, a leaf is the left
\* sibling of its right sibling: btreeSplitPage, and the link it changes in the
\* page beyond under Btree_lockLink.  Children are one level below their
\* parents, and pages and locks have their types.
THEOREM LinksAreMutual == Spec => []LeafLinksMatch
<1>1. IInv => LeafLinksMatch
  <2> SUFFICES ASSUME IInv PROVE LeafLinksMatch
    OBVIOUS
  <2>1. PagesOK(pages)
    BY DEF IInv
  <2>2. \A p \in 1..Len(pages) : PageOK(pages, p)
    BY <2>1 DEF PagesOK
  <2>3. ASSUME NEW p \in 1..Len(pages)
        PROVE  /\ pages[p].lvl \in Nat
               /\ \A i \in 1..Len(pages[p].slots) : pages[p].slots[i].key \in KeySet
    BY <2>1, PagesTyped
  <2>4. ASSUME NEW p \in 1..Len(pages)
        PROVE  /\ pages[p].right \in {NoPage} \union 1..Len(pages)
               /\ pages[p].left \in {NoPage} \union 1..Len(pages)
               /\ pages[p].lvl > 0 => \A i \in 1..Len(pages[p].slots) :
                    /\ pages[p].slots[i].child \in 1..Len(pages)
                    /\ pages[pages[p].slots[i].child].lvl = pages[p].lvl - 1
               /\ pages[p].lvl = 0 /\ pages[p].right # NoPage => pages[pages[p].right].left = p
    BY <2>2 DEF PageOK
  <2>5. TypeOK
    BY <2>3, <2>4 DEF IInv, LocksTyped, TypeOK, KeySet
  <2> QED  BY <2>4, <2>5 DEF LeafLinksMatch
<1> QED  BY <1>1, AlwaysIInv, PTL

\* A key whose insertion has returned is in a leaf, and the walk from the
\* leftmost leaf along right links, which btreeNextKey takes, comes to it:
\* whatever fences are still to be posted, and also when a fence of another
\* page was redirected.
ReturnedOnChain ==
  \A k \in returned : \E p \in 1..Len(pages) :
    /\ pages[p].lvl = 0 /\ OnChain(pages, p)
    /\ \E i \in 1..Len(pages[p].slots) : pages[p].slots[i].key = k

THEOREM ScanSeesReturned == Spec => []ReturnedOnChain
<1>1. IInv => ReturnedOnChain
  BY DEF IInv, ReturnedOK, ChainOK, InLeaf, ReturnedOnChain
<1> QED  BY <1>1, AlwaysIInv, PTL

-----------------------------------------------------------------------------
(* Who holds which lock: what a step of one thread has to keep             *)

\* The locks of the other threads stay as they are.
OthersLocks(t, l, m) ==
  \A q \in Pages : m[q] # l[q] => l[q] \in {t, None} /\ m[q] \in {t, None}

\* Thread t, which goes on with stack s, holds the locks its frames need.
OwnLocks(t, s, wl, pl) ==
  /\ \A q \in Pages :
       wl[q] = t => s # <<>> /\ s[1].at \in {"page", "split"} /\ s[1].pageNo = q
  /\ \A q \in Pages : pl[q] = t <=> \E i \in 1..Len(s) : Waits(s[i], q)

\* A page that is private to another thread stays so.
Hides(t, s) ==
  \A r, p \in 1..Len(pages) :
    /\ r # Root /\ wlock[p] \notin {t, None} /\ NoLink(pages, r, p)
    /\ \A i \in 1..Len(stack[t]) : Unknown(stack[t][i], r)
    => /\ NoLink(pages', r, p)
       /\ \A i \in 1..Len(s) : Unknown(s[i], r)

\* A page that becomes private to t is new.
NewIsPrivate(s) ==
  s # <<>> /\ s[1].at = "split" =>
    /\ s[1].right > Len(pages)
    /\ NoLink(pages', s[1].right, s[1].pageNo)
    /\ \A i \in 2..Len(s) : Unknown(s[i], s[1].right)

LockTurn(t, s) ==
  /\ s \in Seq(FrameType) /\ stack' = [stack EXCEPT ![t] = s]
  /\ OthersLocks(t, wlock, wlock') /\ OthersLocks(t, plock, plock')
  /\ OwnLocks(t, s, wlock', plock')
  /\ Hides(t, s)
  /\ NewIsPrivate(s)

\* A page that is not there is not known.
LEMMA BeyondUnknown ==
  ASSUME NEW ps, Len(ps) \in Nat, NEW f, FrameOK(ps, f), NEW r \in Nat, r > Len(ps)
  PROVE  Unknown(f, r)
<1>1. f.pageNo \in 1..Len(ps) /\ f.lvl \in Nat
  BY FrameTyped DEF FrameOK
<1>2. f.at \in {"split", "parent"} => f.right \in 1..Len(ps)
  BY DEF FrameOK
<1>3. f.lvl > 0 => f.child \in 1..Len(ps)
  BY <1>1 DEF FrameOK
<1> QED  BY <1>1, <1>2, <1>3 DEF Unknown

LEMMA LockTurnKeeps ==
  ASSUME IInv, LInv, NEW t \in Threads, NEW s, LockTurn(t, s)
  PROVE  LInv'
<1>1. /\ stack \in [Threads -> Seq(FrameType)] /\ s \in Seq(FrameType)
      /\ stack' = [stack EXCEPT ![t] = s]
      /\ OthersLocks(t, wlock, wlock') /\ OthersLocks(t, plock, plock')
      /\ OwnLocks(t, s, wlock', plock') /\ Hides(t, s) /\ NewIsPrivate(s)
  BY DEF LockTurn, IInv
<1>2. /\ stack'[t] = s /\ \A u \in Threads : u # t => stack'[u] = stack[u]
      /\ \A u \in Threads : u # None
  BY <1>1, BtreeAssumption
<1>3. WriteLocks'
  <2>1. ASSUME NEW q \in Pages, NEW u \in Threads, wlock'[q] = u
        PROVE  /\ stack'[u] # <<>> /\ stack'[u][1].at \in {"page", "split"}
               /\ stack'[u][1].pageNo = q
    <3>1. CASE u = t
      BY <2>1, <3>1, <1>1, <1>2 DEF OwnLocks
    <3>2. CASE u # t
      <4>1. wlock[q] = u
        BY <2>1, <3>2, <1>1, <1>2 DEF OthersLocks
      <4> QED  BY <4>1, <3>2, <1>2 DEF LInv, WriteLocks, Top
    <3> QED  BY <3>1, <3>2
  <2> QED  BY <2>1 DEF WriteLocks, Top
<1>4. ParentLocks'
  <2>1. ASSUME NEW q \in Pages, NEW u \in Threads
        PROVE  plock'[q] = u <=> \E i \in 1..Len(stack'[u]) : Waits(stack'[u][i], q)
    <3>1. CASE u = t
      BY <3>1, <1>1, <1>2 DEF OwnLocks
    <3>2. CASE u # t
      <4>1. plock'[q] = u <=> plock[q] = u
        BY <3>2, <1>1, <1>2 DEF OthersLocks
      <4>2. plock[q] = u <=> \E i \in 1..Len(stack[u]) : Waits(stack[u][i], q)
        BY DEF LInv, ParentLocks
      <4>3. stack'[u] = stack[u]
        BY <3>2, <1>2
      <4> QED  BY <4>1, <4>2, <4>3
    <3> QED  BY <3>1, <3>2
  <2> QED  BY <2>1 DEF ParentLocks
<1>5. ASSUME NEW v \in Threads, stack'[v] # <<>>, stack'[v][1].at = "split"
      PROVE  /\ NoLink(pages', stack'[v][1].right, stack'[v][1].pageNo)
             /\ \A u \in Threads : \A i \in 1..Len(stack'[u]) :
                  u # v \/ i # 1 => Unknown(stack'[u][i], stack'[v][1].right)
  <2> DEFINE f == stack'[v][1]
  <2>1. CASE v = t
    <3>1. f = s[1] /\ f.right > Len(pages) /\ NoLink(pages', f.right, f.pageNo)
          /\ \A i \in 2..Len(s) : Unknown(s[i], f.right)
      BY <2>1, <1>1, <1>2, <1>5 DEF NewIsPrivate
    <3>2. ASSUME NEW u \in Threads, u # t, NEW i \in 1..Len(stack[u])
          PROVE  Unknown(stack[u][i], f.right)
      <4>1. FrameOK(pages, stack[u][i]) /\ Len(pages) \in Nat
        BY DEF IInv, StacksOK, StackOK, PagesOK
      <4>2. f.right \in Nat
        <5>1. s[1] \in FrameType
          BY <1>1, <1>2, <1>5, <2>1
        <5> QED  BY <5>1, <3>1, FrameTyped
      <4> QED  BY <3>1, <4>1, <4>2, BeyondUnknown
    <3>3. ASSUME NEW i \in 1..Len(s), i # 1 PROVE Unknown(s[i], f.right)
      <4>1. i \in 2..Len(s)
        BY <3>3, <1>1
      <4> QED  BY <4>1, <3>1
    <3> HIDE DEF f
    <3> QED  BY <2>1, <3>1, <3>2, <3>3, <1>2 DEF f
  <2>2. CASE v # t
    <3>1. stack[v] # <<>> /\ f = stack[v][1] /\ f = Top(v) /\ f.at = "split"
      BY <2>2, <1>2, <1>5 DEF Top
    <3>2. /\ NoLink(pages, f.right, f.pageNo)
          /\ \A u \in Threads : \A i \in 1..Len(stack[u]) :
               u # v \/ i # 1 => Unknown(stack[u][i], f.right)
      BY <3>1 DEF LInv, Private
    <3>3. /\ f.pageNo \in 1..Len(pages) /\ wlock[f.pageNo] = v /\ FrameOK(pages, f)
          /\ PagesOK(pages)
      BY <3>1, TopFacts
    <3>4. f.right \in 1..Len(pages) /\ f.right # Root
      <4>1. /\ f.right \in 1..Len(pages) /\ f.pageNo # Root
            /\ pages[f.right].lvl = pages[f.pageNo].lvl
        BY <3>1, <3>3 DEF FrameOK
      <4>2. /\ pages[f.pageNo].lvl < pages[Root].lvl /\ pages[Root].lvl \in Nat
            /\ pages[f.pageNo].lvl \in Nat
        BY <4>1, <3>3, PagesTyped DEF PagesOK, PageOK
      <4> QED  BY <4>1, <4>2
    <3>5. wlock[f.pageNo] \notin {t, None}
      BY <2>2, <3>3, <1>2
    <3>6. \A i \in 1..Len(stack[t]) : Unknown(stack[t][i], f.right)
      BY <2>2, <3>2
    <3>7. NoLink(pages', f.right, f.pageNo) /\ \A i \in 1..Len(s) : Unknown(s[i], f.right)
      BY <3>2, <3>3, <3>4, <3>5, <3>6, <1>1 DEF Hides
    <3> HIDE DEF f
    <3> QED  BY <3>2, <3>7, <1>2 DEF f
  <2> QED  BY <2>1, <2>2
<1>6. Private'
  BY <1>5 DEF Private, Top
<1> QED  BY <1>3, <1>4, <1>6 DEF LInv

-----------------------------------------------------------------------------
(* Who holds which lock: each step keeps it                                *)

\* Hides, for a step that only changes the top frame, to g.
HidesTop(t, g) ==
  \A r, p \in 1..Len(pages) :
    /\ r # Root /\ wlock[p] \notin {t, None} /\ NoLink(pages, r, p)
    /\ \A i \in 1..Len(stack[t]) : Unknown(stack[t][i], r)
    => NoLink(pages', r, p) /\ Unknown(g, r)

LEMMA TopLockTurn ==
  ASSUME IInv, LInv, NEW t \in Threads, stack[t] # <<>>,
         NEW g \in FrameType, g.at # "parent",
         SetTop(t, g), plock' = plock, OthersLocks(t, wlock, wlock'),
         \A q \in Pages : wlock'[q] = t => g.at \in {"page", "split"} /\ g.pageNo = q,
         HidesTop(t, g),
         g.at = "split" => /\ g.right > Len(pages)
                           /\ NoLink(pages', g.right, g.pageNo)
  PROVE  LInv'
<1> DEFINE o == stack[t]
           s == <<g>> \o Tail(o)
<1>1. /\ o \in Seq(FrameType) /\ Len(o) \in Nat /\ Len(o) >= 1 /\ o # <<>>
      /\ StackOK(pages, o) /\ PagesOK(pages)
  BY TopFacts DEF StackOK
<1>2. stack' = [stack EXCEPT ![t] = s]
  BY DEF SetTop
<1> HIDE DEF o
<1>3. /\ s \in Seq(FrameType) /\ Len(s) = Len(o) /\ s[1] = g
      /\ \A i \in 2..Len(o) : s[i] = o[i]
  BY <1>1
<1> HIDE DEF s
<1>4. o[1].at # "parent"
  BY <1>1, TopOfStack
<1>5. ASSUME NEW q \in Pages PROVE plock'[q] = t <=> \E i \in 1..Len(s) : Waits(s[i], q)
  <2>1. plock[q] = t <=> \E i \in 1..Len(o) : Waits(o[i], q)
    BY DEF LInv, ParentLocks, o
  <2>2. ASSUME NEW i \in 1..Len(o), Waits(o[i], q) PROVE Waits(s[i], q)
    <3>1. i \in 2..Len(o)
      BY <2>2, <1>1, <1>4 DEF Waits
    <3> QED  BY <3>1, <2>2, <1>3
  <2>3. ASSUME NEW i \in 1..Len(o), Waits(s[i], q) PROVE Waits(o[i], q)
    <3>1. i \in 2..Len(o)
      BY <2>3, <1>1, <1>3 DEF Waits
    <3> QED  BY <3>1, <2>3, <1>3
  <2> QED  BY <2>1, <2>2, <2>3, <1>3
<1>6. \A q \in Pages :
        wlock'[q] = t => s # <<>> /\ s[1].at \in {"page", "split"} /\ s[1].pageNo = q
  BY <1>1, <1>3
<1>7. OwnLocks(t, s, wlock', plock')
  BY <1>5, <1>6 DEF OwnLocks
<1>8. Hides(t, s)
  <2>1. ASSUME NEW r \in 1..Len(pages), NEW p \in 1..Len(pages),
               r # Root, wlock[p] \notin {t, None}, NoLink(pages, r, p),
               \A i \in 1..Len(o) : Unknown(o[i], r)
        PROVE  NoLink(pages', r, p) /\ \A i \in 1..Len(s) : Unknown(s[i], r)
    <3>1. NoLink(pages', r, p) /\ Unknown(g, r)
      BY <2>1 DEF HidesTop, o
    <3>2. ASSUME NEW i \in 1..Len(s) PROVE Unknown(s[i], r)
      <4>1. CASE i = 1
        BY <4>1, <3>1, <1>3
      <4>2. CASE i # 1
        <5>1. i \in 2..Len(o) /\ i \in 1..Len(o)
          BY <4>2, <1>1, <1>3
        <5> QED  BY <5>1, <2>1, <1>3
      <4> QED  BY <4>1, <4>2
    <3> QED  BY <3>1, <3>2
  <2> QED  BY <2>1 DEF Hides, o
<1>9. NewIsPrivate(s)
  <2>1. ASSUME g.at = "split", NEW i \in 2..Len(s) PROVE Unknown(s[i], g.right)
    <3>1. s[i] = o[i] /\ FrameOK(pages, o[i]) /\ Len(pages) \in Nat /\ g.right \in Nat
      BY <1>1, <1>3, FrameTyped DEF StackOK, PagesOK
    <3> QED  BY <3>1, <2>1, BeyondUnknown
  <2> QED  BY <2>1, <1>3 DEF NewIsPrivate
<1>10. OthersLocks(t, plock, plock')
  BY DEF OthersLocks
<1>11. LockTurn(t, s)
  BY <1>2, <1>3, <1>7, <1>8, <1>9, <1>10 DEF LockTurn
<1> QED  BY <1>11, LockTurnKeeps

\* A thread has no write lock but that of the page it works on.
LEMMA OneWriteLock ==
  ASSUME IInv, LInv, NEW t \in Threads
  PROVE  \A q \in Pages : wlock[q] = t => /\ stack[t] # <<>> /\ Top(t).pageNo = q
                                          /\ Top(t).at \in {"page", "split"}
BY DEF LInv, WriteLocks

LEMMA Released ==
  ASSUME IInv, LInv, NEW t \in Threads, stack[t] # <<>>, Top(t).at \in {"page", "split"},
         wlock' = [wlock EXCEPT ![Top(t).pageNo] = None]
  PROVE  OthersLocks(t, wlock, wlock') /\ \A q \in Pages : wlock'[q] # t
<1> DEFINE x == Top(t).pageNo
<1>1. wlock[x] = t /\ x \in Pages
  BY TopFacts
<1>2. wlock \in [Pages -> Threads \union {None}] /\ t # None
  BY BtreeAssumption DEF IInv, LocksTyped
<1>3. \A q \in Pages : wlock[q] = t => q = x
  BY OneWriteLock
<1> HIDE DEF x
<1>4. wlock' = [wlock EXCEPT ![x] = None]
  BY DEF x
<1> QED  BY <1>1, <1>2, <1>3, <1>4 DEF OthersLocks

LEMMA InsertKeyLocks ==
  ASSUME IInv, LInv, NEW t \in Threads, NEW k \in Keys, InsertKey(t, k)
  PROVE  LInv'
<1> DEFINE g == Frame("insert", k, NoPage, FALSE, 0)
           s == <<g>>
<1>1. /\ UNCHANGED <<pages, wlock, plock>> /\ stack' = [stack EXCEPT ![t] = s]
      /\ stack[t] = <<>>
  BY DEF InsertKey
<1>2. g.at = "load" /\ g.pageNo = Root /\ g.lvl = 0
  BY DEF Frame
<1>3. g \in FrameType
  <2>1. k \in KeySet
    BY KeysTyped
  <2> QED  BY <2>1 DEF Frame, FrameType, Root, NoLevel, NoPage
<1> HIDE DEF g
<1>4. s \in Seq(FrameType) /\ Len(s) = 1 /\ s[1] = g
  BY <1>3
<1> HIDE DEF s
<1>5. OthersLocks(t, wlock, wlock') /\ OthersLocks(t, plock, plock')
  BY <1>1 DEF OthersLocks
<1>6. OwnLocks(t, s, wlock', plock')
  <2>1. \A q \in Pages : wlock[q] # t
    BY <1>1 DEF LInv, WriteLocks
  <2>2. ASSUME NEW q \in Pages PROVE plock[q] # t
    <3>1. plock[q] = t <=> \E i \in 1..Len(stack[t]) : Waits(stack[t][i], q)
      BY DEF LInv, ParentLocks
    <3>2. Len(stack[t]) = 0
      BY <1>1
    <3> QED  BY <3>1, <3>2
  <2>3. ASSUME NEW q PROVE ~ \E i \in 1..Len(s) : Waits(s[i], q)
    BY <1>2, <1>4 DEF Waits
  <2> QED  BY <2>1, <2>2, <2>3, <1>1 DEF OwnLocks
<1>7. Hides(t, s)
  <2>1. ASSUME NEW r, r # Root, NEW i \in 1..Len(s) PROVE Unknown(s[i], r)
    BY <2>1, <1>2, <1>4 DEF Unknown
  <2> QED  BY <2>1, <1>1 DEF Hides
<1>8. NewIsPrivate(s)
  BY <1>2, <1>4 DEF NewIsPrivate
<1>9. LockTurn(t, s)
  BY <1>1, <1>4, <1>5, <1>6, <1>7, <1>8 DEF LockTurn
<1> QED  BY <1>9, LockTurnKeeps

LEMMA VisitLocks ==
  ASSUME IInv, LInv, NEW t \in Threads, Visit(t)
  PROVE  LInv'
<1> DEFINE f    == Top(t)
           x    == f.pageNo
           pg   == pages[x]
           slot == FindSlot(pg, f.key, f.stop)
           c    == pg.slots[slot].child
<1>1. /\ stack[t] # <<>> /\ f.at = "load" /\ UNCHANGED <<pages, plock>>
      /\ wlock[x] = None
  BY DEF Visit
<1>2. /\ PagesOK(pages) /\ FrameOK(pages, f) /\ f \in FrameType /\ x \in Pages
      /\ x \in 1..Len(pages)
  BY <1>1, TopFacts
<1>3. /\ pg.lvl \in Nat /\ pg.right \in Nat /\ Len(pg.slots) \in Nat /\ Len(pg.slots) > 0
      /\ \A i \in 1..Len(pg.slots) : pg.slots[i].child \in Nat
  BY <1>2, PagesTyped
<1>4. slot \in 0..Len(pg.slots) /\ f.lvl \in Nat /\ pg.lvl >= f.lvl /\ f.stop \in BOOLEAN
  <2>1. f.stop \in BOOLEAN /\ f.lvl \in Nat
    BY <1>2, FrameTyped
  <2> QED  BY <2>1, <1>1, <1>2, <1>3, SlotFound DEF FrameOK
<1> HIDE DEF slot
\* The frame goes to a page that this one leads to, or stays.
<1>5. PICK g \in FrameType :
        /\ SetTop(t, g) /\ g.lvl = f.lvl /\ g.child = f.child
        /\ \/ g.pageNo = x
           \/ g.pageNo = pg.right
           \/ pg.lvl > 0 /\ \E i \in 1..Len(pg.slots) : g.pageNo = pg.slots[i].child
        /\ \/ wlock' = wlock /\ g.at = "load"
           \/ wlock' = [wlock EXCEPT ![x] = t] /\ g.at = "page" /\ g.pageNo = x
  <2>1. CASE SetTop(t, [f EXCEPT !.drill = pg.lvl]) /\ UNCHANGED wlock
    <3> DEFINE g == [f EXCEPT !.drill = pg.lvl]
    <3>1. g \in FrameType /\ g.lvl = f.lvl /\ g.child = f.child /\ g.at = "load" /\ g.pageNo = x
      BY <1>1, <1>2, <1>3 DEF FrameType
    <3> HIDE DEF g
    <3> QED  BY <2>1, <3>1 DEF g
  <2>2. CASE SetTop(t, [f EXCEPT !.at = "page"]) /\ wlock' = [wlock EXCEPT ![x] = t]
    <3> DEFINE g == [f EXCEPT !.at = "page"]
    <3>1. g \in FrameType /\ g.lvl = f.lvl /\ g.child = f.child /\ g.at = "page" /\ g.pageNo = x
      BY <1>1, <1>2, <1>3 DEF FrameType
    <3> HIDE DEF g
    <3> QED  BY <2>2, <3>1 DEF g
  <2>3. CASE pg.lvl # f.lvl /\ slot # 0 /\ UNCHANGED wlock
             /\ SetTop(t, [f EXCEPT !.pageNo = c, !.drill = pg.lvl - 1])
    <3> DEFINE l == pg.lvl - 1
               g == [f EXCEPT !.pageNo = c, !.drill = l]
    <3>1. l \in Nat /\ pg.lvl > 0 /\ slot \in 1..Len(pg.slots)
      BY <1>3, <1>4, <2>3
    <3>2. c \in Nat /\ \E i \in 1..Len(pg.slots) : c = pg.slots[i].child
      BY <1>3, <3>1
    <3> HIDE DEF c, l
    <3>3. g \in FrameType /\ g.lvl = f.lvl /\ g.child = f.child /\ g.at = "load" /\ g.pageNo = c
      BY <1>1, <1>2, <3>1, <3>2 DEF FrameType
    <3>4. SetTop(t, g)
      BY <2>3 DEF l
    <3> HIDE DEF g
    <3> QED  BY <2>3, <3>1, <3>2, <3>3, <3>4
  <2>4. CASE SetTop(t, [f EXCEPT !.pageNo = pg.right, !.drill = pg.lvl]) /\ UNCHANGED wlock
    <3> DEFINE g == [f EXCEPT !.pageNo = pg.right, !.drill = pg.lvl]
    <3>1. /\ g \in FrameType /\ g.lvl = f.lvl /\ g.child = f.child /\ g.at = "load"
          /\ g.pageNo = pg.right
      BY <1>1, <1>2, <1>3 DEF FrameType
    <3> HIDE DEF g
    <3> QED  BY <2>4, <3>1 DEF g
  <2> QED  BY <2>1, <2>2, <2>3, <2>4 DEF Visit, slot
<1>6. wlock \in [Pages -> Threads \union {None}] /\ t # None
  BY BtreeAssumption DEF IInv, LocksTyped
<1>7. OthersLocks(t, wlock, wlock')
  <2> HIDE DEF x
  <2> QED  BY <1>1, <1>2, <1>5, <1>6 DEF OthersLocks
<1>8. \A q \in Pages : wlock'[q] = t => g.at \in {"page", "split"} /\ g.pageNo = q
  <2>1. \A q \in Pages : wlock[q] # t
    BY <1>1, OneWriteLock
  <2> HIDE DEF x
  <2> QED  BY <2>1, <1>2, <1>5, <1>6
<1>9. HidesTop(t, g)
  <2>1. ASSUME NEW r \in 1..Len(pages), NEW p \in 1..Len(pages),
               wlock[p] \notin {t, None}, NoLink(pages, r, p),
               \A i \in 1..Len(stack[t]) : Unknown(stack[t][i], r)
        PROVE  Unknown(g, r)
    <3>1. Unknown(f, r)
      <4>1. 1 \in 1..Len(stack[t])
        BY <1>1, TopFacts
      <4> QED  BY <4>1, <2>1 DEF Top
    <3>2. p # x
      BY <2>1, <1>1
    <3>3. pg.right # r /\ (pg.lvl > 0 => \A i \in 1..Len(pg.slots) : pg.slots[i].child # r)
      BY <2>1, <3>2, <1>2 DEF NoLink
    <3>4. g.pageNo # r
      BY <3>1, <3>3, <1>5 DEF Unknown
    <3> QED  BY <3>1, <3>4, <1>5 DEF Unknown
  <2> QED  BY <2>1, <1>1 DEF HidesTop
<1>10. g.at # "parent" /\ g.at # "split"
  BY <1>5
<1> QED  BY <1>1, <1>5, <1>7, <1>8, <1>9, <1>10, TopLockTurn

\* Slots that are put on a page lead to no private page, if the new one does not.
LEMMA EditHides ==
  ASSUME NEW ps, NEW qs, NEW x, NEW c, PagesOK(ps), Edit(ps, qs, x, c),
         NEW r, NEW p, NoLink(ps, r, p), ps[x].lvl > 0 => c # r
  PROVE  NoLink(qs, r, p)
<1>1. x \in 1..Len(ps) /\ Len(qs) = Len(ps)
  BY DEF Edit
<1>2. ASSUME NEW q \in 1..Len(ps)
      PROVE  /\ qs[q].right = r => q = p
             /\ qs[q].lvl > 0 => \A i \in 1..Len(qs[q].slots) : qs[q].slots[i].child # r
  <2>1. /\ ps[q].right = r => q = p
        /\ ps[q].lvl > 0 => \A i \in 1..Len(ps[q].slots) : ps[q].slots[i].child # r
    BY DEF NoLink
  <2>2. CASE q # x
    <3>1. qs[q] = ps[q]
      BY <2>2 DEF Edit
    <3> QED  BY <2>1, <3>1
  <2>3. CASE q = x
    <3>1. qs[x].right = ps[x].right /\ qs[x].lvl = ps[x].lvl
      BY DEF Edit
    <3>2. ASSUME ps[x].lvl > 0, NEW i \in 1..Len(qs[x].slots) PROVE qs[x].slots[i].child # r
      <4>1. \/ qs[x].slots[i].child = c
            \/ \E j \in 1..Len(ps[x].slots) : qs[x].slots[i] = ps[x].slots[j]
        BY DEF Edit
      <4> QED  BY <4>1, <3>2, <2>1, <2>3
    <3> QED  BY <2>1, <2>3, <3>1, <3>2
  <2> QED  BY <2>2, <2>3
<1> QED  BY <1>1, <1>2 DEF NoLink

\* The thread on page x of level above 0 brings no slot for a private page.
LEMMA OnPageHides ==
  ASSUME IInv, NEW t \in Threads, stack[t] # <<>>, Top(t).at = "page",
         Edit(pages, pages', Top(t).pageNo, Top(t).child),
         NEW r, NEW p, NoLink(pages, r, p), Unknown(Top(t), r)
  PROVE  NoLink(pages', r, p)
<1> DEFINE f == Top(t)
<1>1. PagesOK(pages) /\ FrameOK(pages, f)
  BY TopFacts
<1>2. pages[f.pageNo].lvl = f.lvl
  BY <1>1 DEF FrameOK
<1>3. pages[f.pageNo].lvl > 0 => f.child # r
  BY <1>2 DEF Unknown
<1> HIDE DEF f
<1>4. Edit(pages, pages', f.pageNo, f.child)
  BY DEF f
<1> QED  BY <1>1, <1>3, <1>4, EditHides

LEMMA InsertSlotLocks ==
  ASSUME IInv, LInv, NEW t \in Threads, InsertSlot(t)
  PROVE  LInv'
<1> DEFINE f  == Top(t)
           up == stack[t][2]
           g  == Frame("fix", up.fence, up.right, up.last, f.lvl)
<1>1. /\ stack[t] # <<>> /\ f.at = "page" /\ UNCHANGED plock
      /\ wlock' = [wlock EXCEPT ![f.pageNo] = None]
      /\ IF Len(stack[t]) = 1 THEN stack' = [stack EXCEPT ![t] = <<>>] ELSE SetTop(t, g)
  BY DEF InsertSlot, OnPage
<1>2. /\ PagesOK(pages) /\ StackOK(pages, stack[t]) /\ FrameOK(pages, f) /\ f.lvl \in Nat
      /\ stack[t] \in Seq(FrameType) /\ Len(stack[t]) \in Nat /\ Len(stack[t]) >= 1
  BY <1>1, TopFacts DEF StackOK
<1>3. Edit(pages, pages', f.pageNo, f.child)
  BY InsertSlotEdits
<1>4. OthersLocks(t, wlock, wlock') /\ \A q \in Pages : wlock'[q] # t
  BY <1>1, Released
<1>5. ASSUME NEW r, NEW p, NoLink(pages, r, p), \A i \in 1..Len(stack[t]) : Unknown(stack[t][i], r)
      PROVE  NoLink(pages', r, p)
  <2>1. Unknown(f, r)
    <3>1. 1 \in 1..Len(stack[t])
      BY <1>2
    <3> QED  BY <3>1, <1>5 DEF Top
  <2> QED  BY <2>1, <1>1, <1>3, <1>5, OnPageHides
<1>6. CASE Len(stack[t]) = 1
  <2> DEFINE s == <<>>
  <2>1. s \in Seq(FrameType) /\ Len(s) = 0
    OBVIOUS
  <2>2. stack' = [stack EXCEPT ![t] = s]
    BY <1>1, <1>6
  <2> HIDE DEF s
  <2>3. ASSUME NEW q \in Pages PROVE plock[q] # t
    <3>1. plock[q] = t <=> \E i \in 1..Len(stack[t]) : Waits(stack[t][i], q)
      BY DEF LInv, ParentLocks
    <3>2. \A i \in 1..Len(stack[t]) : i = 1
      BY <1>6
    <3>3. stack[t][1].at = "page"
      BY <1>1 DEF Top
    <3> QED  BY <3>1, <3>2, <3>3 DEF Waits
  <2>4. OwnLocks(t, s, wlock', plock')
    BY <2>1, <2>3, <1>1, <1>4 DEF OwnLocks
  <2>5. Hides(t, s)
    BY <2>1, <1>5 DEF Hides
  <2>6. NewIsPrivate(s)
    BY <2>1 DEF NewIsPrivate
  <2>7. OthersLocks(t, plock, plock')
    BY <1>1 DEF OthersLocks
  <2>8. LockTurn(t, s)
    BY <2>1, <2>2, <2>4, <2>5, <2>6, <2>7, <1>4 DEF LockTurn
  <2> QED  BY <2>8, LockTurnKeeps
<1>7. CASE Len(stack[t]) # 1
  <2>1. 2 \in 1..Len(stack[t])
    <3> DEFINE n == Len(stack[t])
    <3>1. n \in Nat /\ n >= 1 /\ n # 1
      BY <1>2, <1>7
    <3> HIDE DEF n
    <3>2. 2 \in 1..n
      BY <3>1
    <3> QED  BY <3>2 DEF n
  <2>2. FrameOK(pages, up) /\ up.at = "parent" /\ up \in FrameType
    BY <2>1, <1>2 DEF StackOK
  <2>3. up.fence \in KeySet /\ up.right \in Nat /\ up.last \in BOOLEAN
    BY <2>2, FrameTyped DEF FrameOK
  <2>4. g \in FrameType
    BY <2>3, <1>2 DEF Frame, FrameType, Root, NoLevel, NoPage
  <2>5. g.at = "load" /\ g.pageNo = Root /\ g.child = up.right
    BY DEF Frame
  <2> HIDE DEF g
  <2>6. ASSUME NEW r, r # Root, \A i \in 1..Len(stack[t]) : Unknown(stack[t][i], r)
        PROVE  Unknown(g, r)
    <3>1. up.right # r
      BY <2>1, <2>2, <2>6 DEF Unknown
    <3> QED  BY <3>1, <2>5, <2>6 DEF Unknown
  <2>7. HidesTop(t, g)
    BY <2>6, <1>5 DEF HidesTop
  <2>8. SetTop(t, g) /\ plock' = plock /\ g.at # "parent" /\ g.at # "split"
    BY <1>1, <1>7, <2>5
  <2>9. \A q \in Pages : wlock'[q] = t => g.at \in {"page", "split"} /\ g.pageNo = q
    BY <1>4
  <2> QED  BY <2>4, <2>7, <2>8, <2>9, <1>1, <1>4, TopLockTurn
<1> QED  BY <1>6, <1>7

LEMMA SplitPageLocks ==
  ASSUME IInv, LInv, NEW t \in Threads, NEW m, SplitPage(t, m)
  PROVE  LInv'
<1> DEFINE f  == Top(t)
           x  == f.pageNo
           pg == pages[x]
           n  == Len(pages)
           r  == n + 1
           g  == [f EXCEPT !.at = "split", !.low = pg.slots[m].key, !.fence = Last(pg.slots).key,
                           !.last = Last(pg.slots).stop, !.right = r]
<1>1. /\ stack[t] # <<>> /\ f.at = "page" /\ UNCHANGED <<wlock, plock>> /\ SetTop(t, g)
  BY DEF SplitPage, OnPage
<1>2. /\ PagesOK(pages) /\ FrameOK(pages, f) /\ f \in FrameType /\ x \in 1..n
      /\ wlock[x] = t /\ n \in Nat /\ stack[t][1] = f /\ 1 \in 1..Len(stack[t])
  BY <1>1, TopFacts DEF PagesOK, Top
<1>3. g.at = "split" /\ g.pageNo = x /\ g.right = r /\ g.child = f.child /\ g.lvl = f.lvl
  BY <1>2 DEF FrameType
<1> HIDE DEF g
<1>4. IInv'
  BY SplitPageKeeps
<1>5. g \in FrameType
  <2>1. stack'[t] # <<>> /\ stack'[t][1] = g /\ stack'[t] \in Seq(FrameType)
    <3>1. stack \in [Threads -> Seq(FrameType)] /\ stack' \in [Threads -> Seq(FrameType)]
      BY <1>4 DEF IInv
    <3>2. stack'[t] = <<g>> \o Tail(stack[t])
      BY <3>1, <1>1 DEF SetTop
    <3>3. stack[t] \in Seq(FrameType) /\ stack[t] # <<>> /\ stack'[t] \in Seq(FrameType)
      BY <3>1, <1>1
    <3> HIDE DEF f
    <3> QED  BY <3>2, <3>3
  <2>2. 1 \in 1..Len(stack'[t])
    BY <2>1
  <2> QED  BY <2>1, <2>2
<1>6. /\ Len(pages') = r /\ pages'[x].right = r /\ pages'[r].right = pg.right
      /\ pages'[r].lvl = pg.lvl
      /\ \A q \in 1..n : pages'[q].lvl = pages[q].lvl
      /\ \A q \in 1..n : q # x => pages'[q].slots = pages[q].slots /\ pages'[q].right = pages[q].right
      /\ Halved(pg.slots, pages'[x].slots, pages'[r].slots)
  BY SplitPageSplits DEF SplitOf
<1>7. \A q \in 1..r : q = r \/ q \in 1..n
  BY <1>2
\* Every slot of the new pages is one of an old page of the same level.
<1>8. ASSUME NEW q \in 1..r, NEW i \in 1..Len(pages'[q].slots)
      PROVE  \E o \in 1..n : \E j \in 1..Len(pages[o].slots) :
               pages[o].lvl = pages'[q].lvl /\ pages'[q].slots[i] = pages[o].slots[j]
  <2>1. CASE q = r
    <3>1. \E j \in 1..Len(pg.slots) : pages'[r].slots[i] = pg.slots[j]
      BY <2>1, <1>6, <1>8 DEF Halved
    <3> QED  BY <2>1, <3>1, <1>2, <1>6
  <2>2. CASE q = x
    <3>1. \E j \in 1..Len(pg.slots) : pages'[x].slots[i] = pg.slots[j]
      BY <2>2, <1>6, <1>8 DEF Halved
    <3> QED  BY <2>2, <3>1, <1>2, <1>6
  <2>3. CASE q # r /\ q # x
    BY <2>3, <1>6, <1>7, <1>8
  <2> QED  BY <2>1, <2>2, <2>3
<1> HIDE DEF r, x
<1>9. ASSUME NEW y \in 1..n, NEW p \in 1..n, p # x, NoLink(pages, y, p)
      PROVE  NoLink(pages', y, p)
  <2>1. ASSUME NEW q \in 1..r
        PROVE  /\ pages'[q].right = y => q = p
               /\ pages'[q].lvl > 0 => \A i \in 1..Len(pages'[q].slots) : pages'[q].slots[i].child # y
    <3>1. \A o \in 1..n : pages[o].right = y => o = p
      BY <1>9 DEF NoLink
    <3>2. pages'[q].right = y => q = p
      <4>1. CASE q = r
        BY <4>1, <3>1, <1>2, <1>6, <1>9
      <4>2. CASE q = x
        BY <4>2, <1>2, <1>6, <1>9 DEF r
      <4>3. CASE q # r /\ q # x
        BY <4>3, <3>1, <1>6, <1>7
      <4> QED  BY <4>1, <4>2, <4>3
    <3>3. ASSUME pages'[q].lvl > 0, NEW i \in 1..Len(pages'[q].slots)
          PROVE  pages'[q].slots[i].child # y
      <4>1. PICK o \in 1..n : \E j \in 1..Len(pages[o].slots) :
               pages[o].lvl = pages'[q].lvl /\ pages'[q].slots[i] = pages[o].slots[j]
        BY <1>8
      <4> QED  BY <4>1, <3>3, <1>9 DEF NoLink
    <3> QED  BY <3>2, <3>3
  <2> QED  BY <2>1, <1>6 DEF NoLink
<1>10. NoLink(pages', r, x)
  <2>1. \A o \in 1..n : PageOK(pages, o)
    BY <1>2 DEF PagesOK
  <2>2. r \notin 1..n /\ r # NoPage
    BY <1>2 DEF r, NoPage
  <2>3. \A o \in 1..n : pages[o].right # r
    BY <2>1, <2>2 DEF PageOK
  <2>4. ASSUME NEW q \in 1..r, pages'[q].right = r PROVE q = x
    BY <2>3, <2>4, <1>2, <1>6, <1>7
  <2>5. ASSUME NEW q \in 1..r, pages'[q].lvl > 0, NEW i \in 1..Len(pages'[q].slots)
        PROVE  pages'[q].slots[i].child # r
    <3>1. PICK o \in 1..n : \E j \in 1..Len(pages[o].slots) :
             pages[o].lvl = pages'[q].lvl /\ pages'[q].slots[i] = pages[o].slots[j]
      BY <1>8
    <3> QED  BY <3>1, <2>1, <2>2, <2>5 DEF PageOK
  <2> QED  BY <2>4, <2>5, <1>6 DEF NoLink
<1>11. HidesTop(t, g)
  <2>1. ASSUME NEW y \in 1..n, NEW p \in 1..n, wlock[p] \notin {t, None}, NoLink(pages, y, p),
               \A i \in 1..Len(stack[t]) : Unknown(stack[t][i], y)
        PROVE  NoLink(pages', y, p) /\ Unknown(g, y)
    <3>1. p # x
      BY <2>1, <1>2
    <3>2. Unknown(f, y)
      BY <2>1, <1>2
    <3>3. r # y
      BY <1>2 DEF r
    <3>4. Unknown(g, y)
      BY <3>2, <3>3, <1>3 DEF Unknown, x
    <3> QED  BY <3>1, <3>4, <2>1, <1>9
  <2> QED  BY <2>1 DEF HidesTop
<1>12. \A q \in Pages : wlock'[q] = t => g.at \in {"page", "split"} /\ g.pageNo = q
  BY <1>1, <1>3, OneWriteLock DEF x
<1>13. OthersLocks(t, wlock, wlock') /\ plock' = plock
  BY <1>1 DEF OthersLocks
<1>14. g.right > Len(pages) /\ NoLink(pages', g.right, g.pageNo) /\ g.at # "parent"
  BY <1>2, <1>3, <1>10 DEF r
<1> QED  BY <1>1, <1>5, <1>11, <1>12, <1>13, <1>14, TopLockTurn

LEMMA SplitRootLocks ==
  ASSUME IInv, LInv, NEW t \in Threads, NEW m, SplitRoot(t, m)
  PROVE  LInv'
<1> DEFINE f == Top(t)
           g == Restart(f)
           n == Len(pages)
           r == n + 1
           l == n + 2
<1>1. /\ stack[t] # <<>> /\ f.at = "page" /\ f.pageNo = Root /\ UNCHANGED plock /\ SetTop(t, g)
      /\ wlock' = [wlock EXCEPT ![Root] = None]
  BY DEF SplitRoot, OnPage
<1>2. /\ PagesOK(pages) /\ FrameOK(pages, f) /\ n \in Nat /\ Root \in 1..n
      /\ stack[t][1] = f /\ 1 \in 1..Len(stack[t])
  BY <1>1, TopFacts DEF PagesOK, Top
<1>3. /\ g.at = "load" /\ g.pageNo = Root /\ g.child = f.child /\ g.lvl = f.lvl
      /\ g \in FrameType
  BY <1>2, RestartedFrame DEF FrameOK
<1> HIDE DEF g
<1>4. OthersLocks(t, wlock, wlock') /\ \A q \in Pages : wlock'[q] # t
  BY <1>1, Released
<1>5. /\ Len(pages') = l /\ \A q \in 1..n : q # Root => pages'[q] = pages[q]
      /\ pages'[Root].right = NoPage
      /\ Len(pages'[Root].slots) = 2 /\ pages'[Root].slots[1].child = l
      /\ pages'[Root].slots[2].child = r
      /\ pages'[r].lvl = pages[Root].lvl /\ pages'[r].right = pages[Root].right
      /\ pages'[l].lvl = pages[Root].lvl /\ pages'[l].right = r
      /\ Halved(pages[Root].slots, pages'[l].slots, pages'[r].slots)
  BY SplitRootSplits DEF RootSplitOf
<1>6. /\ \A q \in 1..l : q = r \/ q = l \/ q = Root \/ (q \in 1..n /\ q # Root)
      /\ r \notin 1..n /\ l \notin 1..n /\ NoPage \notin 1..n
  BY <1>2 DEF NoPage
<1>7. pages[Root].right = NoPage
  BY <1>2 DEF PagesOK, PageOK
<1> HIDE DEF r, l, n
<1>8. ASSUME NEW y \in 1..n, NEW p, NoLink(pages, y, p) PROVE NoLink(pages', y, p)
  <2>1. ASSUME NEW q \in 1..n
        PROVE  /\ pages[q].right = y => q = p
               /\ pages[q].lvl > 0 => \A i \in 1..Len(pages[q].slots) : pages[q].slots[i].child # y
    BY <1>8 DEF NoLink, n
  <2>2. ASSUME NEW q \in 1..l
        PROVE  /\ pages'[q].right = y => q = p
               /\ pages'[q].lvl > 0 => \A i \in 1..Len(pages'[q].slots) : pages'[q].slots[i].child # y
    <3>1. CASE q = Root
      <4>1. \A i \in 1..Len(pages'[q].slots) : i = 1 \/ i = 2
        BY <3>1, <1>5
      <4> QED  BY <3>1, <4>1, <1>5, <1>6, <1>8
    <3>2. CASE q = r
      <4>1. pages'[r].right # y
        BY <1>5, <1>6, <1>7, <1>8
      <4>2. \A i \in 1..Len(pages'[r].slots) : \E j \in 1..Len(pages[Root].slots) :
              pages'[r].slots[i] = pages[Root].slots[j]
        BY <1>5 DEF Halved
      <4> QED  BY <3>2, <4>1, <4>2, <2>1, <1>2, <1>5
    <3>3. CASE q = l
      <4>1. pages'[l].right # y
        BY <1>5, <1>6, <1>8
      <4>2. \A i \in 1..Len(pages'[l].slots) : \E j \in 1..Len(pages[Root].slots) :
              pages'[l].slots[i] = pages[Root].slots[j]
        BY <1>5 DEF Halved
      <4> QED  BY <3>3, <4>1, <4>2, <2>1, <1>2, <1>5
    <3>4. CASE q \in 1..n /\ q # Root
      <4>1. pages'[q] = pages[q]
        BY <3>4, <1>5
      <4> QED  BY <3>4, <4>1, <2>1
    <3> QED  BY <3>1, <3>2, <3>3, <3>4, <1>6
  <2> QED  BY <2>2, <1>5 DEF NoLink
<1>9. HidesTop(t, g)
  <2>1. ASSUME NEW y, y # Root, Unknown(f, y) PROVE Unknown(g, y)
    BY <2>1, <1>3 DEF Unknown
  <2>2. ASSUME NEW y, \A i \in 1..Len(stack[t]) : Unknown(stack[t][i], y) PROVE Unknown(f, y)
    BY <2>2, <1>2
  <2> QED  BY <2>1, <2>2, <1>8 DEF HidesTop, n
<1>10. \A q \in Pages : wlock'[q] = t => g.at \in {"page", "split"} /\ g.pageNo = q
  BY <1>4
<1>11. g.at # "parent" /\ g.at # "split" /\ plock' = plock
  BY <1>1, <1>3
<1> QED  BY <1>1, <1>3, <1>4, <1>9, <1>10, <1>11, TopLockTurn

\* Nobody has the parent lock of the right page, so btreeSplitPage gets it at once.
LEMMA RightPageIsFree ==
  ASSUME IInv, LInv, NEW t \in Threads, stack[t] # <<>>, Top(t).at = "split"
  PROVE  Top(t).right \in Pages /\ plock[Top(t).right] = None
<1> DEFINE f == Top(t)
<1>1. f.right \in Pages
  BY TopFacts, PagesAreNumbered DEF FrameOK
<1>2. ASSUME NEW u \in Threads, plock[f.right] = u PROVE FALSE
  <2>1. PICK i \in 1..Len(stack[u]) : Waits(stack[u][i], f.right)
    BY <1>1, <1>2 DEF LInv, ParentLocks
  <2>2. u # t \/ i # 1
    BY <2>1 DEF Waits, Top
  <2>3. Unknown(stack[u][i], f.right)
    BY <2>2 DEF LInv, Private
  <2> QED  BY <2>1, <2>3 DEF Waits, Unknown
<1>3. plock[f.right] \in Threads \union {None}
  BY <1>1 DEF IInv, LocksTyped
<1> QED  BY <1>1, <1>2, <1>3

LEMMA LockParentsLocks ==
  ASSUME IInv, LInv, NEW t \in Threads, LockParents(t)
  PROVE  LInv'
<1> DEFINE f == Top(t)
           o == stack[t]
           g == Frame("insert", f.low, f.pageNo, FALSE, f.lvl + 1)
           h == [f EXCEPT !.at = "parent"]
           s == <<g, h>> \o Tail(o)
<1>1. /\ stack[t] # <<>> /\ f.at = "split" /\ UNCHANGED pages
      /\ wlock' = [wlock EXCEPT ![f.pageNo] = None] /\ plock[f.pageNo] = None
      /\ plock' = [plock EXCEPT ![f.pageNo] = t, ![f.right] = t]
      /\ stack' = [stack EXCEPT ![t] = s]
  BY DEF LockParents
<1>2. /\ PagesOK(pages) /\ StackOK(pages, o) /\ FrameOK(pages, f) /\ f \in FrameType
      /\ f.pageNo \in Pages /\ Len(o) \in Nat /\ Len(o) >= 1 /\ f.lvl \in Nat
      /\ o \in Seq(FrameType) /\ o[1] = f
  BY <1>1, TopFacts DEF StackOK, Top
<1>3. f.right \in Pages /\ plock[f.right] = None
  BY <1>1, RightPageIsFree
<1>4. OthersLocks(t, wlock, wlock') /\ \A q \in Pages : wlock'[q] # t
  BY <1>1, Released
<1>5. g.at = "load" /\ g.pageNo = Root /\ g.child = f.pageNo
  BY DEF Frame
<1>6. h.at = "parent" /\ h.pageNo = f.pageNo /\ h.right = f.right /\ h.lvl = f.lvl
      /\ h.child = f.child /\ h \in FrameType
  BY <1>2 DEF FrameType
<1>7. g \in FrameType
  <2> DEFINE l == f.lvl + 1
  <2>1. f.low \in KeySet /\ l \in Nat /\ f.pageNo \in Nat
    BY <1>1, <1>2, FrameTyped DEF FrameOK
  <2> HIDE DEF l
  <2>2. Frame("insert", f.low, f.pageNo, FALSE, l) \in FrameType
    BY <2>1 DEF Frame, FrameType, Root, NoLevel, NoPage
  <2> QED  BY <2>2 DEF l
<1> HIDE DEF g, h, o
<1>8. /\ s \in Seq(FrameType) /\ Len(s) = Len(o) + 1 /\ s[1] = g /\ s[2] = h
      /\ \A i \in 2..Len(o) : s[i + 1] = o[i]
  BY <1>1, <1>2, <1>6, <1>7 DEF o
<1> HIDE DEF s
\* The frames under the top one have moved one down.
<1>9. ASSUME NEW i \in 1..Len(s)
      PROVE  s[i] = g \/ s[i] = h \/ \E j \in 2..Len(o) : s[i] = o[j]
  <2>1. CASE i = 1 \/ i = 2
    BY <2>1, <1>8
  <2>2. CASE i # 1 /\ i # 2
    <3>1. i - 1 \in 2..Len(o) /\ (i - 1) + 1 = i
      BY <2>2, <1>2, <1>8
    <3> QED  BY <3>1, <1>8
  <2> QED  BY <2>1, <2>2
<1>10. plock \in [Pages -> Threads \union {None}] /\ t # None
  BY BtreeAssumption DEF IInv, LocksTyped
<1>11. OthersLocks(t, plock, plock')
  <2> HIDE DEF f
  <2> QED  BY <1>1, <1>3, <1>10 DEF OthersLocks
<1>12. ASSUME NEW q \in Pages PROVE plock'[q] = t <=> \E i \in 1..Len(s) : Waits(s[i], q)
  <2>1. plock[q] = t <=> \E i \in 1..Len(o) : Waits(o[i], q)
    BY DEF LInv, ParentLocks, o
  <2>2. plock'[q] = t <=> q = f.pageNo \/ q = f.right \/ plock[q] = t
    <3> HIDE DEF f
    <3> QED  BY <1>1, <1>3, <1>10
  <2>3. Waits(h, q) <=> q = f.pageNo \/ q = f.right
    BY <1>6 DEF Waits
  <2>4. ~Waits(g, q) /\ ~Waits(o[1], q)
    BY <1>1, <1>2, <1>5 DEF Waits
  <2>5. ASSUME NEW i \in 1..Len(s), Waits(s[i], q) PROVE plock'[q] = t
    BY <2>1, <2>2, <2>3, <2>4, <2>5, <1>2, <1>9
  <2>6. ASSUME NEW j \in 1..Len(o), Waits(o[j], q) PROVE \E i \in 1..Len(s) : Waits(s[i], q)
    <3>1. j \in 2..Len(o) /\ j + 1 \in 1..Len(s)
      BY <2>4, <2>6, <1>2, <1>8
    <3> QED  BY <3>1, <2>6, <1>8
  <2>7. ASSUME Waits(h, q) PROVE \E i \in 1..Len(s) : Waits(s[i], q)
    <3>1. 2 \in 1..Len(s)
      BY <1>2, <1>8
    <3> QED  BY <3>1, <2>7, <1>8
  <2> QED  BY <2>1, <2>2, <2>3, <2>5, <2>6, <2>7
<1>13. OwnLocks(t, s, wlock', plock')
  BY <1>4, <1>12 DEF OwnLocks
<1>14. Hides(t, s)
  <2>1. ASSUME NEW r, r # Root, \A i \in 1..Len(o) : Unknown(o[i], r),
               NEW i \in 1..Len(s)
        PROVE  Unknown(s[i], r)
    <3>1. Unknown(f, r)
      BY <2>1, <1>2
    <3>2. Unknown(g, r)
      BY <3>1, <2>1, <1>5 DEF Unknown
    <3>3. Unknown(h, r)
      BY <3>1, <1>1, <1>6 DEF Unknown
    <3> QED  BY <3>2, <3>3, <2>1, <1>2, <1>9
  <2> QED  BY <2>1, <1>1 DEF Hides, o
<1>15. NewIsPrivate(s)
  BY <1>5, <1>8 DEF NewIsPrivate
<1>16. LockTurn(t, s)
  BY <1>1, <1>4, <1>8, <1>11, <1>13, <1>14, <1>15 DEF LockTurn
<1> QED  BY <1>16, LockTurnKeeps

LEMMA FixKeyLocks ==
  ASSUME IInv, LInv, NEW t \in Threads, FixKey(t)
  PROVE  LInv'
<1> DEFINE f  == Top(t)
           o  == stack[t]
           up == o[2]
           g  == Restart(up)
           b  == SubSeq(o, 3, Len(o))
           s  == <<g>> \o b
<1>1. /\ stack[t] # <<>> /\ f.at = "page" /\ f.op = "fix"
      /\ wlock' = [wlock EXCEPT ![f.pageNo] = None]
      /\ plock' = [plock EXCEPT ![up.pageNo] = None, ![up.right] = None]
      /\ stack' = [stack EXCEPT ![t] = s]
  BY DEF FixKey, OnPage
<1>2. /\ PagesOK(pages) /\ StackOK(pages, o) /\ FrameOK(pages, f) /\ f \in FrameType
      /\ Len(o) \in Nat /\ Len(o) >= 1 /\ f.lvl \in Nat
      /\ o \in Seq(FrameType) /\ o[1] = f
  BY <1>1, TopFacts DEF StackOK, Top
<1>3. Len(o) >= 2
  <2>1. f.lvl # 0
    BY <1>1, <1>2 DEF FrameOK
  <2> DEFINE n == Len(o)
  <2>2. f.lvl = n - 1 /\ n \in Nat
    BY <1>2 DEF StackOK
  <2> HIDE DEF n
  <2>3. n >= 2
    BY <2>1, <2>2, <1>2
  <2> QED  BY <2>3 DEF n
<1>4. OthersLocks(t, wlock, wlock') /\ \A q \in Pages : wlock'[q] # t
  BY <1>1, Released
<1>5. FrameOK(pages, up) /\ up.at = "parent" /\ up.lvl = Len(o) - 2 /\ 2 \in 1..Len(o)
  <2>1. 2 \in 1..Len(o) /\ 2 > 1
    BY <1>2, <1>3
  <2> QED  BY <2>1, <1>2 DEF StackOK
<1>6. /\ up.pageNo \in 1..Len(pages) /\ up.right \in 1..Len(pages)
      /\ pages[up.pageNo].lvl = up.lvl /\ pages[up.right].lvl = up.lvl
      /\ up.pageNo \in Pages /\ up.right \in Pages
  BY <1>5, PagesAreNumbered DEF FrameOK
<1>7. /\ g.at = "load" /\ g.pageNo = Root /\ g.child = up.child /\ g.lvl = up.lvl
      /\ g \in FrameType
  <2>1. FrameOK(pages, g)
    BY <1>2, <1>5, RestartedFrame
  <2>2. g \in FrameType
    BY <2>1 DEF FrameOK
  <2>3. g.at = "load" /\ g.pageNo = Root /\ g.child = up.child /\ g.lvl = up.lvl
    BY DEF Restart, Frame
  <2> HIDE DEF g
  <2> QED  BY <2>2, <2>3
<1>8. plock \in [Pages -> Threads \union {None}] /\ t # None
  BY BtreeAssumption DEF IInv, LocksTyped
<1>9. plock[up.pageNo] = t /\ plock[up.right] = t
  <2>1. Waits(up, up.pageNo) /\ Waits(up, up.right)
    BY <1>5 DEF Waits
  <2> QED  BY <2>1, <1>5, <1>6 DEF LInv, ParentLocks
<1> HIDE DEF g, up
<1>10. b \in Seq(FrameType) /\ Len(b) = Len(o) - 2 /\ \A i \in 1..Len(o) - 2 : b[i] = o[i + 2]
  <2> DEFINE n == Len(o)
  <2>1. \A i \in 3..n : o[i] \in FrameType
    BY <1>2
  <2>2. /\ b \in Seq(FrameType) /\ Len(b) = IF 3 <= n THEN n - 3 + 1 ELSE 0
        /\ \A i \in 1..n - 3 + 1 : b[i] = o[3 + i - 1]
    BY <1>2, <2>1, SubSeqProperties
  <2>3. n \in Nat /\ n >= 2
    BY <1>2, <1>3
  <2> HIDE DEF b, o, n
  <2>4. Len(b) = n - 2
    BY <2>2, <2>3
  <2>5. ASSUME NEW i \in 1..n - 2 PROVE b[i] = o[i + 2]
    <3>1. i \in 1..n - 3 + 1 /\ 3 + i - 1 = i + 2
      BY <2>3
    <3> QED  BY <3>1, <2>2
  <2> QED  BY <2>2, <2>4, <2>5 DEF n
<1> HIDE DEF b, o
<1>11. /\ s \in Seq(FrameType) /\ Len(s) = Len(o) - 1 /\ s[1] = g
       /\ \A i \in 2..Len(o) - 1 : s[i] = o[i + 1]
  <2>1. s \in Seq(FrameType) /\ Len(s) = Len(o) - 1 /\ s[1] = g
    BY <1>2, <1>7, <1>10
  <2>2. ASSUME NEW i \in 2..Len(o) - 1 PROVE s[i] = o[i + 1]
    <3>1. i - 1 \in 1..Len(o) - 2 /\ (i - 1) + 2 = i + 1
      BY <1>2
    <3>2. s[i] = b[i - 1]
      BY <1>2, <1>7, <1>10, <3>1
    <3> QED  BY <3>1, <3>2, <1>10
  <2> HIDE DEF s
  <2> QED  BY <2>1, <2>2
<1> HIDE DEF s
<1>12. ASSUME NEW i \in 1..Len(s) PROVE i = 1 \/ (i + 1 \in 3..Len(o) /\ s[i] = o[i + 1])
  BY <1>2, <1>11
<1>13. OthersLocks(t, plock, plock')
  BY <1>1, <1>6, <1>8, <1>9 DEF OthersLocks
<1>14. ASSUME NEW q \in Pages PROVE plock'[q] = t <=> \E i \in 1..Len(s) : Waits(s[i], q)
  <2>1. plock[q] = t <=> \E i \in 1..Len(o) : Waits(o[i], q)
    BY DEF LInv, ParentLocks, o
  <2>2. plock'[q] = t <=> plock[q] = t /\ q # up.pageNo /\ q # up.right
    BY <1>1, <1>6, <1>8
  <2>3. ASSUME plock'[q] = t PROVE \E i \in 1..Len(s) : Waits(s[i], q)
    <3>1. PICK j \in 1..Len(o) : Waits(o[j], q)
      BY <2>1, <2>2, <2>3
    <3>2. j # 1
      BY <3>1, <1>1, <1>2 DEF Waits
    <3>3. j # 2
      BY <3>1, <2>2, <2>3 DEF Waits, up
    <3>4. j - 1 \in 2..Len(o) - 1 /\ j - 1 \in 1..Len(s) /\ (j - 1) + 1 = j
      BY <3>2, <3>3, <1>2, <1>11
    <3>5. s[j - 1] = o[j]
      BY <3>4, <1>11
    <3> QED  BY <3>1, <3>4, <3>5
  <2>4. ASSUME NEW i \in 1..Len(s), Waits(s[i], q) PROVE plock'[q] = t
    <3>1. i # 1
      BY <2>4, <1>7, <1>11 DEF Waits
    <3> DEFINE j == i + 1
    <3>2. j \in 3..Len(o) /\ j \in 1..Len(o) /\ Waits(o[j], q)
      BY <2>4, <3>1, <1>12
    <3> HIDE DEF j
    <3>3. FrameOK(pages, o[j]) /\ o[j].lvl = Len(o) - j
      BY <3>2, <1>2 DEF StackOK
    <3>4. pages[q].lvl = o[j].lvl
      BY <3>2, <3>3 DEF FrameOK, Waits
    <3>5. pages[q].lvl # up.lvl
      BY <3>2, <3>3, <3>4, <1>2, <1>5
    <3> QED  BY <3>2, <3>5, <2>1, <2>2, <1>6
  <2> QED  BY <2>3, <2>4
<1>15. OwnLocks(t, s, wlock', plock')
  BY <1>4, <1>14 DEF OwnLocks
<1>16. Hides(t, s)
  <2>1. ASSUME NEW r, r # Root, \A i \in 1..Len(o) : Unknown(o[i], r),
               NEW i \in 1..Len(s)
        PROVE  Unknown(s[i], r)
    <3>1. CASE i = 1
      <4>1. Unknown(up, r)
        BY <2>1, <1>5 DEF up
      <4> QED  BY <4>1, <3>1, <2>1, <1>7, <1>11 DEF Unknown
    <3>2. CASE i # 1
      <4>1. i + 1 \in 1..Len(o) /\ s[i] = o[i + 1]
        BY <3>2, <1>2, <1>12
      <4> QED  BY <4>1, <2>1
    <3> QED  BY <3>1, <3>2
  <2>2. ASSUME NEW r, NEW p, NoLink(pages, r, p), \A i \in 1..Len(o) : Unknown(o[i], r)
        PROVE  NoLink(pages', r, p)
    <3>1. Unknown(f, r)
      <4>1. 1 \in 1..Len(o)
        BY <1>2
      <4> QED  BY <4>1, <2>2, <1>2
    <3> QED  BY <3>1, <2>2, <1>1, FixKeyEdits, OnPageHides
  <2> QED  BY <2>1, <2>2 DEF Hides, o
<1>17. NewIsPrivate(s)
  BY <1>7, <1>11 DEF NewIsPrivate
<1>18. LockTurn(t, s)
  BY <1>1, <1>4, <1>11, <1>13, <1>15, <1>16, <1>17 DEF LockTurn
<1> QED  BY <1>18, LockTurnKeeps

-----------------------------------------------------------------------------
(* The locks are held by the frames that need them                         *)

LEMMA InitLInv == Init => LInv
<1> SUFFICES ASSUME Init PROVE LInv
  OBVIOUS
<1>1. /\ \A q \in Pages : wlock[q] = None /\ plock[q] = None
      /\ \A t \in Threads : stack[t] = <<>> /\ t # None
  BY BtreeAssumption DEF Init
<1>2. \A t \in Threads : Len(stack[t]) = 0
  BY <1>1
<1>3. \A t \in Threads : 1..Len(stack[t]) = {}
  BY <1>2
<1>4. WriteLocks
  BY <1>1 DEF WriteLocks
<1>5. ParentLocks
  BY <1>1, <1>3 DEF ParentLocks
<1>6. Private
  BY <1>1 DEF Private
<1> QED  BY <1>4, <1>5, <1>6 DEF LInv

LEMMA StepLInv == IInv /\ LInv /\ [Next]_vars => LInv'
<1> SUFFICES ASSUME IInv, LInv, [Next]_vars PROVE LInv'
  OBVIOUS
<1>1. CASE UNCHANGED vars
  <2>1. UNCHANGED <<pages, wlock, plock, stack>>
    BY <1>1 DEF vars
  <2>2. WriteLocks'
    BY <2>1 DEF LInv, WriteLocks, Top
  <2>3. ParentLocks'
    BY <2>1 DEF LInv, ParentLocks
  <2>4. Private'
    BY <2>1 DEF LInv, Private, Top
  <2> QED  BY <2>2, <2>3, <2>4 DEF LInv
<1>2. CASE AllDone
  BY <1>1, <1>2 DEF AllDone
<1>3. ASSUME NEW t \in Threads, NEW k \in Keys, InsertKey(t, k) PROVE LInv'
  BY <1>3, InsertKeyLocks
<1>4. ASSUME NEW t \in Threads, Visit(t) PROVE LInv'
  BY <1>4, VisitLocks
<1>5. ASSUME NEW t \in Threads, InsertSlot(t) PROVE LInv'
  BY <1>5, InsertSlotLocks
<1>6. ASSUME NEW t \in Threads, LockParents(t) PROVE LInv'
  BY <1>6, LockParentsLocks
<1>7. ASSUME NEW t \in Threads, FixKey(t) PROVE LInv'
  BY <1>7, FixKeyLocks
<1>8. ASSUME NEW t \in Threads, NEW m, SplitPage(t, m) PROVE LInv'
  BY <1>8, SplitPageLocks
<1>9. ASSUME NEW t \in Threads, NEW m, SplitRoot(t, m) PROVE LInv'
  BY <1>9, SplitRootLocks
<1> QED  BY <1>1, <1>2, <1>3, <1>4, <1>5, <1>6, <1>7, <1>8, <1>9 DEF Next, Run

LEMMA AlwaysLInv == Spec => [](IInv /\ LInv)
<1>1. Init => LInv
  BY InitLInv
<1>2. IInv /\ LInv /\ [Next]_vars => LInv'
  BY StepLInv
<1> QED  BY <1>1, <1>2, AlwaysIInv, PTL DEF Spec

\* btreeInsertKey, btreeSplitPage and btreeFixKey give back what they take.  A
\* page is write-locked by the thread that works on it or splits it, and by no
\* other; its parent lock is held while the split that made it, or that it
\* made, has its fences posted, and by no other thread.  So when no thread is
\* inside the tree every lock of every page is free.
LocksAreUsed ==
  /\ \A p \in Pages, t \in Threads :
       /\ wlock[p] = t <=> stack[t] # <<>> /\ Top(t).at \in {"page", "split"} /\ Top(t).pageNo = p
       /\ plock[p] = t <=> \E i \in 1..Len(stack[t]) : Waits(stack[t][i], p)
  /\ (\A t \in Threads : stack[t] = <<>>) =>
       \A p \in Pages : wlock[p] = None /\ plock[p] = None

THEOREM LocksReturned == Spec => []LocksAreUsed
<1>1. IInv /\ LInv => LocksAreUsed
  <2> SUFFICES ASSUME IInv, LInv PROVE LocksAreUsed
    OBVIOUS
  <2>1. ASSUME NEW p \in Pages, NEW t \in Threads
        PROVE  wlock[p] = t <=> /\ stack[t] # <<>> /\ Top(t).at \in {"page", "split"}
                                /\ Top(t).pageNo = p
    BY OneWriteLock, TopFacts
  <2>2. ASSUME NEW p \in Pages, NEW t \in Threads
        PROVE  plock[p] = t <=> \E i \in 1..Len(stack[t]) : Waits(stack[t][i], p)
    BY DEF LInv, ParentLocks
  <2>3. ASSUME \A t \in Threads : stack[t] = <<>>, NEW p \in Pages
        PROVE  wlock[p] = None /\ plock[p] = None
    <3>1. \A t \in Threads : Len(stack[t]) = 0
      BY <2>3
    <3>2. \A t \in Threads : 1..Len(stack[t]) = {}
      BY <3>1
    <3>3. wlock[p] \in Threads \union {None} /\ plock[p] \in Threads \union {None}
      BY DEF IInv, LocksTyped
    <3> QED  BY <2>1, <2>2, <2>3, <3>2, <3>3
  <2> QED  BY <2>1, <2>2, <2>3 DEF LocksAreUsed
<1> QED  BY <1>1, AlwaysLInv, PTL

\* btreeSplitPage takes the parent lock of the page it has made while it holds
\* the write lock of the page it has split.  Nobody can make it wait there:
\* until the fences are posted only the right link of the page it has split
\* leads to the new one, and no other frame, of its thread or of another, has
\* come to it, splits it or posts it.
NewPageIsPrivate ==
  \A t \in Threads : stack[t] # <<>> /\ Top(t).at = "split" =>
    /\ plock[Top(t).right] = None
    /\ NoLink(pages, Top(t).right, Top(t).pageNo)
    /\ \A u \in Threads : \A i \in 1..Len(stack[u]) :
         u # t \/ i # 1 => Unknown(stack[u][i], Top(t).right)

THEOREM NewPageIsFree == Spec => []NewPageIsPrivate
<1>1. IInv /\ LInv => NewPageIsPrivate
  BY RightPageIsFree DEF LInv, Private, NewPageIsPrivate
<1> QED  BY <1>1, AlwaysLInv, PTL

-----------------------------------------------------------------------------
(* What a step does to the pages                                           *)

\* A step of thread t keeps the pages: none is freed, the slots and right links
\* it changes are those of a page it has write-locked, only the root goes up a
\* level, and no key leaves the leaves.
KeepsPages(t) ==
  /\ Len(pages) <= Len(pages')
  /\ \A p \in 1..Len(pages) :
       /\ pages'[p].slots # pages[p].slots \/ pages'[p].right # pages[p].right => wlock[p] = t
       /\ pages'[p].lvl = IF p = Root /\ Len(pages') = Len(pages) + 2
                            THEN pages[p].lvl + 1 ELSE pages[p].lvl
  /\ \A k \in Keys : InLeaf(pages, k) => InLeaf(pages', k)

LEMMA UntouchedPages ==
  ASSUME IInv, UNCHANGED pages, NEW t
  PROVE  KeepsPages(t)
<1>1. PagesOK(pages)
  BY DEF IInv
<1>2. Len(pages) \in Nat
  BY <1>1, PagesTyped
<1> QED  BY <1>2 DEF KeepsPages, InLeaf

LEMMA EditKeepsPages ==
  ASSUME IInv, NEW t \in Threads, OnPage(t, Top(t).op),
         NEW c, Edit(pages, pages', Top(t).pageNo, c)
  PROVE  KeepsPages(t)
<1> DEFINE x == Top(t).pageNo
           n == Len(pages)
<1>1. PagesOK(pages) /\ wlock[x] = t
  BY TopFacts DEF OnPage
<1>2. n \in Nat
  BY <1>1, PagesTyped
<1>3. \A k : InLeaf(pages, k) => InLeaf(pages', k)
  BY <1>1, Edited
<1>4. /\ Len(pages') = n
      /\ \A q \in 1..n : q # x => pages'[q] = pages[q]
      /\ pages'[x].lvl = pages[x].lvl
  BY DEF Edit
<1> HIDE DEF x
<1>5. \A q \in 1..n : /\ q # x => pages'[q].slots = pages[q].slots /\ pages'[q].right = pages[q].right
                      /\ pages'[q].lvl = pages[q].lvl
  BY <1>4
<1> HIDE DEF n
<1>6. n # n + 2 /\ n <= n
  BY <1>2
<1>7. Len(pages') # n + 2 /\ n <= Len(pages')
  BY <1>4, <1>6
<1> QED  BY <1>1, <1>3, <1>5, <1>7 DEF KeepsPages, n

LEMMA SplitKeepsPages ==
  ASSUME IInv, NEW t \in Threads, OnPage(t, Top(t).op),
         SplitOf(pages, pages', Top(t).pageNo)
  PROVE  KeepsPages(t)
<1> DEFINE x == Top(t).pageNo
           n == Len(pages)
<1>1. PagesOK(pages) /\ wlock[x] = t
  BY TopFacts DEF OnPage
<1>2. n \in Nat
  BY <1>1, PagesTyped
<1>3. \A k : InLeaf(pages, k) => InLeaf(pages', k)
  BY <1>1, Split
<1>4. /\ Len(pages') = n + 1
      /\ \A q \in 1..n : q # x => pages'[q].slots = pages[q].slots /\ pages'[q].right = pages[q].right
      /\ \A q \in 1..n : pages'[q].lvl = pages[q].lvl
  BY DEF SplitOf
<1> HIDE DEF x, n
<1>5. Len(pages') # n + 2 /\ n <= Len(pages')
  BY <1>2, <1>4
<1> QED  BY <1>1, <1>3, <1>4, <1>5 DEF KeepsPages, n

LEMMA RootSplitKeepsPages ==
  ASSUME IInv, NEW t \in Threads, OnPage(t, Top(t).op), Top(t).pageNo = Root,
         RootSplitOf(pages, pages')
  PROVE  KeepsPages(t)
<1> DEFINE n == Len(pages)
<1>1. PagesOK(pages) /\ wlock[Root] = t
  BY TopFacts DEF OnPage
<1>2. n \in Nat
  BY <1>1, PagesTyped
<1>3. \A k : InLeaf(pages, k) => InLeaf(pages', k)
  BY <1>1, RootSplit
<1>4. /\ Len(pages') = n + 2
      /\ \A q \in 1..n : q # Root => pages'[q] = pages[q]
      /\ pages'[Root].lvl = pages[Root].lvl + 1
  BY DEF RootSplitOf
<1> HIDE DEF n
<1>5. n <= Len(pages')
  BY <1>2, <1>4
<1> QED  BY <1>1, <1>3, <1>4, <1>5 DEF KeepsPages, n

LEMMA StepKeepsPages == IInv /\ [Next]_vars => [\E t \in Threads : KeepsPages(t)]_vars
<1> SUFFICES ASSUME IInv, Next, ~UNCHANGED vars PROVE \E t \in Threads : KeepsPages(t)
  OBVIOUS
<1>1. ASSUME NEW t \in Threads, NEW k \in Keys, InsertKey(t, k) PROVE KeepsPages(t)
  BY <1>1, UntouchedPages DEF InsertKey
<1>2. ASSUME NEW t \in Threads, Visit(t) PROVE KeepsPages(t)
  BY <1>2, UntouchedPages DEF Visit
<1>3. ASSUME NEW t \in Threads, InsertSlot(t) PROVE KeepsPages(t)
  <2>1. OnPage(t, Top(t).op)
    BY <1>3 DEF InsertSlot, OnPage
  <2> QED  BY <1>3, <2>1, InsertSlotEdits, EditKeepsPages
<1>4. ASSUME NEW t \in Threads, LockParents(t) PROVE KeepsPages(t)
  BY <1>4, UntouchedPages DEF LockParents
<1>5. ASSUME NEW t \in Threads, FixKey(t) PROVE KeepsPages(t)
  <2>1. OnPage(t, Top(t).op)
    BY <1>5 DEF FixKey, OnPage
  <2> QED  BY <1>5, <2>1, FixKeyEdits, EditKeepsPages
<1>6. ASSUME NEW t \in Threads, NEW m, SplitPage(t, m) PROVE KeepsPages(t)
  <2>1. OnPage(t, Top(t).op)
    BY <1>6 DEF SplitPage, OnPage
  <2> QED  BY <1>6, <2>1, SplitPageSplits, SplitKeepsPages
<1>7. ASSUME NEW t \in Threads, NEW m, SplitRoot(t, m) PROVE KeepsPages(t)
  <2>1. OnPage(t, Top(t).op) /\ Top(t).pageNo = Root
    BY <1>7 DEF SplitRoot, OnPage
  <2> QED  BY <1>7, <2>1, SplitRootSplits, RootSplitKeepsPages
<1>8. ~AllDone
  BY DEF AllDone
<1> QED  BY <1>1, <1>2, <1>3, <1>4, <1>5, <1>6, <1>7, <1>8 DEF Next, Run

\* Whatever a thread does, it changes the slots and the right link of a page
\* only under the write lock it has on that page (the left link is changed
\* under Btree_lockLink), no page is given back or changes its level, but the
\* root, which goes up by one when it is split, and no key leaves the leaves:
\* btreeInsertSlot, btreeFixKey, btreeSplitPage and btreeSplitRoot.
PagesChangeUnderLock == [][\E t \in Threads : KeepsPages(t)]_vars

THEOREM WritersHoldTheLock == Spec => PagesChangeUnderLock
  BY StepKeepsPages, AlwaysIInv, PTL DEF Spec, PagesChangeUnderLock

-----------------------------------------------------------------------------
(* The invariant: the order of the pages of a level                        *)

\* The highest key of page p, which is its fence unless it has been split.
Hi(ps, p) == ps[p].slots[Len(ps[p].slots)].key

\* All keys of page q are beyond those of page p.
Before(ps, p, q) == \A i \in 1..Len(ps[q].slots) : Hi(ps, p) < ps[q].slots[i].key

\* The slots of a page ascend, and only a stopper slot is of type Btree_stopper.
SlotsOK(ps, p) ==
  /\ \A i, j \in 1..Len(ps[p].slots) : i < j => ps[p].slots[i].key < ps[p].slots[j].key
  /\ \A i \in 1..Len(ps[p].slots) :
       /\ ps[p].slots[i].stop => ps[p].slots[i].key = Stopper
       /\ ps[p].lvl = 0 /\ ps[p].slots[i].key = Stopper => ps[p].slots[i].stop

\* The right link of page p leads to the next page of its level.
NextOK(ps, p) ==
  IF ps[p].right = NoPage THEN Hi(ps, p) = Stopper
  ELSE /\ Hi(ps, p) < Hi(ps, ps[p].right)
       /\ \A z \in 1..Len(ps) : ps[z].lvl = ps[p].lvl =>
            Hi(ps, z) <= Hi(ps, p) \/ Hi(ps, ps[p].right) <= Hi(ps, z)

\* Every level is a sequence of pages with ascending keys, in the order of the
\* right links; the leftmost leaf stays page 2.
Ordered(ps) ==
  /\ \A p \in 1..Len(ps) : SlotsOK(ps, p) /\ NextOK(ps, p)
  /\ \A p, q \in 1..Len(ps) : ps[p].lvl = ps[q].lvl /\ p # q => Before(ps, p, q) \/ Before(ps, q, p)
  /\ \A p \in 1..Len(ps) : ps[p].lvl = 0 /\ p # Leaf => Hi(ps, Leaf) < Hi(ps, p)

-----------------------------------------------------------------------------
(* The invariant: fences                                                   *)

\* The right pages of the splits that have not got their parent locks.
Hidden(stk) == {stk[t][1].right : t \in {u \in Threads : stk[u] # <<>> /\ stk[u][1].at = "split"}}

\* What frame i of stack s waits for: the fences of pages c and r to be posted,
\* that of c first.
Post(s, i) == [c |-> s[i].pageNo, r |-> s[i].right, low |-> s[i].low, fence |-> s[i].fence,
               half |-> s[i - 1].op = "fix"]

\* The splits that have their parent locks and are not wholly posted.
Posts(stk) == UNION {{Post(stk[t], i) : i \in 2..Len(stk[t])} : t \in Threads}

\* The highest key of page c together with its hidden half.
Fence(ps, h, c) == IF ps[c].right \in h THEN Hi(ps, ps[c].right) ELSE Hi(ps, c)

\* A slot with key x leads to page c.
Posted(ps, x, c) == \E p \in 1..Len(ps) : ps[p].lvl = ps[c].lvl + 1 /\
  \E i \in 1..Len(ps[p].slots) : ps[p].slots[i].key = x /\ ps[p].slots[i].child = c

\* It should: with its fence, but for the pages of a split that is half posted.
Expected(ps, h, w, x, c) ==
  /\ c \notin h
  /\ \/ \E e \in w : e.c = c /\ (x = e.fence \/ (x = e.low /\ e.half))
     \/ x = Fence(ps, h, c) /\ \A e \in w : c \notin {e.c, e.r}

\* The two halves of a split that is not wholly posted are neighbours, up to the
\* hidden right half that a later split of one of them may have.
PostOK(ps, h, e) ==
  /\ e.c \in 1..Len(ps) /\ e.r \in 1..Len(ps) /\ e.c # e.r /\ e.c \notin h /\ e.r \notin h
  /\ ps[e.c].lvl = ps[e.r].lvl /\ ps[e.c].lvl < ps[Root].lvl
  /\ Fence(ps, h, e.c) = e.low /\ Fence(ps, h, e.r) = e.fence /\ e.low < e.fence
  /\ \A z \in 1..Len(ps) : ps[z].lvl = ps[e.c].lvl /\ z \notin h =>
       Fence(ps, h, z) <= e.low \/ e.fence <= Fence(ps, h, z)

\* A hidden page is the right sibling of one that is not.
HostOK(ps, h, r) ==
  /\ r \in 1..Len(ps) /\ ps[r].lvl < ps[Root].lvl
  /\ \E c \in 1..Len(ps) : c \notin h /\ ps[c].right = r

\* The slots one level up are exactly those there should be, given the hidden
\* pages h and the splits w that are not wholly posted.
Fenced(ps, h, w) ==
  /\ \A r \in h : HostOK(ps, h, r)
  /\ \A e \in w : PostOK(ps, h, e)
  /\ \A e, d \in w : e # d => {e.c, e.r} \intersect {d.c, d.r} = {}
  /\ \A c \in 1..Len(ps) : ps[c].lvl < ps[Root].lvl =>
       \A x \in KeySet : Posted(ps, x, c) <=> Expected(ps, h, w, x, c)

-----------------------------------------------------------------------------
(* The invariant: frames                                                   *)

\* Key k is beyond all pages of the level to the left of page p.
NotPast(ps, p, k) == \A z \in 1..Len(ps) : ps[z].lvl = ps[p].lvl /\ Hi(ps, z) < Hi(ps, p) => Hi(ps, z) < k

\* Frame f is for a key that is not left of its page; a stopper is only looked
\* for to be fixed.
AimOK(ps, f) ==
  /\ f.at \in {"load", "page"} /\ f.key # Stopper => NotPast(ps, f.pageNo, f.key)
  /\ f.stop => f.key = Stopper
  /\ f.op = "insert" => ~f.stop /\ f.key < Stopper

\* What a frame that split a page remembers.
HalfOK(ps, f) ==
  /\ f.at \in {"split", "parent"} =>
       /\ f.last => f.fence = Stopper
       /\ f.lvl = 0 /\ f.fence = Stopper => f.last
  /\ f.at = "split" => /\ ps[f.pageNo].right = f.right
                       /\ Hi(ps, f.pageNo) = f.low /\ Hi(ps, f.right) = f.fence

\* Frame g posts the left fence of the split of frame f or switches the right one.
PostsFor(g, f) ==
  IF g.op = "fix" THEN g.key = f.fence /\ g.child = f.right /\ g.stop = f.last
  ELSE g.key = f.low /\ g.child = f.pageNo

\* Each frame of a stack works for the one below it.
FramesAim(ps, s) ==
  /\ \A i \in 1..Len(s) : AimOK(ps, s[i]) /\ HalfOK(ps, s[i])
  /\ \A i \in 2..Len(s) : PostsFor(s[i - 1], s[i])

-----------------------------------------------------------------------------
(* The invariant: keys                                                     *)

\* Every key is inserted by one call, and is in no leaf before.
KeysFresh ==
  /\ todo \in [Threads -> SUBSET Keys] /\ load \in Seq(Keys)
  /\ \A k \in Keys : InLeaf(pages, k) => k \in returned
  /\ \A t \in Threads :
       /\ todo[t] \intersect (returned \union Range(load)) = {}
       /\ stack[t] # <<>> => Last(stack[t]).key \notin returned
  /\ \A t, u \in Threads :
       /\ stack[t] # <<>> => Last(stack[t]).key \notin todo[u]
       /\ stack[t] # <<>> /\ stack[u] # <<>> /\ t # u => Last(stack[t]).key # Last(stack[u]).key
       /\ t # u => todo[t] \intersect todo[u] = {}

\* The order invariant.
OInv ==
  /\ Ordered(pages)
  /\ Fenced(pages, Hidden(stack), Posts(stack))
  /\ \A t \in Threads : FramesAim(pages, stack[t])
  /\ KeysFresh

\* btreeFixKey of the stopper key finds the slot of the stopper.  With f.stop it
\* may miss it: btreeFindSlot takes the last slot of the page the search has come
\* to, which may be the left half of a split that is not posted yet.  Without
\* f.stop it misses it on every page of two slots: the second root slot of
\* btreeSplitRoot is not of type Btree_stopper, so that the rightmost page, once
\* it has that slot, is split with f.last = FALSE, and every key compares equal
\* to the stopper key.
StoppersFixed ==
  \A t \in Threads : OnPage(t, "fix") /\ Top(t).key = Stopper =>
    LET f == Top(t)  pg == pages[f.pageNo] IN
    pg.slots[FindSlot(pg, f.key, f.stop)].key = Stopper

\* Until the root is split for the first time, that is no assumption.
SplitsOnce == pages[Root].lvl = 1 => StoppersFixed

-----------------------------------------------------------------------------
(* The order of keys                                                       *)

\* Arithmetic.
LEMMA SameNext == \A a, b \in Nat : a + 1 = b + 1 => a = b
OBVIOUS

\* No key is beyond the stopper.
LEMMA KeyBound == Stopper \in Nat /\ \A x \in KeySet : x \in Nat /\ x <= Stopper
BY BtreeAssumption DEF KeySet, Stopper

\* The last slot has the highest key of a page, and the highest keys order the
\* pages of a level.
LEMMA HighKeys ==
  ASSUME NEW ps, PagesOK(ps), Ordered(ps)
  PROVE  /\ \A p \in 1..Len(ps) :
              /\ Hi(ps, p) \in KeySet /\ Hi(ps, p) \in Nat /\ Hi(ps, p) <= Stopper
              /\ \E i \in 1..Len(ps[p].slots) : ps[p].slots[i].key = Hi(ps, p)
              /\ \A i \in 1..Len(ps[p].slots) :
                   /\ ps[p].slots[i].key \in KeySet /\ ps[p].slots[i].key \in Nat
                   /\ ps[p].slots[i].key <= Hi(ps, p)
         /\ \A p, q \in 1..Len(ps) : ps[p].lvl = ps[q].lvl /\ p # q =>
              /\ Hi(ps, p) # Hi(ps, q)
              /\ Hi(ps, p) < Hi(ps, q) => Before(ps, p, q)
<1>1. ASSUME NEW p \in 1..Len(ps)
      PROVE  /\ Hi(ps, p) \in KeySet /\ Hi(ps, p) \in Nat /\ Hi(ps, p) <= Stopper
             /\ \E i \in 1..Len(ps[p].slots) : ps[p].slots[i].key = Hi(ps, p)
             /\ \A i \in 1..Len(ps[p].slots) :
                  /\ ps[p].slots[i].key \in KeySet /\ ps[p].slots[i].key \in Nat
                  /\ ps[p].slots[i].key <= Hi(ps, p)
  <2> DEFINE n == Len(ps[p].slots)
  <2>1. n \in Nat /\ n > 0 /\ \A i \in 1..n : ps[p].slots[i].key \in KeySet
    BY PagesTyped
  <2>2. n \in 1..n /\ Hi(ps, p) = ps[p].slots[n].key
    BY <2>1 DEF Hi
  <2>3. \A i, j \in 1..n : i < j => ps[p].slots[i].key < ps[p].slots[j].key
    BY DEF Ordered, SlotsOK
  <2> HIDE DEF n
  <2>4. Hi(ps, p) \in KeySet /\ Hi(ps, p) \in Nat /\ Hi(ps, p) <= Stopper
    BY <2>1, <2>2, KeyBound
  <2>5. ASSUME NEW i \in 1..n
        PROVE  /\ ps[p].slots[i].key \in KeySet /\ ps[p].slots[i].key \in Nat
               /\ ps[p].slots[i].key <= Hi(ps, p)
    <3>1. ps[p].slots[i].key \in KeySet /\ ps[p].slots[i].key \in Nat
      BY <2>1, KeyBound
    <3>2. CASE i = n
      BY <3>1, <3>2, <2>2
    <3>3. CASE i < n
      BY <3>1, <3>3, <2>2, <2>3, <2>4
    <3> QED  BY <3>1, <3>2, <3>3, <2>1
  <2> QED  BY <2>2, <2>4, <2>5 DEF n
<1>2. ASSUME NEW p \in 1..Len(ps), NEW q \in 1..Len(ps), Before(ps, p, q) PROVE Hi(ps, p) < Hi(ps, q)
  <2>1. PICK i \in 1..Len(ps[q].slots) : ps[q].slots[i].key = Hi(ps, q)
    BY <1>1
  <2> QED  BY <2>1, <1>2 DEF Before
<1>3. ASSUME NEW p \in 1..Len(ps), NEW q \in 1..Len(ps), ps[p].lvl = ps[q].lvl, p # q
      PROVE  /\ Hi(ps, p) # Hi(ps, q)
             /\ Hi(ps, p) < Hi(ps, q) => Before(ps, p, q)
  <2>1. Before(ps, p, q) \/ Before(ps, q, p)
    BY <1>3 DEF Ordered
  <2>2. Hi(ps, p) \in Nat /\ Hi(ps, q) \in Nat
    BY <1>1
  <2> QED  BY <2>1, <2>2, <1>2
<1> QED  BY <1>1, <1>3

\* A key is in one slot of a level only.
LEMMA OneSlot ==
  ASSUME NEW ps, PagesOK(ps), Ordered(ps), NEW p \in 1..Len(ps), NEW q \in 1..Len(ps),
         ps[p].lvl = ps[q].lvl, NEW i \in 1..Len(ps[p].slots), NEW j \in 1..Len(ps[q].slots),
         ps[p].slots[i].key = ps[q].slots[j].key
  PROVE  p = q /\ i = j
<1>1. p = q
  <2>1. SUFFICES ASSUME p # q PROVE FALSE
    OBVIOUS
  <2>2. Before(ps, p, q) \/ Before(ps, q, p)
    BY <2>1 DEF Ordered
  <2>3. ps[p].slots[i].key \in Nat /\ ps[p].slots[i].key <= Hi(ps, p) /\ ps[q].slots[j].key <= Hi(ps, q)
        /\ Hi(ps, p) \in Nat /\ Hi(ps, q) \in Nat
    BY HighKeys
  <2>4. CASE Before(ps, p, q)
    <3>1. Hi(ps, p) < ps[q].slots[j].key
      BY <2>4 DEF Before
    <3> QED  BY <3>1, <2>3
  <2>5. CASE Before(ps, q, p)
    <3>1. Hi(ps, q) < ps[p].slots[i].key
      BY <2>5 DEF Before
    <3> QED  BY <3>1, <2>3
  <2> QED  BY <2>2, <2>4, <2>5
<1>2. ps[p].slots[i].key \in Nat /\ ps[p].slots[j].key \in Nat
  BY <1>1, HighKeys
<1>3. i \in 1..Len(ps[p].slots) /\ j \in 1..Len(ps[p].slots) /\ Len(ps[p].slots) \in Nat
  BY <1>1, PagesTyped
<1>4. i < j => ps[p].slots[i].key < ps[p].slots[j].key
  BY <1>3 DEF Ordered, SlotsOK
<1>5. j < i => ps[p].slots[j].key < ps[p].slots[i].key
  BY <1>3 DEF Ordered, SlotsOK
<1> QED  BY <1>1, <1>2, <1>3, <1>4, <1>5

\* The right link of a page leads to its successor.
LEMMA RightLink ==
  ASSUME NEW ps, PagesOK(ps), Ordered(ps), NEW p \in 1..Len(ps), ps[p].right # NoPage
  PROVE  /\ ps[p].right \in 1..Len(ps) /\ ps[p].right # p /\ ps[ps[p].right].lvl = ps[p].lvl
         /\ Hi(ps, p) < Hi(ps, ps[p].right)
         /\ \A z \in 1..Len(ps) : ps[z].lvl = ps[p].lvl =>
              Hi(ps, z) <= Hi(ps, p) \/ Hi(ps, ps[p].right) <= Hi(ps, z)
         /\ \A z \in 1..Len(ps) : ps[z].right = ps[p].right => z = p
<1>1. ps[p].right \in 1..Len(ps) /\ ps[p].right # p /\ ps[ps[p].right].lvl = ps[p].lvl
  BY DEF PagesOK, PageOK
<1>2. ASSUME NEW q \in 1..Len(ps), ps[q].right # NoPage
      PROVE  /\ Hi(ps, q) < Hi(ps, ps[q].right)
             /\ \A z \in 1..Len(ps) : ps[z].lvl = ps[q].lvl =>
                  Hi(ps, z) <= Hi(ps, q) \/ Hi(ps, ps[q].right) <= Hi(ps, z)
  BY <1>2 DEF Ordered, NextOK
<1>3. ASSUME NEW z \in 1..Len(ps), ps[z].right = ps[p].right, z # p PROVE FALSE
  <2> DEFINE r == ps[p].right
  <2>1. ps[z].lvl = ps[p].lvl
    BY <1>1, <1>3 DEF PagesOK, PageOK
  <2>2. Hi(ps, z) \in Nat /\ Hi(ps, p) \in Nat /\ Hi(ps, r) \in Nat /\ Hi(ps, z) # Hi(ps, p)
    BY <2>1, <1>1, <1>3, HighKeys
  <2>3. Hi(ps, z) < Hi(ps, r) /\ Hi(ps, p) < Hi(ps, r)
    BY <1>2, <1>3
  <2>4. Hi(ps, z) <= Hi(ps, p) \/ Hi(ps, r) <= Hi(ps, z)
    BY <1>2, <2>1
  <2>5. Hi(ps, p) <= Hi(ps, z) \/ Hi(ps, r) <= Hi(ps, p)
    BY <1>2, <2>1, <1>3
  <2> HIDE DEF r
  <2> QED  BY <2>2, <2>3, <2>4, <2>5
<1> QED  BY <1>1, <1>2, <1>3

\* Where btreeFindSlot finds a key that is not the stopper.
LEMMA SlotOfKey ==
  ASSUME NEW ps, PagesOK(ps), Ordered(ps), NEW p \in 1..Len(ps), NEW k \in KeySet, k < Stopper
  PROVE  /\ FindSlot(ps[p], k, FALSE) = 0 => ps[p].right # NoPage /\ Hi(ps, p) < k
         /\ FindSlot(ps[p], k, FALSE) # 0 =>
              /\ FindSlot(ps[p], k, FALSE) \in 1..Len(ps[p].slots)
              /\ k <= ps[p].slots[FindSlot(ps[p], k, FALSE)].key
              /\ \A j \in 1..Len(ps[p].slots) :
                   j < FindSlot(ps[p], k, FALSE) <=> ps[p].slots[j].key < k
<1> DEFINE n == Len(ps[p].slots)
           S == {i \in 1..n : NotBelow(ps[p].slots[i], k) \/ (i = n /\ ps[p].right = NoPage)}
           i == FindSlot(ps[p], k, FALSE)
<1>1. n \in Nat /\ n > 0 /\ k \in Nat /\ Stopper \in Nat /\ \A j \in 1..n : ps[p].slots[j].key \in Nat
  BY PagesTyped, KeyBound, HighKeys
<1>2. \A a, b \in 1..n : a < b => ps[p].slots[a].key < ps[p].slots[b].key
  BY DEF Ordered, SlotsOK
<1>3. Hi(ps, p) = ps[p].slots[n].key
  BY DEF Hi
<1>4. ps[p].right = NoPage => ps[p].slots[n].key = Stopper
  BY <1>3 DEF Ordered, NextOK
<1>5. S = {j \in 1..n : ps[p].slots[j].key >= k}
  BY <1>1, <1>4 DEF NotBelow
<1>6. i = IF S = {} THEN 0 ELSE CHOOSE j \in S : \A l \in S : j <= l
  BY DEF FindSlot
<1> HIDE DEF n, S, i
<1>7. CASE S = {}
  <2>1. ~(ps[p].slots[n].key >= k)
    BY <1>1, <1>5, <1>7
  <2>2. ps[p].right # NoPage
    BY <2>1, <1>1, <1>4
  <2>3. i = 0 /\ Hi(ps, p) < k
    <3>1. n \in 1..n /\ ps[p].slots[n].key \in Nat
      BY <1>1
    <3> QED  BY <3>1, <2>1, <1>1, <1>3, <1>6, <1>7
  <2> QED  BY <2>2, <2>3 DEF i
<1>8. CASE S # {}
  <2>1. i \in S /\ \A l \in S : i <= l
    <3>1. S \in SUBSET Nat
      BY <1>1, <1>5
    <3>2. \E j \in S : \A l \in S : j <= l
      BY <3>1, <1>8, LeastNumber
    <3> QED  BY <3>2, <1>6, <1>8
  <2>2. i \in 1..n /\ i # 0 /\ k <= ps[p].slots[i].key
    BY <2>1, <1>1, <1>5
  <2>3. ASSUME NEW j \in 1..n PROVE j < i <=> ps[p].slots[j].key < k
    <3>1. CASE j < i
      <4>1. j \notin S
        BY <3>1, <2>1, <2>2, <1>1
      <4> QED  BY <3>1, <4>1, <1>1, <1>5
    <3>2. CASE j = i
      BY <3>2, <2>2, <1>1
    <3>3. CASE j > i
      BY <3>3, <2>2, <1>1, <1>2
    <3> QED  BY <3>1, <3>2, <3>3, <2>2, <1>1
  <2> QED  BY <2>2, <2>3 DEF i, n
<1> QED  BY <1>7, <1>8

\* The keys of a page are not left of it.
LEMMA OwnKeys ==
  ASSUME NEW ps, PagesOK(ps), Ordered(ps), NEW p \in 1..Len(ps), NEW i \in 1..Len(ps[p].slots)
  PROVE  NotPast(ps, p, ps[p].slots[i].key)
<1> SUFFICES ASSUME NEW z \in 1..Len(ps), ps[z].lvl = ps[p].lvl, Hi(ps, z) < Hi(ps, p)
             PROVE  Hi(ps, z) < ps[p].slots[i].key
  BY DEF NotPast
<1>1. z # p /\ Hi(ps, p) \in Nat
  BY HighKeys
<1> QED  BY <1>1, HighKeys DEF Before

-----------------------------------------------------------------------------
(* Slots are added or changed: the order                                   *)

\* From ps to qs the slots of page p change, but not its highest key.
Slotted(ps, qs, p) ==
  /\ Len(qs) = Len(ps) /\ p \in 1..Len(ps)
  /\ \A q \in 1..Len(ps) : q # p => qs[q] = ps[q]
  /\ qs[p].lvl = ps[p].lvl /\ qs[p].right = ps[p].right
  /\ Hi(qs, p) = Hi(ps, p)

\* The order is kept when the slots of one page change below its highest key.
LEMMA SlottedOrder ==
  ASSUME NEW ps, NEW qs, NEW p, PagesOK(ps), Ordered(ps), Slotted(ps, qs, p), SlotsOK(qs, p),
         \A i \in 1..Len(qs[p].slots) : NotPast(ps, p, qs[p].slots[i].key)
  PROVE  Ordered(qs)
<1>1. /\ Len(qs) = Len(ps) /\ p \in 1..Len(ps)
      /\ \A q \in 1..Len(ps) : q # p => qs[q] = ps[q]
      /\ \A q \in 1..Len(ps) : qs[q].lvl = ps[q].lvl /\ qs[q].right = ps[q].right
  BY DEF Slotted
<1>2. \A q \in 1..Len(ps) : Hi(qs, q) = Hi(ps, q)
  BY <1>1 DEF Slotted, Hi
<1>3. ASSUME NEW q \in 1..Len(qs) PROVE SlotsOK(qs, q)
  <2>1. CASE q = p
    BY <2>1
  <2>2. CASE q # p
    BY <2>2, <1>1 DEF Ordered, SlotsOK
  <2> QED  BY <2>1, <2>2
<1>4. ASSUME NEW q \in 1..Len(qs) PROVE NextOK(qs, q)
  <2>1. NextOK(ps, q) /\ (ps[q].right # NoPage => ps[q].right \in 1..Len(ps))
    BY <1>1 DEF Ordered, PagesOK, PageOK
  <2> QED  BY <2>1, <1>1, <1>2 DEF NextOK
<1>5. ASSUME NEW q \in 1..Len(qs), NEW z \in 1..Len(qs), qs[q].lvl = qs[z].lvl, q # z
      PROVE  Before(qs, q, z) \/ Before(qs, z, q)
  <2>1. ps[q].lvl = ps[z].lvl /\ q \in 1..Len(ps) /\ z \in 1..Len(ps)
    BY <1>1, <1>5
  <2>2. Hi(ps, q) \in Nat /\ Hi(ps, z) \in Nat /\ Hi(ps, q) # Hi(ps, z)
    BY <2>1, <1>5, HighKeys
  <2>3. ASSUME NEW a \in {q, z}, NEW b \in {q, z}, Hi(ps, a) < Hi(ps, b) PROVE Before(qs, a, b)
    <3>1. a # b /\ a \in 1..Len(ps) /\ b \in 1..Len(ps) /\ ps[a].lvl = ps[b].lvl
      BY <2>1, <2>2, <2>3
    <3>2. CASE b = p
      BY <3>1, <3>2, <2>3, <1>2 DEF NotPast, Before
    <3>3. CASE b # p
      <4>1. Before(ps, a, b)
        BY <3>1, <2>3, HighKeys
      <4> QED  BY <4>1, <3>1, <3>3, <1>1, <1>2 DEF Before
    <3> QED  BY <3>2, <3>3
  <2> QED  BY <2>2, <2>3
<1>6. \A q \in 1..Len(qs) : qs[q].lvl = 0 /\ q # Leaf => Hi(qs, Leaf) < Hi(qs, q)
  BY <1>1, <1>2, PagesTyped DEF Ordered
<1> QED  BY <1>3, <1>4, <1>5, <1>6 DEF Ordered

\* Key k belongs between slot i of page p and the one before it.
Belongs(ps, p, i, k) ==
  /\ k \in KeySet /\ k < Stopper /\ NotPast(ps, p, k)
  /\ \A j \in 1..Len(ps[p].slots) : IF j < i THEN ps[p].slots[j].key < k ELSE k < ps[p].slots[j].key

\* btreeInsertSlot keeps the order when the key belongs to the page.
LEMMA AddedOrder ==
  ASSUME NEW ps, NEW qs, NEW p, NEW i, NEW e, PagesOK(ps), Ordered(ps), AddedSlot(ps, qs, p, i, e),
         Belongs(ps, p, i, e.key), ~e.stop
  PROVE  /\ Ordered(qs) /\ Slotted(ps, qs, p)
         /\ \A j \in 1..Len(qs[p].slots) :
              qs[p].slots[j] = e \/ \E l \in 1..Len(ps[p].slots) : qs[p].slots[j] = ps[p].slots[l]
         /\ \A l \in 1..Len(ps[p].slots) : \E j \in 1..Len(qs[p].slots) : qs[p].slots[j] = ps[p].slots[l]
         /\ \E j \in 1..Len(qs[p].slots) : qs[p].slots[j] = e
<1> DEFINE n == Len(ps[p].slots)
           s == ps[p].slots
           w == qs[p].slots
           from(j) == IF j < i THEN j ELSE j - 1
<1>1. /\ p \in 1..Len(ps) /\ i \in 1..n /\ Len(w) = n + 1 /\ w[i] = e
      /\ \A j \in 1..i - 1 : w[j] = s[j]
      /\ \A j \in i..n : w[j + 1] = s[j]
      /\ qs[p].lvl = ps[p].lvl
  BY DEF AddedSlot
<1>2. n \in Nat /\ n > 0 /\ \A j \in 1..n : s[j].key \in Nat
  BY <1>1, PagesTyped, HighKeys
<1>3. /\ e.key \in Nat /\ e.key < Stopper
      /\ \A j \in 1..n : IF j < i THEN s[j].key < e.key ELSE e.key < s[j].key
  BY KeyBound DEF Belongs
<1>4. \A a, b \in 1..n : a < b => s[a].key < s[b].key
  BY <1>1 DEF Ordered, SlotsOK
<1>5. \A a \in 1..n : /\ s[a].stop => s[a].key = Stopper
                      /\ ps[p].lvl = 0 /\ s[a].key = Stopper => s[a].stop
  BY <1>1 DEF Ordered, SlotsOK
<1>6. Hi(ps, p) = s[n].key /\ Hi(qs, p) = w[Len(w)].key
  BY DEF Hi
<1>7. \A j \in 1..n : NotPast(ps, p, s[j].key)
  BY <1>1, OwnKeys
<1>8. NotPast(ps, p, e.key)
  BY DEF Belongs
<1> HIDE DEF n, s, w
<1>9. ASSUME NEW j \in 1..n + 1, j # i PROVE from(j) \in 1..n /\ w[j] = s[from(j)]
  <2>1. CASE j < i
    BY <2>1, <1>1, <1>2
  <2>2. CASE j > i
    <3>1. j - 1 \in i..n /\ (j - 1) + 1 = j
      BY <2>2, <1>1, <1>2
    <3> QED  BY <2>2, <3>1, <1>1, <1>2
  <2> QED  BY <2>1, <2>2, <1>1, <1>2, <1>9
<1>10. ASSUME NEW a \in 1..n + 1, NEW b \in 1..n + 1, a < b PROVE w[a].key < w[b].key
  <2>1. CASE a = i
    <3>1. from(b) \in 1..n /\ w[b] = s[from(b)] /\ ~(from(b) < i)
      BY <2>1, <1>1, <1>2, <1>9, <1>10
    <3> QED  BY <2>1, <3>1, <1>1, <1>3
  <2>2. CASE b = i
    <3>1. from(a) \in 1..n /\ w[a] = s[from(a)] /\ from(a) < i
      BY <2>2, <1>1, <1>2, <1>9, <1>10
    <3> QED  BY <2>2, <3>1, <1>1, <1>3
  <2>3. CASE a # i /\ b # i
    <3>1. /\ from(a) \in 1..n /\ w[a] = s[from(a)] /\ from(b) \in 1..n /\ w[b] = s[from(b)]
      BY <2>3, <1>9
    <3>2. from(a) < from(b)
      BY <2>3, <1>1, <1>2, <1>10
    <3> QED  BY <3>1, <3>2, <1>4
  <2> QED  BY <2>1, <2>2, <2>3
<1>11. ASSUME NEW a \in 1..n + 1
       PROVE  /\ w[a].stop => w[a].key = Stopper
              /\ ps[p].lvl = 0 /\ w[a].key = Stopper => w[a].stop
              /\ NotPast(ps, p, w[a].key)
  <2>1. CASE a = i
    BY <2>1, <1>1, <1>3, <1>8, KeyBound
  <2>2. CASE a # i
    BY <2>2, <1>5, <1>7, <1>9
  <2> QED  BY <2>1, <2>2
<1>12. Hi(qs, p) = Hi(ps, p)
  <2>1. n \in i..n
    BY <1>1, <1>2
  <2> QED  BY <2>1, <1>1, <1>6
<1>13. \A j \in 1..n + 1 : w[j] = e \/ \E l \in 1..n : w[j] = s[l]
  BY <1>1, <1>9
<1>14. ASSUME NEW l \in 1..n PROVE \E j \in 1..n + 1 : w[j] = s[l]
  <2>1. CASE l < i
    <3>1. l \in 1..i - 1 /\ l \in 1..n + 1
      BY <2>1, <1>1, <1>2
    <3> QED  BY <3>1, <1>1
  <2>2. CASE ~(l < i)
    <3>1. l \in i..n /\ l + 1 \in 1..n + 1
      BY <2>2, <1>1, <1>2
    <3> QED  BY <3>1, <1>1
  <2> QED  BY <2>1, <2>2
<1>15. i \in 1..n + 1
  BY <1>1, <1>2
<1>16. SlotsOK(qs, p)
  BY <1>1, <1>10, <1>11 DEF SlotsOK, w
<1>17. Slotted(ps, qs, p)
  BY <1>12 DEF AddedSlot, Slotted
<1>18. \A j \in 1..Len(qs[p].slots) : NotPast(ps, p, qs[p].slots[j].key)
  BY <1>1, <1>11 DEF w
<1>19. Ordered(qs)
  BY <1>16, <1>17, <1>18, SlottedOrder
<1> QED  BY <1>1, <1>13, <1>14, <1>15, <1>17, <1>19 DEF n, s, w

\* btreeFixKey keeps the order: it changes no key.
LEMMA FixedOrder ==
  ASSUME NEW ps, NEW qs, NEW p, NEW i, NEW c, PagesOK(ps), Ordered(ps), FixedSlot(ps, qs, p, i, c)
  PROVE  Ordered(qs) /\ Slotted(ps, qs, p)
<1>1. p \in 1..Len(ps) /\ Len(ps[p].slots) \in Nat /\ Len(ps[p].slots) > 0
  BY PagesTyped DEF FixedSlot
<1>2. Slotted(ps, qs, p)
  BY <1>1 DEF FixedSlot, Slotted, Hi
<1>3. SlotsOK(qs, p)
  <2>1. SlotsOK(ps, p)
    BY <1>1 DEF Ordered
  <2> QED  BY <2>1 DEF SlotsOK, FixedSlot
<1>4. \A j \in 1..Len(qs[p].slots) : NotPast(ps, p, qs[p].slots[j].key)
  BY <1>1, OwnKeys DEF FixedSlot
<1> QED  BY <1>2, <1>3, <1>4, SlottedOrder

-----------------------------------------------------------------------------
(* Pages are split: the order                                              *)

\* The two halves of a page, as btreeSplitPage and btreeSplitRoot make them.
LEMMA DividedOrder ==
  ASSUME NEW ps, NEW qs, NEW p \in 1..Len(ps), NEW m, NEW a, NEW r, PagesOK(ps), Ordered(ps),
         Divided(ps, qs, p, m, a, r), qs[a].lvl = ps[p].lvl, qs[r].lvl = ps[p].lvl
  PROVE  /\ SlotsOK(qs, a) /\ SlotsOK(qs, r)
         /\ Hi(qs, a) = ps[p].slots[m].key /\ Hi(qs, r) = Hi(ps, p)
         /\ Hi(qs, a) \in Nat /\ Hi(qs, r) \in Nat /\ Hi(qs, a) < Hi(qs, r)
         /\ Before(qs, a, r)
         /\ Halved(ps[p].slots, qs[a].slots, qs[r].slots)
<1> DEFINE n == Len(ps[p].slots)
           s == ps[p].slots
           x == qs[a].slots
           y == qs[r].slots
<1>1. /\ m \in 1..n - 1 /\ Len(x) = m /\ Len(y) = n - m
      /\ \A j \in 1..m : x[j] = s[j]
      /\ \A j \in 1..n - m : y[j] = s[m + j]
  BY DEF Divided
<1>2. n \in Nat /\ n > 0 /\ \A j \in 1..n : s[j].key \in Nat
  BY PagesTyped, HighKeys
<1>3. \A i, j \in 1..n : i < j => s[i].key < s[j].key
  BY DEF Ordered, SlotsOK
<1>4. \A i \in 1..n : /\ s[i].stop => s[i].key = Stopper
                      /\ ps[p].lvl = 0 /\ s[i].key = Stopper => s[i].stop
  BY DEF Ordered, SlotsOK
<1>5. Hi(ps, p) = s[n].key /\ Hi(qs, a) = x[Len(x)].key /\ Hi(qs, r) = y[Len(y)].key
  BY DEF Hi
<1> HIDE DEF n, s, x, y
<1>6. ASSUME NEW i \in 1..m PROVE i \in 1..n /\ x[i] = s[i]
  BY <1>1, <1>2
<1>7. ASSUME NEW i \in 1..n - m PROVE m + i \in 1..n /\ y[i] = s[m + i]
  BY <1>1, <1>2
<1>8. m \in 1..m /\ m \in Nat /\ n - m \in 1..n - m /\ n - m \in Nat /\ m + (n - m) = n /\ n \in 1..n
  BY <1>1, <1>2
<1>9. Hi(qs, a) = s[m].key /\ Hi(qs, r) = s[n].key
  BY <1>1, <1>5, <1>6, <1>7, <1>8
<1>10. SlotsOK(qs, a)
  <2>1. ASSUME NEW i \in 1..m, NEW j \in 1..m, i < j PROVE x[i].key < x[j].key
    BY <2>1, <1>3, <1>6
  <2>2. ASSUME NEW i \in 1..m PROVE /\ x[i].stop => x[i].key = Stopper
                                    /\ ps[p].lvl = 0 /\ x[i].key = Stopper => x[i].stop
    BY <1>4, <1>6
  <2> QED  BY <2>1, <2>2, <1>1 DEF SlotsOK, x
<1>11. SlotsOK(qs, r)
  <2>1. ASSUME NEW i \in 1..n - m, NEW j \in 1..n - m, i < j PROVE y[i].key < y[j].key
    <3>1. m + i \in 1..n /\ m + j \in 1..n /\ m + i < m + j
      BY <2>1, <1>7, <1>8
    <3>2. s[m + i].key < s[m + j].key
      BY <3>1, <1>3
    <3> QED  BY <3>2, <1>7
  <2>2. ASSUME NEW i \in 1..n - m PROVE /\ y[i].stop => y[i].key = Stopper
                                        /\ ps[p].lvl = 0 /\ y[i].key = Stopper => y[i].stop
    BY <1>4, <1>7
  <2> QED  BY <2>1, <2>2, <1>1 DEF SlotsOK, y
<1>12. Before(qs, a, r)
  <2>1. ASSUME NEW i \in 1..n - m PROVE s[m].key < y[i].key
    BY <1>3, <1>6, <1>7, <1>8
  <2> QED  BY <2>1, <1>1, <1>9 DEF Before, y
<1>13. s[m].key \in Nat /\ s[n].key \in Nat /\ s[m].key < s[n].key
  BY <1>1, <1>2, <1>3, <1>6, <1>8
<1>14. ASSUME NEW j \in 1..n
       PROVE  (\E i \in 1..m : x[i] = s[j]) \/ (\E i \in 1..n - m : y[i] = s[j])
  <2>1. CASE j <= m
    <3>1. j \in 1..m
      BY <2>1, <1>8
    <3> QED  BY <3>1, <1>1
  <2>2. CASE j > m
    <3>1. j - m \in 1..n - m /\ m + (j - m) = j
      BY <2>2, <1>2, <1>8
    <3> QED  BY <3>1, <1>1
  <2> QED  BY <2>1, <2>2, <1>2, <1>8
<1>15. \A i \in 1..m : \E j \in 1..n : x[i] = s[j]
  BY <1>6
<1>16. \A i \in 1..n - m : \E j \in 1..n : y[i] = s[j]
  BY <1>7
<1>17. Hi(qs, a) = s[m].key /\ Hi(qs, r) = Hi(ps, p) /\ Hi(qs, a) \in Nat /\ Hi(qs, r) \in Nat
       /\ Hi(qs, a) < Hi(qs, r)
  BY <1>5, <1>9, <1>13
<1>18. \A i \in 1..Len(x) : \E j \in 1..n : x[i] = s[j]
  BY <1>1, <1>15
<1>19. \A i \in 1..Len(y) : \E j \in 1..n : y[i] = s[j]
  BY <1>1, <1>16
<1>20. \A j \in 1..n : (\E i \in 1..Len(x) : x[i] = s[j]) \/ (\E i \in 1..Len(y) : y[i] = s[j])
  BY <1>1, <1>14
<1>21. Hi(qs, a) = ps[p].slots[m].key
  BY <1>17 DEF s
<1>22. Len(x) \in 1..Len(s) - 1 /\ Len(y) \in 1..Len(s) - 1 /\ Len(s) = n
  BY <1>1, <1>2 DEF n, s
<1>23. Halved(s, x, y)
  BY <1>18, <1>19, <1>20, <1>22 DEF Halved
<1> QED  BY <1>10, <1>11, <1>12, <1>17, <1>21, <1>23 DEF s, x, y

\* btreeSplitPage keeps the order.
LEMMA SplitOrder ==
  ASSUME NEW ps, NEW qs, NEW p, NEW m, PagesOK(ps), Ordered(ps), PagesOK(qs), Pieces(ps, qs, p, m)
  PROVE  /\ Ordered(qs)
         /\ \A q \in 1..Len(ps) : q # p => Hi(qs, q) = Hi(ps, q)
         /\ Hi(qs, p) = ps[p].slots[m].key /\ Hi(qs, Len(ps) + 1) = Hi(ps, p)
<1> DEFINE n == Len(ps)
           r == Len(ps) + 1
<1>1. /\ p \in 1..n /\ Len(qs) = r /\ Divided(ps, qs, p, m, p, r)
      /\ \A q \in 1..n : qs[q].lvl = ps[q].lvl
      /\ \A q \in 1..n : q # p => qs[q].slots = ps[q].slots /\ qs[q].right = ps[q].right
      /\ qs[p].right = r /\ qs[r].lvl = ps[p].lvl /\ qs[r].right = ps[p].right
  BY DEF Pieces
<1>2. n \in Nat /\ n >= 2 /\ r \in 1..r /\ r \notin 1..n /\ 1..n \subseteq 1..r /\ NoPage \notin 1..r
      /\ \A q \in 1..r : q = r \/ q \in 1..n
  BY PagesTyped DEF NoPage
<1>3. /\ SlotsOK(qs, p) /\ SlotsOK(qs, r) /\ Before(qs, p, r)
      /\ Hi(qs, p) = ps[p].slots[m].key /\ Hi(qs, r) = Hi(ps, p)
      /\ Hi(qs, p) \in Nat /\ Hi(qs, r) \in Nat /\ Hi(qs, p) < Hi(qs, r)
      /\ Halved(ps[p].slots, qs[p].slots, qs[r].slots)
  <2>1. qs[p].lvl = ps[p].lvl
    BY <1>1
  <2> QED  BY <2>1, <1>1, DividedOrder DEF n
<1>4. \A q \in 1..n : q # p => Hi(qs, q) = Hi(ps, q)
  BY <1>1 DEF Hi
<1>5. \A q \in 1..n : Hi(ps, q) \in Nat
  BY HighKeys
<1> HIDE DEF n, r
\* The page of ps that a page of qs comes from.
<1> DEFINE o(q) == IF q = r THEN p ELSE q
<1>6. ASSUME NEW q \in 1..r
      PROVE  /\ o(q) \in 1..n /\ ps[o(q)].lvl = qs[q].lvl
             /\ Hi(qs, q) \in Nat /\ Hi(qs, q) <= Hi(ps, o(q))
             /\ \A i \in 1..Len(qs[q].slots) :
                  \E j \in 1..Len(ps[o(q)].slots) : qs[q].slots[i] = ps[o(q)].slots[j]
  <2>1. CASE q = r
    BY <2>1, <1>1, <1>3, <1>5 DEF Halved
  <2>2. CASE q = p /\ q # r
    BY <2>2, <1>1, <1>3, <1>5, SMTT(30) DEF Halved
  <2>3. CASE q # p /\ q # r
    BY <2>3, <1>1, <1>2, <1>4, <1>5, SMTT(30)
  <2> QED  BY <2>1, <2>2, <2>3
<1>7. ASSUME NEW q \in 1..r PROVE SlotsOK(qs, q)
  <2>1. CASE q = r \/ q = p
    BY <2>1, <1>3
  <2>2. CASE q # r /\ q # p
    <3>1. q \in 1..n /\ SlotsOK(ps, q)
      BY <2>2, <1>2 DEF Ordered, n
    <3> QED  BY <3>1, <2>2, <1>1 DEF SlotsOK
  <2> QED  BY <2>1, <2>2
\* Pages that come from different pages are still apart.
<1>8. ASSUME NEW x \in 1..r, NEW y \in 1..r, qs[x].lvl = qs[y].lvl, o(x) # o(y),
             Hi(ps, o(x)) < Hi(ps, o(y))
      PROVE  Before(qs, x, y)
  <2>1. o(x) \in 1..n /\ o(y) \in 1..n /\ ps[o(x)].lvl = ps[o(y)].lvl
    BY <1>6, <1>8
  <2>2. Before(ps, o(x), o(y))
    <3> HIDE DEF o
    <3> QED  BY <2>1, <1>8, HighKeys DEF n
  <2>3. ASSUME NEW i \in 1..Len(qs[y].slots) PROVE Hi(qs, x) < qs[y].slots[i].key
    <3>1. PICK j \in 1..Len(ps[o(y)].slots) : qs[y].slots[i] = ps[o(y)].slots[j]
      BY <1>6
    <3>2. Hi(ps, o(x)) < ps[o(y)].slots[j].key
      BY <2>2 DEF Before
    <3>3. ps[o(y)].slots[j].key \in Nat /\ Hi(ps, o(x)) \in Nat
      <4> HIDE DEF o
      <4> QED  BY <2>1, HighKeys DEF n
    <3>4. Hi(qs, x) \in Nat /\ Hi(qs, x) <= Hi(ps, o(x))
      BY <1>6
    <3> HIDE DEF o
    <3> QED  BY <3>1, <3>2, <3>3, <3>4
  <2> QED  BY <2>3 DEF Before
<1>9. ASSUME NEW x \in 1..r, NEW y \in 1..r, qs[x].lvl = qs[y].lvl, x # y
      PROVE  Before(qs, x, y) \/ Before(qs, y, x)
  <2>1. CASE o(x) = o(y)
    <3>1. (x = p /\ y = r) \/ (x = r /\ y = p)
      BY <2>1, <1>9
    <3> QED  BY <3>1, <1>3
  <2>2. CASE o(x) # o(y)
    <3>1. o(x) \in 1..n /\ o(y) \in 1..n /\ ps[o(x)].lvl = ps[o(y)].lvl
      BY <1>6, <1>9
    <3>2. Hi(ps, o(x)) # Hi(ps, o(y)) /\ Hi(ps, o(x)) \in Nat /\ Hi(ps, o(y)) \in Nat
      <4> HIDE DEF o
      <4> QED  BY <2>2, <3>1, HighKeys DEF n
    <3>3. CASE Hi(ps, o(x)) < Hi(ps, o(y))
      BY <3>3, <2>2, <1>8, <1>9
    <3>4. CASE Hi(ps, o(y)) < Hi(ps, o(x))
      BY <3>4, <2>2, <1>8, <1>9
    <3> QED  BY <3>2, <3>3, <3>4
  <2> QED  BY <2>1, <2>2
<1>10. ASSUME NEW q \in 1..n, ps[q].right # NoPage
       PROVE  /\ ps[q].right \in 1..n /\ ps[ps[q].right].lvl = ps[q].lvl /\ ps[q].right # q
              /\ Hi(ps, q) < Hi(ps, ps[q].right)
              /\ \A z \in 1..n : ps[z].lvl = ps[q].lvl =>
                   Hi(ps, z) <= Hi(ps, q) \/ Hi(ps, ps[q].right) <= Hi(ps, z)
  BY <1>10, RightLink DEF n
<1>11. \A q \in 1..n : ps[q].right = NoPage => Hi(ps, q) = Stopper
  BY DEF Ordered, NextOK, n
\* No page of the level ends strictly between the two halves.
<1>12. ASSUME NEW z \in 1..r, qs[z].lvl = qs[p].lvl
       PROVE  Hi(qs, z) <= Hi(qs, p) \/ Hi(qs, r) <= Hi(qs, z)
  <2>1. CASE z = p \/ z = r
    BY <2>1, <1>3
  <2>2. CASE z # p /\ z # r
    <3>1. /\ z \in 1..n /\ o(z) = z /\ o(p) = p /\ Hi(qs, z) = Hi(ps, z) /\ Hi(ps, z) \in Nat
          /\ Hi(ps, p) \in Nat
      BY <2>2, <1>1, <1>2, <1>4, <1>5
    <3>2. CASE Hi(ps, z) < Hi(ps, p)
      <4>1. Before(qs, z, p)
        BY <3>1, <3>2, <2>2, <1>1, <1>2, <1>8, <1>12
      <4>2. Len(qs[p].slots) \in 1..Len(qs[p].slots)
        BY <1>1, <1>2, PagesTyped
      <4>3. Hi(qs, z) < Hi(qs, p)
        BY <4>1, <4>2 DEF Before, Hi
      <4> QED  BY <4>3, <3>1, <1>3
    <3>3. CASE ~(Hi(ps, z) < Hi(ps, p))
      BY <3>1, <3>3, <1>3
    <3> QED  BY <3>2, <3>3
  <2> QED  BY <2>1, <2>2
<1>13. ASSUME NEW q \in 1..r PROVE NextOK(qs, q)
  <2>1. CASE q = p
    BY <2>1, <1>1, <1>2, <1>3, <1>12 DEF NextOK
  <2>2. CASE q # p
    <3> DEFINE f == ps[o(q)].right
    <3>1. /\ qs[q].right = f /\ Hi(qs, q) = Hi(ps, o(q)) /\ o(q) \in 1..n /\ qs[q].lvl = ps[o(q)].lvl
      BY <2>2, <1>1, <1>2, <1>3, <1>4, <1>6
    <3>2. CASE f = NoPage
      BY <3>1, <3>2, <1>11 DEF NextOK
    <3>3. CASE f # NoPage
      <4>1. /\ f \in 1..n /\ ps[f].lvl = ps[o(q)].lvl /\ f # o(q) /\ Hi(ps, o(q)) < Hi(ps, f)
            /\ \A z \in 1..n : ps[z].lvl = ps[o(q)].lvl =>
                 Hi(ps, z) <= Hi(ps, o(q)) \/ Hi(ps, f) <= Hi(ps, z)
        <5> HIDE DEF o
        <5> QED  BY <3>1, <3>3, <1>10
      <4>2. f \in 1..r /\ o(f) = f /\ qs[f].lvl = qs[q].lvl
        BY <4>1, <3>1, <1>1, <1>2
      <4>3. Hi(qs, q) < Hi(qs, f)
        <5>1. Before(qs, q, f)
          BY <4>1, <4>2, <1>8
        <5>2. Len(qs[f].slots) \in 1..Len(qs[f].slots)
          BY <4>2, <1>1, PagesTyped, SMTT(30)
        <5> QED  BY <5>1, <5>2 DEF Before, Hi
      <4>4. ASSUME NEW z \in 1..r, qs[z].lvl = qs[q].lvl
            PROVE  Hi(qs, z) <= Hi(qs, q) \/ Hi(qs, f) <= Hi(qs, z)
        <5>1. o(z) \in 1..n /\ ps[o(z)].lvl = ps[o(q)].lvl /\ Hi(qs, z) <= Hi(ps, o(z))
              /\ Hi(qs, z) \in Nat /\ Hi(ps, o(z)) \in Nat /\ Hi(ps, f) \in Nat /\ Hi(ps, o(q)) \in Nat
              /\ Hi(qs, f) \in Nat /\ Hi(qs, f) <= Hi(ps, f)
          BY <4>1, <4>2, <4>4, <3>1, <1>5, <1>6
        <5>2. CASE Hi(ps, o(z)) <= Hi(ps, o(q))
          <6> HIDE DEF o, f
          <6> QED  BY <5>1, <5>2, <3>1
        <5>3. CASE Hi(ps, f) <= Hi(ps, o(z)) /\ (z # p \/ f = p)
          <6>1. Hi(qs, z) = Hi(ps, o(z)) \/ z = f
            BY <5>3, <1>2, <1>3, <1>4
          <6> HIDE DEF o, f
          <6> QED  BY <5>1, <5>3, <6>1
        <5>4. CASE Hi(ps, f) <= Hi(ps, o(z)) /\ z = p /\ f # p
          <6>1. o(z) = p /\ Hi(qs, f) = Hi(ps, f)
            BY <5>4, <4>1, <1>1, <1>2, <1>4
          <6>2. Hi(ps, f) # Hi(ps, p)
            BY <5>1, <5>4, <6>1, <4>1, HighKeys DEF n
          <6>3. Before(qs, f, p)
            BY <5>1, <5>4, <6>1, <6>2, <4>2, <4>4, <1>8
          <6>4. Len(qs[p].slots) \in 1..Len(qs[p].slots)
            BY <1>1, <1>2, PagesTyped
          <6>5. Hi(qs, f) < Hi(qs, p)
            BY <6>3, <6>4 DEF Before, Hi
          <6> QED  BY <6>5, <5>1, <5>4, <1>3
        <5>5. Hi(ps, o(z)) <= Hi(ps, o(q)) \/ Hi(ps, f) <= Hi(ps, o(z))
          <6> HIDE DEF o, f
          <6> QED  BY <5>1, <4>1
        <5> QED  BY <5>2, <5>3, <5>4, <5>5
      <4> QED  BY <4>2, <4>3, <4>4, <3>1, <3>3, <1>1 DEF NextOK
    <3> QED  BY <3>2, <3>3
  <2> QED  BY <2>1, <2>2
<1>14. ASSUME NEW q \in 1..r, qs[q].lvl = 0, q # Leaf PROVE Hi(qs, Leaf) < Hi(qs, q)
  <2>1. Leaf \in 1..n /\ ps[Leaf].lvl = 0 /\ Leaf # r /\ o(Leaf) = Leaf
    BY <1>1, <1>2, PagesTyped DEF PagesOK, n
  <2>2. CASE o(q) = Leaf
    BY <2>1, <2>2, <1>3, <1>14
  <2>3. CASE o(q) # Leaf
    <3>1. o(q) \in 1..n /\ ps[o(q)].lvl = 0
      BY <1>6, <1>14
    <3>2. Hi(ps, Leaf) < Hi(ps, o(q))
      <4> HIDE DEF o
      <4> QED  BY <3>1, <2>3 DEF Ordered, n
    <3>3. Before(qs, Leaf, q) /\ qs[Leaf].lvl = 0
      BY <3>2, <2>1, <2>3, <1>1, <1>2, <1>8, <1>14
    <3>4. Len(qs[q].slots) \in 1..Len(qs[q].slots)
      BY <1>1, PagesTyped
    <3> QED  BY <3>3, <3>4 DEF Before, Hi
  <2> QED  BY <2>2, <2>3
<1>15. Ordered(qs)
  BY <1>1, <1>7, <1>9, <1>13, <1>14 DEF Ordered
<1> QED  BY <1>3, <1>4, <1>15 DEF n, r

\* Only the root is on the level of the root.
LEMMA RootLevel ==
  ASSUME NEW ps, PagesOK(ps)
  PROVE  /\ Root \in 1..Len(ps) /\ ps[Root].lvl \in Nat /\ ps[Root].lvl > 0 /\ ps[Root].right = NoPage
         /\ \A q \in 1..Len(ps) : q # Root => ps[q].lvl \in Nat /\ ps[q].lvl < ps[Root].lvl
         /\ Leaf \in 1..Len(ps) /\ Leaf # Root /\ ps[Leaf].lvl = 0
<1>1. /\ Root \in 1..Len(ps) /\ Leaf \in 1..Len(ps) /\ \A q \in 1..Len(ps) : ps[q].lvl \in Nat
  BY PagesTyped
<1>2. Leaf # Root /\ ps[Leaf].lvl = 0
  BY DEF PagesOK, Leaf, Root
<1>3. \A q \in 1..Len(ps) : q # Root => ps[q].lvl < ps[Root].lvl
  BY DEF PagesOK, PageOK
<1>4. ps[Root].right = NoPage
  BY <1>1 DEF PagesOK, PageOK
<1> QED  BY <1>1, <1>2, <1>3, <1>4

\* btreeSplitRoot keeps the order.
LEMMA RootSplitOrder ==
  ASSUME NEW ps, NEW qs, NEW m, PagesOK(ps), Ordered(ps), RootPieces(ps, qs, m)
  PROVE  /\ Ordered(qs)
         /\ \A q \in 1..Len(ps) : q # Root => Hi(qs, q) = Hi(ps, q)
         /\ Hi(qs, Root) = Stopper /\ Hi(qs, Len(ps) + 1) = Stopper
         /\ Hi(qs, Len(ps) + 2) = ps[Root].slots[m].key
<1> DEFINE n == Len(ps)
           r == Len(ps) + 1
           l == Len(ps) + 2
           L == ps[Root].lvl
<1>1. /\ Len(qs) = l /\ Divided(ps, qs, Root, m, l, r)
      /\ \A q \in 1..n : q # Root => qs[q] = ps[q]
      /\ qs[Root].lvl = L + 1 /\ qs[Root].right = NoPage /\ Len(qs[Root].slots) = 2
      /\ qs[Root].slots[1] = Slot(ps[Root].slots[m].key, l, FALSE)
      /\ qs[Root].slots[2] = Slot(Stopper, r, FALSE)
      /\ qs[r].lvl = L /\ qs[r].right = NoPage
      /\ qs[l].lvl = L /\ qs[l].right = r
  BY DEF RootPieces
<1>2. /\ n \in Nat /\ n >= 2 /\ 1..n \subseteq 1..l /\ r \in 1..l /\ l \in 1..l /\ r \notin 1..n /\ l \notin 1..n
      /\ r # l /\ NoPage \notin 1..l /\ \A q \in 1..l : q = r \/ q = l \/ q = Root \/ (q \in 1..n /\ q # Root)
  BY PagesTyped DEF NoPage
<1>3. /\ Root \in 1..n /\ L \in Nat /\ L > 0 /\ ps[Root].right = NoPage
      /\ \A q \in 1..n : q # Root => ps[q].lvl \in Nat /\ ps[q].lvl < L
      /\ Leaf \in 1..n /\ Leaf # Root /\ ps[Leaf].lvl = 0
  BY RootLevel
<1>4. /\ SlotsOK(qs, l) /\ SlotsOK(qs, r) /\ Before(qs, l, r)
      /\ Hi(qs, l) = ps[Root].slots[m].key /\ Hi(qs, r) = Hi(ps, Root)
      /\ Hi(qs, l) \in Nat /\ Hi(qs, r) \in Nat /\ Hi(qs, l) < Hi(qs, r)
  <2>1. /\ Divided(ps, qs, Root, m, l, r) /\ Root \in 1..Len(ps)
        /\ qs[l].lvl = ps[Root].lvl /\ qs[r].lvl = ps[Root].lvl
    BY <1>1, <1>3
  <2> HIDE DEF n, r, l, L
  <2> QED  BY <2>1, DividedOrder
<1>5. Hi(ps, Root) = Stopper
  BY <1>3 DEF Ordered, NextOK
<1>6. \A q \in 1..n : q # Root => Hi(qs, q) = Hi(ps, q)
  BY <1>1 DEF Hi
<1>7. Hi(qs, Root) = Stopper
  BY <1>1 DEF Hi, Slot
<1> HIDE DEF n, r, l, L
<1>8. ASSUME NEW q \in 1..n, q # Root, ps[q].right # NoPage
      PROVE  ps[q].right \in 1..n /\ ps[q].right # Root /\ ps[ps[q].right].lvl = ps[q].lvl
  <2>1. ps[q].right \in 1..n /\ ps[ps[q].right].lvl = ps[q].lvl
    BY <1>8, RightLink DEF n
  <2>2. ps[q].lvl \in Nat /\ ps[q].lvl < L
    BY <1>3, <1>8
  <2> QED  BY <2>1, <2>2, <1>3 DEF L
<1>9. ASSUME NEW q \in 1..l PROVE SlotsOK(qs, q)
  <2>1. CASE q \in {l, r}
    BY <2>1, <1>4
  <2>2. CASE q = Root
    <3>1. ps[Root].slots[m].key \in Nat /\ ps[Root].slots[m].key < Stopper /\ L + 1 # 0 /\ Stopper \in Nat
      BY <1>3, <1>4, <1>5, KeyBound
    <3>2. ASSUME NEW i \in 1..2, NEW j \in 1..2, i < j
          PROVE  qs[Root].slots[i].key < qs[Root].slots[j].key
      <4>1. i = 1 /\ j = 2
        BY <3>2
      <4> QED  BY <4>1, <3>1, <1>1 DEF Slot
    <3>3. ASSUME NEW i \in 1..2 PROVE ~qs[Root].slots[i].stop
      <4>1. i = 1 \/ i = 2
        OBVIOUS
      <4> QED  BY <4>1, <1>1 DEF Slot
    <3> QED  BY <2>2, <3>1, <3>2, <3>3, <1>1 DEF SlotsOK
  <2>3. CASE q \in 1..n /\ q # Root
    BY <2>3, <1>1, SMTT(30) DEF Ordered, SlotsOK, n
  <2> QED  BY <2>1, <2>2, <2>3, <1>2
<1>10. ASSUME NEW q \in 1..l, NEW z \in 1..l, qs[q].lvl = qs[z].lvl, q # z
       PROVE  (q \in {l, r} /\ z \in {l, r}) \/ (q \in 1..n /\ z \in 1..n /\ q # Root /\ z # Root)
  BY <1>1, <1>2, <1>3, <1>10
<1>11. ASSUME NEW q \in 1..l PROVE NextOK(qs, q)
  <2>1. CASE q = l
    <3>1. \A z \in 1..l : qs[z].lvl = qs[l].lvl => z = l \/ z = r
      BY <1>1, <1>2, <1>3
    <3> QED  BY <2>1, <3>1, <1>1, <1>2, <1>4 DEF NextOK
  <2>2. CASE q = r \/ q = Root
    BY <2>2, <1>1, <1>4, <1>5, <1>7 DEF NextOK
  <2>3. CASE q \in 1..n /\ q # Root
    <3>1. NextOK(ps, q) /\ qs[q] = ps[q] /\ Hi(qs, q) = Hi(ps, q)
      BY <2>3, <1>1, <1>6 DEF Ordered, n
    <3>2. CASE ps[q].right = NoPage
      BY <3>1, <3>2 DEF NextOK
    <3>3. CASE ps[q].right # NoPage
      <4>1. ps[q].right \in 1..n /\ ps[q].right # Root
        BY <2>3, <3>3, <1>8
      <4>2. ASSUME NEW z \in 1..l, qs[z].lvl = qs[q].lvl
            PROVE  z \in 1..n /\ ps[z].lvl = ps[q].lvl /\ Hi(qs, z) = Hi(ps, z)
        BY <2>3, <3>1, <4>2, <1>1, <1>2, <1>3, <1>6
      <4>3. /\ Hi(ps, q) < Hi(ps, ps[q].right)
            /\ \A z \in 1..n : ps[z].lvl = ps[q].lvl =>
                 Hi(ps, z) <= Hi(ps, q) \/ Hi(ps, ps[q].right) <= Hi(ps, z)
        BY <3>1, <3>3 DEF NextOK, n
      <4> QED  BY <3>1, <3>3, <4>1, <4>2, <4>3, <1>1, <1>6 DEF NextOK
    <3> QED  BY <3>2, <3>3
  <2> QED  BY <2>1, <2>2, <2>3, <1>2
<1>12. ASSUME NEW q \in 1..l, NEW z \in 1..l, qs[q].lvl = qs[z].lvl, q # z
       PROVE  Before(qs, q, z) \/ Before(qs, z, q)
  <2>1. CASE q \in {l, r} /\ z \in {l, r}
    <3>1. (q = l /\ z = r) \/ (q = r /\ z = l)
      BY <2>1, <1>12
    <3> QED  BY <3>1, <1>4
  <2>2. CASE q \in 1..n /\ z \in 1..n /\ q # Root /\ z # Root
    <3>1. ps[q].lvl = ps[z].lvl /\ qs[q] = ps[q] /\ qs[z] = ps[z] /\ Hi(qs, q) = Hi(ps, q)
          /\ Hi(qs, z) = Hi(ps, z)
      BY <2>2, <1>1, <1>6, <1>12
    <3>2. Before(ps, q, z) \/ Before(ps, z, q)
      BY <2>2, <3>1, <1>12 DEF Ordered, n
    <3> QED  BY <3>1, <3>2 DEF Before
  <2> QED  BY <2>1, <2>2, <1>10, <1>12
<1>13. ASSUME NEW q \in 1..l, qs[q].lvl = 0, q # Leaf PROVE Hi(qs, Leaf) < Hi(qs, q)
  <2>1. q \in 1..n /\ q # Root /\ ps[q].lvl = 0
    BY <1>1, <1>2, <1>3, <1>13
  <2>2. Hi(ps, Leaf) < Hi(ps, q)
    BY <2>1, <1>13 DEF Ordered, n
  <2> QED  BY <2>1, <2>2, <1>3, <1>6
<1>14. Ordered(qs)
  BY <1>1, <1>9, <1>11, <1>12, <1>13 DEF Ordered
<1>15. Hi(qs, r) = Stopper /\ Hi(qs, l) = ps[Root].slots[m].key
  BY <1>4, <1>5
<1> QED  BY <1>6, <1>7, <1>14, <1>15 DEF n, r, l

-----------------------------------------------------------------------------
(* Fences                                                                  *)

\* Fences are keys, and different pages that are not hidden have different ones.
LEMMA FenceFacts ==
  ASSUME NEW ps, NEW h, PagesOK(ps), Ordered(ps), \A r \in h : HostOK(ps, h, r)
  PROVE  /\ \A c \in 1..Len(ps) :
              /\ Fence(ps, h, c) \in KeySet /\ Fence(ps, h, c) \in Nat /\ Fence(ps, h, c) <= Stopper
              /\ Hi(ps, c) <= Fence(ps, h, c)
              /\ ps[c].right \in h => /\ c \notin h /\ Fence(ps, h, c) = Hi(ps, ps[c].right)
                                      /\ Hi(ps, c) < Fence(ps, h, c)
              /\ ps[c].right \notin h => Fence(ps, h, c) = Hi(ps, c)
         /\ \A c, z \in 1..Len(ps) : ps[c].lvl = ps[z].lvl /\ c # z /\ c \notin h /\ z \notin h =>
              /\ Hi(ps, c) < Hi(ps, z) => Fence(ps, h, c) < Hi(ps, z)
              /\ Fence(ps, h, c) # Fence(ps, h, z)
<1>1. NoPage \notin h
  BY DEF HostOK, NoPage
<1>2. ASSUME NEW c \in 1..Len(ps), ps[c].right \in h
      PROVE  /\ c \notin h /\ Fence(ps, h, c) = Hi(ps, ps[c].right) /\ Hi(ps, c) < Fence(ps, h, c)
             /\ ps[c].right \in 1..Len(ps)
  <2>1. PICK d \in 1..Len(ps) : d \notin h /\ ps[d].right = ps[c].right
    BY <1>2 DEF HostOK
  <2>2. ps[c].right # NoPage
    BY <1>1, <1>2
  <2>3. c = d /\ Hi(ps, c) < Hi(ps, ps[c].right) /\ ps[c].right \in 1..Len(ps)
    BY <2>1, <2>2, RightLink
  <2> QED  BY <2>1, <2>3, <1>2 DEF Fence
<1>3. ASSUME NEW c \in 1..Len(ps), ps[c].right \notin h PROVE Fence(ps, h, c) = Hi(ps, c)
  BY <1>3 DEF Fence
<1>4. ASSUME NEW c \in 1..Len(ps)
      PROVE  /\ Fence(ps, h, c) \in KeySet /\ Fence(ps, h, c) \in Nat /\ Fence(ps, h, c) <= Stopper
             /\ Hi(ps, c) <= Fence(ps, h, c)
  <2>1. Hi(ps, c) \in KeySet /\ Hi(ps, c) \in Nat /\ Hi(ps, c) <= Stopper
    BY HighKeys
  <2>2. CASE ps[c].right \in h
    <3>1. /\ Hi(ps, ps[c].right) \in KeySet /\ Hi(ps, ps[c].right) \in Nat
          /\ Hi(ps, ps[c].right) <= Stopper
      BY <2>2, <1>2, HighKeys
    <3> QED  BY <2>1, <2>2, <3>1, <1>2
  <2>3. CASE ps[c].right \notin h
    BY <2>1, <2>3, <1>3
  <2> QED  BY <2>2, <2>3
<1>5. ASSUME NEW c \in 1..Len(ps), NEW z \in 1..Len(ps), ps[c].lvl = ps[z].lvl, z \notin h,
             Hi(ps, c) < Hi(ps, z)
      PROVE  Fence(ps, h, c) < Hi(ps, z)
  <2>1. CASE ps[c].right \notin h
    BY <2>1, <1>3, <1>5
  <2>2. CASE ps[c].right \in h
    <3>1. ps[c].right # NoPage
      BY <2>2, <1>1
    <3>2. /\ ps[c].right \in 1..Len(ps) /\ ps[ps[c].right].lvl = ps[c].lvl
          /\ Hi(ps, z) <= Hi(ps, c) \/ Hi(ps, ps[c].right) <= Hi(ps, z)
      BY <3>1, <1>5, RightLink
    <3>3. ps[c].right # z
      BY <2>2, <1>5
    <3>4. Hi(ps, ps[c].right) # Hi(ps, z) /\ Hi(ps, ps[c].right) \in Nat /\ Hi(ps, z) \in Nat
          /\ Hi(ps, c) \in Nat
      BY <3>2, <3>3, <1>5, HighKeys
    <3> QED  BY <3>2, <3>4, <2>2, <1>2, <1>5
  <2> QED  BY <2>1, <2>2
<1>6. ASSUME NEW c \in 1..Len(ps), NEW z \in 1..Len(ps), ps[c].lvl = ps[z].lvl, c # z,
             c \notin h, z \notin h
      PROVE  Fence(ps, h, c) # Fence(ps, h, z)
  <2>1. /\ Hi(ps, c) # Hi(ps, z) /\ Hi(ps, c) \in Nat /\ Hi(ps, z) \in Nat
        /\ Fence(ps, h, c) \in Nat /\ Fence(ps, h, z) \in Nat
        /\ Hi(ps, c) <= Fence(ps, h, c) /\ Hi(ps, z) <= Fence(ps, h, z)
    BY <1>4, <1>6, HighKeys
  <2>2. CASE Hi(ps, c) < Hi(ps, z)
    <3>1. Fence(ps, h, c) < Hi(ps, z)
      BY <2>2, <1>5, <1>6
    <3> QED  BY <3>1, <2>1
  <2>3. CASE Hi(ps, z) < Hi(ps, c)
    <3>1. Fence(ps, h, z) < Hi(ps, c)
      BY <2>3, <1>5, <1>6
    <3> QED  BY <3>1, <2>1
  <2> QED  BY <2>1, <2>2, <2>3
<1> QED  BY <1>2, <1>3, <1>4, <1>5, <1>6

\* The same, from the invariant.
LEMMA FencesOf ==
  ASSUME NEW ps, NEW h, NEW w, PagesOK(ps), Ordered(ps), Fenced(ps, h, w)
  PROVE  /\ \A c \in 1..Len(ps) :
              /\ Fence(ps, h, c) \in KeySet /\ Fence(ps, h, c) \in Nat /\ Fence(ps, h, c) <= Stopper
              /\ Hi(ps, c) <= Fence(ps, h, c)
              /\ ps[c].right \in h => /\ c \notin h /\ Fence(ps, h, c) = Hi(ps, ps[c].right)
                                      /\ Hi(ps, c) < Fence(ps, h, c)
              /\ ps[c].right \notin h => Fence(ps, h, c) = Hi(ps, c)
         /\ \A c, z \in 1..Len(ps) : ps[c].lvl = ps[z].lvl /\ c # z /\ c \notin h /\ z \notin h =>
              /\ Hi(ps, c) < Hi(ps, z) => Fence(ps, h, c) < Hi(ps, z)
              /\ Fence(ps, h, c) # Fence(ps, h, z)
<1>1. \A r \in h : HostOK(ps, h, r)
  BY DEF Fenced
<1> QED  BY <1>1, FenceFacts

\* The page a slot leads to is not hidden, and the slot's key is no lower than
\* its fence.
LEMMA SlotLeads ==
  ASSUME NEW ps, NEW h, NEW w, PagesOK(ps), Ordered(ps), Fenced(ps, h, w),
         NEW p \in 1..Len(ps), ps[p].lvl > 0, NEW i \in 1..Len(ps[p].slots)
  PROVE  LET c == ps[p].slots[i].child
             x == ps[p].slots[i].key
         IN  /\ c \in 1..Len(ps) /\ ps[p].lvl = ps[c].lvl + 1 /\ ps[c].lvl < ps[Root].lvl
             /\ x \in KeySet
             /\ Posted(ps, x, c) /\ Expected(ps, h, w, x, c)
             /\ c \notin h /\ Fence(ps, h, c) <= x
<1> DEFINE c == ps[p].slots[i].child
           x == ps[p].slots[i].key
<1>1. c \in 1..Len(ps) /\ ps[c].lvl = ps[p].lvl - 1
  BY DEF PagesOK, PageOK
<1>2. /\ ps[c].lvl \in Nat /\ ps[p].lvl \in Nat /\ ps[Root].lvl \in Nat /\ x \in KeySet
      /\ ps[p].lvl <= ps[Root].lvl
  <2>1. \A q \in 1..Len(ps) : ps[q].lvl \in Nat
    BY PagesTyped
  <2>2. Root \in 1..Len(ps) /\ (p # Root => ps[p].lvl < ps[Root].lvl)
    BY RootLevel
  <2>3. ps[p].lvl <= ps[Root].lvl
    BY <2>1, <2>2
  <2>4. x \in KeySet
    BY HighKeys
  <2> QED  BY <1>1, <2>1, <2>2, <2>3, <2>4
<1>3. ps[p].lvl = ps[c].lvl + 1 /\ ps[c].lvl < ps[Root].lvl
  BY <1>1, <1>2
<1>4. Posted(ps, x, c)
  BY <1>3 DEF Posted
<1>5. Expected(ps, h, w, x, c)
  BY <1>1, <1>2, <1>3, <1>4 DEF Fenced
<1>6. \A r \in h : HostOK(ps, h, r)
  BY DEF Fenced
<1>7. \A y \in 1..Len(ps) : Fence(ps, h, y) \in Nat
  BY <1>6, FenceFacts
<1>8. Fence(ps, h, c) <= x
  <2>1. CASE \E e \in w : e.c = c /\ (x = e.fence \/ (x = e.low /\ e.half))
    <3>1. PICK e \in w : e.c = c /\ (x = e.fence \/ (x = e.low /\ e.half))
      BY <2>1
    <3>2. PostOK(ps, h, e)
      BY DEF Fenced
    <3>3. Fence(ps, h, c) = e.low /\ e.low < e.fence
      BY <3>1, <3>2 DEF PostOK
    <3>4. e.fence \in Nat /\ Fence(ps, h, c) \in Nat
      BY <3>2, <1>1, <1>7 DEF PostOK
    <3> QED  BY <3>1, <3>3, <3>4
  <2>2. CASE x = Fence(ps, h, c)
    BY <2>2, <1>1, <1>7
  <2> QED  BY <2>1, <2>2, <1>5 DEF Expected
<1>9. c \notin h
  BY <1>5 DEF Expected
<1> QED  BY <1>1, <1>2, <1>3, <1>4, <1>5, <1>8, <1>9

\* A page whose fence is posted for it, or will be: some key of the level above
\* is no lower than the page and below every slot for a page to its right.
LEMMA Descend ==
  ASSUME NEW ps, NEW h, NEW w, PagesOK(ps), Ordered(ps), Fenced(ps, h, w),
         NEW p \in 1..Len(ps), ps[p].lvl > 0, NEW i \in 1..Len(ps[p].slots),
         NEW z \in 1..Len(ps), ps[z].lvl = ps[ps[p].slots[i].child].lvl,
         Hi(ps, z) < Hi(ps, ps[p].slots[i].child)
  PROVE  \E q \in 1..Len(ps) : ps[q].lvl = ps[p].lvl /\ \E j \in 1..Len(ps[q].slots) :
           Hi(ps, z) <= ps[q].slots[j].key /\ ps[q].slots[j].key < ps[p].slots[i].key
<1> DEFINE c == ps[p].slots[i].child
           x == ps[p].slots[i].key
           F(y) == Fence(ps, h, y)
<1>1. /\ c \in 1..Len(ps) /\ ps[p].lvl = ps[c].lvl + 1 /\ ps[c].lvl < ps[Root].lvl
      /\ x \in KeySet /\ Posted(ps, x, c) /\ Expected(ps, h, w, x, c)
      /\ c \notin h /\ F(c) <= x
  BY SlotLeads
<1>2. \A r \in h : HostOK(ps, h, r)
  BY DEF Fenced
<1>3. /\ \A y \in 1..Len(ps) : F(y) \in KeySet /\ F(y) \in Nat /\ Hi(ps, y) <= F(y)
      /\ \A y \in 1..Len(ps) : ps[y].right \in h => y \notin h /\ F(y) = Hi(ps, ps[y].right)
      /\ \A y, u \in 1..Len(ps) : ps[y].lvl = ps[u].lvl /\ y # u /\ y \notin h /\ u \notin h =>
           (Hi(ps, y) < Hi(ps, u) => F(y) < Hi(ps, u)) /\ F(y) # F(u)
  BY <1>2, FenceFacts, ZenonT(60)
<1>4. \A y \in 1..Len(ps) : Hi(ps, y) \in Nat
  BY HighKeys
<1>5. x \in Nat
  BY <1>1, KeyBound
\* The host of z, or z.
<1>6. PICK y \in 1..Len(ps) : /\ y \notin h /\ ps[y].lvl = ps[z].lvl /\ Hi(ps, z) <= F(y)
                              /\ Hi(ps, y) <= Hi(ps, z)
  <2>1. CASE z \notin h
    BY <2>1, <1>3, <1>4
  <2>2. CASE z \in h
    <3>1. PICK y \in 1..Len(ps) : y \notin h /\ ps[y].right = z
      BY <2>2, <1>2 DEF HostOK
    <3>2. ps[y].right # NoPage
      BY <3>1 DEF NoPage
    <3>3. ps[z].lvl = ps[y].lvl /\ Hi(ps, y) < Hi(ps, z)
      BY <3>1, <3>2, RightLink
    <3>4. F(y) = Hi(ps, z)
      BY <3>1, <2>2, <1>3
    <3> HIDE DEF F
    <3> QED  BY <3>1, <3>3, <3>4, <1>4
  <2> QED  BY <2>1, <2>2
<1> HIDE DEF c, x, F
<1>7. ps[y].lvl = ps[c].lvl /\ Hi(ps, y) < Hi(ps, c) /\ y # c
  BY <1>1, <1>4, <1>6, SMTT(30) DEF c
<1>8. F(y) < F(c) /\ F(y) < x
  <2>1. F(y) < Hi(ps, c)
    BY <1>1, <1>3, <1>6, <1>7
  <2>2. F(y) \in Nat /\ F(c) \in Nat /\ Hi(ps, c) \in Nat /\ Hi(ps, c) <= F(c)
    BY <1>1, <1>3, <1>4
  <2> QED  BY <2>1, <2>2, <1>1, <1>5
<1>9. ASSUME NEW k \in KeySet, NEW d \in 1..Len(ps), ps[d].lvl = ps[c].lvl, Posted(ps, k, d),
             Hi(ps, z) <= k, k < x
      PROVE  \E q \in 1..Len(ps) : ps[q].lvl = ps[p].lvl /\ \E j \in 1..Len(ps[q].slots) :
               Hi(ps, z) <= ps[q].slots[j].key /\ ps[q].slots[j].key < x
  BY <1>1, <1>9 DEF Posted
<1>10. ASSUME NEW d \in 1..Len(ps), NEW k \in KeySet, ps[d].lvl = ps[c].lvl, Expected(ps, h, w, k, d)
       PROVE  Posted(ps, k, d)
  BY <1>1, <1>10 DEF Fenced
<1>11. CASE \A e \in w : y \notin {e.c, e.r}
  <2>1. Expected(ps, h, w, F(y), y)
    BY <1>6, <1>11 DEF Expected, F
  <2> QED  BY <2>1, <1>3, <1>6, <1>7, <1>8, <1>9, <1>10 DEF x
<1>12. CASE \E e \in w : y \in {e.c, e.r}
  <2>1. PICK e \in w : y \in {e.c, e.r}
    BY <1>12
  <2>2. /\ e.c \in 1..Len(ps) /\ e.r \in 1..Len(ps) /\ e.c # e.r /\ e.c \notin h /\ e.r \notin h
        /\ ps[e.c].lvl = ps[e.r].lvl /\ F(e.c) = e.low /\ F(e.r) = e.fence /\ e.low < e.fence
        /\ \A u \in 1..Len(ps) : ps[u].lvl = ps[e.c].lvl /\ u \notin h =>
             F(u) <= e.low \/ e.fence <= F(u)
    BY DEF Fenced, PostOK, F
  <2>3. ps[e.c].lvl = ps[c].lvl /\ e.fence \in KeySet /\ e.fence \in Nat /\ e.low \in Nat
    BY <2>1, <2>2, <1>3, <1>7
  <2>4. Posted(ps, e.fence, e.c)
    <3>1. Expected(ps, h, w, e.fence, e.c)
      BY <2>2 DEF Expected
    <3> QED  BY <3>1, <2>2, <2>3, <1>10
  <2>5. Hi(ps, z) <= e.fence
    BY <2>1, <2>2, <2>3, <1>3, <1>4, <1>6, SMTT(30)
  <2>6. e.fence < x
    <3>1. CASE y = e.r
      BY <3>1, <2>2, <1>8
    <3>2. CASE y = e.c
      <4>1. e.fence <= F(c)
        BY <3>2, <2>2, <2>3, <1>1, <1>3, <1>8
      <4>2. c # e.r
        <5>1. SUFFICES ASSUME c = e.r PROVE FALSE
          OBVIOUS
        <5>2. ~\E d \in w : d.c = c
          <6>1. SUFFICES ASSUME NEW d \in w, d.c = c PROVE FALSE
            OBVIOUS
          <6>2. d # e
            BY <6>1, <5>1, <2>2
          <6>3. {d.c, d.r} \intersect {e.c, e.r} = {}
            BY <6>2 DEF Fenced
          <6> QED  BY <6>1, <6>3, <5>1
        <5>3. \A d \in w : c \notin {d.c, d.r}
          BY <5>2, <1>1 DEF Expected
        <5> QED  BY <5>1, <5>3
      <4>3. F(c) # F(e.r)
        BY <4>2, <2>2, <2>3, <1>1, <1>3
      <4> QED  BY <4>1, <4>3, <2>2, <2>3, <1>1, <1>3, <1>5
    <3> QED  BY <3>1, <3>2, <2>1
  <2> QED  BY <2>2, <2>3, <2>4, <2>5, <2>6, <1>9 DEF x
<1> QED  BY <1>11, <1>12

-----------------------------------------------------------------------------
(* Searching: a key is never left of the page a search has come to         *)

\* A search that slides right does not pass its key.
LEMMA SearchRight ==
  ASSUME NEW ps, PagesOK(ps), Ordered(ps), NEW p \in 1..Len(ps), NEW k \in KeySet, k < Stopper,
         NotPast(ps, p, k), FindSlot(ps[p], k, FALSE) = 0
  PROVE  NotPast(ps, ps[p].right, k)
<1>1. ps[p].right # NoPage /\ Hi(ps, p) < k
  BY SlotOfKey
<1>2. /\ ps[p].right \in 1..Len(ps) /\ ps[ps[p].right].lvl = ps[p].lvl
      /\ \A z \in 1..Len(ps) : ps[z].lvl = ps[p].lvl =>
           Hi(ps, z) <= Hi(ps, p) \/ Hi(ps, ps[p].right) <= Hi(ps, z)
  BY <1>1, RightLink
<1>3. ASSUME NEW z \in 1..Len(ps), ps[z].lvl = ps[p].lvl, Hi(ps, z) < Hi(ps, ps[p].right)
      PROVE  Hi(ps, z) < k
  <2>1. Hi(ps, z) \in Nat /\ Hi(ps, p) \in Nat /\ Hi(ps, ps[p].right) \in Nat /\ k \in Nat
    BY <1>2, HighKeys, KeyBound
  <2>2. Hi(ps, z) <= Hi(ps, p)
    BY <2>1, <1>2, <1>3
  <2> QED  BY <2>1, <2>2, <1>1
<1> QED  BY <1>2, <1>3 DEF NotPast

\* A search that goes down a level does not pass its key.
LEMMA SearchDown ==
  ASSUME NEW ps, NEW h, NEW w, PagesOK(ps), Ordered(ps), Fenced(ps, h, w),
         NEW p \in 1..Len(ps), ps[p].lvl > 0, NEW k \in KeySet, k < Stopper,
         NotPast(ps, p, k), FindSlot(ps[p], k, FALSE) # 0
  PROVE  NotPast(ps, ps[p].slots[FindSlot(ps[p], k, FALSE)].child, k)
<1> DEFINE i == FindSlot(ps[p], k, FALSE)
           c == ps[p].slots[i].child
<1>1. /\ i \in 1..Len(ps[p].slots) /\ k <= ps[p].slots[i].key
      /\ \A j \in 1..Len(ps[p].slots) : j < i <=> ps[p].slots[j].key < k
  BY SlotOfKey
<1>2. ASSUME NEW z \in 1..Len(ps), ps[z].lvl = ps[c].lvl, Hi(ps, z) < Hi(ps, c)
      PROVE  Hi(ps, z) < k
  <2> HIDE DEF i
  <2>1. PICK q \in 1..Len(ps) : ps[q].lvl = ps[p].lvl /\ \E j \in 1..Len(ps[q].slots) :
               Hi(ps, z) <= ps[q].slots[j].key /\ ps[q].slots[j].key < ps[p].slots[i].key
    BY <1>1, <1>2, Descend
  <2>2. PICK j \in 1..Len(ps[q].slots) :
               Hi(ps, z) <= ps[q].slots[j].key /\ ps[q].slots[j].key < ps[p].slots[i].key
    BY <2>1
  <2>3. /\ Hi(ps, z) \in Nat /\ k \in Nat /\ Hi(ps, p) \in Nat /\ Hi(ps, q) \in Nat
        /\ ps[q].slots[j].key \in Nat /\ ps[q].slots[j].key <= Hi(ps, q)
        /\ ps[p].slots[i].key \in Nat /\ ps[p].slots[i].key <= Hi(ps, p)
    BY <1>1, HighKeys, KeyBound
  <2>4. CASE q = p
    <3>1. ps[p].slots[j].key < k
      <4>1. j < i
        <5>1. \A a, b \in 1..Len(ps[p].slots) : a < b => ps[p].slots[a].key < ps[p].slots[b].key
          BY DEF Ordered, SlotsOK
        <5>2. j \in 1..Len(ps[p].slots) /\ Len(ps[p].slots) \in Nat
          BY <2>4, PagesTyped
        <5> QED  BY <5>1, <5>2, <2>2, <2>3, <2>4, <1>1, SMTT(30)
      <4> QED  BY <4>1, <2>4, <1>1
    <3> QED  BY <3>1, <2>2, <2>3, <2>4
  <2>5. CASE q # p
    <3>1. Hi(ps, q) # Hi(ps, p) /\ (Hi(ps, p) < Hi(ps, q) => Before(ps, p, q))
      BY <2>1, <2>5, HighKeys
    <3>2. ~Before(ps, p, q)
      <4>1. ~(Hi(ps, p) < ps[q].slots[j].key)
        BY <2>2, <2>3, SMTT(30)
      <4> QED  BY <4>1 DEF Before
    <3>3. Hi(ps, q) < k
      BY <3>1, <3>2, <2>1, <2>3 DEF NotPast
    <3> QED  BY <3>3, <2>2, <2>3
  <2> QED  BY <2>4, <2>5
<1> QED  BY <1>2 DEF NotPast

\* The page and slot of a level whose key is the least one not below k.
LEMMA SearchEnds ==
  ASSUME NEW ps, PagesOK(ps), Ordered(ps), NEW p \in 1..Len(ps), NEW k \in KeySet, k < Stopper,
         NotPast(ps, p, k), FindSlot(ps[p], k, FALSE) # 0,
         NEW q \in 1..Len(ps), ps[q].lvl = ps[p].lvl, NEW j \in 1..Len(ps[q].slots),
         ps[q].slots[j].key = k
  PROVE  q = p /\ j = FindSlot(ps[p], k, FALSE)
<1> DEFINE i == FindSlot(ps[p], k, FALSE)
<1>1. /\ i \in 1..Len(ps[p].slots) /\ k <= ps[p].slots[i].key
      /\ \A l \in 1..Len(ps[p].slots) : l < i <=> ps[p].slots[l].key < k
  BY SlotOfKey
<1> HIDE DEF i
<1>2. /\ k \in Nat /\ Hi(ps, p) \in Nat /\ Hi(ps, q) \in Nat /\ k <= Hi(ps, q)
      /\ ps[p].slots[i].key \in Nat /\ ps[p].slots[i].key <= Hi(ps, p)
  BY <1>1, HighKeys, KeyBound
<1>3. q = p
  <2>1. SUFFICES ASSUME q # p PROVE FALSE
    OBVIOUS
  <2>2. Hi(ps, q) # Hi(ps, p) /\ (Hi(ps, p) < Hi(ps, q) => Before(ps, p, q))
    BY <2>1, HighKeys
  <2>3. ~Before(ps, p, q)
    <3>1. ~(Hi(ps, p) < ps[q].slots[j].key)
      BY <1>1, <1>2
    <3> QED  BY <3>1 DEF Before
  <2>4. Hi(ps, q) < k
    BY <2>2, <2>3, <1>2 DEF NotPast
  <2> QED  BY <2>4, <1>2
<1>4. \A a, b \in 1..Len(ps[p].slots) : a < b => ps[p].slots[a].key < ps[p].slots[b].key
  BY DEF Ordered, SlotsOK
<1>5. j \in 1..Len(ps[p].slots) /\ Len(ps[p].slots) \in Nat
  BY <1>3, PagesTyped
<1>6. ~(i < j)
  BY <1>1, <1>2, <1>3, <1>4, <1>5
<1>7. ~(j < i)
  BY <1>1, <1>2, <1>3, <1>5
<1>8. j = i
  <2>1. i \in 1..Len(ps[p].slots)
    BY <1>1
  <2> QED  BY <2>1, <1>5, <1>6, <1>7
<1> QED  BY <1>3, <1>8 DEF i

\* A key that is not on the level has one place there.
LEMMA PlaceOfKey ==
  ASSUME NEW ps, PagesOK(ps), Ordered(ps), NEW p \in 1..Len(ps), NEW k \in KeySet, k < Stopper,
         NotPast(ps, p, k), FindSlot(ps[p], k, FALSE) # 0,
         \A j \in 1..Len(ps[p].slots) : ps[p].slots[j].key # k
  PROVE  Belongs(ps, p, FindSlot(ps[p], k, FALSE), k)
<1> DEFINE i == FindSlot(ps[p], k, FALSE)
<1>1. \A j \in 1..Len(ps[p].slots) : j < i <=> ps[p].slots[j].key < k
  BY SlotOfKey
<1>2. k \in Nat /\ \A j \in 1..Len(ps[p].slots) : ps[p].slots[j].key \in Nat
  BY HighKeys, KeyBound
<1> HIDE DEF i
<1>3. \A j \in 1..Len(ps[p].slots) : IF j < i THEN ps[p].slots[j].key < k ELSE k < ps[p].slots[j].key
  BY <1>1, <1>2
<1> QED  BY <1>3 DEF Belongs, i

-----------------------------------------------------------------------------
(* A key stays no further left than its page, whatever happens to the tree *)

\* Nor is it passed when slots of a page change,
LEMMA SlottedNotPast ==
  ASSUME NEW ps, NEW qs, NEW q, Slotted(ps, qs, q), NEW p \in 1..Len(ps), NEW k, NotPast(ps, p, k)
  PROVE  NotPast(qs, p, k)
<1>1. \A z \in 1..Len(ps) : qs[z].lvl = ps[z].lvl /\ Hi(qs, z) = Hi(ps, z)
  BY DEF Slotted, Hi
<1> QED  BY <1>1 DEF NotPast, Slotted

\* when a page is split,
LEMMA SplitNotPast ==
  ASSUME NEW ps, NEW qs, NEW q, NEW m, PagesOK(ps), Ordered(ps), PagesOK(qs), Pieces(ps, qs, q, m),
         NEW p \in 1..Len(ps), NEW k \in Nat, NotPast(ps, p, k)
  PROVE  NotPast(qs, p, k)
<1> DEFINE n == Len(ps)
           r == Len(ps) + 1
<1>1. /\ q \in 1..n /\ Len(qs) = r /\ Divided(ps, qs, q, m, q, r) /\ qs[r].lvl = ps[q].lvl
      /\ \A z \in 1..n : qs[z].lvl = ps[z].lvl
  BY DEF Pieces
<1>2. /\ Ordered(qs) /\ \A z \in 1..n : z # q => Hi(qs, z) = Hi(ps, z)
      /\ Hi(qs, r) = Hi(ps, q)
  BY SplitOrder
<1>3. Hi(qs, q) \in Nat /\ Hi(qs, q) < Hi(ps, q)
  BY <1>1, DividedOrder
<1>4. n \in Nat /\ \A z \in 1..r : z = r \/ z \in 1..n
  BY PagesTyped
<1>5. \A z \in 1..n : Hi(ps, z) \in Nat
  BY HighKeys
<1>6. \A z \in 1..n : ps[z].lvl = ps[p].lvl /\ Hi(ps, z) < Hi(ps, p) => Hi(ps, z) < k
  BY DEF NotPast
<1>7. \A x, y \in 1..r : qs[x].lvl = qs[y].lvl /\ x # y =>
        /\ Hi(qs, x) # Hi(qs, y)
        /\ Hi(qs, x) < Hi(qs, y) => Before(qs, x, y)
  BY <1>1, <1>2, HighKeys
<1>8. \A x, y \in 1..n : ps[x].lvl = ps[y].lvl /\ x # y =>
        /\ Hi(ps, x) # Hi(ps, y)
        /\ Hi(ps, x) < Hi(ps, y) => Before(ps, x, y)
  BY HighKeys
<1>9. \A x \in 1..n : ps[x].lvl = ps[q].lvl /\ x # q /\ Hi(ps, x) < Hi(ps, q) => Hi(ps, x) < Hi(qs, q)
  <2>1. ASSUME NEW x \in 1..n, ps[x].lvl = ps[q].lvl, x # q, Hi(ps, x) < Hi(ps, q) PROVE Hi(ps, x) < Hi(qs, q)
    <3>1. Before(ps, x, q)
      BY <2>1, <1>1, <1>8
    <3>2. m \in 1..Len(ps[q].slots) - 1 /\ Hi(qs, q) = ps[q].slots[m].key /\ Len(ps[q].slots) \in Nat
      BY <1>1, SplitOrder, PagesTyped DEF Divided
    <3>3. m \in 1..Len(ps[q].slots)
      BY <3>2
    <3> QED  BY <3>1, <3>2, <3>3 DEF Before
  <2> QED  BY <2>1
<1> HIDE DEF n, r
<1>10. ASSUME NEW z \in 1..r, qs[z].lvl = qs[p].lvl, Hi(qs, z) < Hi(qs, p) PROVE Hi(qs, z) < k
  <2>1. CASE p = q
    <3>1. z \in 1..n /\ z # q
      BY <2>1, <1>1, <1>2, <1>3, <1>4, <1>5, <1>10
    <3> QED  BY <2>1, <3>1, <1>1, <1>2, <1>3, <1>5, <1>6, <1>10 DEF n
  <2>2. CASE p # q
    <3>1. Hi(qs, p) = Hi(ps, p) /\ qs[p].lvl = ps[p].lvl /\ Hi(ps, p) \in Nat /\ Hi(ps, q) \in Nat
      BY <2>2, <1>1, <1>2, <1>5 DEF n
    <3>2. CASE z = r
      BY <3>1, <3>2, <1>1, <1>2, <1>6, <1>10
    <3>3. CASE z = q
      <4>1. ps[q].lvl = ps[p].lvl /\ Hi(ps, q) # Hi(ps, p)
        BY <2>2, <3>1, <3>3, <1>1, <1>8, <1>10 DEF n
      <4>2. CASE Hi(ps, q) < Hi(ps, p)
        <5>1. Hi(ps, q) < k
          BY <4>1, <4>2, <1>1, <1>6
        <5> QED  BY <5>1, <3>1, <3>3, <1>3
      <4>3. CASE Hi(ps, p) < Hi(ps, q)
        <5>1. Hi(ps, p) < Hi(qs, q)
          BY <2>2, <4>1, <4>3, <1>9 DEF n
        <5> QED  BY <5>1, <3>1, <3>3, <1>3, <1>10
      <4> QED  BY <4>1, <4>2, <4>3, <3>1
    <3>4. CASE z # r /\ z # q
      BY <3>1, <3>4, <1>1, <1>2, <1>4, <1>6, <1>10
    <3> QED  BY <3>2, <3>3, <3>4
  <2> QED  BY <2>1, <2>2
<1> QED  BY <1>1, <1>10 DEF NotPast

\* or when the root is split and the search has left it.
LEMMA RootSplitNotPast ==
  ASSUME NEW ps, NEW qs, NEW m, PagesOK(ps), Ordered(ps), RootPieces(ps, qs, m),
         NEW p \in 1..Len(ps), p # Root, NEW k, NotPast(ps, p, k)
  PROVE  NotPast(qs, p, k)
<1> DEFINE n == Len(ps)
           r == Len(ps) + 1
           l == Len(ps) + 2
           L == ps[Root].lvl
<1>1. /\ Len(qs) = l /\ qs[Root].lvl = L + 1 /\ qs[r].lvl = L /\ qs[l].lvl = L
      /\ \A q \in 1..n : q # Root => qs[q] = ps[q]
  BY DEF RootPieces
<1>2. L \in Nat /\ \A q \in 1..n : q # Root => ps[q].lvl \in Nat /\ ps[q].lvl < L
  BY RootLevel
<1>3. n \in Nat /\ \A q \in 1..l : q = r \/ q = l \/ q = Root \/ (q \in 1..n /\ q # Root)
  BY PagesTyped
<1>4. \A q \in 1..n : q # Root => Hi(qs, q) = Hi(ps, q)
  BY <1>1 DEF Hi
<1> HIDE DEF n, r, l, L
<1>5. ASSUME NEW z \in 1..l, qs[z].lvl = qs[p].lvl, Hi(qs, z) < Hi(qs, p) PROVE Hi(qs, z) < k
  <2>1. z \in 1..n /\ z # Root /\ p \in 1..n
    BY <1>1, <1>2, <1>3, <1>5 DEF n
  <2> QED  BY <2>1, <1>1, <1>4, <1>5 DEF NotPast, n
<1> QED  BY <1>1, <1>5 DEF NotPast

\* The root is alone on its level.
LEMMA NothingLeftOfRoot ==
  ASSUME NEW ps, PagesOK(ps), Ordered(ps), NEW k
  PROVE  NotPast(ps, Root, k)
<1>1. \A z \in 1..Len(ps) : ps[z].lvl = ps[Root].lvl => z = Root
  BY RootLevel
<1>2. Root \in 1..Len(ps) /\ Hi(ps, Root) \in Nat
  BY RootLevel, HighKeys
<1> QED  BY <1>1, <1>2 DEF NotPast

-----------------------------------------------------------------------------
(* Slots are added or changed: the fences                                  *)

\* A change of slots below the highest key of a page changes no fence.
LEMMA SlottedFences ==
  ASSUME NEW ps, NEW qs, NEW p, NEW h, PagesOK(ps), Slotted(ps, qs, p), \A r \in h : HostOK(ps, h, r)
  PROVE  /\ \A c \in 1..Len(ps) : Fence(qs, h, c) = Fence(ps, h, c) /\ qs[c].lvl = ps[c].lvl
         /\ \A r \in h : HostOK(qs, h, r)
         /\ \A e : PostOK(ps, h, e) => PostOK(qs, h, e)
<1>1. /\ Len(qs) = Len(ps)
      /\ \A z \in 1..Len(ps) : qs[z].lvl = ps[z].lvl /\ qs[z].right = ps[z].right /\ Hi(qs, z) = Hi(ps, z)
  BY DEF Slotted, Hi
<1>2. \A r \in h : r \in 1..Len(ps)
  BY DEF HostOK
<1>3. \A c \in 1..Len(ps) : Fence(qs, h, c) = Fence(ps, h, c)
  BY <1>1, <1>2 DEF Fence
<1>4. Root \in 1..Len(ps)
  BY RootLevel
<1>5. \A r \in h : HostOK(qs, h, r)
  BY <1>1, <1>4 DEF HostOK
<1>6. ASSUME NEW e, PostOK(ps, h, e) PROVE PostOK(qs, h, e)
  BY <1>1, <1>3, <1>4, <1>6 DEF PostOK
<1> QED  BY <1>1, <1>3, <1>5, <1>6

\* A leaf page has no part in it.
LEMMA LeafSlotFences ==
  ASSUME NEW ps, NEW qs, NEW p, NEW h, NEW w, PagesOK(ps), Fenced(ps, h, w), Slotted(ps, qs, p),
         ps[p].lvl = 0
  PROVE  Fenced(qs, h, w)
<1>1. /\ Len(qs) = Len(ps) /\ Root \in 1..Len(ps)
      /\ \A q \in 1..Len(ps) : q # p => qs[q] = ps[q]
  BY RootLevel DEF Slotted
<1>2. /\ \A c \in 1..Len(ps) : Fence(qs, h, c) = Fence(ps, h, c) /\ qs[c].lvl = ps[c].lvl
      /\ \A r \in h : HostOK(qs, h, r)
      /\ \A e : PostOK(ps, h, e) => PostOK(qs, h, e)
  <2>1. \A r \in h : HostOK(ps, h, r)
    BY DEF Fenced
  <2> QED  BY <2>1, SlottedFences
<1>3. \A e \in w : PostOK(qs, h, e)
  BY <1>2 DEF Fenced
<1>4. \A e, d \in w : e # d => {e.c, e.r} \intersect {d.c, d.r} = {}
  BY DEF Fenced
<1>5. ASSUME NEW c \in 1..Len(qs), qs[c].lvl < qs[Root].lvl, NEW x \in KeySet
      PROVE  Posted(qs, x, c) <=> Expected(qs, h, w, x, c)
  <2>1. c \in 1..Len(ps) /\ ps[c].lvl < ps[Root].lvl /\ ps[c].lvl \in Nat
    BY <1>1, <1>2, <1>5, PagesTyped
  <2>2. Posted(qs, x, c) <=> Posted(ps, x, c)
    <3>1. \A q \in 1..Len(ps) : qs[q].lvl = qs[c].lvl + 1 \/ ps[q].lvl = ps[c].lvl + 1 =>
            qs[q] = ps[q] /\ qs[c].lvl = ps[c].lvl
      <4>1. ps[p].lvl # ps[c].lvl + 1
        BY <2>1
      <4> QED  BY <4>1, <2>1, <1>1, <1>2
    <3>2. Posted(ps, x, c) => Posted(qs, x, c)
      BY <3>1, <1>1 DEF Posted
    <3>3. Posted(qs, x, c) => Posted(ps, x, c)
      BY <3>1, <1>1 DEF Posted
    <3> QED  BY <3>2, <3>3
  <2>3. Expected(qs, h, w, x, c) <=> Expected(ps, h, w, x, c)
    BY <2>1, <1>2 DEF Expected
  <2>4. Posted(ps, x, c) <=> Expected(ps, h, w, x, c)
    BY <2>1 DEF Fenced
  <2> QED  BY <2>2, <2>3, <2>4
<1> QED  BY <1>2, <1>3, <1>4, <1>5 DEF Fenced

\* The left fence of split d is posted.
LEMMA LowPosted ==
  ASSUME NEW ps, NEW qs, NEW p, NEW i, NEW h, NEW w, NEW d \in w, NEW g,
         PagesOK(ps), Ordered(ps), Fenced(ps, h, w),
         AddedSlot(ps, qs, p, i, Slot(d.low, d.c, FALSE)), Belongs(ps, p, i, d.low),
         ps[p].lvl = ps[d.c].lvl + 1,
         ~d.half, g.c = d.c, g.r = d.r, g.low = d.low, g.fence = d.fence, g.half
  PROVE  Fenced(qs, h, (w \ {d}) \union {g})
<1> DEFINE e == Slot(d.low, d.c, FALSE)
           v == (w \ {d}) \union {g}
<1>1. e.key = d.low /\ e.child = d.c /\ ~e.stop
  BY DEF Slot
<1>2. /\ Slotted(ps, qs, p)
      /\ \A j \in 1..Len(qs[p].slots) :
           qs[p].slots[j] = e \/ \E l \in 1..Len(ps[p].slots) : qs[p].slots[j] = ps[p].slots[l]
      /\ \A l \in 1..Len(ps[p].slots) : \E j \in 1..Len(qs[p].slots) : qs[p].slots[j] = ps[p].slots[l]
      /\ \E j \in 1..Len(qs[p].slots) : qs[p].slots[j] = e
  <2> HIDE DEF e
  <2>1. AddedSlot(ps, qs, p, i, e) /\ Belongs(ps, p, i, e.key) /\ ~e.stop
    BY <1>1 DEF e
  <2> QED  BY <2>1, AddedOrder
<1> HIDE DEF e, v
<1>3. /\ Len(qs) = Len(ps) /\ Root \in 1..Len(ps) /\ p \in 1..Len(ps)
      /\ \A q \in 1..Len(ps) : q # p => qs[q] = ps[q]
  BY <1>2, RootLevel DEF Slotted
<1>4. /\ \A c \in 1..Len(ps) : Fence(qs, h, c) = Fence(ps, h, c) /\ qs[c].lvl = ps[c].lvl
      /\ \A r \in h : HostOK(qs, h, r)
      /\ \A f : PostOK(ps, h, f) => PostOK(qs, h, f)
  <2>1. \A r \in h : HostOK(ps, h, r)
    BY DEF Fenced
  <2> QED  BY <2>1, <1>2, SlottedFences
<1>5. PostOK(ps, h, d)
  BY DEF Fenced
<1>6. \A f \in v : PostOK(qs, h, f)
  <2>1. \A f \in w : PostOK(qs, h, f)
    BY <1>4 DEF Fenced
  <2>2. PostOK(qs, h, g)
    BY <2>1 DEF PostOK
  <2> QED  BY <2>1, <2>2 DEF v
<1>7. \A f \in w : f # d => {f.c, f.r} \intersect {d.c, d.r} = {}
  BY DEF Fenced
<1>8. \A f, a \in v : f # a => {f.c, f.r} \intersect {a.c, a.r} = {}
  <2>1. \A f, a \in w : f # a => {f.c, f.r} \intersect {a.c, a.r} = {}
    BY DEF Fenced
  <2> QED  BY <2>1, <1>7 DEF v
<1>9. ASSUME NEW c \in 1..Len(qs), qs[c].lvl < qs[Root].lvl, NEW x \in KeySet
      PROVE  Posted(qs, x, c) <=> Expected(qs, h, v, x, c)
  <2>1. c \in 1..Len(ps) /\ ps[c].lvl < ps[Root].lvl /\ ps[c].lvl \in Nat /\ ps[p].lvl \in Nat
        /\ d.c \in 1..Len(ps) /\ d.r \in 1..Len(ps) /\ d.c # d.r /\ d.c \notin h /\ ps[d.c].lvl \in Nat
    BY <1>3, <1>4, <1>5, <1>9, PagesTyped DEF PostOK
  <2>2. Posted(ps, x, c) <=> Expected(ps, h, w, x, c)
    BY <2>1 DEF Fenced
  <2>3. Posted(qs, x, c) <=> Posted(ps, x, c) \/ (x = d.low /\ c = d.c)
    <3>1. ASSUME Posted(qs, x, c) PROVE Posted(ps, x, c) \/ (x = d.low /\ c = d.c)
      <4>1. PICK q \in 1..Len(ps) : ps[q].lvl = ps[c].lvl + 1 /\ \E j \in 1..Len(qs[q].slots) :
                   qs[q].slots[j].key = x /\ qs[q].slots[j].child = c
        BY <3>1, <2>1, <1>3, <1>4, SMTT(30) DEF Posted
      <4>2. CASE q = p
        <5>1. PICK j \in 1..Len(qs[p].slots) : qs[p].slots[j].key = x /\ qs[p].slots[j].child = c
          BY <4>1, <4>2
        <5>2. qs[p].slots[j] = e \/ \E l \in 1..Len(ps[p].slots) : qs[p].slots[j] = ps[p].slots[l]
          BY <1>2
        <5> QED  BY <4>1, <4>2, <5>1, <5>2, <1>1 DEF Posted
      <4>3. CASE q # p
        BY <4>1, <4>3, <1>3 DEF Posted
      <4> QED  BY <4>2, <4>3
    <3>2. ASSUME Posted(ps, x, c) PROVE Posted(qs, x, c)
      <4>1. PICK q \in 1..Len(ps) : ps[q].lvl = ps[c].lvl + 1 /\ \E j \in 1..Len(ps[q].slots) :
                   ps[q].slots[j].key = x /\ ps[q].slots[j].child = c
        BY <3>2 DEF Posted
      <4>2. qs[q].lvl = qs[c].lvl + 1 /\ q \in 1..Len(qs)
        BY <4>1, <2>1, <1>3, <1>4
      <4>3. \E j \in 1..Len(qs[q].slots) : qs[q].slots[j].key = x /\ qs[q].slots[j].child = c
        <5>1. CASE q = p
          <6>1. PICK l \in 1..Len(ps[p].slots) : ps[p].slots[l].key = x /\ ps[p].slots[l].child = c
            BY <4>1, <5>1
          <6>2. \E j \in 1..Len(qs[p].slots) : qs[p].slots[j] = ps[p].slots[l]
            BY <1>2
          <6> QED  BY <5>1, <6>1, <6>2
        <5>2. CASE q # p
          BY <4>1, <5>2, <1>3
        <5> QED  BY <5>1, <5>2
      <4> QED  BY <4>2, <4>3 DEF Posted
    <3>3. ASSUME x = d.low, c = d.c PROVE Posted(qs, x, c)
      <4>1. \E j \in 1..Len(qs[p].slots) : qs[p].slots[j].key = x /\ qs[p].slots[j].child = c
        BY <3>3, <1>1, <1>2
      <4> QED  BY <4>1, <3>3, <2>1, <1>3, <1>4, SMTT(30) DEF Posted
    <3> QED  BY <3>1, <3>2, <3>3
  <2>4. Expected(qs, h, v, x, c) <=> Expected(ps, h, w, x, c) \/ (x = d.low /\ c = d.c)
    <3>1. Fence(qs, h, c) = Fence(ps, h, c)
      BY <2>1, <1>4
    <3>2. CASE c = d.c
      <4>1. /\ \A f \in w : f.c = c => f = d
            /\ \A f \in v : f.c = c => f = g
        BY <3>2, <1>7 DEF v
      <4>2. d \in w /\ g \in v
        BY DEF v
      <4>3. Expected(qs, h, v, x, c) <=> x = d.fence \/ x = d.low
        BY <4>1, <4>2, <3>2, <2>1 DEF Expected
      <4>4. Expected(ps, h, w, x, c) <=> x = d.fence
        BY <4>1, <4>2, <3>2, <2>1 DEF Expected
      <4> QED  BY <4>3, <4>4, <3>2
    <3>3. CASE c # d.c
      <4>1. \A f \in w \ {d} : f \in v
        BY DEF v
      <4>2. \A f \in v : f # g => f \in w
        BY DEF v
      <4>3. (\E f \in v : f.c = c /\ (x = f.fence \/ (x = f.low /\ f.half)))
              <=> \E f \in w : f.c = c /\ (x = f.fence \/ (x = f.low /\ f.half))
        BY <3>3, <4>1, <4>2
      <4>4. (\A f \in v : c \notin {f.c, f.r}) <=> \A f \in w : c \notin {f.c, f.r}
        <5>1. g \in v
          BY DEF v
        <5> QED  BY <5>1, <4>1, <4>2
      <4> QED  BY <4>3, <4>4, <3>1, <3>3 DEF Expected
    <3> QED  BY <3>2, <3>3
  <2> QED  BY <2>2, <2>3, <2>4
<1>10. Fenced(qs, h, v)
  BY <1>4, <1>6, <1>8, <1>9 DEF Fenced
<1> QED  BY <1>10 DEF v

\* The right fence of split d is switched, and the split is over.
LEMMA FenceSwitched ==
  ASSUME NEW ps, NEW qs, NEW p, NEW i, NEW h, NEW w, NEW d \in w,
         PagesOK(ps), Ordered(ps), Fenced(ps, h, w), FixedSlot(ps, qs, p, i, d.r),
         ps[p].lvl = ps[d.c].lvl + 1, ps[p].slots[i].key = d.fence, d.half
  PROVE  Fenced(qs, h, w \ {d})
<1> DEFINE v == w \ {d}
<1>1. /\ Len(qs) = Len(ps) /\ Root \in 1..Len(ps) /\ p \in 1..Len(ps)
      /\ \A q \in 1..Len(ps) : q # p => qs[q] = ps[q]
      /\ i \in 1..Len(ps[p].slots) /\ Len(qs[p].slots) = Len(ps[p].slots)
      /\ \A j \in 1..Len(ps[p].slots) :
           /\ qs[p].slots[j].key = ps[p].slots[j].key
           /\ qs[p].slots[j].child = IF j = i THEN d.r ELSE ps[p].slots[j].child
  BY RootLevel DEF FixedSlot
<1>2. /\ \A c \in 1..Len(ps) : Fence(qs, h, c) = Fence(ps, h, c) /\ qs[c].lvl = ps[c].lvl
      /\ \A r \in h : HostOK(qs, h, r)
      /\ \A f : PostOK(ps, h, f) => PostOK(qs, h, f)
  <2>1. \A r \in h : HostOK(ps, h, r)
    BY DEF Fenced
  <2>2. Slotted(ps, qs, p)
    BY FixedOrder
  <2> QED  BY <2>1, <2>2, SlottedFences
<1>3. \A f \in v : PostOK(qs, h, f)
  BY <1>2 DEF Fenced
<1>4. \A f \in w : f # d => {f.c, f.r} \intersect {d.c, d.r} = {}
  BY DEF Fenced
<1>5. \A f, a \in v : f # a => {f.c, f.r} \intersect {a.c, a.r} = {}
  BY DEF Fenced
<1>6. /\ d.c \in 1..Len(ps) /\ d.r \in 1..Len(ps) /\ d.c # d.r /\ d.c \notin h /\ d.r \notin h
      /\ ps[d.c].lvl = ps[d.r].lvl /\ ps[d.c].lvl < ps[Root].lvl
      /\ Fence(ps, h, d.c) = d.low /\ Fence(ps, h, d.r) = d.fence
  BY DEF Fenced, PostOK
<1>7. d.fence \in KeySet /\ d.fence # d.low
  <2>1. /\ d.low < d.fence /\ \A r \in h : HostOK(ps, h, r)
    BY DEF Fenced, PostOK
  <2>2. /\ Fence(ps, h, d.c) \in Nat
        /\ Fence(ps, h, d.r) \in KeySet /\ Fence(ps, h, d.r) \in Nat
    BY <2>1, <1>6, FenceFacts
  <2> QED  BY <2>1, <2>2, <1>6
\* Slot i is the only one with the fence, and leads to the left page.
<1>8. ASSUME NEW q \in 1..Len(ps), ps[q].lvl = ps[p].lvl, NEW j \in 1..Len(ps[q].slots),
             ps[q].slots[j].key = d.fence
      PROVE  q = p /\ j = i
  <2>1. ps[q].slots[j].key = ps[p].slots[i].key
    BY <1>8
  <2> QED  BY <2>1, <1>1, <1>8, OneSlot
<1>9. ps[p].slots[i].child = d.c
  <2>1. Expected(ps, h, w, d.fence, d.c)
    BY <1>6 DEF Expected
  <2>2. Posted(ps, d.fence, d.c)
    BY <2>1, <1>6, <1>7 DEF Fenced
  <2> QED  BY <2>2, <1>8 DEF Posted
<1> HIDE DEF v
<1>10. ASSUME NEW c \in 1..Len(qs), qs[c].lvl < qs[Root].lvl, NEW x \in KeySet
       PROVE  Posted(qs, x, c) <=> Expected(qs, h, v, x, c)
  <2>1. c \in 1..Len(ps) /\ ps[c].lvl < ps[Root].lvl /\ ps[c].lvl \in Nat /\ ps[p].lvl \in Nat
        /\ ps[d.c].lvl \in Nat
    BY <1>1, <1>2, <1>6, <1>10, PagesTyped
  <2>2. Posted(ps, x, c) <=> Expected(ps, h, w, x, c)
    BY <2>1 DEF Fenced
  <2>3. Posted(qs, x, c) <=> (Posted(ps, x, c) /\ x # d.fence) \/ (x = d.fence /\ c = d.r)
                               \/ (Posted(ps, x, c) /\ ps[c].lvl # ps[d.c].lvl)
    <3>1. ASSUME Posted(qs, x, c)
          PROVE  (Posted(ps, x, c) /\ x # d.fence) \/ (x = d.fence /\ c = d.r)
                   \/ (Posted(ps, x, c) /\ ps[c].lvl # ps[d.c].lvl)
      <4>1. PICK q \in 1..Len(ps) : ps[q].lvl = ps[c].lvl + 1 /\ \E j \in 1..Len(qs[q].slots) :
                   qs[q].slots[j].key = x /\ qs[q].slots[j].child = c
        <5>1. PICK q \in 1..Len(qs) : qs[q].lvl = qs[c].lvl + 1 /\ \E j \in 1..Len(qs[q].slots) :
                     qs[q].slots[j].key = x /\ qs[q].slots[j].child = c
          BY <3>1 DEF Posted
        <5>2. q \in 1..Len(ps) /\ qs[q].lvl = ps[q].lvl /\ qs[c].lvl = ps[c].lvl
          BY <5>1, <2>1, <1>1, <1>2
        <5> QED  BY <5>1, <5>2
      <4>2. PICK j \in 1..Len(qs[q].slots) : qs[q].slots[j].key = x /\ qs[q].slots[j].child = c
        BY <4>1
      <4>3. CASE q = p /\ j = i
        BY <4>2, <4>3, <1>1
      <4>4. CASE ~(q = p /\ j = i)
        <5>1. j \in 1..Len(ps[q].slots) /\ ps[q].slots[j].key = x /\ ps[q].slots[j].child = c
          BY <4>2, <4>4, <1>1
        <5>2. Posted(ps, x, c)
          BY <4>1, <5>1 DEF Posted
        <5>3. ps[c].lvl = ps[d.c].lvl => x # d.fence
          BY <4>1, <4>4, <5>1, <1>8
        <5> QED  BY <5>2, <5>3
      <4> QED  BY <4>3, <4>4
    <3>2. ASSUME Posted(ps, x, c), x # d.fence \/ ps[c].lvl # ps[d.c].lvl PROVE Posted(qs, x, c)
      <4>1. PICK q \in 1..Len(ps) : ps[q].lvl = ps[c].lvl + 1 /\ \E j \in 1..Len(ps[q].slots) :
                   ps[q].slots[j].key = x /\ ps[q].slots[j].child = c
        BY <3>2 DEF Posted
      <4>2. PICK j \in 1..Len(ps[q].slots) : ps[q].slots[j].key = x /\ ps[q].slots[j].child = c
        BY <4>1
      <4>3. ~(q = p /\ j = i)
        <5>1. SUFFICES ASSUME q = p, j = i PROVE FALSE
          OBVIOUS
        <5>2. x = d.fence
          BY <4>2, <5>1
        <5>3. ps[c].lvl = ps[d.c].lvl
          <6>1. ps[c].lvl + 1 = ps[d.c].lvl + 1
            BY <4>1, <5>1
          <6> QED  BY <6>1, <2>1, SameNext
        <5> QED  BY <3>2, <5>2, <5>3
      <4>4. j \in 1..Len(qs[q].slots) /\ qs[q].slots[j].key = x /\ qs[q].slots[j].child = c
        BY <4>2, <4>3, <1>1
      <4>5. qs[q].lvl = qs[c].lvl + 1 /\ q \in 1..Len(qs)
        BY <4>1, <2>1, <1>1, <1>2
      <4> QED  BY <4>4, <4>5 DEF Posted
    <3>3. ASSUME x = d.fence, c = d.r PROVE Posted(qs, x, c)
      <4>1. i \in 1..Len(qs[p].slots) /\ qs[p].slots[i].key = x /\ qs[p].slots[i].child = c
        BY <3>3, <1>1
      <4>2. qs[p].lvl = qs[c].lvl + 1 /\ p \in 1..Len(qs)
        BY <3>3, <2>1, <1>1, <1>2, <1>6
      <4> QED  BY <4>1, <4>2 DEF Posted
    <3> QED  BY <3>1, <3>2, <3>3
  \* With the fence as its key, only a slot for the left page was posted.
  <2>4. Posted(ps, x, c) /\ x = d.fence /\ ps[c].lvl = ps[d.c].lvl => c = d.c
    <3>1. SUFFICES ASSUME Posted(ps, x, c), x = d.fence, ps[c].lvl = ps[d.c].lvl PROVE c = d.c
      OBVIOUS
    <3>2. PICK q \in 1..Len(ps) : ps[q].lvl = ps[c].lvl + 1 /\ \E j \in 1..Len(ps[q].slots) :
                 ps[q].slots[j].key = x /\ ps[q].slots[j].child = c
      BY <3>1 DEF Posted
    <3> QED  BY <3>1, <3>2, <1>8, <1>9
  <2>5. Fence(qs, h, c) = Fence(ps, h, c)
    BY <2>1, <1>2
  <2>6. CASE c = d.c
    <3>1. \A f \in w : c \in {f.c, f.r} => f = d
      BY <2>6, <1>4
    <3>2. \A f \in v : c \notin {f.c, f.r}
      BY <3>1 DEF v
    <3>3. Expected(qs, h, v, x, c) <=> x = d.low
      BY <3>2, <2>5, <2>6, <1>6 DEF Expected
    <3>4. Expected(ps, h, w, x, c) <=> x = d.fence \/ x = d.low
      BY <3>1, <2>6, <1>6 DEF Expected
    <3> QED  BY <3>3, <3>4, <2>2, <2>3, <2>6, <1>6, <1>7
  <2>7. CASE c = d.r
    <3>1. \A f \in w : c \in {f.c, f.r} => f = d
      BY <2>7, <1>4
    <3>2. \A f \in v : c \notin {f.c, f.r}
      BY <3>1 DEF v
    <3>3. Expected(qs, h, v, x, c) <=> x = d.fence
      BY <3>2, <2>5, <2>7, <1>6 DEF Expected
    <3>4. ~Expected(ps, h, w, x, c)
      BY <3>1, <2>7, <1>6 DEF Expected
    <3> QED  BY <3>3, <3>4, <2>2, <2>3, <2>7
  <2>8. CASE c # d.c /\ c # d.r
    <3>1. \A f \in w : c \in {f.c, f.r} => f \in v
      BY <2>8 DEF v
    <3>2. \A f \in v : f \in w
      BY DEF v
    <3>3. Expected(qs, h, v, x, c) <=> Expected(ps, h, w, x, c)
      BY <3>1, <3>2, <2>5 DEF Expected
    <3> QED  BY <3>3, <2>2, <2>3, <2>4, <2>8
  <2> QED  BY <2>6, <2>7, <2>8
<1>11. Fenced(qs, h, v)
  <2>1. \A f \in v : PostOK(qs, h, f)
    BY <1>3
  <2>2. \A f, a \in v : f # a => {f.c, f.r} \intersect {a.c, a.r} = {}
    BY <1>5
  <2> QED  BY <2>1, <2>2, <1>2, <1>10 DEF Fenced
<1> QED  BY <1>11 DEF v

-----------------------------------------------------------------------------
(* Pages are split: the fences                                             *)

\* Page p is split: its upper half is hidden behind it.
LEMMA HalfHidden ==
  ASSUME NEW ps, NEW qs, NEW p, NEW m, NEW h, NEW w, PagesOK(ps), Ordered(ps), Fenced(ps, h, w),
         PagesOK(qs), Pieces(ps, qs, p, m), p \notin h, ps[p].right \notin h
  PROVE  Fenced(qs, h \union {Len(ps) + 1}, w)
<1> DEFINE n == Len(ps)
           r == Len(ps) + 1
           g == h \union {Len(ps) + 1}
<1>1. /\ p \in 1..n /\ p # Root /\ Len(qs) = r /\ Divided(ps, qs, p, m, p, r)
      /\ \A q \in 1..n : qs[q].lvl = ps[q].lvl
      /\ \A q \in 1..n : q # p => qs[q].slots = ps[q].slots /\ qs[q].right = ps[q].right
      /\ qs[p].right = r /\ qs[r].lvl = ps[p].lvl /\ qs[r].right = ps[p].right
  BY DEF Pieces
<1>2. /\ \A q \in 1..n : q # p => Hi(qs, q) = Hi(ps, q)
      /\ Hi(qs, r) = Hi(ps, p)
  BY SplitOrder
<1>3. /\ n \in Nat /\ r \in 1..r /\ r \notin 1..n /\ 1..n \subseteq 1..r
      /\ \A q \in 1..r : q = r \/ q \in 1..n
      /\ r # NoPage
  BY PagesTyped DEF NoPage
<1>4. /\ Root \in 1..n /\ \A q \in 1..n : ps[q].lvl \in Nat /\ (q # Root => ps[q].lvl < ps[Root].lvl)
      /\ ps[Root].lvl \in Nat
  BY RootLevel
<1>5. /\ \A q \in 1..n : ps[q].right \in {NoPage} \union 1..n
      /\ \A q \in 1..n : ps[q].lvl > 0 => \A i \in 1..Len(ps[q].slots) : ps[q].slots[i].child \in 1..n
  BY DEF PagesOK, PageOK
<1>6. /\ \A a \in h : HostOK(ps, h, a)
      /\ \A e \in w : PostOK(ps, h, e)
      /\ \A e, d \in w : e # d => {e.c, e.r} \intersect {d.c, d.r} = {}
      /\ \A c \in 1..n : ps[c].lvl < ps[Root].lvl =>
           \A x \in KeySet : Posted(ps, x, c) <=> Expected(ps, h, w, x, c)
  BY DEF Fenced
<1>7. h \subseteq 1..n
  BY <1>6 DEF HostOK, n
<1>8. Halved(ps[p].slots, qs[p].slots, qs[r].slots)
  BY <1>1, DividedOrder
<1> HIDE DEF n, r, g
<1>9. ASSUME NEW c \in 1..n PROVE Fence(qs, g, c) = Fence(ps, h, c)
  <2>1. CASE c = p
    <3>1. qs[p].right \in g
      BY <1>1 DEF g, r
    <3> QED  BY <2>1, <3>1, <1>1, <1>2 DEF Fence
  <2>2. CASE c # p
    <3>1. qs[c].right = ps[c].right /\ ps[c].right # r
      BY <2>2, <1>1, <1>3, <1>5
    <3>2. qs[c].right \in g <=> ps[c].right \in h
      BY <3>1 DEF g, r
    <3>3. CASE ps[c].right \in h
      <4>1. ps[c].right # p /\ ps[c].right \in 1..n
        BY <3>3, <1>7
      <4> QED  BY <3>1, <3>2, <3>3, <4>1, <1>2 DEF Fence
    <3>4. CASE ps[c].right \notin h
      BY <2>2, <3>2, <3>4, <1>2 DEF Fence
    <3> QED  BY <3>3, <3>4
  <2> QED  BY <2>1, <2>2
<1>10. ASSUME NEW a \in g PROVE HostOK(qs, g, a)
  <2>1. CASE a = r
    <3>1. p \in 1..Len(qs) /\ p \notin g /\ qs[p].right = r
      BY <1>1, <1>3 DEF g, r
    <3>2. qs[r].lvl < qs[Root].lvl
      BY <1>1, <1>4
    <3> QED  BY <2>1, <3>1, <3>2, <1>1, <1>3 DEF HostOK
  <2>2. CASE a \in h
    <3>1. a \in 1..n /\ ps[a].lvl < ps[Root].lvl
      BY <2>2, <1>6 DEF HostOK, n
    <3>2. PICK c \in 1..n : c \notin h /\ ps[c].right = a
      BY <2>2, <1>6 DEF HostOK, n
    <3>3. c # p
      BY <3>2, <2>2
    <3>4. c \in 1..Len(qs) /\ c \notin g /\ qs[c].right = a
      BY <3>2, <3>3, <1>1, <1>3 DEF g, r
    <3>5. a \in 1..Len(qs) /\ qs[a].lvl < qs[Root].lvl
      BY <3>1, <1>1, <1>3, <1>4
    <3> QED  BY <3>4, <3>5 DEF HostOK
  <2> QED  BY <2>1, <2>2 DEF g, r
<1>11. ASSUME NEW e \in w PROVE PostOK(qs, g, e)
  <2>1. /\ e.c \in 1..n /\ e.r \in 1..n /\ e.c # e.r /\ e.c \notin h /\ e.r \notin h
        /\ ps[e.c].lvl = ps[e.r].lvl /\ ps[e.c].lvl < ps[Root].lvl
        /\ Fence(ps, h, e.c) = e.low /\ Fence(ps, h, e.r) = e.fence /\ e.low < e.fence
        /\ \A z \in 1..n : ps[z].lvl = ps[e.c].lvl /\ z \notin h =>
             Fence(ps, h, z) <= e.low \/ e.fence <= Fence(ps, h, z)
    BY <1>6 DEF PostOK, n
  <2>2. e.c \notin g /\ e.r \notin g /\ e.c \in 1..r /\ e.r \in 1..r
    BY <2>1, <1>3 DEF g, r
  <2>3. ASSUME NEW z \in 1..r, qs[z].lvl = qs[e.c].lvl, z \notin g
        PROVE  Fence(qs, g, z) <= e.low \/ e.fence <= Fence(qs, g, z)
    <3>1. z \in 1..n /\ z \notin h
      BY <2>3, <1>3 DEF g, r
    <3> QED  BY <3>1, <2>1, <2>3, <1>1, <1>9
  <2> QED  BY <2>1, <2>2, <2>3, <1>1, <1>4, <1>9 DEF PostOK
<1>12. ASSUME NEW c \in 1..r, qs[c].lvl < qs[Root].lvl, NEW x \in KeySet
       PROVE  Posted(qs, x, c) <=> Expected(qs, g, w, x, c)
  <2>1. ASSUME NEW q \in 1..r, qs[q].lvl = qs[c].lvl + 1, NEW j \in 1..Len(qs[q].slots),
               qs[q].slots[j].key = x, qs[q].slots[j].child = c
        PROVE  c \in 1..n /\ Posted(ps, x, c)
    <3> DEFINE o == IF q = r THEN p ELSE q
    <3>1. o \in 1..n /\ ps[o].lvl = qs[q].lvl
      BY <1>1, <1>3
    <3>2. PICK i \in 1..Len(ps[o].slots) : ps[o].slots[i] = qs[q].slots[j]
      <4>1. CASE q = r
        BY <4>1, <2>1, <1>8 DEF Halved
      <4>2. CASE q = p /\ q # r
        BY <4>2, <2>1, <1>8 DEF Halved
      <4>3. CASE q # p /\ q # r
        BY <4>3, <2>1, <1>1, <1>3
      <4> QED  BY <4>1, <4>2, <4>3
    <3>3. qs[c].lvl \in Nat
      BY <1>1, <1>3, <1>4, <1>12
    <3>4. c \in 1..n
      <4>1. ps[o].lvl > 0
        BY <3>1, <3>3, <2>1
      <4>2. c = ps[o].slots[i].child
        BY <3>2, <2>1
      <4> HIDE DEF o
      <4> QED  BY <4>1, <4>2, <3>1, <1>5
    <3>5. ps[o].lvl = ps[c].lvl + 1
      BY <3>1, <3>4, <2>1, <1>1
    <3> QED  BY <3>1, <3>2, <3>4, <3>5, <2>1 DEF Posted, n
  <2>2. CASE c = r
    <3>1. ~Posted(qs, x, c)
      BY <2>1, <2>2, <1>1, <1>3 DEF Posted
    <3>2. c \in g
      BY <2>2 DEF g, r
    <3> QED  BY <3>1, <3>2 DEF Expected
  <2>3. CASE c \in 1..n
    <3>1. ps[c].lvl < ps[Root].lvl /\ qs[c].lvl = ps[c].lvl
      BY <2>3, <1>1, <1>4, <1>12
    <3>2. Posted(ps, x, c) <=> Expected(ps, h, w, x, c)
      BY <2>3, <3>1, <1>6
    <3>3. Expected(qs, g, w, x, c) <=> Expected(ps, h, w, x, c)
      <4>1. c \in g <=> c \in h
        BY <2>3, <1>3 DEF g, r
      <4> QED  BY <4>1, <2>3, <1>9 DEF Expected
    <3>4. Posted(qs, x, c) => Posted(ps, x, c)
      BY <2>1, <1>1 DEF Posted
    <3>5. ASSUME Posted(ps, x, c) PROVE Posted(qs, x, c)
      <4>1. PICK q \in 1..n : ps[q].lvl = ps[c].lvl + 1 /\ \E i \in 1..Len(ps[q].slots) :
                   ps[q].slots[i].key = x /\ ps[q].slots[i].child = c
        BY <3>5 DEF Posted, n
      <4>2. CASE q = p
        <5>1. PICK i \in 1..Len(ps[p].slots) : ps[p].slots[i].key = x /\ ps[p].slots[i].child = c
          BY <4>1, <4>2
        <5>2. \/ \E j \in 1..Len(qs[p].slots) : qs[p].slots[j] = ps[p].slots[i]
              \/ \E j \in 1..Len(qs[r].slots) : qs[r].slots[j] = ps[p].slots[i]
          BY <1>8 DEF Halved
        <5>3. qs[p].lvl = qs[c].lvl + 1 /\ qs[r].lvl = qs[c].lvl + 1 /\ p \in 1..r
          BY <3>1, <4>1, <4>2, <1>1, <1>3
        <5>4. \E y \in {p, r} : \E j \in 1..Len(qs[y].slots) :
                qs[y].slots[j].key = x /\ qs[y].slots[j].child = c
          BY <5>1, <5>2
        <5> QED  BY <5>3, <5>4, <1>1, <1>3 DEF Posted
      <4>3. CASE q # p
        <5>1. q \in 1..r /\ qs[q].slots = ps[q].slots /\ qs[q].lvl = qs[c].lvl + 1
          BY <3>1, <4>1, <4>3, <1>1, <1>3
        <5> QED  BY <4>1, <5>1, <1>1 DEF Posted
      <4> QED  BY <4>2, <4>3
    <3> QED  BY <3>2, <3>3, <3>4, <3>5
  <2> QED  BY <2>2, <2>3, <1>3
<1>13. Fenced(qs, g, w)
  BY <1>1, <1>6, <1>10, <1>11, <1>12 DEF Fenced
<1> QED  BY <1>13 DEF g

\* The root is split: it leads to its two halves.
LEMMA RootHalves ==
  ASSUME NEW ps, NEW qs, NEW m, NEW h, NEW w, PagesOK(ps), Ordered(ps), Fenced(ps, h, w),
         PagesOK(qs), RootPieces(ps, qs, m)
  PROVE  Fenced(qs, h, w)
<1> DEFINE n == Len(ps)
           r == Len(ps) + 1
           l == Len(ps) + 2
           L == ps[Root].lvl
           k == ps[Root].slots[m].key
<1>1. /\ Len(qs) = l /\ Divided(ps, qs, Root, m, l, r)
      /\ \A q \in 1..n : q # Root => qs[q] = ps[q]
      /\ qs[Root].lvl = L + 1 /\ qs[Root].right = NoPage /\ Len(qs[Root].slots) = 2
      /\ qs[Root].slots[1] = Slot(k, l, FALSE)
      /\ qs[Root].slots[2] = Slot(Stopper, r, FALSE)
      /\ qs[r].lvl = L /\ qs[r].right = NoPage
      /\ qs[l].lvl = L /\ qs[l].right = r
  BY DEF RootPieces
<1>2. /\ n \in Nat /\ n >= 2 /\ 1..n \subseteq 1..l /\ r \in 1..l /\ l \in 1..l /\ r \notin 1..n /\ l \notin 1..n
      /\ r # l /\ NoPage \notin 1..l /\ \A q \in 1..l : q = r \/ q = l \/ q = Root \/ (q \in 1..n /\ q # Root)
  BY PagesTyped DEF NoPage
<1>3. /\ Root \in 1..n /\ L \in Nat /\ L > 0 /\ ps[Root].right = NoPage
      /\ \A q \in 1..n : q # Root => ps[q].lvl \in Nat /\ ps[q].lvl < L
  BY RootLevel
<1>4. /\ Halved(ps[Root].slots, qs[l].slots, qs[r].slots)
      /\ Hi(qs, l) = k /\ Hi(qs, l) < Hi(qs, r)
  <2>1. /\ Divided(ps, qs, Root, m, l, r) /\ Root \in 1..Len(ps)
        /\ qs[l].lvl = ps[Root].lvl /\ qs[r].lvl = ps[Root].lvl
    BY <1>1, <1>3
  <2> HIDE DEF n, r, l, L
  <2> QED  BY <2>1, DividedOrder
<1>5. /\ \A q \in 1..n : q # Root => Hi(qs, q) = Hi(ps, q)
      /\ Hi(qs, r) = Stopper
  BY RootSplitOrder
<1>6. /\ \A a \in h : HostOK(ps, h, a)
      /\ \A e \in w : PostOK(ps, h, e)
      /\ \A e, d \in w : e # d => {e.c, e.r} \intersect {d.c, d.r} = {}
      /\ \A c \in 1..n : ps[c].lvl < L =>
           \A x \in KeySet : Posted(ps, x, c) <=> Expected(ps, h, w, x, c)
  BY DEF Fenced
<1>7. h \subseteq 1..n /\ Root \notin h
  <2>1. \A a \in h : a \in 1..n /\ ps[a].lvl < L
    BY <1>6 DEF HostOK
  <2> QED  BY <2>1, <1>3
<1>8. \A e \in w : e.c \in 1..n /\ e.r \in 1..n /\ e.c # Root /\ e.r # Root
  <2>1. \A e \in w : e.c \in 1..n /\ e.r \in 1..n /\ ps[e.c].lvl < L /\ ps[e.r].lvl = ps[e.c].lvl
    BY <1>6 DEF PostOK
  <2> QED  BY <2>1, <1>3
<1>9. \A q \in 1..n : q # Root /\ ps[q].right # NoPage => ps[q].right \in 1..n /\ ps[q].right # Root
  <2>1. ASSUME NEW q \in 1..n, q # Root, ps[q].right # NoPage
        PROVE  ps[q].right \in 1..n /\ ps[q].right # Root
    <3>1. ps[q].right \in 1..n /\ ps[ps[q].right].lvl = ps[q].lvl
      BY <2>1, RightLink
    <3>2. ps[q].lvl < L /\ ps[q].lvl \in Nat
      BY <2>1, <1>3
    <3> QED  BY <3>1, <3>2, <1>3
  <2> QED  BY <2>1
<1>10. \A q \in 1..n : ps[q].lvl > 0 => \A i \in 1..Len(ps[q].slots) : ps[q].slots[i].child \in 1..n
  BY DEF PagesOK, PageOK
<1> HIDE DEF n, r, l, L, k
<1>11. ASSUME NEW c \in 1..n, c # Root PROVE Fence(qs, h, c) = Fence(ps, h, c) /\ qs[c].lvl = ps[c].lvl
  <2>1. qs[c].right = ps[c].right /\ qs[c].lvl = ps[c].lvl
    BY <1>1, <1>11
  <2>2. CASE ps[c].right \in h
    BY <2>1, <2>2, <1>5, <1>7 DEF Fence
  <2>3. CASE ps[c].right \notin h
    BY <2>1, <2>3, <1>5, <1>11 DEF Fence
  <2> QED  BY <2>1, <2>2, <2>3
<1>12. ASSUME NEW a \in h PROVE HostOK(qs, h, a)
  <2>1. a \in 1..n /\ a # Root /\ ps[a].lvl < L /\ ps[a].lvl \in Nat
    BY <1>3, <1>7
  <2>2. PICK c \in 1..n : c \notin h /\ ps[c].right = a
    BY <1>6 DEF HostOK, n
  <2>3. c # Root /\ qs[c].right = a /\ c \in 1..Len(qs)
    BY <2>1, <2>2, <1>1, <1>2, <1>3
  <2>4. a \in 1..Len(qs) /\ qs[a].lvl < qs[Root].lvl
    BY <2>1, <1>1, <1>2, <1>3
  <2> QED  BY <2>2, <2>3, <2>4 DEF HostOK
<1>13. \A z \in 1..l : qs[z].lvl < L => z \in 1..n /\ z # Root
  BY <1>1, <1>2, <1>3
<1>14. ASSUME NEW e \in w PROVE PostOK(qs, h, e)
  <2>1. /\ e.c \in 1..n /\ e.r \in 1..n /\ e.c # e.r /\ e.c \notin h /\ e.r \notin h
        /\ ps[e.c].lvl = ps[e.r].lvl /\ ps[e.c].lvl < L
        /\ Fence(ps, h, e.c) = e.low /\ Fence(ps, h, e.r) = e.fence /\ e.low < e.fence
        /\ \A z \in 1..n : ps[z].lvl = ps[e.c].lvl /\ z \notin h =>
             Fence(ps, h, z) <= e.low \/ e.fence <= Fence(ps, h, z)
    BY <1>6 DEF PostOK, n, L
  <2>2. e.c # Root /\ e.r # Root /\ qs[e.c].lvl = ps[e.c].lvl /\ qs[e.r].lvl = ps[e.r].lvl
        /\ ps[e.c].lvl \in Nat
    BY <2>1, <1>3, <1>8, <1>11
  <2>3. ASSUME NEW z \in 1..l, qs[z].lvl = qs[e.c].lvl, z \notin h
        PROVE  Fence(qs, h, z) <= e.low \/ e.fence <= Fence(qs, h, z)
    <3>1. z \in 1..n /\ z # Root
      BY <2>1, <2>2, <2>3, <1>13
    <3> QED  BY <3>1, <2>1, <2>2, <2>3, <1>11
  <2>4. e.c \in 1..l /\ e.r \in 1..l /\ qs[e.c].lvl < qs[Root].lvl
    BY <2>1, <2>2, <1>1, <1>2, <1>3
  <2>5. Fence(qs, h, e.c) = e.low /\ Fence(qs, h, e.r) = e.fence
    BY <2>1, <2>2, <1>11
  <2> QED  BY <2>1, <2>2, <2>3, <2>4, <2>5, <1>1 DEF PostOK
<1>15. ASSUME NEW c \in 1..l, qs[c].lvl < qs[Root].lvl, NEW x \in KeySet
       PROVE  Posted(qs, x, c) <=> Expected(qs, h, w, x, c)
  <2>1. CASE c \in {r, l}
    <3>1. c \notin h /\ \A e \in w : c # e.c /\ c # e.r
      BY <2>1, <1>2, <1>7, <1>8
    <3>2. Fence(qs, h, l) = k /\ Fence(qs, h, r) = Stopper
      <4>1. r \notin h /\ NoPage \notin h
        BY <1>2, <1>7
      <4> QED  BY <4>1, <1>1, <1>4, <1>5 DEF Fence
    <3>3. Expected(qs, h, w, x, c) <=> x = IF c = l THEN k ELSE Stopper
      BY <2>1, <3>1, <3>2 DEF Expected
    <3>4. \A q \in 1..l : qs[q].lvl = qs[c].lvl + 1 <=> q = Root
      BY <2>1, <1>1, <1>2, <1>3
    <3>5. Posted(qs, x, c) <=> \E i \in 1..2 : qs[Root].slots[i].key = x /\ qs[Root].slots[i].child = c
      BY <3>4, <1>1, <1>2, <1>3, SMTT(30) DEF Posted
    <3>6. \A i : i \in 1..2 <=> i = 1 \/ i = 2
      OBVIOUS
    <3>7. /\ qs[Root].slots[1].key = k /\ qs[Root].slots[1].child = l
          /\ qs[Root].slots[2].key = Stopper /\ qs[Root].slots[2].child = r
      BY <1>1 DEF Slot
    <3> QED  BY <2>1, <3>3, <3>5, <3>6, <3>7, <1>2
  <2>2. CASE c \in 1..n /\ c # Root
    <3>1. ps[c].lvl < L /\ ps[c].lvl \in Nat /\ qs[c].lvl = ps[c].lvl /\ Fence(qs, h, c) = Fence(ps, h, c)
      BY <2>2, <1>3, <1>11
    <3>2. Posted(ps, x, c) <=> Expected(ps, h, w, x, c)
      BY <2>2, <3>1, <1>6
    <3>3. Expected(qs, h, w, x, c) <=> Expected(ps, h, w, x, c)
      BY <3>1 DEF Expected
    <3>4. qs[Root].lvl # qs[c].lvl + 1
      BY <3>1, <1>1, <1>3
    <3>5. ASSUME Posted(qs, x, c) PROVE Posted(ps, x, c)
      <4>1. PICK q \in 1..l : qs[q].lvl = qs[c].lvl + 1 /\ \E j \in 1..Len(qs[q].slots) :
                   qs[q].slots[j].key = x /\ qs[q].slots[j].child = c
        BY <3>5, <1>1 DEF Posted
      <4>2. CASE q \in {r, l}
        <5>1. PICK j \in 1..Len(qs[q].slots) : qs[q].slots[j].key = x /\ qs[q].slots[j].child = c
          BY <4>1
        <5>2. PICK i \in 1..Len(ps[Root].slots) : ps[Root].slots[i] = qs[q].slots[j]
          <6>1. CASE q = r
            BY <6>1, <5>1, <1>4 DEF Halved
          <6>2. CASE q = l
            BY <6>2, <5>1, <1>4 DEF Halved
          <6> QED  BY <6>1, <6>2, <4>2
        <5>3. ps[Root].lvl = ps[c].lvl + 1
          BY <4>1, <4>2, <3>1, <1>1 DEF L
        <5> QED  BY <5>1, <5>2, <5>3, <1>3 DEF Posted, n
      <4>3. CASE q \in 1..n /\ q # Root
        BY <4>1, <4>3, <3>1, <1>1 DEF Posted, n
      <4> QED  BY <4>1, <4>2, <4>3, <3>4, <1>2
    <3>6. ASSUME Posted(ps, x, c) PROVE Posted(qs, x, c)
      <4>1. PICK q \in 1..n : ps[q].lvl = ps[c].lvl + 1 /\ \E i \in 1..Len(ps[q].slots) :
                   ps[q].slots[i].key = x /\ ps[q].slots[i].child = c
        BY <3>6 DEF Posted, n
      <4>2. CASE q = Root
        <5>1. PICK i \in 1..Len(ps[Root].slots) : ps[Root].slots[i].key = x /\ ps[Root].slots[i].child = c
          BY <4>1, <4>2
        <5>2. \/ \E j \in 1..Len(qs[l].slots) : qs[l].slots[j] = ps[Root].slots[i]
              \/ \E j \in 1..Len(qs[r].slots) : qs[r].slots[j] = ps[Root].slots[i]
          BY <1>4 DEF Halved
        <5>3. qs[l].lvl = qs[c].lvl + 1 /\ qs[r].lvl = qs[c].lvl + 1
          BY <3>1, <4>1, <4>2, <1>1 DEF L
        <5>4. \E y \in {l, r} : \E j \in 1..Len(qs[y].slots) :
                qs[y].slots[j].key = x /\ qs[y].slots[j].child = c
          BY <5>1, <5>2
        <5> QED  BY <5>3, <5>4, <1>1, <1>2 DEF Posted
      <4>3. CASE q # Root
        BY <4>1, <4>3, <3>1, <1>1, <1>2 DEF Posted
      <4> QED  BY <4>2, <4>3
    <3> QED  BY <3>2, <3>3, <3>5, <3>6
  <2>3. c # Root
    BY <1>1, <1>3, <1>15
  <2> QED  BY <2>1, <2>2, <2>3, <1>2
<1> QED  BY <1>1, <1>6, <1>12, <1>14, <1>15 DEF Fenced

\* The split of page c gets its parent locks: its right half is no longer
\* hidden, and both fences are to be posted.
LEMMA HalfShown ==
  ASSUME NEW ps, NEW h, NEW w, PagesOK(ps), Ordered(ps), Fenced(ps, h, w),
         NEW c \in 1..Len(ps), NEW r \in h, ps[c].right = r,
         NEW d, d.c = c, d.r = r, d.low = Hi(ps, c), d.fence = Hi(ps, r), ~d.half,
         \A e \in w : c \notin {e.c, e.r}
  PROVE  Fenced(ps, h \ {r}, w \union {d})
<1> DEFINE g == h \ {r}
           v == w \union {d}
           n == Len(ps)
<1>1. /\ \A a \in h : HostOK(ps, h, a)
      /\ \A e \in w : PostOK(ps, h, e)
      /\ \A e, f \in w : e # f => {e.c, e.r} \intersect {f.c, f.r} = {}
      /\ \A y \in 1..n : ps[y].lvl < ps[Root].lvl =>
           \A x \in KeySet : Posted(ps, x, y) <=> Expected(ps, h, w, x, y)
  BY DEF Fenced
<1>2. /\ \A y \in 1..n :
           /\ Fence(ps, h, y) \in KeySet /\ Fence(ps, h, y) \in Nat
           /\ ps[y].right \in h => y \notin h /\ Fence(ps, h, y) = Hi(ps, ps[y].right)
           /\ ps[y].right \notin h => Fence(ps, h, y) = Hi(ps, y)
      /\ \A y, z \in 1..n : ps[y].lvl = ps[z].lvl /\ y # z /\ y \notin h /\ z \notin h =>
           Fence(ps, h, y) # Fence(ps, h, z)
  <2>1. \A y \in 1..Len(ps) :
           /\ Fence(ps, h, y) \in KeySet /\ Fence(ps, h, y) \in Nat
           /\ ps[y].right \in h => y \notin h /\ Fence(ps, h, y) = Hi(ps, ps[y].right)
           /\ ps[y].right \notin h => Fence(ps, h, y) = Hi(ps, y)
    BY FencesOf
  <2>2. \A y, z \in 1..Len(ps) : ps[y].lvl = ps[z].lvl /\ y # z /\ y \notin h /\ z \notin h =>
           Fence(ps, h, y) # Fence(ps, h, z)
    BY FencesOf
  <2> QED  BY <2>1, <2>2
<1>3. r \in 1..n /\ ps[r].lvl < ps[Root].lvl /\ r # NoPage
  BY <1>1 DEF HostOK, NoPage
<1>4. /\ r # c /\ ps[r].lvl = ps[c].lvl /\ Hi(ps, c) < Hi(ps, r)
      /\ \A z \in 1..n : ps[z].lvl = ps[c].lvl => Hi(ps, z) <= Hi(ps, c) \/ Hi(ps, r) <= Hi(ps, z)
      /\ \A z \in 1..n : ps[z].right = r => z = c
  BY <1>3, RightLink
<1>5. c \notin h /\ Fence(ps, h, c) = Hi(ps, r)
  BY <1>2
<1>6. ps[r].right \notin h
  BY <1>2, <1>3
<1>7. \A z \in 1..n : Hi(ps, z) \in Nat
  BY HighKeys
<1>8. \A e \in w : r \notin {e.c, e.r}
  BY <1>1 DEF PostOK
<1> HIDE DEF g, v, n
<1>9. ASSUME NEW y \in 1..n, y # c PROVE Fence(ps, g, y) = Fence(ps, h, y)
  BY <1>4, <1>9 DEF Fence, g
<1>10. Fence(ps, g, c) = Hi(ps, c) /\ Fence(ps, g, r) = Hi(ps, r)
  BY <1>2, <1>3, <1>4, <1>6, <1>9 DEF Fence, g
<1>11. ASSUME NEW a \in g PROVE HostOK(ps, g, a)
  BY <1>1 DEF HostOK, g
\* No page that is not hidden has its fence strictly between those of the halves.
<1>12. ASSUME NEW z \in 1..n, ps[z].lvl = ps[c].lvl, z \notin g
       PROVE  Fence(ps, g, z) <= Hi(ps, c) \/ Hi(ps, r) <= Fence(ps, g, z)
  <2>1. CASE ps[z].right \in g
    <3>1. ps[z].right \in h /\ ps[z].right # NoPage
      BY <2>1, <1>1 DEF g, HostOK, NoPage
    <3>2. ps[z].right \in 1..n /\ ps[ps[z].right].lvl = ps[z].lvl
      BY <3>1, RightLink DEF n
    <3> QED  BY <2>1, <3>2, <1>4, <1>12 DEF Fence
  <2>2. CASE ps[z].right \notin g
    BY <2>2, <1>4, <1>12 DEF Fence
  <2> QED  BY <2>1, <2>2
<1>13. PostOK(ps, g, d)
  BY <1>3, <1>4, <1>5, <1>10, <1>12 DEF PostOK, g, n
<1>14. ASSUME NEW e \in w PROVE PostOK(ps, g, e)
  <2>1. /\ e.c \in 1..n /\ e.r \in 1..n /\ e.c # e.r /\ e.c \notin h /\ e.r \notin h
        /\ ps[e.c].lvl = ps[e.r].lvl /\ ps[e.c].lvl < ps[Root].lvl
        /\ Fence(ps, h, e.c) = e.low /\ Fence(ps, h, e.r) = e.fence /\ e.low < e.fence
        /\ \A z \in 1..n : ps[z].lvl = ps[e.c].lvl /\ z \notin h =>
             Fence(ps, h, z) <= e.low \/ e.fence <= Fence(ps, h, z)
    BY <1>1 DEF PostOK, n
  <2>2. c # e.c /\ c # e.r
    OBVIOUS
  <2>3. ASSUME NEW z \in 1..n, ps[z].lvl = ps[e.c].lvl, z \notin g
        PROVE  Fence(ps, g, z) <= e.low \/ e.fence <= Fence(ps, g, z)
    <3>1. CASE z # c /\ z # r
      BY <3>1, <2>1, <2>3, <1>9 DEF g
    <3>2. CASE z = r
      <4>1. Fence(ps, h, c) <= e.low \/ e.fence <= Fence(ps, h, c)
        BY <2>1, <2>3, <3>2, <1>4, <1>5 DEF n
      <4> QED  BY <3>2, <4>1, <1>5, <1>10
    <3>3. CASE z = c
      <4>1. Hi(ps, r) <= e.low \/ e.fence <= Hi(ps, r)
        BY <2>1, <2>3, <3>3, <1>5
      <4>2. e.fence # Hi(ps, r)
        BY <2>1, <2>2, <2>3, <3>3, <1>2, <1>5
      <4>3. e.fence = Fence(ps, g, e.r) /\ e.r \notin g /\ ps[e.r].lvl = ps[c].lvl
        BY <2>1, <2>2, <2>3, <3>3, <1>9 DEF g
      <4>4. e.fence <= Hi(ps, c) \/ Hi(ps, r) <= e.fence
        BY <4>3, <2>1, <1>12
      <4>5. e.fence \in Nat /\ e.low \in Nat /\ Hi(ps, c) \in Nat /\ Hi(ps, r) \in Nat
        BY <2>1, <1>2, <1>3, <1>7 DEF n
      <4>6. Hi(ps, c) <= e.low \/ e.fence <= Hi(ps, c)
        BY <4>1, <4>2, <4>4, <4>5, <1>4
      <4> QED  BY <4>6, <3>3, <1>10
    <3> QED  BY <3>1, <3>2, <3>3
  <2> QED  BY <2>1, <2>2, <2>3, <1>9 DEF PostOK, g, n
<1>15. \A e, f \in v : e # f => {e.c, e.r} \intersect {f.c, f.r} = {}
  BY <1>1, <1>8 DEF v
<1>16. ASSUME NEW y \in 1..n, ps[y].lvl < ps[Root].lvl, NEW x \in KeySet
       PROVE  Posted(ps, x, y) <=> Expected(ps, g, v, x, y)
  <2>1. Posted(ps, x, y) <=> Expected(ps, h, w, x, y)
    BY <1>1, <1>16
  <2>2. CASE y = c
    <3>1. \A e \in v : e.c = c => e = d
      BY DEF v
    <3>2. d \in v /\ c \notin g
      BY <1>5 DEF v, g
    <3>3. Expected(ps, g, v, x, c) <=> x = Hi(ps, r)
      BY <3>1, <3>2 DEF Expected
    <3>4. Expected(ps, h, w, x, c) <=> x = Hi(ps, r)
      BY <1>5 DEF Expected
    <3> QED  BY <2>1, <2>2, <3>3, <3>4
  <2>3. CASE y = r
    <3>1. ~Expected(ps, h, w, x, r)
      BY DEF Expected
    <3>2. \A e \in v : e.c # r
      BY <1>4, <1>8 DEF v
    <3>3. ~Expected(ps, g, v, x, r)
      <4>1. d \in v
        BY DEF v
      <4> QED  BY <3>2, <4>1 DEF Expected
    <3> QED  BY <2>1, <2>3, <3>1, <3>3
  <2>4. CASE y # c /\ y # r
    <3>1. Fence(ps, g, y) = Fence(ps, h, y) /\ (y \in g <=> y \in h)
      BY <2>4, <1>9 DEF g
    <3>2. \A e \in v : y \in {e.c, e.r} => e \in w
      BY <2>4 DEF v
    <3>3. \A e \in w : e \in v
      BY DEF v
    <3>4. Expected(ps, g, v, x, y) <=> Expected(ps, h, w, x, y)
      BY <3>1, <3>2, <3>3 DEF Expected
    <3> QED  BY <2>1, <3>4
  <2> QED  BY <2>2, <2>3, <2>4
<1>17. \A e \in v : PostOK(ps, g, e)
  BY <1>13, <1>14 DEF v
<1>18. Fenced(ps, g, v)
  BY <1>11, <1>15, <1>16, <1>17 DEF Fenced, n
<1> QED  BY <1>18 DEF g, v

-----------------------------------------------------------------------------
(* Frames that wait, and the splits they wait for                          *)

\* The members of Hidden.
LEMMA HiddenMembers ==
  ASSUME NEW stk
  PROVE  \A x : x \in Hidden(stk) <=>
           \E u \in Threads : stk[u] # <<>> /\ stk[u][1].at = "split" /\ x = stk[u][1].right
BY DEF Hidden

\* The members of Posts.
LEMMA PostMembers ==
  ASSUME NEW stk
  PROVE  \A e : e \in Posts(stk) <=> \E u \in Threads : \E i \in 2..Len(stk[u]) : e = Post(stk[u], i)
BY DEF Posts

\* A frame that waits is for its own page.
LEMMA OnePost ==
  ASSUME IInv, LInv
  PROVE  \A u, v \in Threads : \A i \in 2..Len(stack[u]), j \in 2..Len(stack[v]) :
           stack[u][i].pageNo = stack[v][j].pageNo => u = v /\ i = j
<1>1. ASSUME NEW w \in Threads, NEW l \in 2..Len(stack[w]), NEW p, p = stack[w][l].pageNo
      PROVE  /\ p \in Pages /\ plock[p] = w /\ pages[p].lvl = Len(stack[w]) - l
             /\ l \in Nat /\ Len(stack[w]) \in Nat
  <2>1. StackOK(pages, stack[w]) /\ Len(stack[w]) \in Nat /\ l \in 1..Len(stack[w]) /\ l > 1 /\ l \in Nat
    BY DEF IInv, StacksOK, StackOK
  <2>2. FrameOK(pages, stack[w][l]) /\ stack[w][l].at = "parent" /\ stack[w][l].lvl = Len(stack[w]) - l
    BY <2>1 DEF StackOK
  <2>3. p \in 1..Len(pages) /\ pages[p].lvl = stack[w][l].lvl
    BY <2>2, <1>1 DEF FrameOK
  <2>4. Waits(stack[w][l], p) /\ p \in Pages
    BY <2>2, <2>3, <1>1, PagesAreNumbered DEF Waits
  <2>5. plock[p] = w
    BY <2>1, <2>4 DEF LInv, ParentLocks
  <2> QED  BY <2>1, <2>2, <2>3, <2>4, <2>5
<1>2. SUFFICES ASSUME NEW u \in Threads, NEW v \in Threads, NEW i \in 2..Len(stack[u]),
                      NEW j \in 2..Len(stack[v]), stack[u][i].pageNo = stack[v][j].pageNo
               PROVE  u = v /\ i = j
  OBVIOUS
<1>3. u = v
  BY <1>1, <1>2
<1>4. pages[stack[u][i].pageNo].lvl = Len(stack[u]) - i /\ i \in Nat /\ Len(stack[u]) \in Nat
  BY <1>1
<1>5. pages[stack[v][j].pageNo].lvl = Len(stack[v]) - j /\ j \in Nat
  BY <1>1
<1>6. Len(stack[u]) - i = Len(stack[u]) - j /\ i \in Nat /\ j \in Nat /\ Len(stack[u]) \in Nat
  BY <1>2, <1>3, <1>4, <1>5
<1> DEFINE n == Len(stack[u])
<1> HIDE DEF n
<1>7. n - i = n - j /\ i \in Nat /\ j \in Nat /\ n \in Nat
  BY <1>6 DEF n
<1>8. i = j
  BY <1>7
<1> QED  BY <1>3, <1>8

\* What hides a page is one split.
LEMMA OneHidden ==
  ASSUME IInv, LInv, NEW u \in Threads, NEW v \in Threads, stack[u] # <<>>, stack[v] # <<>>,
         Top(u).at = "split", Top(v).at = "split", Top(u).right = Top(v).right
  PROVE  u = v
<1>1. SUFFICES ASSUME u # v PROVE FALSE
  OBVIOUS
<1>2. 1 \in 1..Len(stack[v])
  BY TopFacts
<1>3. Unknown(stack[v][1], Top(u).right)
  BY <1>1, <1>2 DEF LInv, Private
<1> QED  BY <1>3 DEF Unknown, Top

\* What becomes of stack o, and of the stacks when thread t gets stack s.
Swapped(o, s, g) == s = <<g>> \o Tail(o)
Pushed(o, s, g, f) == s = <<g, f>> \o Tail(o)
Popped(o, s, g) == s = <<g>> \o SubSeq(o, 3, Len(o))
Turned(t, s, new) == new = [stack EXCEPT ![t] = s]

\* The top frame of stack o is replaced by g.
LEMMA TopReplaced ==
  ASSUME NEW o \in Seq(FrameType), o # <<>>, NEW g \in FrameType, NEW s, Swapped(o, s, g)
  PROVE  /\ s \in Seq(FrameType) /\ Len(s) = Len(o) /\ Len(o) \in Nat /\ Len(o) >= 1
         /\ s # <<>> /\ s[1] = g
         /\ \A i \in 2..Len(o) : s[i] = o[i]
         /\ Last(s) = IF Len(o) = 1 THEN g ELSE Last(o)
         /\ \A i \in 3..Len(o) : Post(s, i) = Post(o, i)
         /\ g.op = o[1].op => \A i \in 2..Len(o) : Post(s, i) = Post(o, i)
<1>1. /\ s \in Seq(FrameType) /\ Len(s) = Len(o) /\ Len(o) \in Nat /\ Len(o) >= 1
      /\ s # <<>> /\ s[1] = g
  BY DEF Swapped
<1>2. \A i \in 2..Len(o) : s[i] = o[i]
  BY DEF Swapped
<1>3. Last(s) = s[Len(o)] /\ Last(o) = o[Len(o)]
  BY <1>1 DEF Last
<1> DEFINE n == Len(o)
<1> HIDE DEF n
<1>4. n \in Nat /\ n >= 1 /\ \A i \in 2..n : s[i] = o[i]
  BY <1>1, <1>2 DEF n
<1>5. s[n] = IF n = 1 THEN g ELSE o[n]
  <2>1. CASE n = 1
    BY <2>1, <1>1
  <2>2. CASE n # 1
    <3>1. n \in 2..n
      BY <2>2, <1>4
    <3> QED  BY <2>2, <3>1, <1>4
  <2> QED  BY <2>1, <2>2
<1>6. ASSUME NEW i \in 3..n PROVE s[i] = o[i] /\ s[i - 1] = o[i - 1]
  <2>1. i \in 2..n /\ i - 1 \in 2..n
    BY <1>4
  <2> QED  BY <2>1, <1>4
<1>7. \A i \in 3..n : Post(s, i) = Post(o, i)
  BY <1>6 DEF Post
<1>8. ASSUME g.op = o[1].op, 2 \in 2..n PROVE Post(s, 2) = Post(o, 2)
  <2>1. s[2] = o[2] /\ s[2 - 1] = s[1] /\ o[2 - 1] = o[1]
    <3>1. s[2] = o[2]
      BY <1>4, <1>8, Zenon
    <3>2. 2 - 1 = 1
      OBVIOUS
    <3> QED  BY <3>1, <3>2
  <2>2. s[2 - 1].op = o[2 - 1].op
    BY <2>1, <1>1, <1>8
  <2> QED  BY <2>1, <2>2 DEF Post
<1>9. \A i \in 2..n : i = 2 \/ i \in 3..n
  BY <1>4
<1>10. g.op = o[1].op => \A i \in 2..n : Post(s, i) = Post(o, i)
  BY <1>7, <1>8, <1>9
<1> QED  BY <1>1, <1>2, <1>3, <1>5, <1>7, <1>10 DEF n

\* Frames g and f come for the top frame of stack o.
LEMMA TopPushed ==
  ASSUME NEW o \in Seq(FrameType), o # <<>>, NEW f \in FrameType, NEW g \in FrameType,
         NEW s, Pushed(o, s, g, f)
  PROVE  /\ s \in Seq(FrameType) /\ Len(s) = Len(o) + 1 /\ Len(o) \in Nat /\ Len(o) >= 1
         /\ s # <<>> /\ s[1] = g /\ s[2] = f
         /\ \A i \in 2..Len(o) : s[i + 1] = o[i]
         /\ Last(s) = IF Len(o) = 1 THEN f ELSE Last(o)
<1>1. /\ s \in Seq(FrameType) /\ Len(s) = Len(o) + 1 /\ Len(o) \in Nat /\ Len(o) >= 1
      /\ s # <<>> /\ s[1] = g /\ s[2] = f
  BY DEF Pushed
<1>2. \A i \in 2..Len(o) : s[i + 1] = o[i]
  BY DEF Pushed
<1>3. Last(s) = s[Len(o) + 1] /\ Last(o) = o[Len(o)]
  BY <1>1 DEF Last
<1> DEFINE n == Len(o)
<1> HIDE DEF n
<1>4. n \in Nat /\ n >= 1 /\ \A i \in 2..n : s[i + 1] = o[i]
  BY <1>1, <1>2 DEF n
<1>5. s[n + 1] = IF n = 1 THEN f ELSE o[n]
  <2>1. CASE n = 1
    <3>1. n + 1 = 2
      BY <2>1
    <3> QED  BY <3>1, <2>1, <1>1
  <2>2. CASE n # 1
    <3>1. n \in 2..n
      BY <2>2, <1>4
    <3> QED  BY <2>2, <3>1, <1>4
  <2> QED  BY <2>1, <2>2
<1> QED  BY <1>1, <1>2, <1>3, <1>5 DEF n

\* Frame g comes for the two frames on top of stack o.
LEMMA TopPopped ==
  ASSUME NEW o \in Seq(FrameType), Len(o) >= 2, NEW g \in FrameType,
         NEW s, Popped(o, s, g)
  PROVE  /\ s \in Seq(FrameType) /\ Len(s) = Len(o) - 1 /\ Len(o) \in Nat
         /\ s # <<>> /\ s[1] = g
         /\ \A i \in 2..Len(o) - 1 : s[i] = o[i + 1]
         /\ Last(s) = IF Len(o) = 2 THEN g ELSE Last(o)
<1> DEFINE n == Len(o)
           q == SubSeq(o, 3, Len(o))
<1>1. n \in Nat /\ n >= 2
  OBVIOUS
<1>2. q \in Seq(FrameType) /\ Len(q) = n - 2
  <2>1. \A i \in 3..Len(o) : o[i] \in FrameType
    OBVIOUS
  <2>2. q \in Seq(FrameType) /\ Len(q) = IF 3 <= n THEN n - 3 + 1 ELSE 0
    BY <2>1, SubSeqProperties
  <2> HIDE DEF q, n
  <2>3. Len(q) = n - 2
    BY <2>2, <1>1
  <2> QED  BY <2>2, <2>3
<1>3. \A i \in 1..n - 2 : q[i] = o[i + 2]
  OBVIOUS
<1> HIDE DEF q
<1>4. s = <<g>> \o q
  BY DEF q, Popped
<1>5. s \in Seq(FrameType) /\ Len(s) = n - 1 /\ s # <<>> /\ s[1] = g
  BY <1>1, <1>2, <1>4
<1>6. ASSUME NEW i \in 2..n - 1 PROVE s[i] = o[i + 1]
  <2>1. i - 1 \in 1..n - 2 /\ (i - 1) + 2 = i + 1
    BY <1>1
  <2>2. s[i] = q[i - 1]
    BY <1>1, <1>2, <1>4, <2>1
  <2> QED  BY <2>1, <2>2, <1>3
<1>7. Last(s) = s[n - 1] /\ Last(o) = o[n]
  BY <1>5, <1>1 DEF Last
<1> HIDE DEF n
<1>8. s[n - 1] = IF n = 2 THEN g ELSE o[n]
  <2>1. CASE n = 2
    <3>1. n - 1 = 1
      BY <2>1
    <3> QED  BY <3>1, <2>1, <1>5
  <2>2. CASE n # 2
    <3>1. n - 1 \in 2..n - 1 /\ (n - 1) + 1 = n
      BY <2>2, <1>1
    <3> QED  BY <2>2, <3>1, <1>6
  <2> QED  BY <2>1, <2>2
<1> QED  BY <1>1, <1>5, <1>6, <1>7, <1>8 DEF n

\* A frame of stack s waits for e to be posted.
Waiting(e, s) == \E i \in 2..Len(s) : e = Post(s, i)

\* Thread t gets stack s: what is posted then.
LEMMA StackChanged ==
  ASSUME IInv, NEW t \in Threads, NEW s, NEW new, Turned(t, s, new)
  PROVE  \A e : /\ e \in Posts(new) <=> Waiting(e, s) \/ \E u \in Threads \ {t} : Waiting(e, stack[u])
                /\ e \in Posts(stack) <=>
                     Waiting(e, stack[t]) \/ \E u \in Threads \ {t} : Waiting(e, stack[u])
<1>1. new[t] = s /\ \A u \in Threads \ {t} : new[u] = stack[u]
  BY DEF IInv, Turned
<1>2. ASSUME NEW e
      PROVE  e \in Posts(new) <=> Waiting(e, s) \/ \E u \in Threads \ {t} : Waiting(e, stack[u])
  <2>1. e \in Posts(new) <=> \E u \in Threads : Waiting(e, new[u])
    BY DEF Posts, Waiting
  <2> QED  BY <2>1, <1>1
<1>3. ASSUME NEW e
      PROVE  e \in Posts(stack) <=>
               Waiting(e, stack[t]) \/ \E u \in Threads \ {t} : Waiting(e, stack[u])
  <2>1. e \in Posts(stack) <=> \E u \in Threads : Waiting(e, stack[u])
    BY DEF Posts, Waiting
  <2> QED  BY <2>1
<1> QED  BY <1>2, <1>3

\* The waits of a thread are nobody else's.
LEMMA OwnPost ==
  ASSUME IInv, LInv, NEW t \in Threads, NEW j \in 2..Len(stack[t])
  PROVE  /\ \A u \in Threads \ {t} : \A i \in 2..Len(stack[u]) : Post(stack[u], i) # Post(stack[t], j)
         /\ \A i \in 2..Len(stack[t]) : Post(stack[t], i) = Post(stack[t], j) => i = j
         /\ Post(stack[t], j) \in Posts(stack)
<1>1. ASSUME NEW u \in Threads, NEW i \in 2..Len(stack[u]), Post(stack[u], i) = Post(stack[t], j)
      PROVE  u = t /\ i = j
  <2>1. stack[u][i].pageNo = stack[t][j].pageNo
    BY <1>1 DEF Post
  <2> QED  BY <2>1, OnePost
<1>2. Post(stack[t], j) \in Posts(stack)
  BY PostMembers
<1> QED  BY <1>1, <1>2

\* A thread that neither splits nor has split leaves the hidden pages as they are.
LEMMA SameHidden ==
  ASSUME IInv, NEW t \in Threads, NEW s, NEW new, Turned(t, s, new),
         stack[t] # <<>> => Top(t).at # "split", s # <<>> => s[1].at # "split"
  PROVE  Hidden(new) = Hidden(stack)
<1>1. new[t] = s /\ \A u \in Threads \ {t} : new[u] = stack[u]
  BY DEF IInv, Turned
<1> QED  BY <1>1 DEF Hidden, Top

\* btreeSplitPage hides a page,
LEMMA MoreHidden ==
  ASSUME IInv, NEW t \in Threads, NEW s, NEW new, Turned(t, s, new),
         stack[t] # <<>> => Top(t).at # "split", s # <<>>, s[1].at = "split"
  PROVE  Hidden(new) = Hidden(stack) \union {s[1].right}
<1>1. new[t] = s /\ \A u \in Threads \ {t} : new[u] = stack[u]
  BY DEF IInv, Turned
<1> QED  BY <1>1 DEF Hidden, Top

\* and the parent locks show it.
LEMMA LessHidden ==
  ASSUME IInv, LInv, NEW t \in Threads, NEW s, NEW new, Turned(t, s, new),
         stack[t] # <<>>, Top(t).at = "split", s # <<>> => s[1].at # "split"
  PROVE  /\ Top(t).right \in Hidden(stack)
         /\ Hidden(new) = Hidden(stack) \ {Top(t).right}
<1>1. new[t] = s /\ \A u \in Threads \ {t} : new[u] = stack[u]
  BY DEF IInv, Turned
<1>2. \A u \in Threads \ {t} : stack[u] # <<>> /\ stack[u][1].at = "split" => stack[u][1].right # stack[t][1].right
  BY OneHidden DEF Top
<1> QED  BY <1>1, <1>2 DEF Hidden, Top

\* A thread whose waiting frames stay leaves the posts as they are.
LEMMA SamePosts ==
  ASSUME IInv, NEW t \in Threads, NEW s, NEW new, Turned(t, s, new),
         \/ Len(stack[t]) <= 1 /\ Len(s) \in Nat /\ Len(s) <= 1
         \/ /\ Len(s) = Len(stack[t])
            /\ \A i \in 2..Len(stack[t]) : Post(s, i) = Post(stack[t], i)
  PROVE  Posts(new) = Posts(stack)
<1>1. new[t] = s /\ \A u \in Threads \ {t} : new[u] = stack[u]
  BY DEF IInv, Turned
<1>2. Len(stack[t]) \in Nat
  BY DEF IInv
<1>3. \A e : Waiting(e, s) <=> Waiting(e, stack[t])
  <2>1. CASE Len(stack[t]) <= 1 /\ Len(s) \in Nat /\ Len(s) <= 1
    <3>1. 2..Len(stack[t]) = {} /\ 2..Len(s) = {}
      BY <2>1, <1>2
    <3> QED  BY <3>1 DEF Waiting
  <2>2. CASE /\ Len(s) = Len(stack[t])
             /\ \A i \in 2..Len(stack[t]) : Post(s, i) = Post(stack[t], i)
    BY <2>2 DEF Waiting
  <2> QED  BY <2>1, <2>2
<1>4. \A e : e \in Posts(new) <=> e \in Posts(stack)
  BY <1>3, StackChanged
<1> QED  BY <1>4

\* The lower fence of the split a frame waits for is posted.
LEMMA LowDone ==
  ASSUME IInv, LInv, NEW t \in Threads, Len(stack[t]) >= 2, NEW g \in FrameType,
         NEW s, Swapped(stack[t], s, g), NEW new, Turned(t, s, new)
  PROVE  Posts(new) = (Posts(stack) \ {Post(stack[t], 2)}) \union {Post(s, 2)}
<1> DEFINE o == stack[t]
           n == Len(o)
<1>1. o \in Seq(FrameType) /\ n \in Nat /\ n >= 2
  BY DEF IInv
<1>2. o # <<>>
  BY <1>1
<1>3. Len(s) = n /\ \A i \in 3..n : Post(s, i) = Post(o, i)
  BY <1>1, <1>2, TopReplaced
<1>4. \A i \in 2..n : Post(o, i) = Post(o, 2) => i = 2
  <2>1. 2 \in 2..n
    BY <1>1
  <2> QED  BY <2>1, OwnPost
<1>5. \A u \in Threads \ {t} : \A i \in 2..Len(stack[u]) : Post(stack[u], i) # Post(o, 2)
  <2>1. 2 \in 2..n
    BY <1>1
  <2> QED  BY <2>1, OwnPost
<1>6. \A e : e \in Posts(stack) <=> Waiting(e, o) \/ \E u \in Threads \ {t} : Waiting(e, stack[u])
  BY StackChanged
<1>7. \A e : e \in Posts(new) <=> Waiting(e, s) \/ \E u \in Threads \ {t} : Waiting(e, stack[u])
  BY StackChanged
<1> HIDE DEF n, o
<1>8. \A i : i \in 2..n <=> i = 2 \/ i \in 3..n
  BY <1>1
<1>9. \A i \in 3..n : i # 2
  BY <1>1
<1>10. ASSUME NEW e
       PROVE  e \in Posts(new) <=> (e \in Posts(stack) /\ e # Post(o, 2)) \/ e = Post(s, 2)
  <2>1. Waiting(e, s) <=> e = Post(s, 2) \/ \E i \in 3..n : e = Post(o, i)
    BY <1>3, <1>8, Zenon DEF Waiting
  <2>2. Waiting(e, o) <=> e = Post(o, 2) \/ \E i \in 3..n : e = Post(o, i)
    BY <1>8, Zenon DEF Waiting, n
  <2>3. (\E i \in 3..n : e = Post(o, i)) => e # Post(o, 2)
    BY <1>4, <1>8, <1>9
  <2>4. (\E u \in Threads \ {t} : Waiting(e, stack[u])) => e # Post(o, 2)
    BY <1>5 DEF Waiting
  <2> QED  BY <1>6, <1>7, <2>1, <2>2, <2>3, <2>4, Zenon
<1> QED  BY <1>10 DEF o

\* A frame starts to wait for the fences of its split.
LEMMA PostAdded ==
  ASSUME IInv, NEW t \in Threads, stack[t] # <<>>, NEW f \in FrameType, NEW g \in FrameType,
         f.op = Top(t).op,
         NEW s, Pushed(stack[t], s, g, f), NEW new, Turned(t, s, new)
  PROVE  Posts(new) = Posts(stack) \union {Post(s, 2)}
<1> DEFINE o == stack[t]
           n == Len(o)
<1>1. o \in Seq(FrameType) /\ n \in Nat /\ n >= 1
  BY DEF IInv
<1>2. Len(s) = n + 1 /\ s[2] = f /\ \A i \in 2..n : s[i + 1] = o[i]
  BY <1>1, TopPushed
<1>3. \A e : e \in Posts(stack) <=> Waiting(e, o) \/ \E u \in Threads \ {t} : Waiting(e, stack[u])
  BY StackChanged
<1>4. \A e : e \in Posts(new) <=> Waiting(e, s) \/ \E u \in Threads \ {t} : Waiting(e, stack[u])
  BY StackChanged
<1>5. f.op = o[1].op
  BY DEF Top
<1> HIDE DEF n, o
<1>6. ASSUME NEW i \in 2..n PROVE Post(s, i + 1) = Post(o, i)
  <2>1. s[i + 1] = o[i] /\ (i + 1) - 1 = i
    BY <1>1, <1>2
  <2>2. s[i].op = o[i - 1].op
    <3>1. CASE i = 2
      BY <3>1, <1>2, <1>5
    <3>2. CASE i # 2
      <4>1. i - 1 \in 2..n /\ (i - 1) + 1 = i
        BY <3>2, <1>1
      <4> QED  BY <4>1, <1>2
    <3> QED  BY <3>1, <3>2
  <2> QED  BY <2>1, <2>2 DEF Post
<1>7. ASSUME NEW e
      PROVE  Waiting(e, s) <=> e = Post(s, 2) \/ Waiting(e, o)
  <2>1. ASSUME NEW i \in 2..n + 1, e = Post(s, i), i # 2 PROVE \E j \in 2..n : e = Post(o, j)
    <3>1. i - 1 \in 2..n /\ (i - 1) + 1 = i
      BY <2>1, <1>1
    <3> QED  BY <3>1, <2>1, <1>6
  <2>2. ASSUME NEW j \in 2..n, e = Post(o, j) PROVE \E i \in 2..n + 1 : e = Post(s, i)
    <3>1. j + 1 \in 2..n + 1
      BY <1>1
    <3> QED  BY <3>1, <2>2, <1>6
  <2>3. 2 \in 2..n + 1
    BY <1>1
  <2> QED  BY <1>2, <2>1, <2>2, <2>3 DEF Waiting, n
<1>8. ASSUME NEW e PROVE e \in Posts(new) <=> e \in Posts(stack) \/ e = Post(s, 2)
  BY <1>3, <1>4, <1>7, Zenon
<1> QED  BY <1>8

\* A frame that waited goes on.
LEMMA PostDone ==
  ASSUME IInv, LInv, NEW t \in Threads, Len(stack[t]) >= 2, NEW g \in FrameType,
         g.op = stack[t][2].op,
         NEW s, Popped(stack[t], s, g), NEW new, Turned(t, s, new)
  PROVE  Posts(new) = Posts(stack) \ {Post(stack[t], 2)}
<1> DEFINE o == stack[t]
           n == Len(o)
<1>1. o \in Seq(FrameType) /\ n \in Nat /\ n >= 2
  BY DEF IInv
<1>2. Len(s) = n - 1 /\ s[1] = g /\ \A i \in 2..n - 1 : s[i] = o[i + 1]
  BY <1>1, TopPopped
<1>3. 2 \in 2..n
  BY <1>1
<1>4. \A i \in 2..n : Post(o, i) = Post(o, 2) => i = 2
  BY <1>3, OwnPost
<1>5. \A u \in Threads \ {t} : \A i \in 2..Len(stack[u]) : Post(stack[u], i) # Post(o, 2)
  BY <1>3, OwnPost
<1>6. \A e : e \in Posts(stack) <=> Waiting(e, o) \/ \E u \in Threads \ {t} : Waiting(e, stack[u])
  BY StackChanged
<1>7. \A e : e \in Posts(new) <=> Waiting(e, s) \/ \E u \in Threads \ {t} : Waiting(e, stack[u])
  BY StackChanged
<1>8. g.op = o[2].op
  OBVIOUS
<1> HIDE DEF n, o
<1>9. ASSUME NEW i \in 3..n PROVE i - 1 \in 2..n - 1 /\ Post(s, i - 1) = Post(o, i) /\ i \in 2..n /\ i # 2
  <2>1. i - 1 \in 2..n - 1 /\ (i - 1) + 1 = i /\ i \in 2..n /\ i # 2
    BY <1>1
  <2>2. s[i - 1] = o[i]
    BY <2>1, <1>2
  <2>3. s[(i - 1) - 1].op = o[i - 1].op
    <3>1. CASE i = 3
      <4>1. (i - 1) - 1 = 1 /\ i - 1 = 2
        BY <3>1
      <4> QED  BY <4>1, <1>2, <1>8
    <3>2. CASE i # 3
      <4>1. (i - 1) - 1 \in 2..n - 1 /\ ((i - 1) - 1) + 1 = i - 1
        BY <3>2, <1>1
      <4> QED  BY <4>1, <1>2
    <3> QED  BY <3>1, <3>2
  <2> QED  BY <2>1, <2>2, <2>3 DEF Post
<1>10. ASSUME NEW e
       PROVE  Waiting(e, s) <=> \E i \in 3..n : e = Post(o, i)
  <2>1. ASSUME NEW i \in 2..n - 1, e = Post(s, i) PROVE \E j \in 3..n : e = Post(o, j)
    <3>1. i + 1 \in 3..n /\ (i + 1) - 1 = i
      BY <1>1
    <3> QED  BY <3>1, <2>1, <1>9
  <2>2. ASSUME NEW j \in 3..n, e = Post(o, j) PROVE \E i \in 2..n - 1 : e = Post(s, i)
    BY <2>2, <1>9
  <2> QED  BY <1>2, <2>1, <2>2 DEF Waiting
<1>11. \A i : i \in 2..n <=> i = 2 \/ i \in 3..n
  BY <1>1
<1>12. ASSUME NEW e PROVE e \in Posts(new) <=> e \in Posts(stack) /\ e # Post(o, 2)
  <2>1. Waiting(e, o) <=> e = Post(o, 2) \/ \E i \in 3..n : e = Post(o, i)
    BY <1>11, Zenon DEF Waiting, n
  <2>2. (\E i \in 3..n : e = Post(o, i)) => e # Post(o, 2)
    BY <1>4, <1>9
  <2>3. (\E u \in Threads \ {t} : Waiting(e, stack[u])) => e # Post(o, 2)
    BY <1>5 DEF Waiting
  <2> QED  BY <1>6, <1>7, <1>10, <2>1, <2>2, <2>3, Zenon
<1> QED  BY <1>12 DEF o

-----------------------------------------------------------------------------
(* What the frames aim at                                                  *)

\* A frame that waits looks at no page.
LEMMA ParentAims ==
  ASSUME NEW ps, NEW qs, NEW f, f.at = "parent", AimOK(ps, f), HalfOK(ps, f)
  PROVE  AimOK(qs, f) /\ HalfOK(qs, f)
BY DEF AimOK, HalfOK

\* Frames aim at the same when the top frame goes on,
LEMMA FramesSwapped ==
  ASSUME NEW ps, NEW qs, NEW o, StackOK(ps, o), o # <<>>, FramesAim(ps, o),
         NEW g \in FrameType, NEW s, Swapped(o, s, g), AimOK(qs, g), HalfOK(qs, g),
         Len(o) >= 2 => PostsFor(g, o[2])
  PROVE  FramesAim(qs, s)
<1> DEFINE n == Len(o)
<1>1. o \in Seq(FrameType)
  BY DEF StackOK
<1>2. Len(s) = n /\ n \in Nat /\ n >= 1 /\ s[1] = g /\ \A i \in 2..n : s[i] = o[i]
  BY <1>1, TopReplaced
<1>3. \A i \in 1..n : i > 1 => o[i].at = "parent"
  BY DEF StackOK
<1>4. \A i \in 1..n : AimOK(ps, o[i]) /\ HalfOK(ps, o[i])
  BY DEF FramesAim
<1>5. \A i \in 2..n : PostsFor(o[i - 1], o[i])
  BY DEF FramesAim
<1>6. n >= 2 => PostsFor(g, o[2])
  OBVIOUS
<1> HIDE DEF n
<1>7. ASSUME NEW i \in 1..n PROVE AimOK(qs, s[i]) /\ HalfOK(qs, s[i])
  <2>1. CASE i = 1
    BY <2>1, <1>2
  <2>2. CASE i # 1
    <3>1. i \in 2..n /\ i > 1
      BY <2>2, <1>2
    <3>2. s[i] = o[i] /\ o[i].at = "parent"
      BY <3>1, <1>2, <1>3
    <3>3. AimOK(ps, o[i]) /\ HalfOK(ps, o[i])
      BY <1>4
    <3> QED  BY <3>2, <3>3, ParentAims
  <2> QED  BY <2>1, <2>2
<1>8. ASSUME NEW i \in 2..n PROVE PostsFor(s[i - 1], s[i])
  <2>1. s[i] = o[i]
    BY <1>2
  <2>2. CASE i = 2
    <3>1. i - 1 = 1 /\ n >= 2
      BY <2>2, <1>2
    <3> QED  BY <3>1, <2>1, <2>2, <1>2, <1>6
  <2>3. CASE i # 2
    <3>1. i - 1 \in 2..n
      BY <2>3, <1>2
    <3> QED  BY <3>1, <2>1, <1>2, <1>5
  <2> QED  BY <2>2, <2>3
<1> QED  BY <1>2, <1>7, <1>8 DEF FramesAim

\* when it calls btreeInsertKey for the fence of its split,
LEMMA FramesPushed ==
  ASSUME NEW ps, NEW qs, NEW o, StackOK(ps, o), o # <<>>, FramesAim(ps, o),
         NEW f \in FrameType, NEW g \in FrameType, NEW s, Pushed(o, s, g, f),
         AimOK(qs, f), HalfOK(qs, f), AimOK(qs, g), HalfOK(qs, g),
         PostsFor(g, f), Len(o) >= 2 => PostsFor(f, o[2])
  PROVE  FramesAim(qs, s)
<1> DEFINE n == Len(o)
<1>1. o \in Seq(FrameType)
  BY DEF StackOK
<1>2. Len(s) = n + 1 /\ n \in Nat /\ n >= 1 /\ s[1] = g /\ s[2] = f /\ \A i \in 2..n : s[i + 1] = o[i]
  BY <1>1, TopPushed
<1>3. \A i \in 1..n : i > 1 => o[i].at = "parent"
  BY DEF StackOK
<1>4. \A i \in 1..n : AimOK(ps, o[i]) /\ HalfOK(ps, o[i])
  BY DEF FramesAim
<1>5. \A i \in 2..n : PostsFor(o[i - 1], o[i])
  BY DEF FramesAim
<1>6. n >= 2 => PostsFor(f, o[2])
  OBVIOUS
<1> HIDE DEF n
<1>7. ASSUME NEW i \in 3..n + 1 PROVE i - 1 \in 2..n /\ i - 1 > 1 /\ i - 1 \in 1..n /\ s[i] = o[i - 1]
  <2>1. i - 1 \in 2..n /\ i - 1 > 1 /\ i - 1 \in 1..n /\ (i - 1) + 1 = i
    BY <1>2
  <2> QED  BY <2>1, <1>2
<1>8. ASSUME NEW i \in 1..n + 1 PROVE AimOK(qs, s[i]) /\ HalfOK(qs, s[i])
  <2>1. CASE i = 1
    BY <2>1, <1>2
  <2>2. CASE i = 2
    BY <2>2, <1>2
  <2>3. CASE i # 1 /\ i # 2
    <3>1. i \in 3..n + 1
      BY <2>3, <1>2
    <3>2. s[i] = o[i - 1] /\ o[i - 1].at = "parent"
      BY <3>1, <1>7, <1>3
    <3>3. AimOK(ps, o[i - 1]) /\ HalfOK(ps, o[i - 1])
      BY <3>1, <1>7, <1>4
    <3> QED  BY <3>2, <3>3, ParentAims
  <2> QED  BY <2>1, <2>2, <2>3
<1>9. ASSUME NEW i \in 2..n + 1 PROVE PostsFor(s[i - 1], s[i])
  <2>1. CASE i = 2
    <3>1. i - 1 = 1
      BY <2>1
    <3> QED  BY <3>1, <2>1, <1>2
  <2>2. CASE i = 3
    <3>1. i - 1 = 2 /\ n >= 2 /\ i \in 3..n + 1
      BY <2>2, <1>2
    <3>2. s[i] = o[2] /\ s[i - 1] = f
      BY <3>1, <1>2, <1>7
    <3> QED  BY <3>1, <3>2, <1>6
  <2>3. CASE i # 2 /\ i # 3
    <3>1. i \in 3..n + 1 /\ i - 1 \in 3..n + 1
      BY <2>3, <1>2
    <3>2. s[i] = o[i - 1] /\ s[i - 1] = o[(i - 1) - 1] /\ i - 1 \in 2..n
      BY <3>1, <1>7
    <3> QED  BY <3>2, <1>5
  <2> QED  BY <2>1, <2>2, <2>3
<1> QED  BY <1>2, <1>8, <1>9 DEF FramesAim

\* and when the call returns.
LEMMA FramesPopped ==
  ASSUME NEW ps, NEW qs, NEW o, StackOK(ps, o), Len(o) >= 2, FramesAim(ps, o),
         NEW g \in FrameType, NEW s, Popped(o, s, g), AimOK(qs, g), HalfOK(qs, g),
         Len(o) >= 3 => PostsFor(g, o[3])
  PROVE  FramesAim(qs, s)
<1> DEFINE n == Len(o)
<1>1. o \in Seq(FrameType)
  BY DEF StackOK
<1>2. Len(s) = n - 1 /\ n \in Nat /\ n >= 2 /\ s[1] = g /\ \A i \in 2..n - 1 : s[i] = o[i + 1]
  BY <1>1, TopPopped
<1>3. \A i \in 1..n : i > 1 => o[i].at = "parent"
  BY DEF StackOK
<1>4. \A i \in 1..n : AimOK(ps, o[i]) /\ HalfOK(ps, o[i])
  BY DEF FramesAim
<1>5. \A i \in 2..n : PostsFor(o[i - 1], o[i])
  BY DEF FramesAim
<1>6. n >= 3 => PostsFor(g, o[3])
  OBVIOUS
<1> HIDE DEF n
<1>7. ASSUME NEW i \in 1..n - 1 PROVE AimOK(qs, s[i]) /\ HalfOK(qs, s[i])
  <2>1. CASE i = 1
    BY <2>1, <1>2
  <2>2. CASE i # 1
    <3>1. i \in 2..n - 1 /\ i + 1 \in 1..n /\ i + 1 > 1
      BY <2>2, <1>2
    <3>2. s[i] = o[i + 1] /\ o[i + 1].at = "parent"
      BY <3>1, <1>2, <1>3
    <3>3. AimOK(ps, o[i + 1]) /\ HalfOK(ps, o[i + 1])
      BY <3>1, <1>4
    <3> QED  BY <3>2, <3>3, ParentAims
  <2> QED  BY <2>1, <2>2
<1>8. ASSUME NEW i \in 2..n - 1 PROVE PostsFor(s[i - 1], s[i])
  <2>1. s[i] = o[i + 1]
    BY <1>2
  <2>2. CASE i = 2
    <3>1. i - 1 = 1 /\ i + 1 = 3 /\ n >= 3
      BY <2>2, <1>2
    <3>2. s[i - 1] = g /\ s[i] = o[3]
      BY <3>1, <2>1, <1>2
    <3> QED  BY <3>1, <3>2, <1>6
  <2>3. CASE i # 2
    <3>1. i - 1 \in 2..n - 1 /\ (i - 1) + 1 = i /\ i + 1 \in 2..n /\ (i + 1) - 1 = i
      BY <2>3, <1>2
    <3>2. s[i - 1] = o[i]
      BY <3>1, <1>2
    <3>3. PostsFor(o[(i + 1) - 1], o[i + 1])
      BY <3>1, <1>5
    <3> QED  BY <3>1, <3>2, <3>3, <2>1
  <2> QED  BY <2>2, <2>3
<1> QED  BY <1>2, <1>7, <1>8 DEF FramesAim

\* From ps to qs no page but x changes its link or its highest key, and the keys
\* left of a page stay left of it.
Moved(ps, qs, x) ==
  /\ \A p \in 1..Len(ps), k \in Nat : NotPast(ps, p, k) => NotPast(qs, p, k)
  /\ \A p \in 1..Len(ps) : p # x => Hi(qs, p) = Hi(ps, p) /\ qs[p].right = ps[p].right

\* The frames of the threads that do not have page x still aim right.
LEMMA OthersAim ==
  ASSUME IInv, LInv, NEW t \in Threads, stack[t] # <<>>, Top(t).at = "page",
         NEW qs, Moved(pages, qs, Top(t).pageNo),
         NEW u \in Threads, u # t, FramesAim(pages, stack[u])
  PROVE  FramesAim(qs, stack[u])
<1> DEFINE x == Top(t).pageNo
<1>1. StackOK(pages, stack[u]) /\ Len(stack[u]) \in Nat /\ PagesOK(pages)
  BY DEF IInv, StacksOK, StackOK
<1>2. ASSUME NEW i \in 1..Len(stack[u]) PROVE AimOK(qs, stack[u][i]) /\ HalfOK(qs, stack[u][i])
  <2> DEFINE f == stack[u][i]
  <2>1. AimOK(pages, f) /\ HalfOK(pages, f)
    BY DEF FramesAim
  <2>2. FrameOK(pages, f)
    BY <1>1 DEF StackOK
  <2>3. f.pageNo \in 1..Len(pages) /\ f.key \in Nat
    <3>1. f.pageNo \in 1..Len(pages) /\ f \in FrameType
      BY <2>2 DEF FrameOK
    <3>2. f.key \in KeySet
      BY <3>1, FrameTyped
    <3> QED  BY <3>1, <3>2, KeyBound
  <2>4. f.at = "split" => f.pageNo # x /\ f.right # x /\ f.right \in 1..Len(pages)
    <3> SUFFICES ASSUME f.at = "split" PROVE f.pageNo # x /\ f.right # x /\ f.right \in 1..Len(pages)
      OBVIOUS
    <3>1. i = 1
      BY <1>1 DEF StackOK
    <3>2. f = Top(u) /\ stack[u] # <<>>
      BY <3>1, <1>1 DEF Top
    <3>3. f.right \in 1..Len(pages)
      BY <2>2 DEF FrameOK
    <3>4. wlock[f.pageNo] = u
      BY <3>2, TopFacts
    <3>5. wlock[x] = t
      BY TopFacts
    <3>6. Unknown(Top(t), Top(u).right)
      <4>1. 1 \in 1..Len(stack[t])
        BY TopFacts
      <4>2. Top(u).at = "split"
        BY <3>2
      <4> QED  BY <4>1, <4>2, <3>2 DEF LInv, Private, Top
    <3>7. f.right # x
      BY <3>2, <3>6 DEF Unknown
    <3> QED  BY <3>3, <3>4, <3>5, <3>7
  <2> HIDE DEF f, x
  <2>5. AimOK(qs, f)
    BY <2>1, <2>3 DEF AimOK, Moved
  <2>6. HalfOK(qs, f)
    BY <2>1, <2>3, <2>4 DEF HalfOK, Moved, x
  <2> QED  BY <2>5, <2>6 DEF f
<1>3. \A i \in 2..Len(stack[u]) : PostsFor(stack[u][i - 1], stack[u][i])
  BY DEF FramesAim
<1> QED  BY <1>2, <1>3 DEF FramesAim

\* A change of slots below the highest key of a page keeps what others aim at,
LEMMA SlottedMoves ==
  ASSUME NEW ps, NEW qs, NEW x, Slotted(ps, qs, x)
  PROVE  Moved(ps, qs, x)
<1>1. \A p \in 1..Len(ps), k \in Nat : NotPast(ps, p, k) => NotPast(qs, p, k)
  BY SlottedNotPast
<1>2. \A p \in 1..Len(ps) : p # x => Hi(qs, p) = Hi(ps, p) /\ qs[p].right = ps[p].right
  BY DEF Slotted, Hi
<1> QED  BY <1>1, <1>2 DEF Moved

\* so does a split,
LEMMA SplitMoves ==
  ASSUME NEW ps, NEW qs, NEW x, NEW m, PagesOK(ps), Ordered(ps), PagesOK(qs), Pieces(ps, qs, x, m)
  PROVE  Moved(ps, qs, x)
<1>1. \A p \in 1..Len(ps), k \in Nat : NotPast(ps, p, k) => NotPast(qs, p, k)
  BY SplitNotPast
<1>2. \A p \in 1..Len(ps) : p # x => Hi(qs, p) = Hi(ps, p)
  BY SplitOrder
<1>3. \A p \in 1..Len(ps) : p # x => qs[p].right = ps[p].right
  BY DEF Pieces
<1> QED  BY <1>1, <1>2, <1>3 DEF Moved

\* and one of the root.
LEMMA RootSplitMoves ==
  ASSUME NEW ps, NEW qs, NEW m, PagesOK(ps), Ordered(ps), PagesOK(qs), RootPieces(ps, qs, m)
  PROVE  Moved(ps, qs, Root)
<1>1. Ordered(qs) /\ \A q \in 1..Len(ps) : q # Root => Hi(qs, q) = Hi(ps, q)
  BY RootSplitOrder
<1>2. \A p \in 1..Len(ps), k \in Nat : NotPast(ps, p, k) => NotPast(qs, p, k)
  <2> TAKE p \in 1..Len(ps), k \in Nat
  <2>1. CASE p = Root
    BY <2>1, <1>1, NothingLeftOfRoot
  <2>2. CASE p # Root
    BY <2>2, RootSplitNotPast
  <2> QED  BY <2>1, <2>2
<1>3. \A p \in 1..Len(ps) : p # Root => qs[p].right = ps[p].right
  BY DEF RootPieces
<1> QED  BY <1>1, <1>2, <1>3 DEF Moved

-----------------------------------------------------------------------------
(* The keys that are in the tree                                           *)

\* A step that neither begins nor ends an insertion.
LEMMA KeysKept ==
  ASSUME IInv, KeysFresh, NEW t \in Threads, NEW s, Turned(t, s, stack'),
         stack[t] # <<>>, s # <<>>, Last(s).key = Last(stack[t]).key,
         todo' = todo, load' = load, returned' = returned,
         \A k \in Keys : InLeaf(pages', k) => InLeaf(pages, k)
  PROVE  KeysFresh'
<1>1. stack'[t] = s /\ \A u \in Threads \ {t} : stack'[u] = stack[u]
  BY DEF IInv, Turned
<1>2. \A u \in Threads : stack'[u] # <<>> <=> stack[u] # <<>>
  BY <1>1
<1>3. \A u \in Threads : Last(stack'[u]).key = Last(stack[u]).key
  BY <1>1
<1>4. \A k \in Keys : InLeaf(pages', k) => k \in returned'
  BY DEF KeysFresh
<1>5. \A u \in Threads :
       /\ todo'[u] \intersect (returned' \union Range(load')) = {}
       /\ stack'[u] # <<>> => Last(stack'[u]).key \notin returned'
  BY <1>2, <1>3 DEF KeysFresh
<1>6. \A u, v \in Threads :
       /\ stack'[u] # <<>> => Last(stack'[u]).key \notin todo'[v]
       /\ stack'[u] # <<>> /\ stack'[v] # <<>> /\ u # v => Last(stack'[u]).key # Last(stack'[v]).key
       /\ u # v => todo'[u] \intersect todo'[v] = {}
  BY <1>2, <1>3 DEF KeysFresh
<1>7. todo' \in [Threads -> SUBSET Keys] /\ load' \in Seq(Keys)
  BY DEF KeysFresh
<1> QED  BY <1>4, <1>5, <1>6, <1>7 DEF KeysFresh

\* An insertion into a leaf ends.
LEMMA KeyReturned ==
  ASSUME IInv, KeysFresh, NEW t \in Threads, Turned(t, <<>>, stack'),
         stack[t] # <<>>, NEW k, k = Last(stack[t]).key,
         todo' = todo, load' = load, returned' = returned \union {k},
         \A x \in Keys : InLeaf(pages', x) => InLeaf(pages, x) \/ x = k
  PROVE  KeysFresh'
<1>1. stack'[t] = <<>> /\ \A u \in Threads \ {t} : stack'[u] = stack[u]
  BY DEF IInv, Turned
<1>2. \A x \in Keys : InLeaf(pages', x) => x \in returned'
  BY DEF KeysFresh
<1>3. \A u \in Threads : todo'[u] \intersect (returned' \union Range(load')) = {}
  BY DEF KeysFresh
<1>4. \A u \in Threads : stack'[u] # <<>> => Last(stack'[u]).key \notin returned'
  <2> SUFFICES ASSUME NEW u \in Threads, stack'[u] # <<>> PROVE Last(stack'[u]).key \notin returned'
    OBVIOUS
  <2>1. u # t /\ stack'[u] = stack[u] /\ stack[u] # <<>>
    BY <1>1
  <2>2. Last(stack[u]).key \notin returned /\ Last(stack[u]).key # k
    BY <2>1 DEF KeysFresh
  <2> QED  BY <2>1, <2>2
<1>5. \A u, v \in Threads :
       /\ stack'[u] # <<>> => Last(stack'[u]).key \notin todo'[v]
       /\ stack'[u] # <<>> /\ stack'[v] # <<>> /\ u # v => Last(stack'[u]).key # Last(stack'[v]).key
       /\ u # v => todo'[u] \intersect todo'[v] = {}
  <2> SUFFICES ASSUME NEW u \in Threads, NEW v \in Threads
               PROVE  /\ stack'[u] # <<>> => Last(stack'[u]).key \notin todo'[v]
                      /\ stack'[u] # <<>> /\ stack'[v] # <<>> /\ u # v =>
                           Last(stack'[u]).key # Last(stack'[v]).key
                      /\ u # v => todo'[u] \intersect todo'[v] = {}
    OBVIOUS
  <2>1. stack'[u] # <<>> => stack'[u] = stack[u]
    BY <1>1
  <2>2. stack'[v] # <<>> => stack'[v] = stack[v]
    BY <1>1
  <2> QED  BY <2>1, <2>2 DEF KeysFresh
<1>6. todo' \in [Threads -> SUBSET Keys] /\ load' \in Seq(Keys)
  BY DEF KeysFresh
<1> QED  BY <1>2, <1>3, <1>4, <1>5, <1>6 DEF KeysFresh

\* An insertion begins.
LEMMA KeyTaken ==
  ASSUME IInv, KeysFresh, NEW t \in Threads, NEW k \in Keys, InsertKey(t, k)
  PROVE  KeysFresh'
<1> DEFINE g == Frame("insert", k, NoPage, FALSE, 0)
<1>1. /\ stack[t] = <<>> /\ stack' = [stack EXCEPT ![t] = <<g>>]
      /\ pages' = pages /\ load' = load /\ returned' = returned
  BY DEF InsertKey
<1>2. stack'[t] = <<g>> /\ \A u \in Threads \ {t} : stack'[u] = stack[u]
  BY <1>1 DEF IInv
<1>3. Last(stack'[t]).key = k
  BY <1>2 DEF Last, Frame
<1> HIDE DEF g
<1>4. \A u \in Threads : todo'[u] \subseteq todo[u] /\ k \notin todo'[u]
  <2>1. CASE Range(load) \subseteq returned /\ k \in todo[t] /\ todo' = [todo EXCEPT ![t] = @ \ {k}]
    BY <2>1 DEF KeysFresh
  <2>2. CASE todo' = todo /\ \E i \in 1..Len(load) : k = load[i]
    <3>1. load \in Seq(Keys)
      BY DEF KeysFresh
    <3>2. k \in Range(load)
      BY <2>2, <3>1 DEF Range
    <3> QED  BY <2>2, <3>2 DEF KeysFresh
  <2> QED  BY <2>1, <2>2 DEF InsertKey
<1>5. k \notin returned
  <2>1. CASE k \in todo[t]
    BY <2>1 DEF KeysFresh
  <2>2. CASE \E i \in 1..Len(load) : k = load[i] /\ \A j \in 1..Len(load) : (load[j] \in returned) <=> j < i
    BY <2>2
  <2> QED  BY <2>1, <2>2 DEF InsertKey
<1>6. \A u \in Threads \ {t} : stack[u] # <<>> => Last(stack[u]).key # k
  <2>1. CASE k \in todo[t]
    BY <2>1 DEF KeysFresh
  <2>2. CASE \A u \in Threads : stack[u] = <<>>
    BY <2>2
  <2> QED  BY <2>1, <2>2 DEF InsertKey
<1>7. \A x \in Keys : InLeaf(pages', x) => x \in returned'
  BY <1>1 DEF KeysFresh
<1>8. \A u \in Threads :
       /\ todo'[u] \intersect (returned' \union Range(load')) = {}
       /\ stack'[u] # <<>> => Last(stack'[u]).key \notin returned'
  <2> TAKE u \in Threads
  <2>1. todo'[u] \intersect (returned' \union Range(load')) = {}
    BY <1>1, <1>4 DEF KeysFresh
  <2>2. stack'[u] # <<>> => Last(stack'[u]).key \notin returned'
    BY <1>1, <1>2, <1>3, <1>5 DEF KeysFresh
  <2> QED  BY <2>1, <2>2
<1>9. \A u, v \in Threads :
       /\ stack'[u] # <<>> => Last(stack'[u]).key \notin todo'[v]
       /\ stack'[u] # <<>> /\ stack'[v] # <<>> /\ u # v => Last(stack'[u]).key # Last(stack'[v]).key
       /\ u # v => todo'[u] \intersect todo'[v] = {}
  <2> TAKE u, v \in Threads
  <2>1. stack'[u] # <<>> => Last(stack'[u]).key \notin todo'[v]
    BY <1>2, <1>3, <1>4 DEF KeysFresh
  <2>2. stack'[u] # <<>> /\ stack'[v] # <<>> /\ u # v => Last(stack'[u]).key # Last(stack'[v]).key
    <3> SUFFICES ASSUME stack'[u] # <<>>, stack'[v] # <<>>, u # v
                 PROVE  Last(stack'[u]).key # Last(stack'[v]).key
      OBVIOUS
    <3>1. CASE u = t
      BY <3>1, <1>2, <1>3, <1>6
    <3>2. CASE v = t
      BY <3>2, <1>2, <1>3, <1>6
    <3>3. CASE u # t /\ v # t
      BY <3>3, <1>2 DEF KeysFresh
    <3> QED  BY <3>1, <3>2, <3>3
  <2>3. u # v => todo'[u] \intersect todo'[v] = {}
    BY <1>4 DEF KeysFresh
  <2> QED  BY <2>1, <2>2, <2>3
<1>10. todo' \in [Threads -> SUBSET Keys] /\ load' \in Seq(Keys)
  <2>1. todo' = todo \/ todo' = [todo EXCEPT ![t] = @ \ {k}]
    BY DEF InsertKey
  <2> QED  BY <2>1, <1>1 DEF KeysFresh
<1> QED  BY <1>7, <1>8, <1>9, <1>10 DEF KeysFresh

\* A change on an interior page adds no key to the leaves.
LEMMA SlottedKeys ==
  ASSUME NEW ps, NEW qs, NEW p, Slotted(ps, qs, p), ps[p].lvl > 0, NEW k, InLeaf(qs, k)
  PROVE  InLeaf(ps, k)
<1>1. PICK q \in 1..Len(qs) : qs[q].lvl = 0 /\ \E i \in 1..Len(qs[q].slots) : qs[q].slots[i].key = k
  BY DEF InLeaf
<1>2. q # p
  <2>1. qs[p].lvl = ps[p].lvl
    BY DEF Slotted
  <2>2. q = p => ps[p].lvl = 0
    BY <2>1, <1>1
  <2> QED  BY <2>2
<1>3. qs[q] = ps[q] /\ q \in 1..Len(ps)
  BY <1>2 DEF Slotted
<1> QED  BY <1>1, <1>3 DEF InLeaf

\* A new slot adds its key, and no other.
LEMMA AddedKeys ==
  ASSUME NEW ps, NEW qs, NEW p, NEW i, NEW e, AddedSlot(ps, qs, p, i, e),
         \A j \in 1..Len(qs[p].slots) :
           qs[p].slots[j] = e \/ \E l \in 1..Len(ps[p].slots) : qs[p].slots[j] = ps[p].slots[l],
         NEW k, InLeaf(qs, k)
  PROVE  InLeaf(ps, k) \/ k = e.key
<1>1. PICK q \in 1..Len(qs) : qs[q].lvl = 0 /\ \E j \in 1..Len(qs[q].slots) : qs[q].slots[j].key = k
  BY DEF InLeaf
<1>2. q \in 1..Len(ps) /\ (q # p => qs[q] = ps[q]) /\ qs[p].lvl = ps[p].lvl
  BY DEF AddedSlot
<1>3. CASE q # p
  BY <1>1, <1>2, <1>3 DEF InLeaf
<1>4. CASE q = p
  <2>1. PICK j \in 1..Len(qs[p].slots) : qs[p].slots[j].key = k
    BY <1>1, <1>4
  <2>2. CASE \E l \in 1..Len(ps[p].slots) : qs[p].slots[j] = ps[p].slots[l]
    <3>1. \E l \in 1..Len(ps[p].slots) : ps[p].slots[l].key = k
      BY <2>1, <2>2
    <3>2. ps[p].lvl = 0 /\ p \in 1..Len(ps)
      BY <1>1, <1>2, <1>4
    <3> QED  BY <3>1, <3>2 DEF InLeaf
  <2> QED  BY <2>1, <2>2
<1> QED  BY <1>3, <1>4

\* A split adds no key,
LEMMA SplitKeys ==
  ASSUME NEW ps, NEW qs, NEW p, NEW m, PagesOK(ps), Ordered(ps), Pieces(ps, qs, p, m), NEW k, InLeaf(qs, k)
  PROVE  InLeaf(ps, k)
<1> DEFINE r == Len(ps) + 1
<1>1. PICK q \in 1..Len(qs) : qs[q].lvl = 0 /\ \E j \in 1..Len(qs[q].slots) : qs[q].slots[j].key = k
  BY DEF InLeaf
<1>2. /\ Len(ps) \in Nat /\ p \in 1..Len(ps) /\ Len(qs) = r
      /\ \A y \in 1..Len(ps) : qs[y].lvl = ps[y].lvl
      /\ \A y \in 1..Len(ps) : y # p => qs[y].slots = ps[y].slots
      /\ qs[r].lvl = ps[p].lvl
  BY PagesTyped DEF Pieces
<1>3. Halved(ps[p].slots, qs[p].slots, qs[r].slots)
  <2>1. Divided(ps, qs, p, m, p, r)
    BY DEF Pieces
  <2> QED  BY <1>2, <2>1, DividedOrder
<1>4. \A j \in 1..Len(qs[p].slots) : \E l \in 1..Len(ps[p].slots) : qs[p].slots[j] = ps[p].slots[l]
  BY <1>3 DEF Halved
<1>5. \A j \in 1..Len(qs[r].slots) : \E l \in 1..Len(ps[p].slots) : qs[r].slots[j] = ps[p].slots[l]
  BY <1>3 DEF Halved
<1>6. q \in 1..Len(ps) \/ q = r
  <2>1. Len(ps) \in Nat /\ q \in 1..Len(ps) + 1
    BY <1>2
  <2> QED  BY <2>1
<1> HIDE DEF r
<1>7. CASE q \in 1..Len(ps) /\ q # p
  BY <1>1, <1>2, <1>7, SMTT(30) DEF InLeaf
<1>8. ASSUME ps[p].lvl = 0, \E l \in 1..Len(ps[p].slots) : ps[p].slots[l].key = k PROVE InLeaf(ps, k)
  BY <1>2, <1>8 DEF InLeaf
<1>9. CASE q = p
  <2>1. \E l \in 1..Len(ps[p].slots) : ps[p].slots[l].key = k
    <3>1. PICK j \in 1..Len(qs[p].slots) : qs[p].slots[j].key = k
      BY <1>1, <1>9
    <3>2. PICK l \in 1..Len(ps[p].slots) : qs[p].slots[j] = ps[p].slots[l]
      BY <1>4
    <3> QED  BY <3>1, <3>2
  <2>2. ps[p].lvl = 0
    BY <1>1, <1>2, <1>9
  <2> QED  BY <2>1, <2>2, <1>8
<1>10. CASE q = r
  <2>1. \E l \in 1..Len(ps[p].slots) : ps[p].slots[l].key = k
    <3>1. PICK j \in 1..Len(qs[r].slots) : qs[r].slots[j].key = k
      BY <1>1, <1>10
    <3>2. PICK l \in 1..Len(ps[p].slots) : qs[r].slots[j] = ps[p].slots[l]
      BY <1>5
    <3> QED  BY <3>1, <3>2
  <2>2. ps[p].lvl = 0
    BY <1>1, <1>2, <1>10
  <2> QED  BY <2>1, <2>2, <1>8
<1> QED  BY <1>6, <1>7, <1>9, <1>10

\* nor does one of the root.
LEMMA RootSplitKeys ==
  ASSUME NEW ps, NEW qs, NEW m, PagesOK(ps), RootPieces(ps, qs, m), NEW k, InLeaf(qs, k)
  PROVE  InLeaf(ps, k)
<1>1. PICK q \in 1..Len(qs) : qs[q].lvl = 0 /\ \E j \in 1..Len(qs[q].slots) : qs[q].slots[j].key = k
  BY DEF InLeaf
<1>2. ps[Root].lvl \in Nat /\ ps[Root].lvl > 0 /\ Len(ps) \in Nat
  BY RootLevel, PagesTyped
<1>3. q \in 1..Len(ps) /\ q # Root
  <2>1. /\ Len(qs) = Len(ps) + 2 /\ qs[Len(ps) + 1].lvl = ps[Root].lvl /\ qs[Len(ps) + 2].lvl = ps[Root].lvl
        /\ qs[Root].lvl = ps[Root].lvl + 1
    BY DEF RootPieces
  <2>2. q \in 1..Len(ps) \/ q = Len(ps) + 1 \/ q = Len(ps) + 2
    BY <2>1, <1>2
  <2> QED  BY <2>1, <2>2, <1>1, <1>2
<1>4. qs[q] = ps[q]
  BY <1>3 DEF RootPieces
<1> QED  BY <1>1, <1>3, <1>4 DEF InLeaf

-----------------------------------------------------------------------------
(* Every action keeps the order                                            *)

\* What a step of thread t has to show.
LEMMA OrderKept ==
  ASSUME IInv, NEW t \in Threads, NEW s, Turned(t, s, stack'),
         Ordered(pages'), Fenced(pages', Hidden(stack'), Posts(stack')), FramesAim(pages', s),
         \A u \in Threads \ {t} : FramesAim(pages', stack[u]), KeysFresh'
  PROVE  OInv'
<1>1. stack'[t] = s /\ \A u \in Threads \ {t} : stack'[u] = stack[u]
  BY DEF IInv, Turned
<1>2. \A u \in Threads : FramesAim(pages', stack'[u])
  BY <1>1
<1> QED  BY <1>2 DEF OInv

\* Where a visit takes frame f.
VisitsTo(ps, f, g) ==
  /\ g.op = f.op /\ g.key = f.key /\ g.stop = f.stop /\ g.child = f.child /\ g.at \in {"load", "page"}
  /\ \/ g.pageNo = f.pageNo
     \/ /\ FindSlot(ps[f.pageNo], f.key, f.stop) = 0
        /\ g.pageNo = ps[f.pageNo].right
     \/ /\ FindSlot(ps[f.pageNo], f.key, f.stop) # 0 /\ ps[f.pageNo].lvl # f.lvl
        /\ g.pageNo = ps[f.pageNo].slots[FindSlot(ps[f.pageNo], f.key, f.stop)].child

\* A visit does not take a frame past its key.
LEMMA VisitAims ==
  ASSUME NEW ps, NEW h, NEW w, PagesOK(ps), Ordered(ps), Fenced(ps, h, w),
         NEW f, FrameOK(ps, f), f.at = "load", AimOK(ps, f),
         NEW g, VisitsTo(ps, f, g)
  PROVE  AimOK(ps, g) /\ HalfOK(ps, g)
<1> DEFINE p == f.pageNo
           i == FindSlot(ps[p], f.key, f.stop)
<1>0. /\ g.op = f.op /\ g.key = f.key /\ g.stop = f.stop /\ g.at \in {"load", "page"}
      /\ \/ g.pageNo = f.pageNo
         \/ i = 0 /\ g.pageNo = ps[p].right
         \/ i # 0 /\ ps[p].lvl # f.lvl /\ g.pageNo = ps[p].slots[i].child
  BY DEF VisitsTo
<1>1. /\ p \in 1..Len(ps) /\ f.key \in KeySet /\ f.stop \in BOOLEAN /\ f.lvl \in Nat
      /\ ps[p].lvl \in Nat /\ ps[p].lvl >= f.lvl
  BY PagesTyped, FrameTyped DEF FrameOK
<1>2. HalfOK(ps, g)
  BY <1>0 DEF HalfOK
<1>3. CASE f.key = Stopper
  BY <1>0, <1>2, <1>3 DEF AimOK
<1>4. CASE f.key # Stopper
  <2>1. f.key < Stopper /\ f.stop = FALSE /\ NotPast(ps, p, f.key)
    BY <1>1, <1>4, KeyBound DEF AimOK
  <2>2. i = FindSlot(ps[p], f.key, FALSE)
    BY <2>1
  <2>3. NotPast(ps, g.pageNo, f.key)
    <3>1. CASE g.pageNo = f.pageNo
      BY <3>1, <2>1
    <3>2. CASE i = 0 /\ g.pageNo = ps[p].right
      BY <3>2, <1>1, <2>1, <2>2, SearchRight
    <3>3. CASE i # 0 /\ ps[p].lvl # f.lvl /\ g.pageNo = ps[p].slots[i].child
      <4>1. ps[p].lvl > 0
        BY <3>3, <1>1
      <4> QED  BY <4>1, <3>3, <1>1, <2>1, <2>2, SearchDown
    <3> QED  BY <3>1, <3>2, <3>3, <1>0
  <2> QED  BY <2>3, <1>0, <1>2 DEF AimOK
<1> QED  BY <1>3, <1>4

\* A visit keeps the order invariant.
LEMMA VisitOrder ==
  ASSUME IInv, LInv, OInv, NEW t \in Threads, Visit(t)
  PROVE  OInv'
<1> DEFINE f  == Top(t)
           pg == pages[f.pageNo]
           i  == FindSlot(pg, f.key, f.stop)
           o  == stack[t]
<1>1. /\ o # <<>> /\ f.at = "load" /\ f = o[1]
      /\ pages' = pages /\ load' = load /\ todo' = todo /\ returned' = returned
  BY DEF Visit, Top
<1>2. /\ PagesOK(pages) /\ StackOK(pages, o) /\ FrameOK(pages, f) /\ f \in FrameType
      /\ Len(o) \in Nat /\ Len(o) >= 1
  BY <1>1, TopFacts
<1>3. /\ Ordered(pages) /\ Fenced(pages, Hidden(stack), Posts(stack)) /\ KeysFresh
      /\ \A u \in Threads : FramesAim(pages, stack[u])
  BY DEF OInv
<1>4. PICK g : /\ SetTop(t, g)
               /\ \/ g = [f EXCEPT !.drill = pg.lvl]
                  \/ g = [f EXCEPT !.at = "page"]
                  \/ pg.lvl # f.lvl /\ i # 0 /\ g = [f EXCEPT !.pageNo = pg.slots[i].child, !.drill = pg.lvl - 1]
                  \/ i = 0 /\ g = [f EXCEPT !.pageNo = pg.right, !.drill = pg.lvl]
  BY DEF Visit
<1>5. g \in FrameType /\ VisitsTo(pages, f, g)
  <2> SUFFICES /\ g \in FrameType
               /\ g.op = f.op /\ g.key = f.key /\ g.stop = f.stop /\ g.child = f.child
               /\ g.at \in {"load", "page"}
               /\ \/ g.pageNo = f.pageNo
                  \/ i = 0 /\ g.pageNo = pg.right
                  \/ i # 0 /\ pg.lvl # f.lvl /\ g.pageNo = pg.slots[i].child
    BY DEF VisitsTo
  <2>1. f \in FrameType
    BY <1>2
  <2>2. f.pageNo \in 1..Len(pages) /\ pages[f.pageNo].lvl \in Nat /\ pages[f.pageNo].right \in Nat
    BY <1>2, PagesTyped DEF FrameOK
  <2>3. CASE g = [f EXCEPT !.drill = pg.lvl]
    BY <2>1, <2>2, <2>3, <1>1 DEF FrameType
  <2>4. CASE g = [f EXCEPT !.at = "page"]
    BY <2>1, <2>4 DEF FrameType
  <2>5. CASE pg.lvl # f.lvl /\ i # 0 /\ g = [f EXCEPT !.pageNo = pg.slots[i].child, !.drill = pg.lvl - 1]
    <3>1. f.stop \in BOOLEAN /\ Len(pg.slots) \in Nat /\ Len(pg.slots) > 0
      BY <2>1, <2>2, <1>2, FrameTyped, PagesTyped
    <3>2. i \in 1..Len(pg.slots)
      <4>1. i \in 0..Len(pg.slots)
        BY <3>1, SlotFound
      <4> QED  BY <4>1, <3>1, <2>5
    <3>3. pg.slots[i].child \in Nat
      BY <3>2, <2>2, <1>2, PagesTyped
    <3>4. pg.lvl - 1 \in Nat
      <4>1. pg.lvl >= f.lvl /\ f.lvl \in Nat /\ pg.lvl \in Nat
        BY <2>1, <2>2, <1>1, <1>2, FrameTyped DEF FrameOK
      <4> HIDE DEF pg, f
      <4> QED  BY <4>1, <2>5
    <3> HIDE DEF i
    <3> QED  BY <2>1, <2>5, <3>3, <3>4, <1>1 DEF FrameType
  <2>6. CASE i = 0 /\ g = [f EXCEPT !.pageNo = pg.right, !.drill = pg.lvl]
    <3> HIDE DEF i
    <3> QED  BY <2>1, <2>2, <2>6, <1>1 DEF FrameType
  <2> QED  BY <1>4, <2>3, <2>4, <2>5, <2>6
<1>6. g.op = f.op /\ g.key = f.key /\ g.stop = f.stop /\ g.child = f.child /\ g.at \in {"load", "page"}
  BY <1>5 DEF VisitsTo
<1> HIDE DEF pg
<1>7. AimOK(pages, f)
  <2>1. 1 \in 1..Len(o)
    BY <1>2
  <2> QED  BY <2>1, <1>1, <1>3 DEF FramesAim
<1>8. AimOK(pages, g) /\ HalfOK(pages, g)
  BY <1>1, <1>2, <1>3, <1>5, <1>7, VisitAims
<1> DEFINE s == <<g>> \o Tail(o)
<1>9. Swapped(o, s, g) /\ Turned(t, s, stack')
  BY <1>4 DEF Swapped, Turned, SetTop
<1> HIDE DEF s, i, f
<1>10. /\ o \in Seq(FrameType) /\ Len(s) = Len(o) /\ s # <<>> /\ s[1] = g
       /\ Last(s) = IF Len(o) = 1 THEN g ELSE Last(o)
       /\ \A j \in 2..Len(o) : Post(s, j) = Post(o, j)
  <2>1. o \in Seq(FrameType)
    BY <1>2 DEF StackOK
  <2> QED  BY <2>1, <1>1, <1>5, <1>6, <1>9, TopReplaced
<1>11. Hidden(stack') = Hidden(stack)
  <2>1. Top(t).at # "split" /\ s[1].at # "split"
    BY <1>1, <1>5, <1>6, <1>10 DEF f
  <2> QED  BY <2>1, <1>9, SameHidden
<1>12. Posts(stack') = Posts(stack)
  BY <1>9, <1>10, SamePosts
<1>13. Fenced(pages', Hidden(stack'), Posts(stack'))
  BY <1>1, <1>3, <1>11, <1>12
<1>14. FramesAim(pages', s)
  <2>1. Len(o) >= 2 => PostsFor(g, o[2])
    <3> SUFFICES ASSUME Len(o) >= 2 PROVE PostsFor(g, o[2])
      OBVIOUS
    <3>1. 2 \in 2..Len(o)
      BY <1>2
    <3>2. PostsFor(o[2 - 1], o[2])
      BY <3>1, <1>3, Zenon DEF FramesAim
    <3>3. PostsFor(f, o[2])
      BY <3>2, <1>1
    <3> QED  BY <3>3, <1>5, <1>6 DEF PostsFor
  <2>2. FramesAim(pages, o)
    BY <1>3
  <2>3. FramesAim(pages, s)
    BY <2>1, <2>2, <1>1, <1>2, <1>5, <1>6, <1>8, <1>9, FramesSwapped
  <2> QED  BY <2>3, <1>1
<1>15. Last(s).key = Last(o).key
  <2>1. CASE Len(o) = 1
    <3>1. Last(o) = f
      BY <2>1, <1>1 DEF Last
    <3> QED  BY <3>1, <2>1, <1>5, <1>6, <1>10
  <2>2. CASE Len(o) # 1
    BY <2>2, <1>10
  <2> QED  BY <2>1, <2>2
<1>16. KeysFresh'
  BY <1>1, <1>3, <1>9, <1>10, <1>15, KeysKept
<1>17. \A u \in Threads \ {t} : FramesAim(pages', stack[u])
  BY <1>1, <1>3
<1> QED  BY <1>1, <1>3, <1>9, <1>13, <1>14, <1>16, <1>17, OrderKept

\* A frame that starts at the root.
Starts(g, op, k, c, b, l) ==
  /\ op \in {"insert", "fix"} /\ k \in KeySet /\ c \in Nat /\ b \in BOOLEAN /\ l \in Nat
  /\ b => k = Stopper
  /\ op = "insert" => ~b /\ k < Stopper
  /\ g = Frame(op, k, c, b, l)

\* A frame at the root aims at whatever it wants.
LEMMA FreshFrame ==
  ASSUME NEW ps, PagesOK(ps), Ordered(ps), NEW g, NEW op, NEW k, NEW c, NEW b, NEW l,
         Starts(g, op, k, c, b, l)
  PROVE  /\ g \in FrameType /\ AimOK(ps, g) /\ HalfOK(ps, g)
         /\ g.op = op /\ g.key = k /\ g.child = c /\ g.stop = b /\ g.lvl = l /\ g.at = "load"
<1>0. /\ op \in {"insert", "fix"} /\ k \in KeySet /\ c \in Nat /\ b \in BOOLEAN /\ l \in Nat
      /\ b => k = Stopper
      /\ op = "insert" => ~b /\ k < Stopper
      /\ g = Frame(op, k, c, b, l)
  BY DEF Starts
<1>1. /\ g \in FrameType /\ g.op = op /\ g.key = k /\ g.child = c /\ g.stop = b /\ g.lvl = l
      /\ g.at = "load" /\ g.pageNo = Root
  BY <1>0 DEF Frame, FrameType, Root, NoLevel, NoPage
<1>2. NotPast(ps, g.pageNo, g.key)
  BY <1>1, NothingLeftOfRoot
<1>3. AimOK(ps, g) /\ HalfOK(ps, g)
  BY <1>0, <1>1, <1>2 DEF AimOK, HalfOK
<1> QED  BY <1>1, <1>3

\* A call of btreeInsertKey keeps the order invariant.
LEMMA InsertKeyOrder ==
  ASSUME IInv, LInv, OInv, NEW t \in Threads, NEW k \in Keys, InsertKey(t, k)
  PROVE  OInv'
<1> DEFINE g == Frame("insert", k, NoPage, FALSE, 0)
           s == <<g>>
<1>1. stack[t] = <<>> /\ pages' = pages /\ stack' = [stack EXCEPT ![t] = s]
  BY DEF InsertKey
<1>2. /\ PagesOK(pages) /\ Ordered(pages) /\ Fenced(pages, Hidden(stack), Posts(stack)) /\ KeysFresh
      /\ \A u \in Threads : FramesAim(pages, stack[u])
  BY DEF OInv, IInv
<1>3. k \in KeySet /\ k < Stopper
  BY BtreeAssumption DEF KeySet, Stopper
<1>4. g.at = "load" /\ AimOK(pages, g) /\ HalfOK(pages, g)
  <2>1. Starts(g, "insert", k, NoPage, FALSE, 0)
    BY <1>3 DEF NoPage, Starts
  <2> HIDE DEF g
  <2> QED  BY <2>1, <1>2, FreshFrame
<1> HIDE DEF g
<1>5. Len(s) = 1 /\ s # <<>> /\ s[1] = g
  OBVIOUS
<1> HIDE DEF s
<1>6. Turned(t, s, stack')
  BY <1>1 DEF Turned
<1>7. Hidden(stack') = Hidden(stack)
  <2>1. s[1].at # "split"
    BY <1>4, <1>5
  <2> QED  BY <2>1, <1>1, <1>6, SameHidden
<1>8. Posts(stack') = Posts(stack)
  <2>1. Len(stack[t]) <= 1 /\ Len(s) \in Nat /\ Len(s) <= 1
    BY <1>1, <1>5
  <2> QED  BY <2>1, <1>6, SamePosts
<1>9. FramesAim(pages', s)
  BY <1>1, <1>4, <1>5 DEF FramesAim
<1>10. KeysFresh'
  BY <1>2, KeyTaken
<1>11. Fenced(pages', Hidden(stack'), Posts(stack')) /\ Ordered(pages')
  BY <1>1, <1>2, <1>7, <1>8
<1>12. \A u \in Threads \ {t} : FramesAim(pages', stack[u])
  BY <1>1, <1>2
<1> QED  BY <1>6, <1>9, <1>10, <1>11, <1>12, OrderKept

\* The lower fence of a split is in no slot before it is posted.
LEMMA LowIsNew ==
  ASSUME NEW ps, NEW h, NEW w, PagesOK(ps), Ordered(ps), Fenced(ps, h, w), NEW d \in w, ~d.half,
         NEW p \in 1..Len(ps), ps[p].lvl = ps[d.c].lvl + 1, NEW i \in 1..Len(ps[p].slots)
  PROVE  ps[p].slots[i].key # d.low
<1> SUFFICES ASSUME ps[p].slots[i].key = d.low PROVE FALSE
  OBVIOUS
<1> DEFINE c == ps[p].slots[i].child
<1>1. PostOK(ps, h, d)
  BY DEF Fenced
<1>2. /\ d.c \in 1..Len(ps) /\ d.r \in 1..Len(ps) /\ d.c \notin h /\ d.low < d.fence
      /\ Fence(ps, h, d.c) = d.low
  BY <1>1 DEF PostOK
<1>3. ps[d.c].lvl \in Nat
  BY <1>2, PagesTyped
<1>4. ps[p].lvl > 0
  BY <1>3
<1>5. c \in 1..Len(ps) /\ ps[p].lvl = ps[c].lvl + 1 /\ Expected(ps, h, w, d.low, c) /\ c \notin h
  BY <1>4, SlotLeads
<1>6. ps[c].lvl = ps[d.c].lvl
  <2>1. ps[c].lvl \in Nat
    BY <1>5, PagesTyped
  <2> QED  BY <2>1, <1>3, <1>5, SameNext
<1> HIDE DEF c
<1>7. \A y, z \in 1..Len(ps) : ps[y].lvl = ps[z].lvl /\ y # z /\ y \notin h /\ z \notin h =>
        Fence(ps, h, y) # Fence(ps, h, z)
  BY FencesOf
<1>8. ASSUME NEW e \in w, e # d PROVE d.c # e.c /\ d.c # e.r
  BY <1>8 DEF Fenced
<1>9. ASSUME NEW e \in w
      PROVE  /\ e.c \in 1..Len(ps) /\ e.r \in 1..Len(ps) /\ e.c \notin h /\ e.r \notin h
             /\ ps[e.c].lvl = ps[e.r].lvl /\ Fence(ps, h, e.c) = e.low /\ Fence(ps, h, e.r) = e.fence
             /\ e.low < e.fence
  <2>1. PostOK(ps, h, e)
    BY DEF Fenced
  <2> QED  BY <2>1 DEF PostOK
<1>10. d.low \in Nat /\ d.fence \in Nat
  <2>1. Fence(ps, h, d.c) \in Nat /\ Fence(ps, h, d.r) \in Nat
    BY <1>2, FencesOf
  <2> QED  BY <2>1, <1>9
<1>11. CASE \E e \in w : e.c = c /\ (d.low = e.fence \/ (d.low = e.low /\ e.half))
  <2>1. PICK e \in w : e.c = c /\ (d.low = e.fence \/ (d.low = e.low /\ e.half))
    BY <1>11
  <2>2. e # d
    BY <2>1, <1>2, <1>10
  <2>3. d.c # e.c /\ d.c # e.r /\ ps[e.c].lvl = ps[d.c].lvl /\ ps[e.r].lvl = ps[d.c].lvl
    BY <2>1, <2>2, <1>6, <1>8, <1>9
  <2>4. Fence(ps, h, d.c) # Fence(ps, h, e.c) /\ Fence(ps, h, d.c) # Fence(ps, h, e.r)
    BY <2>3, <1>2, <1>7, <1>9
  <2> QED  BY <2>1, <2>4, <1>2, <1>9
<1>12. CASE d.low = Fence(ps, h, c) /\ \A e \in w : c \notin {e.c, e.r}
  <2>1. c # d.c
    BY <1>12
  <2> QED  BY <2>1, <1>2, <1>5, <1>6, <1>7, <1>12
<1> QED  BY <1>5, <1>11, <1>12 DEF Expected

\* A frame on a page to insert a key the page does not have: the key has a slot there.
LEMMA InsertAdds ==
  ASSUME IInv, LInv, OInv, NEW t \in Threads, InsertSlot(t),
         \A j \in 1..Len(pages[Top(t).pageNo].slots) : pages[Top(t).pageNo].slots[j].key # Top(t).key
  PROVE  LET f == Top(t)
             i == FindSlot(pages[f.pageNo], f.key, f.stop)
             e == Slot(f.key, f.child, FALSE)
         IN  /\ AddedSlot(pages, pages', f.pageNo, i, e) /\ Belongs(pages, f.pageNo, i, f.key)
             /\ Ordered(pages') /\ Slotted(pages, pages', f.pageNo)
             /\ \A j \in 1..Len(pages'[f.pageNo].slots) :
                  \/ pages'[f.pageNo].slots[j] = e
                  \/ \E l \in 1..Len(pages[f.pageNo].slots) :
                       pages'[f.pageNo].slots[j] = pages[f.pageNo].slots[l]
<1> DEFINE f == Top(t)
           p == f.pageNo
           i == FindSlot(pages[p], f.key, f.stop)
           e == Slot(f.key, f.child, FALSE)
<1>1. stack[t] # <<>> /\ f.at = "page" /\ f.op = "insert" /\ f = stack[t][1]
  BY DEF InsertSlot, OnPage, Top
<1>2. /\ PagesOK(pages) /\ FrameOK(pages, f) /\ f \in FrameType /\ p \in 1..Len(pages)
      /\ 1 \in 1..Len(stack[t])
  BY <1>1, TopFacts
<1>3. Ordered(pages) /\ AimOK(pages, f)
  BY <1>1, <1>2 DEF OInv, FramesAim
<1>4. f.key \in KeySet /\ f.key < Stopper /\ f.stop = FALSE /\ NotPast(pages, p, f.key) /\ i # 0
  <2>1. f.key \in KeySet /\ f.stop \in BOOLEAN /\ i # 0
    BY <1>1, <1>2, FrameTyped DEF FrameOK
  <2>2. ~f.stop /\ f.key < Stopper
    BY <1>1, <1>3 DEF AimOK
  <2>3. f.key # Stopper
    BY <2>1, <2>2, KeyBound
  <2>4. NotPast(pages, p, f.key)
    BY <2>3, <1>1, <1>3 DEF AimOK
  <2> QED  BY <2>1, <2>2, <2>4
<1>5. AddedSlot(pages, pages', p, i, e)
  BY InsertSlotEdits
<1>6. e.key = f.key /\ e.stop = FALSE
  BY DEF Slot
<1>7. \A j \in 1..Len(pages[p].slots) : pages[p].slots[j].key # f.key
  OBVIOUS
<1>8. i = FindSlot(pages[p], f.key, FALSE)
  BY <1>4
<1> HIDE DEF i, e, f, p
<1>9. Belongs(pages, p, i, f.key)
  BY <1>2, <1>3, <1>4, <1>7, <1>8, PlaceOfKey
<1>10. /\ Ordered(pages') /\ Slotted(pages, pages', p)
       /\ \A j \in 1..Len(pages'[p].slots) :
            pages'[p].slots[j] = e \/ \E l \in 1..Len(pages[p].slots) : pages'[p].slots[j] = pages[p].slots[l]
  BY <1>2, <1>3, <1>5, <1>6, <1>9, AddedOrder
<1> QED  BY <1>5, <1>9, <1>10 DEF i, e, f, p

\* btreeInsertSlot on a leaf keeps the order invariant.
LEMMA LeafInsertOrder ==
  ASSUME IInv, LInv, OInv, NEW t \in Threads, InsertSlot(t), Len(stack[t]) = 1
  PROVE  OInv'
<1> DEFINE f == Top(t)
           p == f.pageNo
           i == FindSlot(pages[p], f.key, f.stop)
           e == Slot(f.key, f.child, FALSE)
<1>1. /\ stack[t] # <<>> /\ f.at = "page" /\ f = stack[t][1]
      /\ stack' = [stack EXCEPT ![t] = <<>>] /\ returned' = returned \union {f.key}
      /\ todo' = todo /\ load' = load
  BY DEF InsertSlot, OnPage, Top
<1>2. /\ PagesOK(pages) /\ StackOK(pages, stack[t]) /\ FrameOK(pages, f) /\ p \in 1..Len(pages)
  BY <1>1, TopFacts
<1>3. /\ Ordered(pages) /\ Fenced(pages, Hidden(stack), Posts(stack)) /\ KeysFresh
      /\ \A u \in Threads : FramesAim(pages, stack[u])
  BY DEF OInv
<1>4. f.lvl = 0 /\ pages[p].lvl = 0 /\ f.key \in Keys
  <2>1. f.lvl = 0
    BY <1>1, <1>2 DEF StackOK
  <2> QED  BY <2>1, <1>1, <1>2 DEF FrameOK
<1>5. f.key = Last(stack[t]).key
  BY <1>1 DEF Last
<1>6. ~InLeaf(pages, f.key)
  BY <1>1, <1>3, <1>4, <1>5 DEF KeysFresh
<1>7. \A j \in 1..Len(pages[p].slots) : pages[p].slots[j].key # f.key
  BY <1>2, <1>4, <1>6 DEF InLeaf
<1>8. /\ AddedSlot(pages, pages', p, i, e) /\ Ordered(pages') /\ Slotted(pages, pages', p)
      /\ \A j \in 1..Len(pages'[p].slots) :
           pages'[p].slots[j] = e \/ \E l \in 1..Len(pages[p].slots) : pages'[p].slots[j] = pages[p].slots[l]
  BY <1>7, InsertAdds
<1>9. e.key = f.key
  BY DEF Slot
<1>10. Turned(t, <<>>, stack')
  BY <1>1 DEF Turned
<1> HIDE DEF i, e
<1>11. Hidden(stack') = Hidden(stack)
  <2>1. Top(t).at # "split"
    BY <1>1
  <2> QED  BY <2>1, <1>10, SameHidden
<1>12. Posts(stack') = Posts(stack)
  <2>1. Len(stack[t]) <= 1 /\ Len(<<>>) \in Nat /\ Len(<<>>) <= 1
    OBVIOUS
  <2> QED  BY <2>1, <1>10, SamePosts
<1>13. Fenced(pages', Hidden(stack'), Posts(stack'))
  <2>1. Fenced(pages', Hidden(stack), Posts(stack))
    BY <1>2, <1>3, <1>4, <1>8, LeafSlotFences
  <2> QED  BY <2>1, <1>11, <1>12
<1>14. FramesAim(pages', <<>>)
  BY DEF FramesAim
<1>15. \A u \in Threads \ {t} : FramesAim(pages', stack[u])
  <2>1. Moved(pages, pages', Top(t).pageNo)
    BY <1>8, SlottedMoves
  <2> QED  BY <2>1, <1>1, <1>3, OthersAim
<1>16. KeysFresh'
  <2>1. \A x \in Keys : InLeaf(pages', x) => InLeaf(pages, x) \/ x = f.key
    BY <1>8, <1>9, AddedKeys
  <2> QED  BY <2>1, <1>1, <1>3, <1>5, <1>10, KeyReturned
<1> QED  BY <1>8, <1>10, <1>13, <1>14, <1>15, <1>16, OrderKept

\* What a frame that works for the one below it knows.
LEMMA WorksFor ==
  ASSUME IInv, LInv, OInv, NEW t \in Threads, Len(stack[t]) >= 2
  PROVE  /\ stack[t] # <<>> /\ stack[t][2] \in FrameType /\ stack[t][2].at = "parent"
         /\ AimOK(pages, stack[t][2]) /\ HalfOK(pages, stack[t][2]) /\ PostsFor(Top(t), stack[t][2])
         /\ FrameOK(pages, stack[t][2]) /\ stack[t][2].op = "insert"
         /\ Top(t).lvl = stack[t][2].lvl + 1 /\ stack[t][2].lvl \in Nat
         /\ Post(stack[t], 2) \in Posts(stack)
         /\ Post(stack[t], 2) = [c |-> stack[t][2].pageNo, r |-> stack[t][2].right, low |-> stack[t][2].low,
                                 fence |-> stack[t][2].fence, half |-> Top(t).op = "fix"]
<1> DEFINE o == stack[t]
           n == Len(o)
<1>1. StackOK(pages, o) /\ n \in Nat /\ n >= 2 /\ o # <<>>
  BY DEF IInv, StacksOK, StackOK
<1>2. 2 \in 1..n /\ 2 \in 2..n /\ 1 \in 1..n
  BY <1>1
<1>3. FramesAim(pages, o)
  BY DEF OInv
<1>4. o[2].at = "parent" /\ FrameOK(pages, o[2]) /\ o[2].lvl = n - 2 /\ o[1].lvl = n - 1
  <2>1. \A i \in 1..n : (o[i].at = "parent" <=> i > 1) /\ FrameOK(pages, o[i]) /\ o[i].lvl = n - i
    BY <1>1 DEF StackOK
  <2> HIDE DEF o, n
  <2> QED  BY <2>1, <1>2
<1>5. AimOK(pages, o[2]) /\ HalfOK(pages, o[2])
  BY <1>2, <1>3 DEF FramesAim
<1>6. PostsFor(o[1], o[2])
  <2>1. PostsFor(o[2 - 1], o[2])
    BY <1>2, <1>3, Zenon DEF FramesAim
  <2> QED  BY <2>1
<1>7. Post(o, 2) \in Posts(stack)
  BY <1>2, OwnPost
<1>8. o[2] \in FrameType /\ o[2].op = "insert"
  BY <1>4 DEF FrameOK
<1>9. o[1].lvl = o[2].lvl + 1 /\ o[2].lvl \in Nat
  <2> HIDE DEF o, n
  <2> QED  BY <1>1, <1>4
<1>10. Post(o, 2) = [c |-> o[2].pageNo, r |-> o[2].right, low |-> o[2].low,
                     fence |-> o[2].fence, half |-> o[1].op = "fix"]
  <2>1. 2 - 1 = 1
    OBVIOUS
  <2> HIDE DEF o
  <2> QED  BY <2>1 DEF Post
<1> QED  BY <1>1, <1>4, <1>5, <1>6, <1>7, <1>8, <1>9, <1>10 DEF Top

\* Post g is post d once the fence of its left page is posted, in slot i of page p.
HalfDone(d, g) == ~d.half /\ g.c = d.c /\ g.r = d.r /\ g.low = d.low /\ g.fence = d.fence /\ g.half
\* btreeInsertSlot posts the fence of the left half of split d.
LowAdded(ps, qs, p, i, d) ==
  /\ AddedSlot(ps, qs, p, i, Slot(d.low, d.c, FALSE)) /\ Belongs(ps, p, i, d.low)
  /\ ps[p].lvl = ps[d.c].lvl + 1

\* Then the split is half posted.
LEMMA LowPostedBy ==
  ASSUME NEW ps, NEW qs, NEW p, NEW i, NEW h, NEW w, NEW d, NEW g, d \in w,
         PagesOK(ps), Ordered(ps), Fenced(ps, h, w), LowAdded(ps, qs, p, i, d), HalfDone(d, g)
  PROVE  Fenced(qs, h, (w \ {d}) \union {g})
<1>1. /\ AddedSlot(ps, qs, p, i, Slot(d.low, d.c, FALSE)) /\ Belongs(ps, p, i, d.low)
      /\ ps[p].lvl = ps[d.c].lvl + 1
  BY DEF LowAdded
<1>2. ~d.half /\ g.c = d.c /\ g.r = d.r /\ g.low = d.low /\ g.fence = d.fence /\ g.half
  BY DEF HalfDone
<1> QED  BY <1>1, <1>2, LowPosted

\* btreeInsertSlot on an interior page keeps the order invariant.
LEMMA NodeInsertOrder ==
  ASSUME IInv, LInv, OInv, NEW t \in Threads, InsertSlot(t), Len(stack[t]) # 1
  PROVE  OInv'
<1> DEFINE f  == Top(t)
           p  == f.pageNo
           i  == FindSlot(pages[p], f.key, f.stop)
           e  == Slot(f.key, f.child, FALSE)
           o  == stack[t]
           up == stack[t][2]
           g  == Frame("fix", up.fence, up.right, up.last, f.lvl)
           s  == <<g>> \o Tail(o)
           d  == Post(o, 2)
           w  == Posts(stack)
           h  == Hidden(stack)
<1>1. /\ stack[t] # <<>> /\ f.at = "page" /\ f.op = "insert" /\ f = stack[t][1]
      /\ stack' = [stack EXCEPT ![t] = s]
      /\ returned' = returned /\ todo' = todo /\ load' = load
  BY DEF InsertSlot, OnPage, Top, SetTop
<1>2. /\ PagesOK(pages) /\ StackOK(pages, o) /\ FrameOK(pages, f) /\ p \in 1..Len(pages)
      /\ Len(o) \in Nat /\ Len(o) >= 1 /\ o \in Seq(FrameType) /\ f.lvl \in Nat
  BY <1>1, TopFacts DEF StackOK
<1>3. Len(o) >= 2
  <2> DEFINE n == Len(o)
  <2>1. n \in Nat /\ n >= 1 /\ n # 1
    BY <1>2
  <2> HIDE DEF n, o
  <2>2. n >= 2
    BY <2>1
  <2> QED  BY <2>2 DEF n
<1>4. /\ Ordered(pages) /\ Fenced(pages, h, w) /\ KeysFresh
      /\ \A u \in Threads : FramesAim(pages, stack[u])
  BY DEF OInv
<1>5. /\ up \in FrameType /\ up.at = "parent" /\ HalfOK(pages, up) /\ PostsFor(f, up)
      /\ FrameOK(pages, up) /\ up.op = "insert" /\ f.lvl = up.lvl + 1 /\ up.lvl \in Nat /\ d \in w
      /\ d = [c |-> up.pageNo, r |-> up.right, low |-> up.low, fence |-> up.fence, half |-> f.op = "fix"]
  BY <1>3, WorksFor
<1>6. f.key = up.low /\ f.child = up.pageNo
  BY <1>1, <1>5 DEF PostsFor
<1> HIDE DEF d, w, h, s, g, up, o
<1>7. ~d.half /\ d.c = up.pageNo /\ d.r = up.right /\ d.low = f.key /\ d.fence = up.fence
  BY <1>1, <1>5, <1>6
<1>8. pages[p].lvl = pages[d.c].lvl + 1 /\ pages[p].lvl > 0
  <2>1. pages[p].lvl = f.lvl
    BY <1>1, <1>2 DEF FrameOK
  <2>2. pages[up.pageNo].lvl = up.lvl
    BY <1>5 DEF FrameOK
  <2> QED  BY <2>1, <2>2, <1>5, <1>7
<1>9. \A j \in 1..Len(pages[p].slots) : pages[p].slots[j].key # f.key
  BY <1>2, <1>4, <1>5, <1>7, <1>8, LowIsNew
<1>10. AddedSlot(pages, pages', p, i, e) /\ Belongs(pages, p, i, f.key) /\ Ordered(pages') /\ Slotted(pages, pages', p)
  BY <1>9, InsertAdds
<1>11. e = Slot(d.low, d.c, FALSE)
  BY <1>6, <1>7
<1> HIDE DEF i, e
<1>12. PagesOK(pages')
  BY InsertSlotKeeps DEF IInv
<1>13. Starts(g, "fix", up.fence, up.right, up.last, f.lvl)
  <2>1. up.fence \in KeySet /\ up.right \in Nat /\ up.last \in BOOLEAN
    BY <1>5, FrameTyped DEF FrameOK
  <2>2. up.last => up.fence = Stopper
    BY <1>5 DEF HalfOK
  <2> QED  BY <2>1, <2>2, <1>2 DEF Starts, g
<1>14. /\ g \in FrameType /\ AimOK(pages', g) /\ HalfOK(pages', g)
       /\ g.op = "fix" /\ g.key = up.fence /\ g.child = up.right /\ g.stop = up.last /\ g.at = "load"
  BY <1>10, <1>12, <1>13, FreshFrame
<1>15. Swapped(o, s, g) /\ Turned(t, s, stack')
  BY <1>1 DEF Swapped, Turned, s
<1>16. /\ Len(s) = Len(o) /\ s # <<>> /\ s[1] = g /\ s[2] = up
       /\ Last(s) = IF Len(o) = 1 THEN g ELSE Last(o)
  <2>1. /\ Len(s) = Len(o) /\ s # <<>> /\ s[1] = g
        /\ \A j \in 2..Len(o) : s[j] = o[j]
        /\ Last(s) = IF Len(o) = 1 THEN g ELSE Last(o)
    BY <1>1, <1>2, <1>14, <1>15, TopReplaced DEF o
  <2>2. 2 \in 2..Len(o)
    BY <1>2, <1>3
  <2>3. s[2] = o[2]
    BY <2>1, <2>2, Zenon
  <2> QED  BY <2>1, <2>3 DEF o, up
<1>17. Hidden(stack') = h
  <2>1. Top(t).at # "split" /\ s[1].at # "split"
    BY <1>1, <1>14, <1>16
  <2> QED  BY <2>1, <1>15, SameHidden DEF h
<1> DEFINE b == Post(s, 2)
<1>18. b.c = d.c /\ b.r = d.r /\ b.low = d.low /\ b.fence = d.fence /\ b.half
  <2>1. b = [c |-> up.pageNo, r |-> up.right, low |-> up.low, fence |-> up.fence, half |-> g.op = "fix"]
    <3>1. 2 - 1 = 1
      OBVIOUS
    <3> QED  BY <3>1, <1>16 DEF Post
  <2> HIDE DEF b
  <2> QED  BY <2>1, <1>6, <1>7, <1>14
<1> HIDE DEF b
<1>19. Posts(stack') = (w \ {d}) \union {b}
  BY <1>3, <1>14, <1>15, LowDone DEF w, d, o, b
<1>20. Fenced(pages', h, (w \ {d}) \union {b})
  <2>1. AddedSlot(pages, pages', p, i, Slot(d.low, d.c, FALSE)) /\ Belongs(pages, p, i, d.low)
    BY <1>7, <1>10, <1>11
  <2>2. LowAdded(pages, pages', p, i, d)
    BY <2>1, <1>8 DEF LowAdded
  <2>3. HalfDone(d, b)
    BY <1>7, <1>18 DEF HalfDone
  <2> QED  BY <2>2, <2>3, <1>2, <1>4, <1>5, LowPostedBy
<1>21. FramesAim(pages', s)
  <2>1. PostsFor(g, up)
    BY <1>14 DEF PostsFor
  <2>2. FramesAim(pages, o)
    BY <1>4 DEF o
  <2>3. o # <<>>
    BY <1>1 DEF o
  <2>4. Len(o) >= 2 => PostsFor(g, o[2])
    BY <2>1 DEF o, up
  <2> QED  BY <2>2, <2>3, <2>4, <1>2, <1>14, <1>15, FramesSwapped
<1>22. \A u \in Threads \ {t} : FramesAim(pages', stack[u])
  <2>1. Moved(pages, pages', Top(t).pageNo)
    BY <1>10, SlottedMoves
  <2> QED  BY <2>1, <1>1, <1>4, OthersAim
<1>23. KeysFresh'
  <2>1. \A x \in Keys : InLeaf(pages', x) => InLeaf(pages, x)
    BY <1>8, <1>10, SlottedKeys
  <2>2. Last(s).key = Last(o).key
    BY <1>3, <1>16
  <2> QED  BY <2>1, <2>2, <1>1, <1>4, <1>15, <1>16, KeysKept DEF o
<1>24. Fenced(pages', Hidden(stack'), Posts(stack'))
  BY <1>17, <1>19, <1>20
<1> QED  BY <1>10, <1>15, <1>21, <1>22, <1>23, <1>24, OrderKept

\* A page under insertion is no new half, and leads to none.
LEMMA PageIsShown ==
  ASSUME IInv, LInv, NEW t \in Threads, stack[t] # <<>>, Top(t).at = "page"
  PROVE  Top(t).pageNo \notin Hidden(stack) /\ pages[Top(t).pageNo].right \notin Hidden(stack)
<1> DEFINE p == Top(t).pageNo
<1>1. ASSUME NEW u \in Threads, stack[u] # <<>>, Top(u).at = "split"
      PROVE  p # Top(u).right /\ pages[p].right # Top(u).right
  <2>1. u # t
    BY <1>1
  <2>2. /\ NoLink(pages, Top(u).right, Top(u).pageNo)
        /\ \A i \in 1..Len(stack[t]) : Unknown(stack[t][i], Top(u).right)
    BY <1>1, <2>1 DEF LInv, Private
  <2>3. /\ 1 \in 1..Len(stack[t]) /\ p \in 1..Len(pages) /\ p \in Pages
        /\ wlock[p] = t
    BY TopFacts
  <2>4. wlock[Top(u).pageNo] = u
    BY <1>1, TopFacts
  <2>5. Unknown(Top(t), Top(u).right)
    BY <2>2, <2>3 DEF Top
  <2>6. pages[p].right = Top(u).right => p = Top(u).pageNo
    BY <2>2, <2>3 DEF NoLink
  <2> QED  BY <2>1, <2>3, <2>4, <2>5, <2>6 DEF Unknown
<1> QED  BY <1>1, HiddenMembers DEF Top

\* btreeSplitPage keeps the order invariant.
LEMMA SplitPageOrder ==
  ASSUME IInv, LInv, OInv, NEW t \in Threads, NEW m, SplitPage(t, m)
  PROVE  OInv'
<1> DEFINE f  == Top(t)
           p  == f.pageNo
           pg == pages[p]
           r  == Len(pages) + 1
           o  == stack[t]
           n  == Len(pg.slots)
           g  == [f EXCEPT !.at = "split", !.low = pg.slots[m].key,
                    !.fence = pg.slots[n].key, !.last = pg.slots[n].stop, !.right = r]
           s  == <<g>> \o Tail(o)
<1>1. /\ o # <<>> /\ f.at = "page" /\ f.op = "insert" /\ f = o[1]
      /\ stack' = [stack EXCEPT ![t] = s]
      /\ returned' = returned /\ todo' = todo /\ load' = load
  BY DEF SplitPage, OnPage, Top, SetTop, Last
<1>2. /\ PagesOK(pages) /\ StackOK(pages, o) /\ FrameOK(pages, f) /\ p \in 1..Len(pages)
      /\ Len(o) \in Nat /\ Len(o) >= 1 /\ o \in Seq(FrameType) /\ f \in FrameType /\ 1 \in 1..Len(o)
  <2>1. /\ PagesOK(pages) /\ StackOK(pages, o) /\ FrameOK(pages, f) /\ p \in 1..Len(pages)
        /\ Len(o) \in Nat /\ Len(o) >= 1 /\ f \in FrameType
    BY <1>1, TopFacts
  <2>2. o \in Seq(FrameType)
    BY <2>1 DEF StackOK
  <2> QED  BY <2>1, <2>2
<1>3. /\ Ordered(pages) /\ Fenced(pages, Hidden(stack), Posts(stack)) /\ KeysFresh
      /\ \A u \in Threads : FramesAim(pages, stack[u])
  BY DEF OInv
<1>4. Pieces(pages, pages', p, m) /\ PagesOK(pages')
  BY SplitPageSplits, SplitPageKeeps DEF IInv
<1>5. /\ n \in Nat /\ n > 0 /\ n \in 1..n /\ m \in 1..n /\ r \in Nat
      /\ pg.slots[m] \in SlotType /\ pg.slots[n] \in SlotType /\ Hi(pages, p) = pg.slots[n].key
  <2>1. n \in Nat /\ n > 0 /\ Len(pages) \in Nat /\ \A i \in 1..n : pg.slots[i] \in SlotType
    BY <1>2, PagesTyped
  <2>2. m \in 1..n - 1
    BY <1>4 DEF Pieces, Divided
  <2> HIDE DEF n
  <2>3. n \in 1..n /\ m \in 1..n
    BY <2>1, <2>2
  <2> QED  BY <2>1, <2>3 DEF Hi, n
<1>6. /\ pg.slots[n].stop => pg.slots[n].key = Stopper
      /\ f.lvl = 0 /\ pg.slots[n].key = Stopper => pg.slots[n].stop
  <2>1. SlotsOK(pages, p) /\ pg.lvl = f.lvl
    BY <1>1, <1>2, <1>3 DEF Ordered, FrameOK
  <2> HIDE DEF n
  <2> QED  BY <2>1, <1>5 DEF SlotsOK, n
<1>7. /\ Ordered(pages') /\ Hi(pages', p) = pg.slots[m].key /\ Hi(pages', r) = pg.slots[n].key
      /\ pages'[p].right = r
  <2>1. Ordered(pages') /\ Hi(pages', p) = pages[p].slots[m].key /\ Hi(pages', Len(pages) + 1) = Hi(pages, p)
    BY <1>2, <1>3, <1>4, SplitOrder
  <2>2. pages'[p].right = Len(pages) + 1
    BY <1>4 DEF Pieces
  <2> QED  BY <2>1, <2>2, <1>5
<1> HIDE DEF n, r
<1>8. /\ g \in FrameType /\ g.at = "split" /\ g.op = "insert" /\ g.key = f.key /\ g.stop = f.stop
      /\ g.child = f.child /\ g.lvl = f.lvl /\ g.pageNo = p /\ g.right = r
      /\ g.low = pg.slots[m].key /\ g.fence = pg.slots[n].key /\ g.last = pg.slots[n].stop
  <2>1. pg.slots[m].key \in Nat /\ pg.slots[n].key \in Nat /\ pg.slots[n].stop \in BOOLEAN
    BY <1>5, KeysTyped DEF SlotType
  <2> HIDE DEF pg
  <2> QED  BY <2>1, <1>1, <1>2, <1>5 DEF FrameType
<1> HIDE DEF g
<1>9. AimOK(pages', g) /\ HalfOK(pages', g)
  <2>1. AimOK(pages, f)
    BY <1>1, <1>2, <1>3 DEF FramesAim
  <2>2. AimOK(pages', g)
    BY <2>1, <1>1, <1>8 DEF AimOK
  <2>3. HalfOK(pages', g)
    BY <1>6, <1>7, <1>8 DEF HalfOK
  <2> QED  BY <2>2, <2>3
<1>10. Swapped(o, s, g) /\ Turned(t, s, stack')
  BY <1>1 DEF Swapped, Turned
<1> HIDE DEF s, pg, f
<1>11. /\ Len(s) = Len(o) /\ s # <<>> /\ s[1] = g
       /\ Last(s) = IF Len(o) = 1 THEN g ELSE Last(o)
       /\ \A j \in 2..Len(o) : Post(s, j) = Post(o, j)
  BY <1>1, <1>2, <1>8, <1>10, TopReplaced
<1>12. Hidden(stack') = Hidden(stack) \union {r}
  <2>1. Top(t).at # "split"
    BY <1>1 DEF f
  <2> QED  BY <2>1, <1>8, <1>10, <1>11, MoreHidden
<1>13. Posts(stack') = Posts(stack)
  BY <1>10, <1>11, SamePosts
<1>14. Fenced(pages', Hidden(stack'), Posts(stack'))
  <2>1. p \notin Hidden(stack) /\ pages[p].right \notin Hidden(stack)
    BY <1>1, PageIsShown DEF f
  <2>2. Fenced(pages', Hidden(stack) \union {r}, Posts(stack))
    BY <2>1, <1>2, <1>3, <1>4, HalfHidden DEF r
  <2> QED  BY <2>2, <1>12, <1>13
<1>15. FramesAim(pages', s)
  <2>1. Len(o) >= 2 => PostsFor(g, o[2])
    <3> SUFFICES ASSUME Len(o) >= 2 PROVE PostsFor(g, o[2])
      OBVIOUS
    <3>1. PostsFor(f, o[2])
      BY WorksFor DEF f
    <3> QED  BY <3>1, <1>1, <1>8 DEF PostsFor
  <2>2. FramesAim(pages, o)
    BY <1>3
  <2> QED  BY <2>1, <2>2, <1>1, <1>2, <1>8, <1>9, <1>10, FramesSwapped
<1>16. \A u \in Threads \ {t} : FramesAim(pages', stack[u])
  <2>1. Moved(pages, pages', Top(t).pageNo)
    BY <1>2, <1>3, <1>4, SplitMoves DEF f
  <2> QED  BY <2>1, <1>1, <1>3, OthersAim DEF f
<1>17. KeysFresh'
  <2>1. \A x \in Keys : InLeaf(pages', x) => InLeaf(pages, x)
    BY <1>2, <1>3, <1>4, SplitKeys
  <2>2. Last(s).key = Last(o).key
    <3>1. CASE Len(o) = 1
      <4>1. Last(o) = f
        BY <3>1, <1>1 DEF Last
      <4> QED  BY <4>1, <3>1, <1>8, <1>11
    <3>2. CASE Len(o) # 1
      BY <3>2, <1>11
    <3> QED  BY <3>1, <3>2
  <2> QED  BY <2>1, <2>2, <1>1, <1>3, <1>10, <1>11, KeysKept
<1> QED  BY <1>7, <1>10, <1>14, <1>15, <1>16, <1>17, OrderKept

\* A frame that starts over at the root.
LEMMA StartedOver ==
  ASSUME NEW ps, NEW qs, NEW f \in FrameType, AimOK(ps, f), PagesOK(qs), Ordered(qs)
  PROVE  /\ Restart(f) \in FrameType /\ AimOK(qs, Restart(f)) /\ HalfOK(qs, Restart(f))
         /\ Restart(f).op = f.op /\ Restart(f).key = f.key /\ Restart(f).child = f.child
         /\ Restart(f).stop = f.stop /\ Restart(f).lvl = f.lvl /\ Restart(f).at = "load"
<1> DEFINE g == Restart(f)
<1>1. Starts(g, f.op, f.key, f.child, f.stop, f.lvl)
  BY FrameTyped DEF Starts, Restart, AimOK
<1> HIDE DEF g
<1>2. /\ g \in FrameType /\ AimOK(qs, g) /\ HalfOK(qs, g)
      /\ g.op = f.op /\ g.key = f.key /\ g.child = f.child /\ g.stop = f.stop /\ g.lvl = f.lvl
      /\ g.at = "load"
  BY <1>1, FreshFrame
<1> QED  BY <1>2 DEF g

\* btreeSplitRoot keeps the order invariant.
LEMMA SplitRootOrder ==
  ASSUME IInv, LInv, OInv, NEW t \in Threads, NEW m, SplitRoot(t, m)
  PROVE  OInv'
<1> DEFINE f == Top(t)
           o == stack[t]
           g == Restart(f)
           s == <<g>> \o Tail(o)
<1>1. /\ o # <<>> /\ f.at = "page" /\ f.op = "insert" /\ f = o[1] /\ f.pageNo = Root
      /\ stack' = [stack EXCEPT ![t] = s]
      /\ returned' = returned /\ todo' = todo /\ load' = load
  BY DEF SplitRoot, OnPage, Top, SetTop
<1>2. /\ PagesOK(pages) /\ StackOK(pages, o) /\ o \in Seq(FrameType)
      /\ Len(o) \in Nat /\ Len(o) >= 1 /\ f \in FrameType /\ 1 \in 1..Len(o)
  <2>1. /\ PagesOK(pages) /\ StackOK(pages, o) /\ Len(o) \in Nat /\ Len(o) >= 1 /\ f \in FrameType
    BY <1>1, TopFacts
  <2>2. o \in Seq(FrameType)
    BY <2>1 DEF StackOK
  <2> QED  BY <2>1, <2>2
<1>3. /\ Ordered(pages) /\ Fenced(pages, Hidden(stack), Posts(stack)) /\ KeysFresh
      /\ \A u \in Threads : FramesAim(pages, stack[u])
  BY DEF OInv
<1>4. RootPieces(pages, pages', m) /\ PagesOK(pages')
  BY SplitRootSplits, SplitRootKeeps DEF IInv
<1>5. Ordered(pages')
  BY <1>2, <1>3, <1>4, RootSplitOrder
<1>6. AimOK(pages, f)
  BY <1>1, <1>2, <1>3 DEF FramesAim
<1>7. /\ g \in FrameType /\ AimOK(pages', g) /\ HalfOK(pages', g)
      /\ g.op = f.op /\ g.key = f.key /\ g.child = f.child /\ g.stop = f.stop /\ g.at = "load"
  BY <1>2, <1>4, <1>5, <1>6, StartedOver
<1>8. Swapped(o, s, g) /\ Turned(t, s, stack')
  BY <1>1 DEF Swapped, Turned
<1> HIDE DEF s, g
<1>9. /\ Len(s) = Len(o) /\ s # <<>> /\ s[1] = g
      /\ Last(s) = IF Len(o) = 1 THEN g ELSE Last(o)
      /\ \A j \in 2..Len(o) : Post(s, j) = Post(o, j)
  BY <1>1, <1>2, <1>7, <1>8, TopReplaced
<1>10. Fenced(pages', Hidden(stack'), Posts(stack'))
  <2>1. Hidden(stack') = Hidden(stack)
    <3>1. Top(t).at # "split" /\ s[1].at # "split"
      BY <1>1, <1>7, <1>9
    <3> QED  BY <3>1, <1>8, SameHidden
  <2>2. Posts(stack') = Posts(stack)
    BY <1>8, <1>9, SamePosts
  <2>3. Fenced(pages', Hidden(stack), Posts(stack))
    BY <1>2, <1>3, <1>4, RootHalves
  <2> QED  BY <2>1, <2>2, <2>3
<1>11. FramesAim(pages', s)
  <2>1. Len(o) >= 2 => PostsFor(g, o[2])
    <3> SUFFICES ASSUME Len(o) >= 2 PROVE PostsFor(g, o[2])
      OBVIOUS
    <3>1. PostsFor(f, o[2])
      BY WorksFor
    <3> QED  BY <3>1, <1>7 DEF PostsFor
  <2>2. FramesAim(pages, o)
    BY <1>3
  <2> QED  BY <2>1, <2>2, <1>1, <1>2, <1>7, <1>8, FramesSwapped
<1>12. \A u \in Threads \ {t} : FramesAim(pages', stack[u])
  <2>1. Moved(pages, pages', Top(t).pageNo)
    BY <1>1, <1>2, <1>3, <1>4, RootSplitMoves
  <2> QED  BY <2>1, <1>1, <1>3, OthersAim
<1>13. KeysFresh'
  <2>1. \A x \in Keys : InLeaf(pages', x) => InLeaf(pages, x)
    BY <1>2, <1>4, RootSplitKeys
  <2>2. Last(s).key = Last(o).key
    <3>1. CASE Len(o) = 1
      <4>1. Last(o) = f
        BY <3>1, <1>1 DEF Last
      <4> QED  BY <4>1, <3>1, <1>7, <1>9
    <3>2. CASE Len(o) # 1
      BY <3>2, <1>9
    <3> QED  BY <3>1, <3>2
  <2> QED  BY <2>1, <2>2, <1>1, <1>3, <1>8, <1>9, KeysKept
<1> QED  BY <1>5, <1>8, <1>10, <1>11, <1>12, <1>13, OrderKept

\* Post d is of the split of page c, of which nothing is posted.
NewPost(ps, c, r, d) ==
  /\ c \in 1..Len(ps) /\ ps[c].right = r
  /\ d.c = c /\ d.r = r /\ d.low = Hi(ps, c) /\ d.fence = Hi(ps, r) /\ ~d.half

\* A hidden page is shown when its split starts to be posted.
LEMMA HalfShownBy ==
  ASSUME NEW ps, NEW h, NEW w, PagesOK(ps), Ordered(ps), Fenced(ps, h, w),
         NEW c, NEW r, NEW d, r \in h, NewPost(ps, c, r, d), \A e \in w : c \notin {e.c, e.r}
  PROVE  Fenced(ps, h \ {r}, w \union {d})
<1>1. /\ c \in 1..Len(ps) /\ ps[c].right = r
      /\ d.c = c /\ d.r = r /\ d.low = Hi(ps, c) /\ d.fence = Hi(ps, r) /\ ~d.half
  BY DEF NewPost
<1> QED  BY <1>1, HalfShown

\* Nobody waits for a page without a parent lock.
LEMMA NotAwaited ==
  ASSUME IInv, LInv, NEW c \in Pages, plock[c] = None, NEW e \in Posts(stack)
  PROVE  c \notin {e.c, e.r}
<1>1. PICK u \in Threads : \E i \in 2..Len(stack[u]) : e = Post(stack[u], i)
  BY PostMembers
<1>2. PICK i \in 2..Len(stack[u]) : e = Post(stack[u], i)
  BY <1>1
<1>3. e.c = stack[u][i].pageNo /\ e.r = stack[u][i].right
  BY <1>2 DEF Post
<1>4. i \in 1..Len(stack[u]) /\ stack[u][i].at = "parent"
  <2>1. StackOK(pages, stack[u]) /\ Len(stack[u]) \in Nat
    BY DEF IInv, StacksOK, StackOK
  <2>2. i \in 1..Len(stack[u]) /\ i > 1
    BY <2>1
  <2>3. \A j \in 1..Len(stack[u]) : stack[u][j].at = "parent" <=> j > 1
    BY <2>1 DEF StackOK
  <2> QED  BY <2>2, <2>3
<1>5. ~Waits(stack[u][i], c)
  <2>1. plock[c] # u
    BY BtreeAssumption
  <2> QED  BY <2>1, <1>4 DEF LInv, ParentLocks
<1> QED  BY <1>3, <1>4, <1>5 DEF Waits

\* The parent locks keep the order invariant.
LEMMA LockParentsOrder ==
  ASSUME IInv, LInv, OInv, NEW t \in Threads, LockParents(t)
  PROVE  OInv'
<1> DEFINE f == Top(t)
           o == stack[t]
           c == f.pageNo
           r == f.right
           l == f.lvl + 1
           a == [f EXCEPT !.at = "parent"]
           g == Frame("insert", f.low, f.pageNo, FALSE, l)
           s == <<g, a>> \o Tail(o)
<1>1. /\ o # <<>> /\ f.at = "split" /\ f = o[1] /\ plock[c] = None
      /\ stack' = [stack EXCEPT ![t] = s]
      /\ pages' = pages /\ returned' = returned /\ todo' = todo /\ load' = load
  BY DEF LockParents, Top
<1>2. /\ PagesOK(pages) /\ StackOK(pages, o) /\ o \in Seq(FrameType) /\ FrameOK(pages, f)
      /\ Len(o) \in Nat /\ Len(o) >= 1 /\ f \in FrameType /\ 1 \in 1..Len(o)
      /\ c \in 1..Len(pages) /\ c \in Pages
  <2>1. /\ PagesOK(pages) /\ StackOK(pages, o) /\ Len(o) \in Nat /\ Len(o) >= 1 /\ f \in FrameType
        /\ FrameOK(pages, f) /\ c \in 1..Len(pages) /\ c \in Pages
    BY <1>1, TopFacts
  <2>2. o \in Seq(FrameType)
    BY <2>1 DEF StackOK
  <2> QED  BY <2>1, <2>2
<1>3. /\ Ordered(pages) /\ Fenced(pages, Hidden(stack), Posts(stack)) /\ KeysFresh
      /\ \A u \in Threads : FramesAim(pages, stack[u])
  BY DEF OInv
<1>4. AimOK(pages, f) /\ HalfOK(pages, f)
  BY <1>1, <1>2, <1>3 DEF FramesAim
<1>5. /\ pages[c].right = r /\ Hi(pages, c) = f.low /\ Hi(pages, r) = f.fence
      /\ f.last => f.fence = Stopper
      /\ f.lvl = 0 /\ f.fence = Stopper => f.last
  BY <1>1, <1>4 DEF HalfOK
<1>6. f.op = "insert" /\ r \in 1..Len(pages) /\ f.low \in KeySet /\ f.fence \in KeySet /\ f.lvl \in Nat
  BY <1>1, <1>2, FrameTyped DEF FrameOK
<1>7. f.low < Stopper
  <2>1. r # NoPage
    BY <1>6 DEF NoPage
  <2>2. Hi(pages, c) < Hi(pages, r)
    BY <2>1, <1>2, <1>3, <1>5, RightLink
  <2> QED  BY <2>2, <1>5, <1>6, KeyBound
<1>8. /\ g \in FrameType /\ AimOK(pages, g) /\ HalfOK(pages, g)
      /\ g.op = "insert" /\ g.key = f.low /\ g.child = c /\ g.at = "load"
  <2>1. Starts(g, "insert", f.low, c, FALSE, l)
    <3>1. l \in Nat /\ c \in Nat
      BY <1>2, <1>6
    <3> HIDE DEF l, f
    <3> QED  BY <3>1, <1>6, <1>7 DEF Starts
  <2>2. PagesOK(pages) /\ Ordered(pages)
    BY <1>2, <1>3
  <2> DEFINE k == f.low
  <2> HIDE DEF g, l, c, k
  <2>3. /\ g \in FrameType /\ AimOK(pages, g) /\ HalfOK(pages, g)
        /\ g.op = "insert" /\ g.key = k /\ g.child = c /\ g.at = "load"
    BY <2>1, <2>2, FreshFrame DEF k
  <2> QED  BY <2>3 DEF k
<1>9. /\ a \in FrameType /\ a.at = "parent" /\ a.op = "insert" /\ a.key = f.key /\ a.child = f.child
      /\ a.stop = f.stop /\ a.lvl = f.lvl /\ a.pageNo = c /\ a.right = r /\ a.low = f.low
      /\ a.fence = f.fence /\ a.last = f.last
  BY <1>2, <1>6 DEF FrameType
<1> HIDE DEF g, a, l
<1>10. AimOK(pages, a) /\ HalfOK(pages, a)
  BY <1>4, <1>5, <1>6, <1>9 DEF AimOK, HalfOK
<1>11. Pushed(o, s, g, a) /\ Turned(t, s, stack')
  BY <1>1 DEF Pushed, Turned
<1> HIDE DEF s
<1>12. /\ Len(s) = Len(o) + 1 /\ s # <<>> /\ s[1] = g /\ s[2] = a
       /\ Last(s) = IF Len(o) = 1 THEN a ELSE Last(o)
  BY <1>1, <1>2, <1>8, <1>9, <1>11, TopPushed
<1>13. r \in Hidden(stack) /\ Hidden(stack') = Hidden(stack) \ {r}
  <2>1. s[1].at # "split"
    BY <1>8, <1>12
  <2> QED  BY <2>1, <1>1, <1>11, LessHidden
<1> DEFINE d == Post(s, 2)
<1>14. Posts(stack') = Posts(stack) \union {d}
  BY <1>1, <1>6, <1>8, <1>9, <1>11, PostAdded
<1>15. NewPost(pages, c, r, d)
  <2>1. d = [c |-> c, r |-> r, low |-> f.low, fence |-> f.fence, half |-> g.op = "fix"]
    <3>1. 2 - 1 = 1
      OBVIOUS
    <3> QED  BY <3>1, <1>9, <1>12 DEF Post
  <2> HIDE DEF d
  <2>2. d.c = c /\ d.r = r /\ d.low = f.low /\ d.fence = f.fence /\ ~d.half
    BY <2>1, <1>8
  <2> QED  BY <2>2, <1>2, <1>5 DEF NewPost
<1> HIDE DEF d
<1>16. Fenced(pages', Hidden(stack'), Posts(stack'))
  <2>1. \A e \in Posts(stack) : c \notin {e.c, e.r}
    BY <1>1, <1>2, NotAwaited
  <2>2. Fenced(pages, Hidden(stack) \ {r}, Posts(stack) \union {d})
    BY <2>1, <1>2, <1>3, <1>13, <1>15, HalfShownBy
  <2> QED  BY <2>2, <1>1, <1>13, <1>14
<1>17. FramesAim(pages', s)
  <2>1. Len(o) >= 2 => PostsFor(a, o[2])
    <3> SUFFICES ASSUME Len(o) >= 2 PROVE PostsFor(a, o[2])
      OBVIOUS
    <3>1. PostsFor(f, o[2])
      BY WorksFor
    <3> QED  BY <3>1, <1>6, <1>9 DEF PostsFor
  <2>2. PostsFor(g, a)
    BY <1>8, <1>9 DEF PostsFor
  <2>3. FramesAim(pages, o)
    BY <1>3
  <2>4. FramesAim(pages, s)
    BY <2>1, <2>2, <2>3, <1>1, <1>2, <1>8, <1>9, <1>10, <1>11, FramesPushed
  <2> QED  BY <2>4, <1>1
<1>18. KeysFresh'
  <2>1. Last(s).key = Last(o).key
    <3>1. CASE Len(o) = 1
      <4>1. Last(o) = f
        BY <3>1, <1>1 DEF Last
      <4> QED  BY <4>1, <3>1, <1>9, <1>12
    <3>2. CASE Len(o) # 1
      BY <3>2, <1>12
    <3> QED  BY <3>1, <3>2
  <2> QED  BY <2>1, <1>1, <1>3, <1>11, <1>12, KeysKept
<1>19. \A u \in Threads \ {t} : FramesAim(pages', stack[u])
  BY <1>1, <1>3
<1>20. Ordered(pages')
  BY <1>1, <1>3
<1> QED  BY <1>11, <1>16, <1>17, <1>18, <1>19, <1>20, OrderKept

\* The fence of the split a frame is to fix is in the slot it comes to.
LEMMA FenceFound ==
  ASSUME IInv, LInv, OInv, StoppersFixed, NEW t \in Threads, OnPage(t, "fix"), Len(stack[t]) >= 2
  PROVE  LET f == Top(t) IN
         pages[f.pageNo].slots[FindSlot(pages[f.pageNo], f.key, f.stop)].key = f.key
<1> DEFINE f == Top(t)
           p == f.pageNo
           i == FindSlot(pages[p], f.key, f.stop)
           d == Post(stack[t], 2)
           h == Hidden(stack)
           w == Posts(stack)
<1>1. stack[t] # <<>> /\ f.at = "page" /\ f.op = "fix" /\ f = stack[t][1]
  BY DEF OnPage, Top
<1>2. /\ PagesOK(pages) /\ Ordered(pages) /\ Fenced(pages, h, w)
      /\ FrameOK(pages, f) /\ f \in FrameType /\ p \in 1..Len(pages)
      /\ f.key \in KeySet /\ f.stop \in BOOLEAN
      /\ 1 \in 1..Len(stack[t])
  BY <1>1, TopFacts, FrameTyped DEF OInv
<1>3. AimOK(pages, f)
  BY <1>1, <1>2 DEF OInv, FramesAim
<1>4. CASE f.key = Stopper
  BY <1>1, <1>4 DEF StoppersFixed, OnPage
<1>5. CASE f.key # Stopper
  <2>1. f.key < Stopper /\ f.stop = FALSE /\ NotPast(pages, p, f.key)
    BY <1>1, <1>2, <1>3, <1>5, KeyBound DEF AimOK
  <2>2. i # 0 /\ pages[p].lvl = f.lvl
    BY <1>1, <1>2 DEF FrameOK
  <2>3. /\ PostsFor(f, stack[t][2]) /\ f.lvl = stack[t][2].lvl + 1 /\ d \in w
        /\ FrameOK(pages, stack[t][2]) /\ stack[t][2].at = "parent"
        /\ d = [c |-> stack[t][2].pageNo, r |-> stack[t][2].right, low |-> stack[t][2].low,
                fence |-> stack[t][2].fence, half |-> f.op = "fix"]
    BY WorksFor
  <2> HIDE DEF d
  <2>4. d.fence = f.key /\ d.c = stack[t][2].pageNo
    BY <2>3, <1>1 DEF PostsFor
  <2>5. pages[d.c].lvl = stack[t][2].lvl
    BY <2>3, <2>4 DEF FrameOK
  <2>6. /\ d.c \in 1..Len(pages) /\ d.c \notin h /\ pages[d.c].lvl < pages[Root].lvl
    <3>1. PostOK(pages, h, d)
      BY <1>2, <2>3 DEF Fenced
    <3> QED  BY <3>1 DEF PostOK
  <2>7. Expected(pages, h, w, f.key, d.c)
    BY <2>3, <2>4, <2>6 DEF Expected
  <2>8. Posted(pages, f.key, d.c)
    BY <1>2, <2>6, <2>7 DEF Fenced
  <2>9. PICK q \in 1..Len(pages) : /\ pages[q].lvl = pages[p].lvl
                                   /\ \E j \in 1..Len(pages[q].slots) : pages[q].slots[j].key = f.key
    BY <2>2, <2>3, <2>5, <2>8 DEF Posted
  <2>10. PICK j \in 1..Len(pages[q].slots) : pages[q].slots[j].key = f.key
    BY <2>9
  <2>11. q = p /\ j = FindSlot(pages[p], f.key, FALSE)
    <3> HIDE DEF f, p
    <3> QED  BY <1>2, <2>1, <2>2, <2>9, <2>10, SearchEnds DEF i
  <2> QED  BY <2>1, <2>10, <2>11
<1> QED  BY <1>4, <1>5

\* Both fences of post d are posted once slot i of page p, with the fence of the
\* right page, leads to it.
FenceDone(ps, qs, p, i, d) ==
  /\ FixedSlot(ps, qs, p, i, d.r) /\ ps[p].lvl = ps[d.c].lvl + 1
  /\ ps[p].slots[i].key = d.fence /\ d.half

\* With the slot of the old fence switched to the right half, a split is posted.
LEMMA FenceSwitchedBy ==
  ASSUME NEW ps, NEW qs, NEW p, NEW i, NEW h, NEW w, NEW d, d \in w,
         PagesOK(ps), Ordered(ps), Fenced(ps, h, w), FenceDone(ps, qs, p, i, d)
  PROVE  Fenced(qs, h, w \ {d})
<1>1. /\ FixedSlot(ps, qs, p, i, d.r) /\ ps[p].lvl = ps[d.c].lvl + 1
      /\ ps[p].slots[i].key = d.fence /\ d.half
  BY DEF FenceDone
<1> QED  BY <1>1, FenceSwitched

\* btreeFixKey keeps the order invariant, if it finds the stopper.
LEMMA FixKeyOrder ==
  ASSUME IInv, LInv, OInv, StoppersFixed, NEW t \in Threads, FixKey(t)
  PROVE  OInv'
<1> DEFINE f  == Top(t)
           p  == f.pageNo
           i  == FindSlot(pages[p], f.key, f.stop)
           o  == stack[t]
           up == stack[t][2]
           g  == Restart(up)
           s  == <<g>> \o SubSeq(o, 3, Len(o))
           d  == Post(o, 2)
           w  == Posts(stack)
           h  == Hidden(stack)
<1>1. /\ stack[t] # <<>> /\ f.at = "page" /\ f.op = "fix" /\ f = stack[t][1] /\ OnPage(t, "fix")
      /\ stack' = [stack EXCEPT ![t] = s]
      /\ returned' = returned /\ todo' = todo /\ load' = load
  BY DEF FixKey, OnPage, Top
<1>2. /\ PagesOK(pages) /\ StackOK(pages, o) /\ FrameOK(pages, f) /\ p \in 1..Len(pages)
      /\ Len(o) \in Nat /\ Len(o) >= 1
  BY <1>1, TopFacts
<1>3. Len(o) >= 2 /\ o \in Seq(FrameType)
  <2>1. f.lvl # 0
    BY <1>1, <1>2 DEF FrameOK
  <2>2. Len(o) # 1 /\ o \in Seq(FrameType)
    BY <2>1, <1>1, <1>2 DEF StackOK
  <2> DEFINE n == Len(o)
  <2>3. n \in Nat /\ n >= 1 /\ n # 1
    BY <2>2, <1>2
  <2> HIDE DEF n, o
  <2>4. n >= 2
    BY <2>3
  <2> QED  BY <2>2, <2>4 DEF n
<1>4. /\ Ordered(pages) /\ Fenced(pages, h, w) /\ KeysFresh
      /\ \A u \in Threads : FramesAim(pages, stack[u])
  BY DEF OInv
<1>5. /\ up \in FrameType /\ AimOK(pages, up) /\ PostsFor(f, up)
      /\ FrameOK(pages, up) /\ up.at = "parent" /\ up.op = "insert" /\ f.lvl = up.lvl + 1 /\ d \in w
      /\ d = [c |-> up.pageNo, r |-> up.right, low |-> up.low, fence |-> up.fence, half |-> f.op = "fix"]
  BY <1>3, WorksFor
<1>6. FixedSlot(pages, pages', p, i, f.child)
  BY FixKeyEdits
<1>7. pages[p].slots[i].key = f.key
  BY <1>1, <1>3, FenceFound
<1> HIDE DEF d, w, h, s, g, o, i
<1>8. /\ d.half /\ d.c = up.pageNo /\ d.r = f.child /\ d.fence = f.key
      /\ pages[p].lvl = pages[d.c].lvl + 1
  <2>1. pages[p].lvl = f.lvl /\ pages[up.pageNo].lvl = up.lvl
    BY <1>1, <1>2, <1>5 DEF FrameOK
  <2> QED  BY <2>1, <1>1, <1>5 DEF PostsFor
<1>9. Ordered(pages') /\ Slotted(pages, pages', p)
  BY <1>2, <1>4, <1>6, FixedOrder
<1>10. PagesOK(pages')
  BY FixKeyKeeps DEF IInv
<1>11. /\ g \in FrameType /\ AimOK(pages', g) /\ HalfOK(pages', g)
       /\ g.op = up.op /\ g.key = up.key /\ g.child = up.child /\ g.at = "load"
  BY <1>5, <1>9, <1>10, StartedOver DEF g
<1>12. Popped(o, s, g) /\ Turned(t, s, stack')
  BY <1>1 DEF Popped, Turned, s
<1>13. /\ s # <<>> /\ s[1] = g
       /\ Last(s) = IF Len(o) = 2 THEN g ELSE Last(o)
  BY <1>3, <1>11, <1>12, TopPopped
<1>14. Fenced(pages', Hidden(stack'), Posts(stack'))
  <2>1. Hidden(stack') = h
    <3>1. Top(t).at # "split" /\ s[1].at # "split"
      BY <1>1, <1>11, <1>13
    <3> QED  BY <3>1, <1>12, SameHidden DEF h
  <2>2. Posts(stack') = w \ {d}
    BY <1>3, <1>11, <1>12, PostDone DEF w, d, o
  <2>3. FenceDone(pages, pages', p, i, d)
    BY <1>6, <1>7, <1>8 DEF FenceDone
  <2>4. Fenced(pages', h, w \ {d})
    BY <2>3, <1>2, <1>4, <1>5, FenceSwitchedBy
  <2> QED  BY <2>1, <2>2, <2>4
<1>15. FramesAim(pages', s)
  <2>1. FramesAim(pages, o)
    BY <1>4 DEF o
  <2>2. Len(o) >= 3 => PostsFor(g, o[3])
    <3> SUFFICES ASSUME Len(o) >= 3 PROVE PostsFor(g, o[3])
      OBVIOUS
    <3>1. 3 \in 2..Len(o)
      BY <1>2 DEF o
    <3>2. PostsFor(o[3 - 1], o[3])
      BY <2>1, <3>1, Zenon DEF FramesAim
    <3>3. PostsFor(up, o[3])
      BY <3>2 DEF o
    <3> QED  BY <3>3, <1>5, <1>11 DEF PostsFor
  <2>3. StackOK(pages, o)
    BY <1>2 DEF o
  <2> QED  BY <2>1, <2>2, <2>3, <1>3, <1>11, <1>12, FramesPopped
<1>16. \A u \in Threads \ {t} : FramesAim(pages', stack[u])
  <2>1. Moved(pages, pages', Top(t).pageNo)
    BY <1>9, SlottedMoves
  <2> QED  BY <2>1, <1>1, <1>4, OthersAim
<1>17. KeysFresh'
  <2>1. \A x \in Keys : InLeaf(pages', x) => InLeaf(pages, x)
    <3>1. pages[p].lvl > 0
      BY <1>6 DEF FixedSlot
    <3> QED  BY <3>1, <1>9, SlottedKeys
  <2>2. Last(s).key = Last(o).key
    <3>1. CASE Len(o) = 2
      <4>1. Last(o) = up
        BY <3>1 DEF Last, o
      <4> QED  BY <4>1, <3>1, <1>11, <1>13
    <3>2. CASE Len(o) # 2
      BY <3>2, <1>13
    <3> QED  BY <3>1, <3>2
  <2> QED  BY <2>1, <2>2, <1>1, <1>4, <1>12, <1>13, KeysKept DEF o
<1> QED  BY <1>9, <1>12, <1>14, <1>15, <1>16, <1>17, OrderKept

\* btreeInsertSlot keeps the order invariant.
LEMMA InsertSlotOrder ==
  ASSUME IInv, LInv, OInv, NEW t \in Threads, InsertSlot(t)
  PROVE  OInv'
  BY LeafInsertOrder, NodeInsertOrder

\* btreeInit establishes the order invariant.
LEMMA InitOInv == Init => OInv
<1> SUFFICES ASSUME Init PROVE OInv
  OBVIOUS
<1> DEFINE s1 == Slot(Stopper, Leaf, TRUE)
           s2 == Slot(Stopper, NoPage, TRUE)
           p1 == [lvl |-> 1, slots |-> <<s1>>, right |-> NoPage, left |-> NoPage]
           p2 == [lvl |-> 0, slots |-> <<s2>>, right |-> NoPage, left |-> NoPage]
<1>1. pages = <<p1, p2>> /\ returned = {} /\ stack = [t \in Threads |-> <<>>]
  BY DEF Init
<1>2. s1.key = Stopper /\ s1.child = Leaf /\ s1.stop /\ s2.key = Stopper /\ s2.stop
  BY DEF Slot
<1> HIDE DEF s1, s2
<1>3. /\ Len(<<s1>>) = 1 /\ <<s1>>[1] = s1 /\ Len(<<s2>>) = 1 /\ <<s2>>[1] = s2
  OBVIOUS
<1>4. /\ p1.lvl = 1 /\ Len(p1.slots) = 1 /\ p1.slots[1] = s1 /\ p1.right = NoPage
      /\ p2.lvl = 0 /\ Len(p2.slots) = 1 /\ p2.slots[1] = s2 /\ p2.right = NoPage
  BY <1>3
<1> HIDE DEF p1, p2
<1>5. Len(pages) = 2 /\ pages[1] = p1 /\ pages[2] = p2 /\ Root = 1 /\ Leaf = 2
  BY <1>1 DEF Root, Leaf
<1>6. /\ \A p \in 1..Len(pages) : p = 1 \/ p = 2
      /\ 1 \in 1..Len(pages) /\ 2 \in 1..Len(pages)
      /\ \A i \in 1..1 : i = 1
      /\ 1 \in 1..1 /\ ~(1 < 1) /\ ~(1 < 0) /\ ~(0 < 0) /\ 0 < 1 /\ 1 # 0 /\ 0 + 1 = 1
  BY <1>5
<1>7. Hi(pages, 1) = Stopper /\ Hi(pages, 2) = Stopper
  BY <1>2, <1>4, <1>5 DEF Hi
<1>8. Ordered(pages)
  <2>1. SlotsOK(pages, 1) /\ NextOK(pages, 1)
    BY <1>2, <1>4, <1>5, <1>6, <1>7 DEF SlotsOK, NextOK
  <2>2. SlotsOK(pages, 2) /\ NextOK(pages, 2)
    BY <1>2, <1>4, <1>5, <1>6, <1>7 DEF SlotsOK, NextOK
  <2>3. \A p, q \in 1..Len(pages) : pages[p].lvl = pages[q].lvl => p = q
    BY <1>4, <1>5, <1>6
  <2>4. \A p \in 1..Len(pages) : pages[p].lvl = 0 => p = Leaf
    BY <1>4, <1>5, <1>6
  <2> QED  BY <2>1, <2>2, <2>3, <2>4, <1>6 DEF Ordered
<1>9. /\ \A t \in Threads : stack[t] = <<>> /\ Len(stack[t]) = 0
      /\ \A i : i \notin 2..0
  BY <1>1
<1>10. Hidden(stack) = {}
  <2>1. \A x : x \notin Hidden(stack)
    BY <1>9, HiddenMembers
  <2> QED  BY <2>1
<1>11. Posts(stack) = {}
  <2>1. \A e : e \notin Posts(stack)
    BY <1>9, PostMembers
  <2> QED  BY <2>1
<1>12. Fenced(pages, {}, {})
  <2>1. ASSUME NEW c \in 1..Len(pages), pages[c].lvl < pages[Root].lvl, NEW x \in KeySet
        PROVE  Posted(pages, x, c) <=> Expected(pages, {}, {}, x, c)
    <3>1. c = 2
      BY <2>1, <1>4, <1>5, <1>6
    <3>2. Posted(pages, x, c) <=> x = Stopper
      <4>1. Posted(pages, x, c) => x = Stopper
        BY <3>1, <1>2, <1>4, <1>5, <1>6 DEF Posted
      <4>2. x = Stopper => Posted(pages, x, c)
        BY <3>1, <1>2, <1>4, <1>5, <1>6 DEF Posted
      <4> QED  BY <4>1, <4>2
    <3>3. Expected(pages, {}, {}, x, c) <=> x = Stopper
      BY <3>1, <1>4, <1>5, <1>7 DEF Expected, Fence
    <3> QED  BY <3>2, <3>3
  <2> QED  BY <2>1 DEF Fenced
<1>13. \A t \in Threads : FramesAim(pages, stack[t])
  <2>1. \A i : i \notin 1..0
    OBVIOUS
  <2> QED  BY <2>1, <1>9 DEF FramesAim
<1>14. KeysFresh
  <2>1. PICK c \in Clients : load = c.preload /\ todo = c.work
    BY DEF Init
  <2>2. /\ load \in Seq(Keys) /\ todo \in [Threads -> SUBSET Keys]
        /\ \A t, u \in Threads : /\ todo[t] \intersect Range(load) = {}
                                 /\ t # u => todo[t] \intersect todo[u] = {}
    BY <2>1, ClientsAssumption
  <2>3. ASSUME NEW k \in Keys PROVE ~InLeaf(pages, k)
    <3>1. k # Stopper
      BY BtreeAssumption DEF Stopper
    <3> QED  BY <3>1, <1>2, <1>4, <1>5, <1>6 DEF InLeaf
  <2>4. \A t \in Threads : todo[t] \intersect (returned \union Range(load)) = {}
    BY <2>2, <1>1
  <2> QED  BY <2>2, <2>3, <2>4, <1>9 DEF KeysFresh
<1> QED  BY <1>8, <1>10, <1>11, <1>12, <1>13, <1>14 DEF OInv

\* Every step keeps it.
LEMMA StepOInv == IInv /\ LInv /\ OInv /\ StoppersFixed /\ [Next]_vars => OInv'
<1> SUFFICES ASSUME IInv, LInv, OInv, StoppersFixed, [Next]_vars PROVE OInv'
  OBVIOUS
<1>1. CASE UNCHANGED vars
  BY <1>1 DEF vars, OInv, KeysFresh
<1>2. CASE AllDone
  BY <1>1, <1>2 DEF AllDone
<1>3. ASSUME NEW t \in Threads, NEW k \in Keys, InsertKey(t, k) PROVE OInv'
  BY <1>3, InsertKeyOrder
<1>4. ASSUME NEW t \in Threads, Visit(t) PROVE OInv'
  BY <1>4, VisitOrder
<1>5. ASSUME NEW t \in Threads, InsertSlot(t) PROVE OInv'
  BY <1>5, InsertSlotOrder
<1>6. ASSUME NEW t \in Threads, LockParents(t) PROVE OInv'
  BY <1>6, LockParentsOrder
<1>7. ASSUME NEW t \in Threads, FixKey(t) PROVE OInv'
  BY <1>7, FixKeyOrder
<1>8. ASSUME NEW t \in Threads, NEW m, SplitPage(t, m) PROVE OInv'
  BY <1>8, SplitPageOrder
<1>9. ASSUME NEW t \in Threads, NEW m, SplitRoot(t, m) PROVE OInv'
  BY <1>9, SplitRootOrder
<1> QED  BY <1>1, <1>2, <1>3, <1>4, <1>5, <1>6, <1>7, <1>8, <1>9 DEF Next, Run

\* It holds as long as stoppers are found,
LEMMA AlwaysOInv == Spec /\ []StoppersFixed => [](IInv /\ LInv /\ OInv /\ StoppersFixed)
<1>1. Init => OInv
  BY InitOInv
<1>2. IInv /\ LInv /\ OInv /\ StoppersFixed /\ [Next]_vars => OInv'
  BY StepOInv
<1> QED  BY <1>1, <1>2, AlwaysLInv, PTL DEF Spec

\* A frame that fixes a fence works for another one.
LEMMA FixerWorks ==
  ASSUME IInv, NEW t \in Threads, OnPage(t, "fix")
  PROVE  Len(stack[t]) >= 2
<1> DEFINE n == Len(stack[t])
           f == Top(t)
<1>1. /\ stack[t] # <<>> /\ f.op = "fix" /\ f = stack[t][1]
      /\ StackOK(pages, stack[t]) /\ FrameOK(pages, f) /\ n \in Nat /\ n >= 1
  BY TopFacts DEF OnPage, Top
<1>2. f.lvl # 0
  BY <1>1 DEF FrameOK
<1>3. n # 1
  BY <1>1, <1>2 DEF StackOK
<1> HIDE DEF n
<1>4. n >= 2
  BY <1>1, <1>3
<1> QED  BY <1>4 DEF n

\* No stopper is missed while the root is the only page above the leaves.
LEMMA StoppersOfRoot == IInv /\ LInv /\ OInv => SplitsOnce
<1> SUFFICES ASSUME IInv, LInv, OInv, pages[Root].lvl = 1, NEW t \in Threads,
                    OnPage(t, "fix"), Top(t).key = Stopper
             PROVE  LET f == Top(t)  pg == pages[f.pageNo] IN
                    pg.slots[FindSlot(pg, f.key, f.stop)].key = Stopper
  BY DEF SplitsOnce, StoppersFixed
<1> DEFINE f  == Top(t)
           p  == f.pageNo
           up == stack[t][2]
<1>1. stack[t] # <<>> /\ f.at = "page" /\ f.op = "fix"
  BY DEF OnPage
<1>2. /\ PagesOK(pages) /\ Ordered(pages) /\ FrameOK(pages, f) /\ p \in 1..Len(pages)
      /\ pages[p].lvl = f.lvl
  BY <1>1, TopFacts DEF OInv, FrameOK
<1>3. Len(stack[t]) >= 2
  BY FixerWorks
<1>4. /\ up.at = "parent" /\ HalfOK(pages, up) /\ PostsFor(f, up)
      /\ f.lvl = up.lvl + 1 /\ up.lvl \in Nat
  BY <1>3, WorksFor
<1>5. p = Root /\ f.lvl = 1
  <2>1. pages[p].lvl >= 1
    BY <1>2, <1>4
  <2>2. p # Root => pages[p].lvl \in Nat /\ pages[p].lvl < pages[Root].lvl
    BY <1>2, RootLevel
  <2>3. p = Root
    BY <2>1, <2>2
  <2> QED  BY <2>3, <1>2
<1>6. up.lvl = 0
  BY <1>4, <1>5
<1>7. f.stop
  BY <1>1, <1>4, <1>6 DEF PostsFor, HalfOK
<1>8. FindSlot(pages[p], f.key, f.stop) = Len(pages[p].slots)
  BY <1>7 DEF FindSlot
<1>9. Hi(pages, p) = Stopper
  <2>1. NextOK(pages, p) /\ pages[p].right = NoPage
    BY <1>2, <1>5, RootLevel DEF Ordered
  <2> QED  BY <2>1 DEF NextOK
<1> QED  BY <1>8, <1>9 DEF Hi

\* The root never comes down a level.
LEMMA RootStays ==
  ASSUME IInv, [Next]_vars, IInv', pages'[Root].lvl = 1
  PROVE  pages[Root].lvl = 1
<1>1. PagesOK(pages) /\ PagesOK(pages')
  BY DEF IInv
<1>2. Root \in 1..Len(pages) /\ pages[Root].lvl \in Nat /\ pages[Root].lvl > 0
  BY <1>1, RootLevel
<1>3. CASE UNCHANGED vars
  BY <1>3 DEF vars
<1>4. CASE \E t \in Threads : KeepsPages(t)
  <2>1. \/ pages'[Root].lvl = pages[Root].lvl
        \/ pages'[Root].lvl = pages[Root].lvl + 1
    BY <1>2, <1>4 DEF KeepsPages
  <2> QED  BY <2>1, <1>2
<1> QED  BY <1>3, <1>4, StepKeepsPages

\* The root has not been split yet.
SmallTree == pages[Root].lvl = 1

\* and without that assumption until the root is split.
LEMMA SmallTreeOInv == Spec => [](IInv /\ LInv /\ (SmallTree => OInv /\ StoppersFixed))
<1>1. Init => OInv
  BY InitOInv
<1>2. IInv /\ LInv /\ (SmallTree => OInv) /\ [Next]_vars /\ IInv' => (SmallTree => OInv)'
  <2> SUFFICES ASSUME IInv, LInv, SmallTree => OInv, [Next]_vars, IInv', SmallTree' PROVE OInv'
    OBVIOUS
  <2>1. SmallTree
    BY RootStays DEF SmallTree
  <2>2. OInv /\ StoppersFixed
    BY <2>1, StoppersOfRoot DEF SplitsOnce, SmallTree
  <2> QED  BY <2>2, StepOInv
<1>3. IInv /\ LInv /\ OInv => (SmallTree => StoppersFixed)
  BY StoppersOfRoot DEF SplitsOnce, SmallTree
<1> QED  BY <1>1, <1>2, <1>3, AlwaysLInv, PTL DEF Spec

-----------------------------------------------------------------------------
(* What follows: fences                                                    *)

\* With no split under way, the slots of a page lead to pages that are neighbours.
LEMMA NextChild ==
  ASSUME NEW ps, PagesOK(ps), Ordered(ps), Fenced(ps, {}, {}),
         NEW p \in 1..Len(ps), ps[p].lvl > 0, NEW i \in 1..Len(ps[p].slots)
  PROVE  LET s == ps[p].slots IN
         /\ s[i].child \in 1..Len(ps) /\ s[i].key = Hi(ps, s[i].child)
         /\ ps[s[i].child].lvl = ps[p].lvl - 1
         /\ i < Len(s) => ps[s[i].child].right = s[i + 1].child
<1> DEFINE s == ps[p].slots
           n == Len(s)
<1>1. n \in Nat /\ ps[p].lvl \in Nat
  BY PagesTyped
<1>2. ASSUME NEW j \in 1..n
      PROVE  /\ s[j].child \in 1..Len(ps) /\ s[j].key = Hi(ps, s[j].child)
             /\ ps[p].lvl = ps[s[j].child].lvl + 1 /\ ps[s[j].child].lvl \in Nat
  <2> DEFINE c == s[j].child
             x == s[j].key
  <2>1. /\ c \in 1..Len(ps) /\ ps[p].lvl = ps[c].lvl + 1
        /\ Expected(ps, {}, {}, x, c)
    BY SlotLeads
  <2>2. x = Fence(ps, {}, c)
    BY <2>1 DEF Expected
  <2>3. ps[c].lvl \in Nat
    BY <2>1, PagesTyped
  <2> QED  BY <2>1, <2>2, <2>3 DEF Fence
<1>3. ps[s[i].child].lvl = ps[p].lvl - 1
  <2> DEFINE a == ps[p].lvl
             b == ps[s[i].child].lvl
  <2>1. a = b + 1 /\ b \in Nat /\ a \in Nat
    BY <1>1, <1>2
  <2> HIDE DEF a, b
  <2>2. b = a - 1
    BY <2>1
  <2> QED  BY <2>2 DEF a, b
<1>4. ASSUME i < n PROVE ps[s[i].child].right = s[i + 1].child
  <2> DEFINE c == s[i].child
             d == s[i + 1].child
             r == ps[c].right
  <2>1. i \in 1..n /\ i + 1 \in 1..n /\ i < i + 1
    BY <1>1, <1>4
  <2>2. s[i].key < s[i + 1].key
    BY <2>1 DEF Ordered, SlotsOK
  <2>3. /\ c \in 1..Len(ps) /\ s[i].key = Hi(ps, c) /\ d \in 1..Len(ps) /\ s[i + 1].key = Hi(ps, d)
        /\ ps[p].lvl = ps[c].lvl + 1 /\ ps[p].lvl = ps[d].lvl + 1
        /\ ps[c].lvl \in Nat /\ ps[d].lvl \in Nat
    BY <2>1, <1>2
  <2> HIDE DEF c, d
  <2>4. ps[c].lvl = ps[d].lvl
    BY <2>3, SameNext
  <2>5. r # NoPage
    <3>1. Hi(ps, c) # Stopper
      BY <2>2, <2>3, HighKeys, KeyBound
    <3> QED  BY <3>1, <2>3 DEF Ordered, NextOK
  <2>6. /\ r \in 1..Len(ps) /\ ps[r].lvl = ps[c].lvl /\ Hi(ps, c) < Hi(ps, r)
        /\ Hi(ps, d) <= Hi(ps, c) \/ Hi(ps, r) <= Hi(ps, d)
    BY <2>3, <2>4, <2>5, RightLink
  <2> HIDE DEF r
  <2>7. Hi(ps, c) \in Nat /\ Hi(ps, d) \in Nat /\ Hi(ps, r) \in Nat /\ Hi(ps, r) \in KeySet
    BY <2>3, <2>6, HighKeys
  <2> SUFFICES ASSUME r # d PROVE FALSE
    BY DEF r, c, d
  <2>8. Hi(ps, r) # Hi(ps, d)
    BY <2>3, <2>4, <2>6, HighKeys
  <2>9. s[i].key < Hi(ps, r) /\ Hi(ps, r) < s[i + 1].key
    BY <2>2, <2>3, <2>6, <2>7, <2>8
  <2>10. PICK q \in 1..Len(ps) : /\ ps[q].lvl = ps[p].lvl
                                 /\ \E j \in 1..Len(ps[q].slots) : ps[q].slots[j].key = Hi(ps, r)
    <3>1. ps[r].lvl < ps[Root].lvl
      <4>1. ps[c].lvl < ps[Root].lvl
        BY SlotLeads DEF c
      <4> QED  BY <4>1, <2>6
    <3>2. Expected(ps, {}, {}, Hi(ps, r), r)
      BY DEF Expected, Fence
    <3>3. Posted(ps, Hi(ps, r), r)
      BY <3>1, <3>2, <2>6, <2>7 DEF Fenced
    <3> QED  BY <3>3, <2>3, <2>6 DEF Posted
  <2>11. PICK j \in 1..Len(ps[q].slots) : ps[q].slots[j].key = Hi(ps, r)
    BY <2>10
  <2>12. Hi(ps, p) >= s[i + 1].key /\ Hi(ps, q) >= Hi(ps, r)
    BY <2>1, <2>11, HighKeys
  <2>13. /\ s[i].key \in Nat /\ s[i + 1].key \in Nat /\ Hi(ps, p) \in Nat /\ Hi(ps, q) \in Nat
    BY <2>1, HighKeys
  <2>14. CASE q = p
    <3>1. i < j /\ j < i + 1
      <4>1. j \in 1..n /\ s[j].key = Hi(ps, r)
        BY <2>11, <2>14
      <4>2. \A a, b \in 1..n : a < b => s[a].key < s[b].key
        BY DEF Ordered, SlotsOK
      <4>3. s[j].key \in Nat
        BY <4>1, <2>7
      <4>4. s[i].key < s[j].key /\ s[j].key < s[i + 1].key
        BY <4>1, <2>9
      <4> HIDE DEF s, n
      <4>5. j # i /\ j # i + 1
        BY <4>3, <4>4, <2>13
      <4>6. ~(j < i)
        <5>1. j < i => s[j].key < s[i].key
          BY <4>1, <4>2, <2>1
        <5> QED  BY <5>1, <4>3, <4>4, <2>13
      <4>7. ~(i + 1 < j)
        <5>1. i + 1 < j => s[i + 1].key < s[j].key
          BY <4>1, <4>2, <2>1
        <5> QED  BY <5>1, <4>3, <4>4, <2>13
      <4> QED  BY <4>1, <4>5, <4>6, <4>7, <2>1
    <3> QED  BY <3>1, <2>1, <2>11
  <2>15. CASE q # p
    <3>1. Before(ps, p, q) \/ Before(ps, q, p)
      BY <2>10, <2>15 DEF Ordered
    <3>2. ~Before(ps, p, q)
      <4>1. ~(Hi(ps, p) < Hi(ps, r))
        <5> HIDE DEF s
        <5> QED  BY <2>7, <2>9, <2>12, <2>13
      <4> QED  BY <4>1, <2>11 DEF Before
    <3>3. ~Before(ps, q, p)
      BY <2>1, <2>7, <2>9, <2>12, <2>13, SMTT(30) DEF Before
    <3> QED  BY <3>1, <3>2, <3>3
  <2> QED  BY <2>14, <2>15
<1> QED  BY <1>2, <1>3, <1>4

\* No split is under way when no thread is inside.
LEMMA NoneInside ==
  ASSUME IInv, \A t \in Threads : stack[t] = <<>>
  PROVE  Hidden(stack) = {} /\ Posts(stack) = {}
<1>1. \A x : x \notin Hidden(stack)
  BY HiddenMembers
<1>2. ASSUME NEW e PROVE e \notin Posts(stack)
  <2>1. \A t \in Threads : Len(stack[t]) = 0
    OBVIOUS
  <2>2. \A i : i \notin 2..0
    OBVIOUS
  <2> QED  BY <2>1, <2>2, PostMembers
<1> QED  BY <1>1, <1>2

\* The order invariant implies that all fences are posted then.
LEMMA OrderPostsFences == IInv /\ OInv => FencesPosted
<1> SUFFICES ASSUME IInv, OInv, \A t \in Threads : stack[t] = <<>>,
                    NEW p \in 1..Len(pages), pages[p].lvl > 0, NEW i \in 1..Len(pages[p].slots)
             PROVE  LET s == pages[p].slots IN
                    /\ s[i].key = LastKey(s[i].child)
                    /\ pages[s[i].child].lvl = pages[p].lvl - 1
                    /\ i < Len(s) => pages[s[i].child].right = s[i + 1].child
  BY DEF FencesPosted
<1>1. PagesOK(pages) /\ Ordered(pages) /\ Fenced(pages, {}, {})
  BY NoneInside DEF IInv, OInv
<1>2. LET s == pages[p].slots IN
      /\ s[i].key = Hi(pages, s[i].child)
      /\ pages[s[i].child].lvl = pages[p].lvl - 1
      /\ i < Len(s) => pages[s[i].child].right = s[i + 1].child
  BY <1>1, NextChild
<1>3. \A c : LastKey(c) = Hi(pages, c)
  BY DEF LastKey, KeyOf, Hi
<1> QED  BY <1>2, <1>3

\* The order invariant implies that fences are found.
LEMMA OrderFixesFences == IInv /\ LInv /\ OInv /\ StoppersFixed => FixesItsFence
  BY FixerWorks, FenceFound DEF FixesItsFence

-----------------------------------------------------------------------------
(* What follows: searches                                                  *)

\* The pages a search may still come to from page p.
Ahead(p) ==
  {z \in 1..Len(pages) : \/ pages[z].lvl < pages[p].lvl
                         \/ pages[z].lvl = pages[p].lvl /\ Hi(pages, p) < Hi(pages, z)}

\* A search for key k ends at page p.
Arrived(k, p) == pages[p].lvl = 0 /\ FindSlot(pages[p], k, FALSE) # 0

\* The pages a search for key k may come to.
Within(k) == {p \in 1..Len(pages) : NotPast(pages, p, k)}

\* One turn of a search comes nearer to the leaf of its key, or is there.
LEMMA OnwardGoes ==
  ASSUME IInv, OInv, NEW k \in KeySet, k < Stopper, NEW p \in Within(k)
  PROVE  /\ Onward(k)[p] \in Within(k)
         /\ Arrived(k, p) => Onward(k)[p] = p
         /\ ~Arrived(k, p) => /\ Onward(k)[p] \in Ahead(p)
                              /\ Ahead(Onward(k)[p]) \subseteq Ahead(p) \ {Onward(k)[p]}
<1> DEFINE i == FindSlot(pages[p], k, FALSE)
           q == Onward(k)[p]
           h == Hidden(stack)
           w == Posts(stack)
<1>1. /\ PagesOK(pages) /\ Ordered(pages) /\ Fenced(pages, h, w)
      /\ p \in 1..Len(pages) /\ NotPast(pages, p, k) /\ pages[p].lvl \in Nat
      /\ \A z \in 1..Len(pages) : pages[z].lvl \in Nat /\ Hi(pages, z) \in Nat
  <2>1. PagesOK(pages) /\ Ordered(pages) /\ Fenced(pages, h, w)
    BY DEF IInv, OInv
  <2> QED  BY <2>1, PagesTyped, HighKeys DEF Within
<1>2. q = IF i = 0 THEN pages[p].right ELSE IF pages[p].lvl = 0 THEN p ELSE pages[p].slots[i].child
  BY <1>1 DEF Onward
<1> HIDE DEF q, h, w
<1>3. CASE i = 0
  <2>1. pages[p].right # NoPage
    BY <1>1, <1>3, SlotOfKey
  <2>2. q \in 1..Len(pages) /\ pages[q].lvl = pages[p].lvl /\ Hi(pages, p) < Hi(pages, q)
    BY <1>1, <1>2, <1>3, <2>1, RightLink
  <2>3. NotPast(pages, q, k)
    BY <1>1, <1>2, <1>3, SearchRight
  <2>4. q \in Ahead(p) /\ q \notin Ahead(q)
    BY <1>1, <2>2 DEF Ahead
  <2>5. Ahead(q) \subseteq Ahead(p)
    BY <1>1, <2>2 DEF Ahead
  <2> QED  BY <1>3, <2>2, <2>3, <2>4, <2>5 DEF Arrived, Within, q
<1>4. CASE i # 0 /\ pages[p].lvl = 0
  BY <1>2, <1>4 DEF Arrived, q
<1>5. CASE i # 0 /\ pages[p].lvl # 0
  <2>1. pages[p].lvl > 0 /\ i \in 1..Len(pages[p].slots)
    <3>1. i \in 1..Len(pages[p].slots)
      BY <1>1, <1>5, SlotOfKey
    <3> HIDE DEF i
    <3> QED  BY <3>1, <1>1, <1>5
  <2>2. q \in 1..Len(pages) /\ pages[p].lvl = pages[q].lvl + 1
    <3> HIDE DEF i
    <3>1. /\ pages[p].slots[i].child \in 1..Len(pages)
          /\ pages[p].lvl = pages[pages[p].slots[i].child].lvl + 1
      BY <1>1, <2>1, SlotLeads
    <3> QED  BY <3>1, <1>2, <1>5
  <2>3. NotPast(pages, q, k)
    BY <1>1, <1>2, <1>5, <2>1, SearchDown
  <2>4. pages[q].lvl < pages[p].lvl
    BY <1>1, <2>2
  <2>5. q \in Ahead(p) /\ q \notin Ahead(q)
    BY <1>1, <2>2, <2>4 DEF Ahead
  <2>6. Ahead(q) \subseteq Ahead(p)
    BY <1>1, <2>2, <2>4 DEF Ahead
  <2> QED  BY <1>5, <2>2, <2>3, <2>5, <2>6 DEF Arrived, Within, q
<1> QED  BY <1>3, <1>4, <1>5

\* There are no more pages ahead of a search than there are pages.
LEMMA AheadIsFinite ==
  ASSUME IInv, NEW p
  PROVE  /\ IsFiniteSet(Ahead(p)) /\ Cardinality(Ahead(p)) \in Nat
         /\ Cardinality(Ahead(p)) <= Len(pages) /\ Len(pages) \in Nat
<1> DEFINE N == Len(pages)
<1>1. N \in Nat
  BY PagesTyped DEF IInv
<1>2. IsFiniteSet(1..N) /\ Cardinality(1..N) = N
  BY <1>1, FirstNumbers
<1>3. Ahead(p) \subseteq 1..N
  BY DEF Ahead
<1> HIDE DEF N
<1>4. IsFiniteSet(Ahead(p)) /\ Cardinality(Ahead(p)) <= Cardinality(1..N)
  BY <1>2, <1>3, FS_Subset
<1>5. Cardinality(Ahead(p)) \in Nat
  BY <1>4, FS_CardinalityType
<1> QED  BY <1>1, <1>2, <1>4, <1>5 DEF N

\* A search has fewer and fewer pages ahead.
LEMMA FewerAhead ==
  ASSUME IInv, NEW p, NEW q, q \in Ahead(p), Ahead(q) \subseteq Ahead(p) \ {q}
  PROVE  Cardinality(Ahead(q)) < Cardinality(Ahead(p))
<1>1. /\ IsFiniteSet(Ahead(p)) /\ Cardinality(Ahead(p)) \in Nat /\ Cardinality(Ahead(q)) \in Nat
  BY AheadIsFinite
<1>2. /\ IsFiniteSet(Ahead(p) \ {q}) /\ Cardinality(Ahead(p) \ {q}) = Cardinality(Ahead(p)) - 1
  BY <1>1, FS_RemoveElement
<1>3. Cardinality(Ahead(q)) <= Cardinality(Ahead(p) \ {q})
  BY <1>2, FS_Subset
<1> QED  BY <1>1, <1>2, <1>3

\* A search from the root comes to the leaf for its key.
LEMMA SearchArrives ==
  ASSUME IInv, OInv, NEW k \in KeySet, k < Stopper
  PROVE  LeafOf(k) \in Within(k) /\ Arrived(k, LeafOf(k))
<1> DEFINE N == Len(pages)
           S == Within(k)
           step == [n \in 1..N |-> [p \in S |-> Onward(k)[p]]]
           Turns(g) == [n \in 0..N |-> IF n = 0 THEN Root ELSE Onward(k)[g[n - 1]]]
           after == CHOOSE g : g = Turns(g)
<1>1. N \in Nat /\ Root \in S
  <2>1. PagesOK(pages) /\ Ordered(pages)
    BY DEF IInv, OInv
  <2> QED  BY <2>1, PagesTyped, NothingLeftOfRoot DEF Within
<1>2. \A p \in S : Onward(k)[p] \in S
  BY OnwardGoes
<1>3. step \in [1..N -> [S -> S]]
  <2> HIDE DEF S
  <2> QED  BY <1>2
<1>4. PICK a \in [0..N -> S] : Follows(a, N, Root, step)
  <2> HIDE DEF S, step, N
  <2> QED  BY <1>1, <1>3, RecursiveFunction
<1>5. a = Turns(a)
  <2>1. ASSUME NEW n \in 1..N PROVE a[n] = Onward(k)[a[n - 1]]
    <3>1. n - 1 \in 0..N
      BY <1>1
    <3>2. a[n - 1] \in S
      BY <3>1
    <3> HIDE DEF S
    <3>3. step[n][a[n - 1]] = Onward(k)[a[n - 1]]
      BY <3>2
    <3> QED  BY <1>4, <3>3 DEF Follows
  <2>2. \A n \in 0..N : n = 0 \/ n \in 1..N
    BY <1>1
  <2> HIDE DEF step, S, N
  <2> QED  BY <1>4, <2>1, <2>2 DEF Follows
<1>6. after = Turns(after)
  <2> HIDE DEF Turns
  <2> QED  BY <1>5
<1>7. LeafOf(k) = after[N]
  BY DEF LeafOf
<1> HIDE DEF after
<1>8. after[0] = Root /\ \A n \in 1..N : after[n] = Onward(k)[after[n - 1]]
  <2> HIDE DEF N
  <2> QED  BY <1>1, <1>6
<1> DEFINE Good == {n \in 0..N : /\ after[n] \in S
                                 /\ \/ Arrived(k, after[n])
                                    \/ Cardinality(Ahead(after[n])) + n <= N}
<1>9. 0 \in Good
  <2>1. Cardinality(Ahead(Root)) + 0 <= N
    BY AheadIsFinite
  <2> HIDE DEF S
  <2> QED  BY <1>1, <1>8, <2>1
<1>10. ASSUME NEW n \in 0..(N - 1), n \in Good PROVE n + 1 \in Good
  <2> DEFINE p == after[n]
             q == after[n + 1]
  <2>1. n + 1 \in 0..N /\ q = Onward(k)[p] /\ p \in S /\ n \in Nat
    <3>1. n + 1 \in 1..N /\ (n + 1) - 1 = n
      BY <1>1
    <3>2. after[n + 1] = Onward(k)[after[(n + 1) - 1]]
      BY <3>1, <1>8
    <3> QED  BY <3>1, <3>2, <1>10, <1>1
  <2>2. CASE Arrived(k, p)
    <3>1. q = p
      BY <2>1, <2>2, OnwardGoes
    <3> QED  BY <3>1, <2>1, <2>2
  <2>3. CASE ~Arrived(k, p)
    <3>1. q \in S /\ q \in Ahead(p) /\ Ahead(q) \subseteq Ahead(p) \ {q}
      BY <2>1, <2>3, OnwardGoes
    <3>2. Cardinality(Ahead(q)) < Cardinality(Ahead(p))
      BY <3>1, FewerAhead
    <3>3. Cardinality(Ahead(q)) \in Nat /\ Cardinality(Ahead(p)) \in Nat
      BY AheadIsFinite
    <3>4. Cardinality(Ahead(p)) + n <= N
      BY <1>10, <2>3
    <3> HIDE DEF p, N
    <3>5. Cardinality(Ahead(q)) + (n + 1) <= N
      BY <3>2, <3>3, <3>4, <2>1, <1>1
    <3> QED  BY <3>1, <3>5, <2>1 DEF N
  <2> QED  BY <2>2, <2>3
<1> HIDE DEF Good
<1>11. N \in Good
  <2>1. \A n \in 0..N : n \in Good
    <3> HIDE DEF N
    <3> QED  BY <1>1, <1>9, <1>10, SetInduction
  <2>2. N \in 0..N
    BY <1>1
  <2> QED  BY <2>1, <2>2
<1>12. after[N] \in S
  BY <1>11 DEF Good
<1>13. ASSUME ~Arrived(k, after[N]) PROVE FALSE
  <2> DEFINE p == after[N]
             x == Cardinality(Ahead(p))
  <2>1. x + N <= N /\ x \in Nat /\ N \in Nat
    BY <1>1, <1>11, <1>13, AheadIsFinite DEF Good
  <2>2. p \in S /\ Onward(k)[p] \in Ahead(p) /\ Ahead(Onward(k)[p]) \subseteq Ahead(p) \ {Onward(k)[p]}
    BY <1>12, <1>13, OnwardGoes
  <2>3. Cardinality(Ahead(Onward(k)[p])) < x /\ Cardinality(Ahead(Onward(k)[p])) \in Nat
    BY <2>2, FewerAhead, AheadIsFinite
  <2> HIDE DEF x, N
  <2> QED  BY <2>1, <2>3
<1> QED  BY <1>7, <1>12, <1>13

\* The leaves that have a key of the tree are where a search looks for it.
LEMMA StoredInLeaves == IInv /\ OInv => Stored = {k \in Keys : InLeaf(pages, k)}
<1> SUFFICES ASSUME IInv, OInv, NEW k \in Keys
             PROVE  k \in KeysOf(LeafOf(k)) <=> InLeaf(pages, k)
  BY DEF Stored
<1> DEFINE p == LeafOf(k)
<1>1. k \in KeySet /\ k < Stopper /\ k # Stopper
  BY BtreeAssumption DEF KeySet, Stopper
<1>2. /\ p \in 1..Len(pages) /\ NotPast(pages, p, k) /\ pages[p].lvl = 0
      /\ FindSlot(pages[p], k, FALSE) # 0
  BY <1>1, SearchArrives DEF Within, Arrived
<1> HIDE DEF p
<1>3. k \in KeysOf(p) <=> \E i \in 1..Len(pages[p].slots) : pages[p].slots[i].key = k
  BY <1>1 DEF KeysOf, KeyOf
<1>4. ASSUME InLeaf(pages, k) PROVE \E i \in 1..Len(pages[p].slots) : pages[p].slots[i].key = k
  <2>1. PICK q \in 1..Len(pages) : pages[q].lvl = 0 /\ \E i \in 1..Len(pages[q].slots) : pages[q].slots[i].key = k
    BY <1>4 DEF InLeaf
  <2>2. PICK j \in 1..Len(pages[q].slots) : pages[q].slots[j].key = k
    BY <2>1
  <2>3. PagesOK(pages) /\ Ordered(pages)
    BY DEF IInv, OInv
  <2>4. q = p
    BY <1>1, <1>2, <2>1, <2>2, <2>3, SearchEnds
  <2> QED  BY <2>1, <2>4
<1> QED  BY <1>2, <1>3, <1>4 DEF InLeaf, p

\* The right links lead from the leftmost leaf to all the leaves.
LEMMA ChainHasLeaves ==
  ASSUME IInv
  PROVE  LeafChain = {p \in 1..Len(pages) : pages[p].lvl = 0}
<1> DEFINE N == Len(pages)
           nx == [p \in 1..N |-> pages[p].right]
           R == Reach(nx, Leaf)
           Sets == SUBSET (1..N)
           Turn1(T) == T \union ({pages[p].right : p \in T} \ {NoPage})
           step == [n \in 1..N |-> [T \in Sets |-> Turn1(T)]]
           Turns(g) == [n \in 0..N |-> IF n = 0 THEN {Leaf} ELSE Turn1(g[n - 1])]
           upTo == CHOOSE g : g = Turns(g)
<1>1. PagesOK(pages) /\ ChainOK(pages) /\ N \in Nat /\ Leaf \in 1..N /\ {Leaf} \in Sets /\ Leaf # 0
  BY PagesTyped DEF IInv, Leaf
<1>2. /\ Links(nx) /\ Len(nx) = N
      /\ \A p \in 1..N : nx[p] = pages[p].right /\ pages[p].right \in 0..N
  <2>1. \A p \in 1..N : pages[p].right \in 0..N
    <3>1. ASSUME NEW p \in 1..N PROVE pages[p].right = NoPage \/ pages[p].right \in 1..N
      BY <1>1 DEF PagesOK, PageOK
    <3> QED  BY <3>1, <1>1 DEF NoPage
  <2>2. nx \in Seq(Nat) /\ Len(nx) = N
    <3> HIDE DEF N
    <3> QED  BY <2>1, <1>1
  <2> QED  BY <2>1, <2>2 DEF Links
<1> HIDE DEF nx
<1>3. \A T \in Sets : Turn1(T) \in Sets
  <2> SUFFICES ASSUME NEW T \in Sets PROVE Turn1(T) \in Sets
    OBVIOUS
  <2>1. \A x \in 0..N : x # NoPage => x \in 1..N
    BY <1>1 DEF NoPage
  <2>2. \A p \in T : pages[p].right \in 0..N
    BY <1>2
  <2> HIDE DEF N
  <2> QED  BY <2>1, <2>2
<1>4. step \in [1..N -> [Sets -> Sets]]
  BY <1>3
<1>5. PICK h \in [0..N -> Sets] : Follows(h, N, {Leaf}, step)
  <2> HIDE DEF Sets, step, N
  <2> QED  BY <1>1, <1>4, RecursiveFunction
<1>6. h = Turns(h)
  <2>1. ASSUME NEW n \in 1..N PROVE h[n] = Turn1(h[n - 1])
    <3>1. h[n - 1] \in Sets
      OBVIOUS
    <3> HIDE DEF Sets, Turn1
    <3>2. step[n][h[n - 1]] = Turn1(h[n - 1])
      BY <3>1
    <3> QED  BY <1>5, <3>2 DEF Follows
  <2>2. \A n \in 0..N : n = 0 \/ n \in 1..N
    BY <1>1
  <2> HIDE DEF step, Sets, N, Turn1
  <2> QED  BY <1>5, <2>1, <2>2 DEF Follows
<1>7. upTo = Turns(upTo)
  <2> HIDE DEF Turns
  <2> QED  BY <1>6
<1>8. LeafChain = upTo[N]
  BY DEF LeafChain
<1> HIDE DEF upTo
<1>9. upTo[0] = {Leaf} /\ \A n \in 1..N : upTo[n] = Turn1(upTo[n - 1])
  <2>1. 0 \in 0..N /\ \A n \in 1..N : n \in 0..N /\ n # 0
    BY <1>1
  <2> HIDE DEF Turn1, N
  <2>2. \A n \in 0..N : upTo[n] = IF n = 0 THEN {Leaf} ELSE Turn1(upTo[n - 1])
    BY <1>7, Zenon
  <2> QED  BY <2>1, <2>2
<1> DEFINE Good == {n \in 0..N : upTo[n] \in Sets}
<1>10. \A n \in 0..N : upTo[n] \in Sets
  <2>1. 0 \in Good
    BY <1>1, <1>9
  <2>2. ASSUME NEW n \in 0..(N - 1), n \in Good PROVE n + 1 \in Good
    <3>1. upTo[n + 1] = Turn1(upTo[n]) /\ n + 1 \in 0..N
      <4> HIDE DEF Turn1
      <4> QED  BY <1>1, <1>9
    <3> HIDE DEF Turn1, Sets
    <3> QED  BY <1>3, <2>2, <3>1
  <2>3. \A n \in 0..N : n \in Good
    <3> HIDE DEF Good, N
    <3> QED  BY <1>1, <2>1, <2>2, SetInduction
  <2> QED  BY <2>3
<1>11. upTo[N] = R
  <2>1. upTo[0] = {Leaf} \ {0}
    BY <1>1, <1>9
  <2>2. ASSUME NEW n \in 1..N
        PROVE  upTo[n] = upTo[n - 1] \union ({nx[g] : g \in upTo[n - 1]} \ {0})
    <3>1. n - 1 \in 0..N
      BY <1>1
    <3>2. \A p \in upTo[n - 1] : nx[p] = pages[p].right
      BY <3>1, <1>2, <1>10
    <3>3. upTo[n] = upTo[n - 1] \union ({pages[p].right : p \in upTo[n - 1]} \ {0})
      BY <1>9 DEF NoPage
    <3> QED  BY <3>2, <3>3
  <2>3. Leaf \in 0..Len(nx)
    BY <1>1, <1>2
  <2> HIDE DEF N
  <2> QED  BY <2>1, <2>2, <2>3, <1>2, TurnsReach
<1>12. Closed(nx, Leaf, R) /\ R \subseteq 1..N
  <2>1. Leaf \in 0..Len(nx)
    BY <1>1, <1>2
  <2> QED  BY <2>1, <1>2, ReachClosed, ReachFrames
<1> HIDE DEF R
<1>13. ASSUME NEW p \in 1..N, pages[p].lvl = 0 PROVE p \in R
  <2>1. Leaf \in R /\ RightClosed(pages, R)
    BY <1>1, <1>2, <1>12 DEF Closed, RightClosed, NoPage
  <2> QED  BY <2>1, <1>1, <1>12, <1>13 DEF ChainOK, OnChain
<1>14. R \subseteq {p \in 1..N : pages[p].lvl = 0}
  <2> DEFINE S == {p \in 1..N : pages[p].lvl = 0}
  <2>1. Leaf \in S
    BY <1>1 DEF PagesOK
  <2>2. ASSUME NEW p \in S, nx[p] # 0 PROVE nx[p] \in S
    <3>1. pages[p].right # NoPage /\ nx[p] = pages[p].right
      BY <1>2, <2>2 DEF NoPage
    <3>2. pages[p].right \in 1..N /\ pages[pages[p].right].lvl = pages[p].lvl
      BY <3>1, <1>1 DEF PagesOK, PageOK
    <3> QED  BY <3>1, <3>2
  <2>3. Closed(nx, Leaf, S)
    BY <2>1, <2>2, <1>2 DEF Closed
  <2> HIDE DEF S
  <2>4. R \subseteq S
    BY <2>3, ReachLeast DEF R
  <2> QED  BY <2>4 DEF S
<1> QED  BY <1>8, <1>11, <1>13, <1>14, <1>12

\* The order invariant implies that searches agree with the chain of leaves.
LEMMA OrderAgrees == IInv /\ OInv => SearchAgreesWithScan
<1> SUFFICES ASSUME IInv, OInv PROVE SearchAgreesWithScan
  OBVIOUS
<1>1. PagesOK(pages) /\ Ordered(pages)
  BY DEF IInv, OInv
<1>2. LeafChain = {p \in 1..Len(pages) : pages[p].lvl = 0}
  BY ChainHasLeaves
<1>3. ASSUME NEW p \in LeafChain, NEW i \in 1..Len(pages[p].slots) - 1
      PROVE  KeyOf(p, i) < KeyOf(p, i + 1)
  <2>1. p \in 1..Len(pages) /\ SlotsOK(pages, p) /\ Len(pages[p].slots) \in Nat
    BY <1>1, <1>2, PagesTyped DEF Ordered
  <2>2. i \in 1..Len(pages[p].slots) /\ i + 1 \in 1..Len(pages[p].slots) /\ i < i + 1
    BY <2>1
  <2> QED  BY <2>1, <2>2 DEF SlotsOK, KeyOf
<1>4. ASSUME NEW p \in LeafChain
      PROVE  IF pages[p].right = NoPage THEN LastKey(p) = Stopper
                                        ELSE LastKey(p) < KeyOf(pages[p].right, 1)
  <2>1. p \in 1..Len(pages) /\ LastKey(p) = Hi(pages, p) /\ NextOK(pages, p)
    BY <1>1, <1>2 DEF Ordered, LastKey, KeyOf, Hi
  <2>2. CASE pages[p].right = NoPage
    BY <2>1, <2>2 DEF NextOK
  <2>3. CASE pages[p].right # NoPage
    <3> DEFINE r == pages[p].right
    <3>1. r \in 1..Len(pages) /\ r # p /\ pages[r].lvl = pages[p].lvl /\ Hi(pages, p) < Hi(pages, r)
      BY <1>1, <2>1, <2>3, RightLink
    <3> HIDE DEF r
    <3>2. Before(pages, p, r)
      BY <1>1, <2>1, <3>1, HighKeys
    <3>3. 1 \in 1..Len(pages[r].slots)
      BY <1>1, <3>1, PagesTyped
    <3>4. LastKey(p) < KeyOf(r, 1)
      BY <2>1, <3>2, <3>3 DEF Before, KeyOf
    <3> QED  BY <2>3, <3>4 DEF r
  <2> QED  BY <2>2, <2>3
<1>5. Stored = UNION {KeysOf(p) : p \in LeafChain}
  <2>1. ASSUME NEW k
        PROVE  k \in UNION {KeysOf(p) : p \in LeafChain} <=> k \in Keys /\ InLeaf(pages, k)
    <3>1. Stopper \notin Keys
      BY BtreeAssumption DEF Stopper
    <3>2. k \in UNION {KeysOf(p) : p \in LeafChain} <=> k # Stopper /\ InLeaf(pages, k)
      BY <1>2 DEF KeysOf, KeyOf, InLeaf
    <3>3. InLeaf(pages, k) => k \in KeySet
      BY <1>1, PagesTyped DEF InLeaf
    <3> QED  BY <3>1, <3>2, <3>3 DEF KeySet
  <2>2. Stored = {k \in Keys : InLeaf(pages, k)}
    BY StoredInLeaves
  <2> HIDE DEF Stored
  <2> QED  BY <2>1, <2>2
<1> QED  BY <1>3, <1>4, <1>5 DEF SearchAgreesWithScan

-----------------------------------------------------------------------------
(* What follows: the set of keys                                           *)

\* A search finds the keys of the leaves.
StoredOK == Stored = {k \in Keys : InLeaf(pages, k)}

\* btreeInsertSlot on a leaf adds one key, which was not there; on other pages
\* it adds none.
LEMMA InsertedKeys ==
  ASSUME IInv, LInv, OInv, NEW t \in Threads, InsertSlot(t)
  PROVE  /\ Len(stack[t]) = 1 => /\ Top(t).key \in Keys /\ ~InLeaf(pages, Top(t).key)
                                 /\ \A x \in Keys : InLeaf(pages', x) <=> InLeaf(pages, x) \/ x = Top(t).key
         /\ Len(stack[t]) # 1 => \A x \in Keys : InLeaf(pages', x) <=> InLeaf(pages, x)
<1> DEFINE f == Top(t)
           p == f.pageNo
           i == FindSlot(pages[p], f.key, f.stop)
           e == Slot(f.key, f.child, FALSE)
<1>1. stack[t] # <<>> /\ f.at = "page" /\ f = stack[t][1]
  BY DEF InsertSlot, OnPage, Top
<1>2. /\ PagesOK(pages) /\ StackOK(pages, stack[t]) /\ FrameOK(pages, f) /\ p \in 1..Len(pages)
      /\ Len(stack[t]) \in Nat /\ Len(stack[t]) >= 1 /\ pages[p].lvl = f.lvl
      /\ f.lvl = Len(stack[t]) - 1
  <2>1. /\ PagesOK(pages) /\ StackOK(pages, stack[t]) /\ FrameOK(pages, f) /\ p \in 1..Len(pages)
        /\ Len(stack[t]) \in Nat /\ Len(stack[t]) >= 1
    BY <1>1, TopFacts
  <2>2. pages[p].lvl = f.lvl
    BY <2>1, <1>1 DEF FrameOK
  <2> DEFINE n == Len(stack[t])
  <2>3. n \in Nat /\ n >= 1
    BY <2>1
  <2>4. 1 \in 1..n
    <3> HIDE DEF n
    <3> QED  BY <2>3
  <2>5. stack[t][1].lvl = Len(stack[t]) - 1
    BY <2>1, <2>4 DEF StackOK
  <2> QED  BY <2>1, <2>2, <2>5, <1>1
<1>3. /\ Edit(pages, pages', p, f.child)
      /\ \E j \in 1..Len(pages'[p].slots) : pages'[p].slots[j].key = f.key
      /\ AddedSlot(pages, pages', p, i, e)
  BY InsertSlotEdits
<1>4. \A x : InLeaf(pages, x) => InLeaf(pages', x)
  BY <1>2, <1>3, Edited
<1>5. /\ Len(pages') = Len(pages) /\ \A q \in 1..Len(pages) : q # p => pages'[q] = pages[q]
      /\ pages'[p].lvl = pages[p].lvl
  BY <1>3 DEF AddedSlot
<1>6. CASE Len(stack[t]) = 1
  <2>1. f.lvl = 0 /\ pages[p].lvl = 0 /\ f.key \in Keys
    <3>1. f.lvl = 0
      BY <1>2, <1>6
    <3> QED  BY <3>1, <1>2 DEF FrameOK
  <2>2. f.key = Last(stack[t]).key
    BY <1>1, <1>6 DEF Last
  <2>3. ~InLeaf(pages, f.key)
    BY <1>1, <2>1, <2>2 DEF OInv, KeysFresh
  <2>4. \A j \in 1..Len(pages[p].slots) : pages[p].slots[j].key # f.key
    BY <1>2, <2>1, <2>3 DEF InLeaf
  <2>5. \A j \in 1..Len(pages'[p].slots) :
          pages'[p].slots[j] = e \/ \E l \in 1..Len(pages[p].slots) : pages'[p].slots[j] = pages[p].slots[l]
    BY <2>4, InsertAdds
  <2>6. e.key = f.key
    BY DEF Slot
  <2> HIDE DEF e, i
  <2>7. \A x : InLeaf(pages', x) => InLeaf(pages, x) \/ x = f.key
    BY <1>3, <2>5, <2>6, AddedKeys
  <2>8. InLeaf(pages', f.key)
    BY <1>2, <1>3, <1>5, <2>1 DEF InLeaf
  <2> QED  BY <1>4, <1>6, <2>1, <2>3, <2>7, <2>8
<1>7. CASE Len(stack[t]) # 1
  <2>1. pages[p].lvl # 0
    <3> DEFINE n == Len(stack[t])
    <3>1. n \in Nat /\ n # 1 /\ pages[p].lvl = n - 1
      BY <1>2, <1>7
    <3> HIDE DEF n
    <3> QED  BY <3>1
  <2>2. \A x : InLeaf(pages', x) => InLeaf(pages, x)
    BY <2>1, <1>5 DEF InLeaf
  <2> QED  BY <1>4, <1>7, <2>2
<1> QED  BY <1>6, <1>7

\* The leaves have the keys they had.
SameKeys == \A x \in Keys : InLeaf(pages', x) <=> InLeaf(pages, x)

\* btreeFixKey, btreeSplitPage and btreeSplitRoot keep the keys of the leaves.
LEMMA OthersKeepKeys ==
  ASSUME IInv, LInv, OInv, StoppersFixed, NEW t \in Threads,
         FixKey(t) \/ \E m \in 1..LeafCap + NodeCap : SplitPage(t, m) \/ SplitRoot(t, m)
  PROVE  SameKeys /\ returned' = returned
<1>1. PagesOK(pages) /\ Ordered(pages)
  BY DEF IInv, OInv
<1>2. returned' = returned
  BY DEF FixKey, SplitPage, SplitRoot
<1>3. \A x \in Keys : InLeaf(pages, x) => InLeaf(pages', x)
  <2>1. [Next]_vars
    BY DEF Next, Run
  <2>2. CASE \E u \in Threads : KeepsPages(u)
    BY <2>2 DEF KeepsPages
  <2>3. CASE UNCHANGED vars
    BY <2>3 DEF vars
  <2> QED  BY <2>1, <2>2, <2>3, StepKeepsPages
<1>4. ASSUME FixKey(t), NEW x, InLeaf(pages', x) PROVE InLeaf(pages, x)
  <2> DEFINE p == Top(t).pageNo
             i == FindSlot(pages[p], Top(t).key, Top(t).stop)
  <2>1. FixedSlot(pages, pages', p, i, Top(t).child)
    BY <1>4, FixKeyEdits
  <2> HIDE DEF i, p
  <2>2. Slotted(pages, pages', p)
    BY <1>1, <2>1, FixedOrder
  <2>3. pages[p].lvl > 0
    BY <2>1 DEF FixedSlot
  <2> QED  BY <1>4, <2>2, <2>3, SlottedKeys
<1>5. ASSUME NEW m, SplitPage(t, m), NEW x, InLeaf(pages', x) PROVE InLeaf(pages, x)
  <2>1. Pieces(pages, pages', Top(t).pageNo, m)
    BY <1>5, SplitPageSplits
  <2> QED  BY <1>1, <1>5, <2>1, SplitKeys
<1>6. ASSUME NEW m, SplitRoot(t, m), NEW x, InLeaf(pages', x) PROVE InLeaf(pages, x)
  <2>1. RootPieces(pages, pages', m)
    BY <1>6, SplitRootSplits
  <2> QED  BY <1>1, <1>6, <2>1, RootSplitKeys
<1> QED  BY <1>2, <1>3, <1>4, <1>5, <1>6 DEF SameKeys

\* Every step stores one key and returns it, or changes neither set.
LEMMA StepStores ==
  ASSUME IInv, LInv, OInv, StoppersFixed, StoredOK, StoredOK', [Next]_vars
  PROVE  [Promise!SetNext]_(Promise!setVars)
<1>1. ASSUME SameKeys, returned' = returned PROVE UNCHANGED Promise!setVars
  <2>1. Stored' = Stored
    BY <1>1 DEF StoredOK, SameKeys
  <2> QED  BY <1>1, <2>1 DEF Promise!setVars
<1>2. ASSUME pages' = pages PROVE SameKeys
  BY <1>2 DEF SameKeys
<1>3. ASSUME NEW t \in Threads, InsertSlot(t)
      PROVE  Promise!SetNext \/ UNCHANGED Promise!setVars
  <2>1. CASE Len(stack[t]) = 1
    <3> DEFINE k == Top(t).key
    <3>1. /\ k \in Keys /\ ~InLeaf(pages, k)
          /\ \A x \in Keys : InLeaf(pages', x) <=> InLeaf(pages, x) \/ x = k
      BY <1>3, <2>1, InsertedKeys
    <3>2. returned' = returned \union {k}
      BY <1>3, <2>1 DEF InsertSlot
    <3> HIDE DEF k
    <3>3. k \notin Stored /\ Stored' = Stored \union {k}
      BY <3>1 DEF StoredOK
    <3>4. Promise!Store(k)
      BY <3>2, <3>3 DEF Promise!Store
    <3> QED  BY <3>1, <3>4 DEF Promise!SetNext
  <2>2. CASE Len(stack[t]) # 1
    <3>1. SameKeys
      BY <1>3, <2>2, InsertedKeys DEF SameKeys
    <3>2. returned' = returned
      BY <1>3, <2>2 DEF InsertSlot
    <3> QED  BY <3>1, <3>2, <1>1
  <2> QED  BY <2>1, <2>2
<1>4. ASSUME NEW t \in Threads, NEW k \in Keys, InsertKey(t, k) PROVE UNCHANGED Promise!setVars
  BY <1>4, <1>1, <1>2 DEF InsertKey
<1>5. ASSUME NEW t \in Threads, Visit(t) \/ LockParents(t) PROVE UNCHANGED Promise!setVars
  BY <1>5, <1>1, <1>2 DEF Visit, LockParents
<1>6. CASE UNCHANGED vars
  BY <1>6, <1>1, <1>2 DEF vars
<1>7. ASSUME NEW t \in Threads,
             FixKey(t) \/ \E m \in 1..LeafCap + NodeCap : SplitPage(t, m) \/ SplitRoot(t, m)
      PROVE  UNCHANGED Promise!setVars
  BY <1>7, <1>1, OthersKeepKeys
<1> QED  BY <1>3, <1>4, <1>5, <1>6, <1>7 DEF Next, Run, AllDone

\* The new tree is the empty set.
LEMMA InitStores == Init /\ OInv /\ StoredOK => Promise!SetInit
<1> SUFFICES ASSUME Init, OInv, StoredOK PROVE Promise!SetInit
  OBVIOUS
<1>1. returned = {}
  BY DEF Init
<1>2. \A k \in Keys : ~InLeaf(pages, k)
  <2> SUFFICES ASSUME NEW k \in Keys, InLeaf(pages, k) PROVE FALSE
    OBVIOUS
  <2>1. Len(pages) = 2 /\ pages[1].lvl = 1 /\ pages[2].slots = <<Slot(Stopper, NoPage, TRUE)>>
    BY DEF Init, Root, Leaf
  <2>2. \E i \in 1..Len(pages[2].slots) : pages[2].slots[i].key = k
    <3>1. PICK p \in 1..Len(pages) :
            pages[p].lvl = 0 /\ \E i \in 1..Len(pages[p].slots) : pages[p].slots[i].key = k
      BY DEF InLeaf
    <3>2. p = 2
      BY <2>1, <3>1
    <3> QED  BY <3>1, <3>2
  <2>3. k = Stopper
    BY <2>1, <2>2 DEF Slot
  <2> QED  BY <2>3, BtreeAssumption DEF Stopper
<1> QED  BY <1>1, <1>2 DEF StoredOK, Promise!SetInit

-----------------------------------------------------------------------------
(* The theorems about the order of the tree                                *)

\* The order invariant holds in every state of a behaviour in which btreeFixKey
\* always finds the slot of the stopper; and, with no such assumption, in every
\* state in which the root has not been split yet.
THEOREM OrderInvariant ==
  /\ Spec /\ []StoppersFixed => [](IInv /\ LInv /\ OInv)
  /\ Spec => [](SmallTree => IInv /\ LInv /\ OInv /\ StoppersFixed)
<1>1. Spec /\ []StoppersFixed => [](IInv /\ LInv /\ OInv)
  BY AlwaysOInv, PTL
<1>2. Spec => [](SmallTree => IInv /\ LInv /\ OInv /\ StoppersFixed)
  BY SmallTreeOInv, PTL
<1> QED  BY <1>1, <1>2

\* So the leaves have ascending keys along their right links, and a search from
\* the root finds exactly the keys of the leaf chain, in the middle of any splits:
\* btreeLoadPage slides right past the fences that are not posted yet.
THEOREM AlwaysAgrees ==
  /\ Spec /\ []StoppersFixed => []SearchAgreesWithScan
  /\ Spec => [](SmallTree => SearchAgreesWithScan)
<1>1. Spec /\ []StoppersFixed => []SearchAgreesWithScan
  BY OrderInvariant, OrderAgrees, PTL
<1>2. Spec => [](SmallTree => SearchAgreesWithScan)
  BY OrderInvariant, OrderAgrees, PTL
<1> QED  BY <1>1, <1>2

\* No split is left half posted by btreeSplitPage when no thread is inside.
THEOREM AlwaysPosted ==
  /\ Spec /\ []StoppersFixed => []FencesPosted
  /\ Spec => [](SmallTree => FencesPosted)
<1>1. Spec /\ []StoppersFixed => []FencesPosted
  BY OrderInvariant, OrderPostsFences, PTL
<1>2. Spec => [](SmallTree => FencesPosted)
  BY OrderInvariant, OrderPostsFences, PTL
<1> QED  BY <1>1, <1>2

\* btreeFixKey redirects the slot of the fence it was called for: the slot of a
\* stopper is the only one it may miss.
THEOREM FencesAreFixed ==
  /\ Spec /\ []StoppersFixed => []FixesItsFence
  /\ Spec => [](SmallTree => FixesItsFence)
<1>1. Spec /\ []StoppersFixed => []FixesItsFence
  BY AlwaysOInv, OrderFixesFences, PTL
<1>2. Spec => [](SmallTree => FixesItsFence)
  BY SmallTreeOInv, OrderFixesFences, PTL
<1> QED  BY <1>1, <1>2

\* The tree implements the set of keys of BtreeSpec: btreeInsertKey stores its
\* key in one step, the btreeInsertSlot on a leaf, and every other step of every
\* thread leaves the set of keys a search finds as it is.
THEOREM TreeIsASet ==
  /\ Spec /\ []StoppersFixed => Implements
  /\ Spec /\ []SmallTree => Implements
<1>1. IInv /\ OInv => StoredOK
  BY StoredInLeaves DEF StoredOK
<1>2. Init /\ OInv /\ StoredOK => Promise!SetInit
  BY InitStores
<1>3. IInv /\ LInv /\ OInv /\ StoppersFixed /\ StoredOK /\ StoredOK' /\ [Next]_vars
        => [Promise!SetNext]_(Promise!setVars)
  BY StepStores
<1>4. Spec /\ []StoppersFixed => Implements
  BY <1>1, <1>2, <1>3, AlwaysOInv, PTL DEF Spec, Implements, Promise!SetSpec
<1>5. Spec /\ []SmallTree => Implements
  BY <1>4, SmallTreeOInv, PTL
<1> QED  BY <1>4, <1>5

=============================================================================
