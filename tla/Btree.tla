------------------------------- MODULE Btree -------------------------------
(***************************************************************************)
(* The B-link tree of oldjsdb/jsdb_dbbtree*.c under concurrent insertion:  *)
(* btreeInsertKey with the btreeLoadPage, btreeSplitPage, btreeSplitRoot,  *)
(* btreeInsertSlot and btreeFixKey it calls.  A thread works on the frame  *)
(* on top of its stack: posting the fences of a split is an insertion one  *)
(* level up, and may split there again.                                    *)
(*                                                                         *)
(* Abstractions.  A page is the sequence of its active slots; librarian    *)
(* slots, which only make room, are left out, and a page is full when it   *)
(* has LeafCap or NodeCap slots.  Half of the slots, librarians included,  *)
(* is some number of active slots near the half, given by SplitPoints.  A  *)
(* read lock is held for one look at the page, so Visit takes and drops    *)
(* it; Btree_lockAccess excludes only Btree_lockDelete, which nothing      *)
(* takes.  The page locks are those of RWLockSpec, which RWLock            *)
(* implements.  Deletion is not in the code: kill, free and garbage are    *)
(* never set.                                                              *)
(***************************************************************************)
EXTENDS Integers, Sequences, FiniteSets, SequencesExt

CONSTANTS
  Threads,
  None,         \* no thread
  Clients,      \* what the threads insert: preload, keys inserted one after the
                \* other; and then work[t], the keys of thread t, in any order
  LeafCap,      \* slots a leaf page holds
  NodeCap,      \* slots an interior page holds
  SplitPoints(_),  \* how many of n active slots may stay in the left page
  MaxPages      \* bound on the number of pages

Keys == UNION {Range(c.preload) \union UNION Range(c.work) : c \in Clients}

ASSUME BtreeAssumption ==
  /\ None \notin Threads
  /\ Keys \subseteq 1..999
  /\ LeafCap \in Nat /\ NodeCap \in Nat /\ LeafCap >= 2 /\ NodeCap >= 2
  /\ MaxPages \in Nat /\ MaxPages >= 2
  /\ \A n \in 2..LeafCap + NodeCap : SplitPoints(n) # {} /\ SplitPoints(n) \subseteq 1..n - 1

\* btreeIndexKey ends every key with the number of its document, so that no two
\* insertions are of the same key.
ASSUME ClientsAssumption ==
  \A c \in Clients :
    /\ c.preload \in Seq(Keys) /\ c.work \in [Threads -> SUBSET Keys]
    /\ \A t, u \in Threads : /\ c.work[t] \intersect Range(c.preload) = {}
                             /\ t # u => c.work[t] \intersect c.work[u] = {}

\* The stopper key of the rightmost page of a level.  It has no bytes.
Stopper == 1000

Pages == 1..MaxPages
Root == 1
Leaf == 2
NoPage == 0
NoLevel == 255

VARIABLES
  pages,        \* the pages allocated so far, by page number
  wlock,        \* the thread with Btree_lockWrite on a page
  plock,        \* the thread with Btree_lockParent on a page
  stack,        \* the frames of each thread, innermost first
  load,         \* the keys of preload
  todo,         \* what remains of work
  returned      \* the keys whose insertion has returned

vars == <<pages, wlock, plock, stack, load, todo, returned>>

\* A slot: its key, on interior pages the child, and whether it is of type
\* Btree_stopper.
Slot(k, c, s) == [key |-> k, child |-> c, stop |-> s]

\* btreeInit: a leaf and above it a root, each with a stopper.
Init ==
  /\ pages = << [lvl |-> 1, slots |-> <<Slot(Stopper, Leaf, TRUE)>>,
                 right |-> NoPage, left |-> NoPage],
                [lvl |-> 0, slots |-> <<Slot(Stopper, NoPage, TRUE)>>,
                 right |-> NoPage, left |-> NoPage] >>
  /\ wlock = [p \in Pages |-> None]
  /\ plock = [p \in Pages |-> None]
  /\ stack = [t \in Threads |-> <<>>]
  /\ \E c \in Clients : load = c.preload /\ todo = c.work
  /\ returned = {}

\* A call of btreeInsertKey or btreeFixKey for level l.
Frame(op, k, c, s, l) ==
  [op |-> op, key |-> k, child |-> c, stop |-> s, lvl |-> l,
   pageNo |-> Root, drill |-> NoLevel, at |-> "load",
   low |-> NoPage, fence |-> NoPage, right |-> NoPage, last |-> FALSE]

\* A frame starts (over) at the root.
Restart(f) == Frame(f.op, f.key, f.child, f.stop, f.lvl)

Top(t) == stack[t][1]

SetTop(t, f) == stack' = [stack EXCEPT ![t] = <<f>> \o Tail(@)]

\* btreeKeyCmp(slot, key) >= 0.  The stopper key compares equal to any key.
NotBelow(slot, k) == k = Stopper \/ slot.key >= k

\* btreeFindSlot: the lowest slot not below the key, 0 if there is none.  The
\* last slot of a page without a right sibling is not compared: it is infinite.
FindSlot(pg, k, stop) ==
  LET n == Len(pg.slots)
      S == {i \in 1..n : NotBelow(pg.slots[i], k) \/ (i = n /\ pg.right = NoPage)}
  IN  IF stop THEN n
      ELSE IF S = {} THEN 0
      ELSE CHOOSE i \in S : \A j \in S : i <= j

-----------------------------------------------------------------------------
(* btreeInsertKey and btreeLoadPage                                        *)

\* Call of btreeInsertKey for a leaf.
InsertKey(t, k) ==
  /\ stack[t] = <<>>
  /\ \/ /\ \A u \in Threads : stack[u] = <<>>
        /\ \E i \in 1..Len(load) : k = load[i] /\ \A j \in 1..Len(load) :
                                                  (load[j] \in returned) <=> j < i
        /\ UNCHANGED todo
     \/ /\ Range(load) \subseteq returned
        /\ k \in todo[t]
        /\ todo' = [todo EXCEPT ![t] = @ \ {k}]
  /\ stack' = [stack EXCEPT ![t] = <<Frame("insert", k, NoPage, FALSE, 0)>>]
  /\ UNCHANGED <<pages, wlock, plock, load, returned>>

\* Mutant: the level of the root is not remembered when it is locked again.
VisitForgetsLevel(t) ==
  /\ stack[t] # <<>> /\ Top(t).at = "load"
  /\ LET f    == Top(t)
         pg   == pages[f.pageNo]
         slot == FindSlot(pg, f.key, f.stop)
     IN  /\ wlock[f.pageNo] = None
         /\ \/ /\ pg.lvl # f.drill /\ pg.lvl = f.lvl
               /\ SetTop(t, f)
               /\ UNCHANGED wlock
            \/ /\ pg.lvl = f.drill /\ pg.lvl = f.lvl /\ slot # 0
               /\ SetTop(t, [f EXCEPT !.at = "page"])
               /\ wlock' = [wlock EXCEPT ![f.pageNo] = t]
            \/ /\ pg.lvl # f.lvl /\ slot # 0
               /\ SetTop(t, [f EXCEPT !.pageNo = pg.slots[slot].child, !.drill = pg.lvl - 1])
               /\ UNCHANGED wlock
            \/ /\ (pg.lvl # f.lvl \/ pg.lvl = f.drill) /\ slot = 0
               /\ SetTop(t, [f EXCEPT !.pageNo = pg.right, !.drill = pg.lvl])
               /\ UNCHANGED wlock
  /\ UNCHANGED <<pages, plock, load, todo, returned>>

\* One turn of the loop of btreeLoadPage: the thread locks the page it has got
\* to and looks for the key.  Below the root the level of the page is known to
\* be drill; a root that turns out to be the level asked for is locked again.
Visit(t) ==
  /\ stack[t] # <<>> /\ Top(t).at = "load"
  /\ LET f    == Top(t)
         pg   == pages[f.pageNo]
         slot == FindSlot(pg, f.key, f.stop)
     IN  /\ wlock[f.pageNo] = None
         /\ \/ /\ pg.lvl # f.drill /\ pg.lvl = f.lvl
               /\ SetTop(t, [f EXCEPT !.drill = pg.lvl])
               /\ UNCHANGED wlock
            \/ /\ pg.lvl = f.drill /\ pg.lvl = f.lvl /\ slot # 0
               /\ SetTop(t, [f EXCEPT !.at = "page"])
               /\ wlock' = [wlock EXCEPT ![f.pageNo] = t]
            \/ /\ pg.lvl # f.lvl /\ slot # 0
               /\ SetTop(t, [f EXCEPT !.pageNo = pg.slots[slot].child, !.drill = pg.lvl - 1])
               /\ UNCHANGED wlock
            \/ /\ (pg.lvl # f.lvl \/ pg.lvl = f.drill) /\ slot = 0
               /\ SetTop(t, [f EXCEPT !.pageNo = pg.right, !.drill = pg.lvl])
               /\ UNCHANGED wlock
  /\ UNCHANGED <<pages, plock, load, todo, returned>>

OnPage(t, op) == stack[t] # <<>> /\ Top(t).at = "page" /\ Top(t).op = op

\* btreeCleanPage, which cannot clean anything: does the page need a split?
Full(pg) == Len(pg.slots) >= IF pg.lvl = 0 THEN LeafCap ELSE NodeCap

\* btreeInsertSlot, and the return of btreeInsertKey to its caller: the user,
\* or the btreeSplitPage that goes on to switch the fence of its right page.
InsertSlot(t) ==
  /\ OnPage(t, "insert") /\ ~Full(pages[Top(t).pageNo])
  /\ LET f    == Top(t)
         slot == FindSlot(pages[f.pageNo], f.key, f.stop)
         up   == stack[t][2]
     IN  /\ pages' = [pages EXCEPT ![f.pageNo].slots =
                        InsertAt(@, slot, Slot(f.key, f.child, FALSE))]
         /\ wlock' = [wlock EXCEPT ![f.pageNo] = None]
         /\ IF Len(stack[t]) = 1
              THEN /\ returned' = returned \union {f.key}
                   /\ stack' = [stack EXCEPT ![t] = <<>>]
              ELSE /\ SetTop(t, Frame("fix", up.fence, up.right, up.last, f.lvl))
                   /\ UNCHANGED returned
  /\ UNCHANGED <<plock, load, todo>>

-----------------------------------------------------------------------------
(* btreeSplitPage and btreeSplitRoot                                       *)

\* Mutant: the left page keeps its old right link.
LowerHalfUnlinked(pg, m, r) == [pg EXCEPT !.slots = SubSeq(@, 1, m)]

\* The two halves of a full page.  The left one keeps a link to the right one.
LowerHalf(pg, m, r) == [pg EXCEPT !.slots = SubSeq(@, 1, m), !.right = r]
UpperHalf(pg, m) == [pg EXCEPT !.slots = SubSeq(@, m + 1, Len(@))]

\* Mutant: the page beyond keeps its old left link.
SplitPageNoLink(t, m) ==
  /\ OnPage(t, "insert") /\ Full(pages[Top(t).pageNo])
  /\ Top(t).pageNo # Root /\ Len(pages) < MaxPages
  /\ LET f     == Top(t)
         pg    == pages[f.pageNo]
         right == Len(pages) + 1
         upper == [UpperHalf(pg, m) EXCEPT !.left = f.pageNo]
     IN  /\ m \in SplitPoints(Len(pg.slots))
         /\ pages' = Append([pages EXCEPT ![f.pageNo] = LowerHalf(pg, m, right)], upper)
         /\ SetTop(t, [f EXCEPT !.at = "split", !.low = pg.slots[m].key,
                         !.fence = Last(pg.slots).key, !.last = Last(pg.slots).stop,
                         !.right = right])
  /\ UNCHANGED <<wlock, plock, load, todo, returned>>

\* The higher keys of a page move to a new right sibling; on the leaf level
\* the page beyond gets its left link changed under Btree_lockLink.  The
\* thread keeps the write lock on the page until it has the parent locks.
SplitPage(t, m) ==
  /\ OnPage(t, "insert") /\ Full(pages[Top(t).pageNo])
  /\ Top(t).pageNo # Root /\ Len(pages) < MaxPages
  /\ LET f     == Top(t)
         pg    == pages[f.pageNo]
         right == Len(pages) + 1
         upper == [UpperHalf(pg, m) EXCEPT !.left = f.pageNo]
         far   == IF pg.lvl = 0 THEN pg.right ELSE NoPage
     IN  /\ m \in SplitPoints(Len(pg.slots))
         /\ pages' = Append([p \in 1..Len(pages) |->
                        CASE p = f.pageNo -> LowerHalf(pg, m, right)
                          [] p = far      -> [pages[p] EXCEPT !.left = right]
                          [] OTHER        -> pages[p]], upper)
         /\ SetTop(t, [f EXCEPT !.at = "split", !.low = pg.slots[m].key,
                         !.fence = Last(pg.slots).key, !.last = Last(pg.slots).stop,
                         !.right = right])
  /\ UNCHANGED <<wlock, plock, load, todo, returned>>

\* The root keeps its page number: both its halves go to new pages, and it
\* becomes a page of two slots one level up.  The second one is written over
\* zeroed memory and is not given the type Btree_stopper.
SplitRoot(t, m) ==
  /\ OnPage(t, "insert") /\ Full(pages[Top(t).pageNo])
  /\ Top(t).pageNo = Root /\ Len(pages) + 1 < MaxPages
  /\ LET pg    == pages[Root]
         right == Len(pages) + 1
         left  == Len(pages) + 2
         root  == [lvl |-> pg.lvl + 1, left |-> NoPage, right |-> NoPage,
                   slots |-> << Slot(pg.slots[m].key, left, FALSE),
                                Slot(Stopper, right, FALSE) >>]
     IN  /\ m \in SplitPoints(Len(pg.slots))
         /\ pages' = [pages EXCEPT ![Root] = root] \o
                     << [UpperHalf(pg, m) EXCEPT !.left = left], LowerHalf(pg, m, right) >>
         /\ wlock' = [wlock EXCEPT ![Root] = None]
         /\ SetTop(t, Restart(Top(t)))
  /\ UNCHANGED <<plock, load, todo, returned>>

\* Mutant: the page is released before its parent lock is taken, so that its
\* next split can overtake the posting of this one.
LockParentsNot(t) ==
  /\ stack[t] # <<>> /\ Top(t).at = "split"
  /\ LET f == Top(t) IN
       /\ wlock' = [wlock EXCEPT ![f.pageNo] = None]
       /\ stack' = [stack EXCEPT ![t] =
                      <<Frame("insert", f.low, f.pageNo, FALSE, f.lvl + 1),
                        [f EXCEPT !.at = "parent"]>> \o Tail(@)]
  /\ UNCHANGED <<pages, plock, load, todo, returned>>

\* With the parent locks of both halves, of which nobody else knows the right
\* one, the page is released and the fence of the left half is posted.
LockParents(t) ==
  /\ stack[t] # <<>> /\ Top(t).at = "split"
  /\ LET f == Top(t) IN
       /\ plock[f.pageNo] = None
       /\ plock' = [plock EXCEPT ![f.pageNo] = t, ![f.right] = t]
       /\ wlock' = [wlock EXCEPT ![f.pageNo] = None]
       /\ stack' = [stack EXCEPT ![t] =
                      <<Frame("insert", f.low, f.pageNo, FALSE, f.lvl + 1),
                        [f EXCEPT !.at = "parent"]>> \o Tail(@)]
  /\ UNCHANGED <<pages, load, todo, returned>>

\* Mutant: the fence of the right half keeps leading to the left half.
FixKeyForgotten(t) ==
  /\ OnPage(t, "fix")
  /\ LET f    == Top(t)
         up   == stack[t][2]
     IN  /\ wlock' = [wlock EXCEPT ![f.pageNo] = None]
         /\ plock' = [plock EXCEPT ![up.pageNo] = None, ![up.right] = None]
         /\ stack' = [stack EXCEPT ![t] = <<Restart(up)>> \o SubSeq(@, 3, Len(@))]
  /\ UNCHANGED <<pages, load, todo, returned>>

\* btreeFixKey: the fence of the right half, until now the fence of the whole
\* page, is pointed to the new page.  btreeSplitPage then drops the parent
\* locks, and the btreeInsertKey that called it loads its page again.
FixKey(t) ==
  /\ OnPage(t, "fix")
  /\ LET f    == Top(t)
         up   == stack[t][2]
         slot == FindSlot(pages[f.pageNo], f.key, f.stop)
     IN  /\ pages' = [pages EXCEPT ![f.pageNo].slots[slot].child = f.child]
         /\ wlock' = [wlock EXCEPT ![f.pageNo] = None]
         /\ plock' = [plock EXCEPT ![up.pageNo] = None, ![up.right] = None]
         /\ stack' = [stack EXCEPT ![t] = <<Restart(up)>> \o SubSeq(@, 3, Len(@))]
  /\ UNCHANGED <<load, todo, returned>>

Run(t) ==
  \/ Visit(t) \/ InsertSlot(t) \/ LockParents(t) \/ FixKey(t)
  \/ \E m \in 1..LeafCap + NodeCap : SplitPage(t, m) \/ SplitRoot(t, m)

AllDone ==
  /\ Range(load) \subseteq returned
  /\ \A t \in Threads : stack[t] = <<>> /\ todo[t] = {}
  /\ UNCHANGED vars

Next == (\E t \in Threads : Run(t) \/ \E k \in Keys : InsertKey(t, k)) \/ AllDone

Spec == Init /\ [][Next]_vars

\* A thread inside the tree is scheduled again and again.
FairSpec == Spec /\ \A t \in Threads : WF_vars(Run(t))

-----------------------------------------------------------------------------
(* Properties                                                              *)

TypeOK ==
  /\ \A p \in 1..Len(pages) :
       /\ pages[p].lvl \in Nat
       /\ pages[p].right \in {NoPage} \union 1..Len(pages)
       /\ pages[p].left \in {NoPage} \union 1..Len(pages)
       /\ \A i \in 1..Len(pages[p].slots) :
            /\ pages[p].slots[i].key \in Keys \union {Stopper}
            /\ pages[p].lvl > 0 =>
                 /\ pages[p].slots[i].child \in 1..Len(pages)
                 /\ pages[pages[p].slots[i].child].lvl = pages[p].lvl - 1
  /\ wlock \in [Pages -> Threads \union {None}]
  /\ plock \in [Pages -> Threads \union {None}]

\* Where a search for key k, that has come to page p, goes next: a leaf that may
\* have the key is the end.
Onward(k) ==
  [p \in 1..Len(pages) |->
     LET pg   == pages[p]
         slot == FindSlot(pg, k, FALSE)
     IN  IF slot = 0 THEN pg.right ELSE IF pg.lvl = 0 THEN p ELSE pg.slots[slot].child]

\* The leaf a search for key k comes to; it passes no page twice.
LeafOf(k) ==
  LET after[n \in 0..Len(pages)] == IF n = 0 THEN Root ELSE Onward(k)[after[n - 1]]
  IN  after[Len(pages)]

KeyOf(p, i) == pages[p].slots[i].key
KeysOf(p) == {KeyOf(p, i) : i \in 1..Len(pages[p].slots)} \ {Stopper}
LastKey(p) == KeyOf(p, Len(pages[p].slots))

Stored == {k \in Keys : k \in KeysOf(LeafOf(k))}

\* The leaf chain: what the right links lead to from the leftmost leaf.
LeafChain ==
  LET upTo[n \in 0..Len(pages)] ==
        IF n = 0 THEN {Leaf}
        ELSE LET known == upTo[n - 1]
             IN  known \union ({pages[p].right : p \in known} \ {NoPage})
  IN  upTo[Len(pages)]

\* The leaf chain, which the cursors walk, has every key once, in ascending
\* order, and ends with the stopper; and a search from the root finds exactly
\* the keys of the chain, however far the fences of a split have been posted.
SearchAgreesWithScan ==
  /\ \A p \in LeafChain :
       /\ \A i \in 1..Len(pages[p].slots) - 1 : KeyOf(p, i) < KeyOf(p, i + 1)
       /\ IF pages[p].right = NoPage THEN LastKey(p) = Stopper
                                    ELSE LastKey(p) < KeyOf(pages[p].right, 1)
  /\ Stored = UNION {KeysOf(p) : p \in LeafChain}

\* A left link leads back to the page whose right link leads here, also while
\* splits of neighbouring leaves overlap; and pages and frames are well formed.
LeafLinksMatch ==
  /\ TypeOK
  /\ \A p \in 1..Len(pages) :
       pages[p].lvl = 0 /\ pages[p].right # NoPage => pages[pages[p].right].left = p

\* No split is left half posted: when nobody is inside the tree, the slot of
\* an interior page and the last slot of the child it leads to have the same
\* key, and the next slot leads to the right sibling of the child.
FencesPosted ==
  (\A t \in Threads : stack[t] = <<>>) =>
    \A p \in 1..Len(pages) : pages[p].lvl > 0 =>
      LET s == pages[p].slots IN
      \A i \in 1..Len(s) :
        /\ s[i].key = LastKey(s[i].child)
        /\ pages[s[i].child].lvl = pages[p].lvl - 1
        /\ i < Len(s) => pages[s[i].child].right = s[i + 1].child

\* The slot btreeFixKey is about to redirect is the one of the fence key.
FixesItsFence ==
  \A t \in Threads : OnPage(t, "fix") =>
    LET f == Top(t)  pg == pages[f.pageNo] IN
    pg.slots[FindSlot(pg, f.key, f.stop)].key = f.key

\* Every insertion returns: no deadlock over page and parent locks, and no
\* thread splits or slides right for ever.
InsertsReturn == \A k \in Keys : (\E t \in Threads : stack[t] # <<>> /\ Last(stack[t]).key = k)
                                   ~> k \in returned

\* The tree implements the set of keys of BtreeSpec.
Promise == INSTANCE BtreeSpec WITH stored <- Stored
Implements == Promise!SetSpec
=============================================================================
