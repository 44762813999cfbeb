----------------------------- MODULE LatchTable -----------------------------
(***************************************************************************)
(* One bucket of the latch table of oldjsdb/jsdb_dbbtreelatch.c: the       *)
(* BtreeLatch entries of pages that threads have pinned, chained from a    *)
(* DbAddr whose mutex bit guards the chain.  The bit is in the same word   *)
(* as the address of the first entry, so storing the word stores the bit.  *)
(*                                                                         *)
(* Abstractions.  All pages hash to the bucket.  The walk along the chain  *)
(* is one step; the accesses to the word of the bucket are steps of their  *)
(* own.  allocObj and addSlotToFrame are those of PoolSpec, which Frames   *)
(* implements: an entry is unused or in use.  While a page is pinned its   *)
(* write lock, that of RWLockSpec, may be taken.                           *)
(***************************************************************************)
EXTENDS Integers, Sequences, FiniteSets

CONSTANTS
  Threads,
  None,      \* no thread
  Pages,
  NEntries,  \* the entries there is memory for
  MaxPins,   \* bound on the pages a thread has pinned at a time
  MaxCalls   \* bound on the pins each thread makes

ASSUME LatchTableAssumption ==
  /\ None \notin Threads
  /\ IsFiniteSet(Threads)
  /\ NEntries \in Nat /\ MaxPins \in Nat /\ MaxCalls \in Nat
  /\ NEntries >= MaxPins * Cardinality(Threads)

Entries == 1..NEntries
Nil == 0   \* the zero address

VARIABLES
  mutex,     \* the mutex bit of the bucket
  first,     \* the address in the bucket
  next,      \* the next link of each entry
  pageNo,    \* the page each entry is for
  pinCnt,    \* the pin count of each entry
  unused,    \* the entries allocObj may give
  wlock,     \* the thread that has the write lock of an entry
  pc,        \* where a thread is in btreePinLatch or btreeUnpinLatch
  page,      \* the page it pins
  entry,     \* the entry it works on
  pins,      \* the entries a thread has pinned, in order
  calls      \* the pins it may still make

vars == <<mutex, first, next, pageNo, pinCnt, unused, wlock, pc, page, entry, pins, calls>>

Init ==
  /\ mutex = FALSE
  /\ first = Nil
  /\ next = [e \in Entries |-> Nil]
  /\ pageNo = [e \in Entries |-> None]
  /\ pinCnt = [e \in Entries |-> 0]
  /\ unused = Entries
  /\ wlock = [e \in Entries |-> None]
  /\ pc = [t \in Threads |-> "idle"]
  /\ page = [t \in Threads |-> None]
  /\ entry = [t \in Threads |-> Nil]
  /\ pins = [t \in Threads |-> <<>>]
  /\ calls = [t \in Threads |-> MaxCalls]

Goto(t, label) == pc' = [pc EXCEPT ![t] = label]

\* The entries on the chain.
Chain ==
  LET upTo[n \in 0..NEntries] ==
        IF n = 0 THEN {first} \ {Nil}
        ELSE upTo[n - 1] \union ({next[e] : e \in upTo[n - 1]} \ {Nil})
  IN  upTo[NEntries]

-----------------------------------------------------------------------------
(* btreePinLatch                                                           *)

Pin(t, p) ==
  /\ pc[t] = "idle" /\ calls[t] > 0 /\ Len(pins[t]) < MaxPins
  /\ page' = [page EXCEPT ![t] = p]
  /\ calls' = [calls EXCEPT ![t] = @ - 1]
  /\ Goto(t, "pin")
  /\ UNCHANGED <<mutex, first, next, pageNo, pinCnt, unused, wlock, entry, pins>>

\* lockLatch, for either call.
Lock(t) ==
  /\ pc[t] \in {"pin", "unpin"} /\ ~mutex
  /\ mutex' = TRUE
  /\ Goto(t, IF pc[t] = "pin" THEN "find" ELSE "drop")
  /\ UNCHANGED <<first, next, pageNo, pinCnt, unused, wlock, page, entry, pins, calls>>

\* The page is found on the chain, or a new entry is made for it.
Find(t) ==
  LET found == {e \in Chain : pageNo[e] = page[t]} IN
  /\ pc[t] = "find"
  /\ \/ \E e \in found :
          /\ pinCnt' = [pinCnt EXCEPT ![e] = @ + 1]
          /\ entry' = [entry EXCEPT ![t] = e]
          /\ Goto(t, "unlock")
          /\ UNCHANGED <<next, pageNo, unused>>
     \/ /\ found = {}
        /\ \E e \in unused :
             /\ unused' = unused \ {e}
             /\ entry' = [entry EXCEPT ![t] = e]
             /\ next' = [next EXCEPT ![e] = first]
             /\ pageNo' = [pageNo EXCEPT ![e] = page[t]]
             /\ pinCnt' = [pinCnt EXCEPT ![e] = 1]
        /\ Goto(t, "install")
  /\ UNCHANGED <<mutex, first, wlock, page, pins, calls>>

Pinned(t) ==
  /\ pins' = [pins EXCEPT ![t] = Append(@, entry[t])]
  /\ entry' = [entry EXCEPT ![t] = Nil]
  /\ page' = [page EXCEPT ![t] = None]

\* The new entry goes to the front.  The word stored has the mutex bit clear.
Install(t) ==
  /\ pc[t] = "install"
  /\ first' = entry[t]
  /\ mutex' = FALSE
  /\ Pinned(t)
  /\ Goto(t, "idle")
  /\ UNCHANGED <<next, pageNo, pinCnt, unused, wlock, calls>>

Unlock(t) ==
  /\ pc[t] = "unlock"
  /\ mutex' = FALSE
  /\ Pinned(t)
  /\ Goto(t, "idle")
  /\ UNCHANGED <<first, next, pageNo, pinCnt, unused, wlock, calls>>

-----------------------------------------------------------------------------
(* The pinned page                                                         *)

\* Btree_lockWrite.
LockWrite(t) ==
  \E i \in 1..Len(pins[t]) :
    /\ pc[t] = "idle" /\ wlock[pins[t][i]] = None
    /\ wlock' = [wlock EXCEPT ![pins[t][i]] = t]
    /\ UNCHANGED <<mutex, first, next, pageNo, pinCnt, unused, pc, page, entry, pins, calls>>

\* Btree_unlockWrite and a call of btreeUnpinLatch.
Unpin(t) ==
  \E i \in 1..Len(pins[t]) :
    LET e == pins[t][i] IN
    /\ pc[t] = "idle"
    /\ wlock' = [wlock EXCEPT ![e] = IF @ = t THEN None ELSE @]
    /\ pins' = [pins EXCEPT ![t] = SubSeq(@, 1, i - 1) \o SubSeq(@, i + 1, Len(@))]
    /\ entry' = [entry EXCEPT ![t] = e]
    /\ Goto(t, "unpin")
    /\ UNCHANGED <<mutex, first, next, pageNo, pinCnt, unused, page, calls>>

-----------------------------------------------------------------------------
(* btreeUnpinLatch                                                         *)

\* Mutant: the entry is taken off the chain while somebody still has a pin.
DropEarly(t) ==
  LET e == entry[t] IN
  /\ pc[t] = "drop"
  /\ pinCnt' = [pinCnt EXCEPT ![e] = @ - 1]
  /\ \/ /\ pinCnt[e] > 2
        /\ Goto(t, "drop unlock")
        /\ UNCHANGED <<first, next, mutex>>
     \/ /\ pinCnt[e] <= 2
        /\ \/ /\ first = e
              /\ first' = next[e] /\ mutex' = FALSE
              /\ UNCHANGED next
           \/ /\ first # e
              /\ \E d \in Chain : next[d] = e /\ next' = [next EXCEPT ![d] = next[e]]
              /\ UNCHANGED <<first, mutex>>
        /\ Goto(t, "drop free")
  /\ UNCHANGED <<pageNo, unused, wlock, page, entry, pins, calls>>

\* The last pin takes the entry off the chain.  An entry at the front is taken
\* off by storing its next link into the bucket, which clears the mutex bit.  (An
\* entry that is not on the chain is an error, and the walk ends there.)
Drop(t) ==
  LET e == entry[t] IN
  /\ pc[t] = "drop"
  /\ pinCnt' = [pinCnt EXCEPT ![e] = @ - 1]
  /\ \/ /\ pinCnt[e] > 1
        /\ Goto(t, "drop unlock")
        /\ UNCHANGED <<first, next, mutex>>
     \/ /\ pinCnt[e] <= 1
        /\ \/ /\ first = e
              /\ first' = next[e] /\ mutex' = FALSE
              /\ UNCHANGED next
           \/ /\ first # e
              /\ \E d \in Chain : next[d] = e /\ next' = [next EXCEPT ![d] = next[e]]
              /\ UNCHANGED <<first, mutex>>
        /\ Goto(t, "drop free")
  /\ UNCHANGED <<pageNo, unused, wlock, page, entry, pins, calls>>

\* unlockLatch, whoever has set the bit meanwhile.
DropUnlock(t) ==
  /\ pc[t] \in {"drop unlock", "drop free"}
  /\ mutex' = FALSE
  /\ unused' = IF pc[t] = "drop free" THEN unused \union {entry[t]} ELSE unused
  /\ entry' = [entry EXCEPT ![t] = Nil]
  /\ Goto(t, "idle")
  /\ UNCHANGED <<first, next, pageNo, pinCnt, wlock, page, pins, calls>>

Finished ==
  /\ \A t \in Threads : pc[t] = "idle" /\ pins[t] = <<>> /\ calls[t] = 0
  /\ UNCHANGED vars

Next ==
  \/ \E t \in Threads :
       \/ \E p \in Pages : Pin(t, p)
       \/ Lock(t) \/ Find(t) \/ Install(t) \/ Unlock(t)
       \/ LockWrite(t) \/ Unpin(t) \/ Drop(t) \/ DropUnlock(t)
  \/ Finished

Spec == Init /\ [][Next]_vars

-----------------------------------------------------------------------------
(* Properties                                                              *)

\* The pins of an entry: who has them, and the place in its order.
Pins(e) ==
  {p \in Threads \X (1..MaxPins) : p[2] <= Len(pins[p[1]]) /\ pins[p[1]][p[2]] = e}

\* While nobody changes the table, the entries on the chain are those of the
\* pinned pages, one for each with the number of its pins, and all others can
\* be given again.
ChainIsPinned ==
  (\A t \in Threads : pc[t] \in {"idle", "pin"}) =>
    /\ Chain = {e \in Entries : Pins(e) # {}}
    /\ \A e \in Chain : pinCnt[e] = Cardinality(Pins(e))
    /\ unused = Entries \ Chain
    /\ \A d, e \in Chain : pageNo[d] = pageNo[e] => d = e

\* WriteLock is exclusive: two threads never have the write lock of one page.
WriteExclusive ==
  \A d, e \in Entries :
    wlock[d] # None /\ wlock[e] # None /\ pageNo[d] = pageNo[e] => wlock[d] = wlock[e]
=============================================================================
