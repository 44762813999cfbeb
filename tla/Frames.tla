------------------------------- MODULE Frames -------------------------------
(***************************************************************************)
(* The object allocator of oldjsdb/jsdb_dbframe.c: free lists of objects,  *)
(* each a chain of frames of FrameSlots slots behind a latched DbAddr, and *)
(* the chain of empty frames they take their frames from.                  *)
(*                                                                         *)
(* Abstractions.  The latch of freeFrame is held for one call of           *)
(* allocFrame or returnFreeFrame, which are steps of their own here; the   *)
(* latch of a list is held across such calls, and is a variable.  allocMap *)
(* hands out new numbers; it succeeds Room times, after which memory is    *)
(* out.  Frames and objects are numbered in the order of their addresses.  *)
(***************************************************************************)
EXTENDS Integers, Sequences, FiniteSets, SequencesExt

CONSTANTS
  Threads,
  None,         \* no thread
  Lists,        \* the free lists: DbAddr's of an arena
  FrameSlots,   \* slots of a frame
  Batch,        \* objects made at a time; fewer than FrameSlots for large ones
  Room,         \* calls of allocMap until memory is out
  MaxOps        \* bound on the calls each thread makes

ASSUME FramesAssumption ==
  /\ None \notin Threads \union Lists /\ Threads \intersect Lists = {}
  /\ FrameSlots \in Nat \ {0} /\ Batch \in 1..FrameSlots
  /\ Room \in Nat /\ MaxOps \in Nat

NoFrame == 0

VARIABLES
  head,       \* the DbAddr of each list: its first frame and nslot
  latch,      \* the thread that has the mutex bit of a list
  freeFrame,  \* the DbAddr of the chain of empty frames
  slots,      \* the slots of each frame; an empty frame keeps its old ones
  next,       \* the next link of each frame
  made,       \* the number of objects made
  room,       \* the calls of allocMap that will still succeed
  job,        \* the call each thread is in
  owned,      \* the objects each thread has
  ops,        \* the calls each thread may still make
  lostFrames, \* frames nothing leads to any more
  lostObjects \* objects nothing leads to any more

poolVars == <<freeFrame, room, lostFrames>>
frameVars == <<slots, next>>
vars == <<head, latch, freeFrame, slots, next, made, room, job, owned, ops,
          lostFrames, lostObjects>>

Idle == [op |-> "none", list |-> None, at |-> "none", obj |-> 0, frame |-> NoFrame]

Addr(f, n) == [frame |-> f, nslot |-> n]

Init ==
  /\ head = [l \in Lists |-> Addr(NoFrame, 0)]
  /\ latch = [l \in Lists |-> None]
  /\ freeFrame = Addr(NoFrame, 0)
  /\ slots = <<>>
  /\ next = <<>>
  /\ made = 0
  /\ room = Room
  /\ job = [t \in Threads |-> Idle]
  /\ owned = [t \in Threads |-> {}]
  /\ ops = [t \in Threads |-> MaxOps]
  /\ lostFrames = {}
  /\ lostObjects = {}

At(t, place) == job[t].at = place

\* Does a chain have a used slot, or another frame?
More(a) == a.frame # NoFrame /\ (a.nslot > 0 \/ next[a.frame] # NoFrame)

\* Mutant: the first frame counts as full with a batch of objects in it.
HasSpaceBatch(a) == a.frame # NoFrame /\ a.nslot < Batch

\* Has the first frame of a list space for one more?
HasSpace(a) == a.frame # NoFrame /\ a.nslot < FrameSlots

-----------------------------------------------------------------------------
(* The chain of empty frames                                               *)

\* initFreeFrame: a frame full of FrameSlots empty frames, one address after
\* the other from the last slot down.  The frame that headed the chain, itself
\* empty, is overwritten.
NewFrames ==
  LET base == Len(next) + 1 IN
  [ slots |-> slots \o <<[i \in 1..FrameSlots |-> base + FrameSlots + 1 - i]>>
                    \o [k \in 1..FrameSlots |-> [i \in 1..FrameSlots |-> 0]],
    next  |-> next \o [k \in 1..FrameSlots + 1 |-> NoFrame],
    head  |-> Addr(base, FrameSlots) ]

\* getFreeFrame takes a slot of the first frame, or the first frame itself when
\* it is empty and not the last one.
CanGetFree == More(freeFrame)

CanAllocFrame == CanGetFree \/ room > 0

\* allocFrame under the latch of freeFrame: the frame, and what it leaves.
AllocFrame ==
  IF freeFrame.nslot > 0
    THEN [frame |-> slots[freeFrame.frame][freeFrame.nslot], slots |-> slots, next |-> next,
          head |-> [freeFrame EXCEPT !.nslot = @ - 1], room |-> room, lost |-> {}]
  ELSE IF CanGetFree
    THEN [frame |-> freeFrame.frame, slots |-> slots, next |-> next,
          head |-> Addr(next[freeFrame.frame], FrameSlots), room |-> room, lost |-> {}]
  ELSE   [frame |-> NewFrames.slots[NewFrames.head.frame][FrameSlots],
          slots |-> NewFrames.slots, next |-> NewFrames.next,
          head |-> [NewFrames.head EXCEPT !.nslot = @ - 1], room |-> room - 1,
          lost |-> {freeFrame.frame} \ {NoFrame}]

\* What the pool keeps after allocFrame.
TakeFrame(a) ==
  /\ freeFrame' = a.head
  /\ room' = a.room
  /\ lostFrames' = lostFrames \union a.lost

-----------------------------------------------------------------------------
(* Calls                                                                   *)

\* Call of allocObj, or of allocBlk, on a list.
CallAlloc(t, l) ==
  /\ job[t] = Idle /\ ops[t] > 0
  /\ job' = [job EXCEPT ![t] = [Idle EXCEPT !.op = "alloc", !.list = l, !.at = "latch"]]
  /\ ops' = [ops EXCEPT ![t] = @ - 1]
  /\ UNCHANGED <<head, latch, poolVars, frameVars, made, owned, lostObjects>>

\* Call of addSlotToFrame for an object of the caller.
CallAdd(t, l, o) ==
  /\ job[t] = Idle /\ ops[t] > 0 /\ o \in owned[t]
  /\ job' = [job EXCEPT ![t] = [Idle EXCEPT !.op = "add", !.list = l, !.at = "latch", !.obj = o]]
  /\ owned' = [owned EXCEPT ![t] = @ \ {o}]
  /\ ops' = [ops EXCEPT ![t] = @ - 1]
  /\ UNCHANGED <<head, latch, poolVars, frameVars, made, lostObjects>>

\* Mutant: lockLatch does not look at the bit it has set.
LatchUntested(t) ==
  LET j == job[t] IN
  /\ At(t, "latch")
  /\ latch' = [latch EXCEPT ![j.list] = t]
  /\ job' = [job EXCEPT ![t].at = IF j.op = "alloc" THEN "get" ELSE "add"]
  /\ UNCHANGED <<head, poolVars, frameVars, made, owned, ops, lostObjects>>

\* lockLatch on the list.
Latch(t) ==
  LET j == job[t] IN
  /\ At(t, "latch") /\ latch[j.list] = None
  /\ latch' = [latch EXCEPT ![j.list] = t]
  /\ job' = [job EXCEPT ![t].at = IF j.op = "alloc" THEN "get" ELSE "add"]
  /\ UNCHANGED <<head, poolVars, frameVars, made, owned, ops, lostObjects>>

\* unlockLatch, and the return of the call.
Unlatch(t) ==
  /\ latch' = [latch EXCEPT ![job[t].list] = None]
  /\ job' = [job EXCEPT ![t] = Idle]

-----------------------------------------------------------------------------
(* allocObj                                                                *)

\* getNodeFromFrame: an object of the first frame; when that is empty, it is
\* given up and the next one, which is full, comes first.
GetNode(t) ==
  LET l == job[t].list  h == head[l] IN
  /\ At(t, "get")
  /\ \/ /\ h.frame # NoFrame /\ h.nslot > 0
        /\ head' = [head EXCEPT ![l].nslot = @ - 1]
        /\ owned' = [owned EXCEPT ![t] = @ \union {slots[h.frame][h.nslot]}]
        /\ Unlatch(t)
     \/ /\ h.frame # NoFrame /\ h.nslot = 0 /\ next[h.frame] # NoFrame
        /\ head' = [head EXCEPT ![l] = Addr(next[h.frame], FrameSlots)]
        /\ job' = [job EXCEPT ![t].at = "return", ![t].frame = h.frame]
        /\ UNCHANGED <<latch, owned>>
     \/ /\ ~More(h)
        /\ job' = [job EXCEPT ![t].at = "objects"]
        /\ UNCHANGED <<head, latch, owned>>
  /\ UNCHANGED <<poolVars, frameVars, made, ops, lostObjects>>

\* returnFreeFrame: the empty frame goes into the first frame of the chain, or
\* in front of it when that is full.
ReturnFreeFrame(t) ==
  LET f == job[t].frame IN
  /\ At(t, "return")
  /\ \/ /\ HasSpace(freeFrame)
        /\ slots' = [slots EXCEPT ![freeFrame.frame][freeFrame.nslot + 1] = f]
        /\ freeFrame' = [freeFrame EXCEPT !.nslot = @ + 1]
        /\ UNCHANGED next
     \/ /\ ~HasSpace(freeFrame)
        /\ next' = [next EXCEPT ![f] = freeFrame.frame]
        /\ freeFrame' = Addr(f, 0)
        /\ UNCHANGED slots
  /\ job' = [job EXCEPT ![t] = IF @.op = "alloc" THEN [@ EXCEPT !.at = "get", !.frame = NoFrame]
                               ELSE Idle]
  /\ UNCHANGED <<head, latch, room, lostFrames, made, owned, ops, lostObjects>>

\* The slots of a frame filled with the objects after o, the last slot first.
Filled(s, o) == [i \in 1..FrameSlots |-> IF i <= Batch THEN o + Batch + 1 - i ELSE s[i]]

\* initObjFrame makes a batch of objects, and puts it into the empty frame the
\* list has, if it has one.
InitObjects(t) ==
  LET l == job[t].list  f == head[l].frame IN
  /\ At(t, "objects")
  /\ \/ /\ room = 0
        /\ Unlatch(t)
        /\ UNCHANGED <<head, slots, next, made, room>>
     \/ /\ room > 0
        /\ room' = room - 1
        /\ made' = made + Batch
        /\ IF f # NoFrame
             THEN /\ slots' = [slots EXCEPT ![f] = Filled(@, made)]
                  /\ next' = [next EXCEPT ![f] = NoFrame]
                  /\ head' = [head EXCEPT ![l].nslot = Batch]
                  /\ job' = [job EXCEPT ![t].at = "get"]
             ELSE /\ job' = [job EXCEPT ![t].at = "frame", ![t].obj = made]
                  /\ UNCHANGED <<slots, next, head>>
        /\ UNCHANGED latch
  /\ UNCHANGED <<freeFrame, lostFrames, owned, ops, lostObjects>>

\* Otherwise it gets a frame.  Without one the new objects are forgotten.
InitFrame(t) ==
  LET l == job[t].list  a == AllocFrame  o == job[t].obj IN
  /\ At(t, "frame")
  /\ \/ /\ CanAllocFrame
        /\ TakeFrame(a)
        /\ slots' = [a.slots EXCEPT ![a.frame] = Filled(@, o)]
        /\ next' = [a.next EXCEPT ![a.frame] = NoFrame]
        /\ head' = [head EXCEPT ![l] = Addr(a.frame, Batch)]
        /\ job' = [job EXCEPT ![t].at = "get", ![t].obj = 0]
        /\ UNCHANGED <<latch, lostObjects>>
     \/ /\ ~CanAllocFrame
        /\ lostObjects' = lostObjects \union (o + 1..o + Batch)
        /\ Unlatch(t)
        /\ UNCHANGED <<head, poolVars, frameVars>>
  /\ UNCHANGED <<made, owned, ops>>

-----------------------------------------------------------------------------
(* addSlotToFrame                                                          *)

\* Into the first frame of the list, or into a new one in front of it.  When
\* no frame is to be had the call fails, and the latch is not released.
AddSlot(t) ==
  LET l == job[t].list  h == head[l]  o == job[t].obj  a == AllocFrame IN
  /\ At(t, "add")
  /\ \/ /\ HasSpace(h)
        /\ slots' = [slots EXCEPT ![h.frame][h.nslot + 1] = o]
        /\ head' = [head EXCEPT ![l].nslot = @ + 1]
        /\ Unlatch(t)
        /\ UNCHANGED <<next, poolVars, owned>>
     \/ /\ ~HasSpace(h) /\ CanAllocFrame
        /\ TakeFrame(a)
        /\ slots' = [a.slots EXCEPT ![a.frame][1] = o]
        /\ next' = [a.next EXCEPT ![a.frame] = h.frame]
        /\ head' = [head EXCEPT ![l] = Addr(a.frame, 1)]
        /\ Unlatch(t)
        /\ UNCHANGED owned
     \/ /\ ~HasSpace(h) /\ ~CanAllocFrame
        /\ owned' = [owned EXCEPT ![t] = @ \union {o}]
        /\ job' = [job EXCEPT ![t] = Idle]
        /\ UNCHANGED <<latch, head, poolVars, frameVars>>
  /\ UNCHANGED <<made, ops, lostObjects>>

\* A step of a thread that is inside a call.
Run(t) ==
  \/ Latch(t) \/ GetNode(t) \/ ReturnFreeFrame(t)
  \/ InitObjects(t) \/ InitFrame(t) \/ AddSlot(t)

Finished == (\A t \in Threads : job[t] = Idle /\ ops[t] = 0) /\ UNCHANGED vars

Next ==
  \/ \E t \in Threads :
       \/ Run(t)
       \/ \E l \in Lists : CallAlloc(t, l) \/ \E o \in owned[t] : CallAdd(t, l, o)
  \/ Finished

Spec == Init /\ [][Next]_vars

-----------------------------------------------------------------------------
(* Properties                                                              *)

Frame == 1..Len(next)
Object == 1..made

TypeOK ==
  /\ head \in [Lists -> [frame : Frame \union {NoFrame}, nslot : 0..FrameSlots]]
  /\ latch \in [Lists -> Threads \union {None}]
  /\ freeFrame \in [frame : Frame \union {NoFrame}, nslot : 0..FrameSlots]
  /\ slots \in [Frame -> [1..FrameSlots -> Nat]]
  /\ next \in [Frame -> Frame \union {NoFrame}]
  /\ owned \in [Threads -> SUBSET Object]
  /\ \A t \in Threads : job[t].frame \in Frame \union {NoFrame}

\* The frames a DbAddr leads to.
Chain(a) ==
  LET upTo[n \in 0..Len(next)] ==
        IF n = 0 THEN {a.frame} \ {NoFrame}
        ELSE upTo[n - 1] \union ({next[f] : f \in upTo[n - 1]} \ {NoFrame})
  IN  upTo[Len(next)]

\* The slots that are in use in the chain of a DbAddr: nslot of the first
\* frame, and all of the others.
Used(a) == {p \in Chain(a) \X (1..FrameSlots) : p[1] = a.frame => p[2] <= a.nslot}

\* The objects a thread holds inside a call.
InHand(t) == IF At(t, "frame") THEN job[t].obj + 1..job[t].obj + Batch
             ELSE {job[t].obj} \ {0}

\* Where an object is, as pairs of a list, one of L, or a thread and a slot.
PlacesIn(L, o) ==
  (UNION {{<<l, p>> : p \in {q \in Used(head[l]) : slots[q[1]][q[2]] = o}} : l \in L})
  \union {<<t, <<0, 0>>>> : t \in {u \in Threads : o \in owned[u]}}
  \union {<<t, <<0, 1>>>> : t \in {u \in Threads : o \in InHand(u)}}

Places(o) == PlacesIn(Lists, o)

\* Where a frame is: in the chain of a list of L, in the chain of empty frames or in
\* a slot of it, or in the hand of a thread.
FramePlacesIn(L, f) ==
  {<<l, <<0, 0>>>> : l \in {m \in L : f \in Chain(head[m])}}
  \union {<<None, <<g, 0>>>> : g \in Chain(freeFrame) \intersect {f}}
  \union {<<None, p>> : p \in {q \in Used(freeFrame) : slots[q[1]][q[2]] = f}}
  \union {<<t, <<0, 0>>>> : t \in {u \in Threads : job[u].frame = f}}

\* Every object made is in exactly one place: on a free list once, or with one
\* thread.  What was lost when memory ran out is nowhere.  And frames are well
\* formed.
ObjectsOnce ==
  /\ TypeOK
  /\ \A o \in Object : Cardinality(Places(o)) = IF o \in lostObjects THEN 0 ELSE 1

\* Every frame is in one chain once, whatever the lists and the chain of empty
\* frames pass to each other.  The frames initFreeFrame overwrites are nowhere.
FramesOnce ==
  \A f \in Frame : Cardinality(FramePlacesIn(Lists, f)) = IF f \in lostFrames THEN 0 ELSE 1

\* A frame behind the first one is full: getNodeFromFrame sets nslot to
\* FrameSlots when it comes to it, so that an unfilled slot would be given out.
FullBehind ==
  \A l \in Lists : \A p \in Used(head[l]) : slots[p[1]][p[2]] \in Object

\* The free lists implement the allocator of PoolSpec.
Promise == INSTANCE PoolSpec
Implements == Promise!Pool
=============================================================================
