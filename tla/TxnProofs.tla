----------------------------- MODULE TxnProofs ------------------------------
(***************************************************************************)
(* Proofs about the steps of transactions, for every set of threads and    *)
(* lists and any number of transactions, each of at most one frame of      *)
(* steps: what a transaction does with its frames is right for that many,  *)
(* and only for that many, as txnFrame is not advanced from one frame to   *)
(* the next.                                                               *)
(***************************************************************************)
EXTENDS TxnSteps, FiniteSetTheorems, TLAPS

-----------------------------------------------------------------------------
(* The allocator as it is with the frames txnCommit is done with taken off *)
(* the transactions that still name them.                                  *)

Done(t) == txn[t] = "ending" /\ addr[t] = NoFrame

DoneWith(l) == \E t \in Threads : Done(t) /\ l = TxnFrame[t]

LiveHead == [l \in Lists |-> IF DoneWith(l) THEN Addr(NoFrame, 0) ELSE head[l]]

F == INSTANCE FramesProofs WITH head <- LiveHead

LEMMA SameHelpers ==
  /\ F!Idle = Idle /\ F!NoFrame = NoFrame /\ F!CanAllocFrame = CanAllocFrame
  /\ F!AllocFrame = AllocFrame
  /\ \A a : F!HasSpace(a) = HasSpace(a) /\ F!More(a) = More(a)
  /\ \A f, n : F!Addr(f, n) = Addr(f, n)
  /\ \A s, o : F!Filled(s, o) = Filled(s, o)
<1>1. /\ F!Idle = Idle /\ F!NoFrame = NoFrame
      /\ \A a : F!HasSpace(a) = HasSpace(a) /\ F!More(a) = More(a)
      /\ \A f, n : F!Addr(f, n) = Addr(f, n)
  BY DEF F!Idle, Idle, F!NoFrame, NoFrame, F!HasSpace, HasSpace, F!More, More, F!Addr, Addr
<1>2. F!CanAllocFrame = CanAllocFrame /\ F!NewFrames = NewFrames /\ F!CanGetFree = CanGetFree
  BY <1>1 DEF F!CanAllocFrame, CanAllocFrame, F!NewFrames, NewFrames, F!CanGetFree, CanGetFree
<1>3. F!AllocFrame = AllocFrame
  BY <1>1, <1>2 DEF F!AllocFrame, AllocFrame
<1>4. \A s, o : F!Filled(s, o) = Filled(s, o)
  BY DEF F!Filled, Filled
<1> QED  BY <1>1, <1>2, <1>3, <1>4

LEMMA HeadUpdate ==
  ASSUME DOMAIN head = Lists, UNCHANGED txnVars, NEW l \in Lists, ~DoneWith(l),
         NEW v, head' = [head EXCEPT ![l] = v]
  PROVE  LiveHead' = [LiveHead EXCEPT ![l] = v]
<1>1. \A m \in Lists : DoneWith(m)' = DoneWith(m)
  BY DEF DoneWith, Done, txnVars
<1>2. head'[l] = v /\ \A m \in Lists : m # l => head'[m] = head[m]
  OBVIOUS
<1> QED  BY <1>1, <1>2 DEF LiveHead

LEMMA HeadStays ==
  ASSUME UNCHANGED txnVars, head' = head
  PROVE  LiveHead' = LiveHead
<1>1. \A m \in Lists : DoneWith(m)' = DoneWith(m)
  BY DEF DoneWith, Done, txnVars
<1> QED  BY <1>1 DEF LiveHead

\* A call of t is about a list that is in use.
InUse(t) ==
  /\ DOMAIN head = Lists /\ job \in [Threads -> F!Jobs]
  /\ job[t] = Idle \/ F!PlaceOK(job[t], t)
  /\ job[t].list \in Lists => ~DoneWith(job[t].list)

LEMMA InUseList ==
  ASSUME NEW t \in Threads, InUse(t), job[t].at \notin {"none", "return"}
  PROVE  job[t].list \in Lists /\ ~DoneWith(job[t].list) /\ LiveHead[job[t].list] = head[job[t].list]
<1>1. job[t].list \in Lists
  BY DEF InUse, Idle, F!PlaceOK, F!OnList, F!OffList
<1> QED  BY <1>1 DEF InUse, LiveHead

LEMMA LatchSame ==
  ASSUME NEW t \in Threads, UNCHANGED txnVars, Latch(t)
  PROVE  F!Latch(t)
BY HeadStays DEF Latch, F!Latch, At, F!At, poolVars, frameVars, F!poolVars, F!frameVars

LEMMA ReturnSame ==
  ASSUME NEW t \in Threads, UNCHANGED txnVars, ReturnFreeFrame(t)
  PROVE  F!ReturnFreeFrame(t)
BY HeadStays, SameHelpers DEF ReturnFreeFrame, F!ReturnFreeFrame, At, F!At

LEMMA GetNodeSame ==
  ASSUME NEW t \in Threads, InUse(t), UNCHANGED txnVars, GetNode(t)
  PROVE  F!GetNode(t)
<1> DEFINE l == job[t].list
           h == head[l]
<1>1. job[t].at = "get" /\ UNCHANGED <<poolVars, frameVars, made, ops, lostObjects>>
  BY DEF GetNode, At
<1>2. l \in Lists /\ ~DoneWith(l) /\ LiveHead[l] = h /\ DOMAIN head = Lists
  BY <1>1, InUseList DEF InUse
<1>3. CASE /\ h.frame # NoFrame /\ h.nslot > 0 /\ head' = [head EXCEPT ![l].nslot = @ - 1]
           /\ owned' = [owned EXCEPT ![t] = @ \union {slots[h.frame][h.nslot]}] /\ Unlatch(t)
  <2>1. LiveHead' = [LiveHead EXCEPT ![l] = [h EXCEPT !.nslot = @ - 1]]
    BY <1>2, <1>3, HeadUpdate
  <2>2. LiveHead' = [LiveHead EXCEPT ![l].nslot = @ - 1]
    BY <1>2, <2>1
  <2> QED  BY <1>1, <1>2, <1>3, <2>2, SameHelpers
           DEF F!GetNode, F!At, F!Unlatch, Unlatch, poolVars, frameVars, F!poolVars, F!frameVars
<1>4. CASE /\ h.frame # NoFrame /\ h.nslot = 0 /\ next[h.frame] # NoFrame
           /\ head' = [head EXCEPT ![l] = Addr(next[h.frame], FrameSlots)]
           /\ job' = [job EXCEPT ![t].at = "return", ![t].frame = h.frame]
           /\ UNCHANGED <<latch, owned>>
  <2>1. LiveHead' = [LiveHead EXCEPT ![l] = Addr(next[h.frame], FrameSlots)]
    BY <1>2, <1>4, HeadUpdate
  <2> QED  BY <1>1, <1>2, <1>4, <2>1, SameHelpers
           DEF F!GetNode, F!At, poolVars, frameVars, F!poolVars, F!frameVars
<1>5. CASE ~More(h) /\ job' = [job EXCEPT ![t].at = "objects"] /\ UNCHANGED <<head, latch, owned>>
  BY <1>1, <1>2, <1>5, HeadStays, SameHelpers
  DEF F!GetNode, F!At, poolVars, frameVars, F!poolVars, F!frameVars
<1> QED  BY <1>3, <1>4, <1>5 DEF GetNode

LEMMA InitObjectsSame ==
  ASSUME NEW t \in Threads, InUse(t), UNCHANGED txnVars, InitObjects(t)
  PROVE  F!InitObjects(t)
<1> DEFINE l == job[t].list
           f == head[l].frame
<1>1. job[t].at = "objects" /\ UNCHANGED <<freeFrame, lostFrames, owned, ops, lostObjects>>
  BY DEF InitObjects, At
<1>2. l \in Lists /\ ~DoneWith(l) /\ LiveHead[l] = head[l] /\ DOMAIN head = Lists
  BY <1>1, InUseList DEF InUse
<1>3. CASE room = 0 /\ Unlatch(t) /\ UNCHANGED <<head, slots, next, made, room>>
  BY <1>1, <1>2, <1>3, HeadStays, SameHelpers DEF F!InitObjects, F!At, F!Unlatch, Unlatch
<1>4. CASE /\ room > 0 /\ room' = room - 1 /\ made' = made + Batch /\ f # NoFrame
           /\ slots' = [slots EXCEPT ![f] = Filled(@, made)] /\ next' = [next EXCEPT ![f] = NoFrame]
           /\ head' = [head EXCEPT ![l].nslot = Batch] /\ job' = [job EXCEPT ![t].at = "get"]
           /\ UNCHANGED latch
  <2>1. LiveHead' = [LiveHead EXCEPT ![l] = [head[l] EXCEPT !.nslot = Batch]]
    BY <1>2, <1>4, HeadUpdate
  <2>2. LiveHead' = [LiveHead EXCEPT ![l].nslot = Batch]
    BY <1>2, <2>1
  <2> QED  BY <1>1, <1>2, <1>4, <2>2, SameHelpers DEF F!InitObjects, F!At
<1>5. CASE /\ room > 0 /\ room' = room - 1 /\ made' = made + Batch /\ f = NoFrame
           /\ job' = [job EXCEPT ![t].at = "frame", ![t].obj = made]
           /\ UNCHANGED <<slots, next, head, latch>>
  BY <1>1, <1>2, <1>5, HeadStays, SameHelpers DEF F!InitObjects, F!At
<1> QED  BY <1>3, <1>4, <1>5 DEF InitObjects

LEMMA InitFrameSame ==
  ASSUME NEW t \in Threads, InUse(t), UNCHANGED txnVars, InitFrame(t)
  PROVE  F!InitFrame(t)
<1> DEFINE l == job[t].list
           a == AllocFrame
           o == job[t].obj
<1>1. job[t].at = "frame" /\ UNCHANGED <<made, owned, ops>>
  BY DEF InitFrame, At
<1>2. l \in Lists /\ ~DoneWith(l) /\ DOMAIN head = Lists
  BY <1>1, InUseList DEF InUse
<1>3. CASE /\ CanAllocFrame /\ TakeFrame(a) /\ slots' = [a.slots EXCEPT ![a.frame] = Filled(@, o)]
           /\ next' = [a.next EXCEPT ![a.frame] = NoFrame] /\ head' = [head EXCEPT ![l] = Addr(a.frame, Batch)]
           /\ job' = [job EXCEPT ![t].at = "get", ![t].obj = 0] /\ UNCHANGED <<latch, lostObjects>>
  <2> HIDE DEF a
  <2>1. LiveHead' = [LiveHead EXCEPT ![l] = Addr(a.frame, Batch)]
    BY <1>2, <1>3, HeadUpdate
  <2> QED  BY <1>1, <1>3, <2>1, SameHelpers DEF F!InitFrame, F!At, F!TakeFrame, TakeFrame, a
<1>4. CASE /\ ~CanAllocFrame /\ lostObjects' = lostObjects \union (o + 1..o + Batch) /\ Unlatch(t)
           /\ UNCHANGED <<head, poolVars, frameVars>>
  BY <1>1, <1>4, HeadStays, SameHelpers
  DEF F!InitFrame, F!At, F!Unlatch, Unlatch, poolVars, frameVars, F!poolVars, F!frameVars
<1> QED  BY <1>3, <1>4 DEF InitFrame

LEMMA AddSlotSame ==
  ASSUME NEW t \in Threads, InUse(t), UNCHANGED txnVars, AddSlot(t)
  PROVE  F!AddSlot(t)
<1> DEFINE l == job[t].list
           h == head[l]
           a == AllocFrame
           o == job[t].obj
<1>1. job[t].at = "add" /\ UNCHANGED <<made, ops, lostObjects>>
  BY DEF AddSlot, At
<1>2. l \in Lists /\ ~DoneWith(l) /\ LiveHead[l] = h /\ DOMAIN head = Lists
  BY <1>1, InUseList DEF InUse
<1>3. CASE /\ HasSpace(h) /\ slots' = [slots EXCEPT ![h.frame][h.nslot + 1] = o]
           /\ head' = [head EXCEPT ![l].nslot = @ + 1] /\ Unlatch(t) /\ UNCHANGED <<next, poolVars, owned>>
  <2>1. LiveHead' = [LiveHead EXCEPT ![l] = [h EXCEPT !.nslot = @ + 1]]
    BY <1>2, <1>3, HeadUpdate
  <2>2. LiveHead' = [LiveHead EXCEPT ![l].nslot = @ + 1]
    BY <1>2, <2>1
  <2> QED  BY <1>1, <1>2, <1>3, <2>2, SameHelpers
           DEF F!AddSlot, F!At, F!Unlatch, Unlatch, poolVars, F!poolVars
<1>4. CASE /\ ~HasSpace(h) /\ CanAllocFrame /\ TakeFrame(a)
           /\ slots' = [a.slots EXCEPT ![a.frame][1] = o] /\ next' = [a.next EXCEPT ![a.frame] = h.frame]
           /\ head' = [head EXCEPT ![l] = Addr(a.frame, 1)] /\ Unlatch(t) /\ UNCHANGED owned
  <2> HIDE DEF a
  <2>1. LiveHead' = [LiveHead EXCEPT ![l] = Addr(a.frame, 1)]
    BY <1>2, <1>4, HeadUpdate
  <2> QED  BY <1>1, <1>2, <1>4, <2>1, SameHelpers
           DEF F!AddSlot, F!At, F!Unlatch, Unlatch, F!TakeFrame, TakeFrame, a
<1>5. CASE /\ ~HasSpace(h) /\ ~CanAllocFrame /\ owned' = [owned EXCEPT ![t] = @ \union {o}]
           /\ job' = [job EXCEPT ![t] = Idle] /\ UNCHANGED <<latch, head, poolVars, frameVars>>
  BY <1>1, <1>2, <1>5, HeadStays, SameHelpers
  DEF F!AddSlot, F!At, poolVars, frameVars, F!poolVars, F!frameVars
<1> QED  BY <1>3, <1>4, <1>5 DEF AddSlot

LEMMA RunSame ==
  ASSUME NEW t \in Threads, InUse(t), UNCHANGED txnVars, Run(t)
  PROVE  F!Run(t)
BY LatchSame, ReturnSame, GetNodeSame, InitObjectsSame, InitFrameSame, AddSlotSame DEF Run, F!Run

-----------------------------------------------------------------------------
(* The inductive invariant, as long as memory is left.                     *)

\* Where a transaction is: what its list holds, what its thread has and what
\* the thread's call is about.  A step that is not on the list yet is counted
\* in steps already, which bounds what will be on it.
TxnPlace(t) ==
  LET h == LiveHead[TxnFrame[t]] IN
  /\ F!Alone(next, h)
  /\ \/ txn[t] = "none" /\ job[t] = Idle /\ owned[t] = {} /\ h = Addr(NoFrame, 0)
     \/ txn[t] = "open" /\ job[t] = Idle /\ owned[t] = {} /\ h.nslot <= steps[t]
     \/ /\ txn[t] = "open" /\ job[t] = Idle /\ h.nslot < steps[t]
        /\ \E o \in owned[t] : owned[t] = {o}
     \/ /\ txn[t] = "open" /\ owned[t] = {} /\ h.nslot < steps[t]
        /\ \/ job[t].op = "alloc" /\ job[t].list = StepList
           \/ job[t].op = "add" /\ job[t].list = TxnFrame[t]
     \/ /\ txn[t] = "ending" /\ addr[t] = Some /\ owned[t] = {} /\ h.frame # NoFrame
        /\ job[t] = Idle \/ (job[t].op = "add" /\ job[t].list = StepList)
     \/ Done(t) /\ owned[t] = {} /\ (job[t] = Idle \/ job[t].op = "return")

\* A latch is held by the thread whose call is about the list.
LatchOK == \A l \in Lists : latch[l] # None => job[latch[l]].list = l

OthersEmpty ==
  \A l \in Lists : l # StepList /\ (\A t \in Threads : l # TxnFrame[t]) => LiveHead[l] = Addr(NoFrame, 0)

TxnTypes ==
  /\ DOMAIN head = Lists
  /\ txn \in [Threads -> {"none", "open", "ending"}] /\ steps \in [Threads -> 0..MaxSteps]
  /\ addr \in [Threads -> {Some, NoFrame}]

Sound ==
  /\ F!IInv /\ TxnTypes /\ lostObjects = {} /\ LatchOK /\ OthersEmpty
  /\ \A t \in Threads : TxnPlace(t)

TInv == room \in Nat /\ (room > 0 => Sound)

-----------------------------------------------------------------------------
(* What a step of one thread leaves alone.                                 *)

LEMMA ListsApart ==
  /\ \A t \in Threads : TxnFrame[t] \in Lists /\ TxnFrame[t] # StepList /\ TxnFrame[t] # None
  /\ \A t, u \in Threads : t # u => TxnFrame[t] # TxnFrame[u]
  /\ None \notin Lists
BY TxnStepsAssumption, FramesAssumption

LEMMA DoneOwn ==
  ASSUME NEW t \in Threads
  PROVE  DoneWith(TxnFrame[t]) <=> Done(t)
BY ListsApart DEF DoneWith

LEMMA DoneNot ==
  ASSUME NEW l, \A t \in Threads : l # TxnFrame[t]
  PROVE  ~DoneWith(l)
BY DEF DoneWith

\* Step t leaves the other threads, their transactions and their lists alone.
OnlyOwn(t) ==
  /\ \A u \in Threads \ {t} :
       /\ job'[u] = job[u] /\ owned'[u] = owned[u]
       /\ txn'[u] = txn[u] /\ steps'[u] = steps[u] /\ addr'[u] = addr[u]
  /\ \E l \in {None, StepList, TxnFrame[t]} : F!Undisturbed(l)

LEMMA OthersStay ==
  ASSUME Sound, F!IInv', NEW t \in Threads, OnlyOwn(t)
  PROVE  OthersEmpty' /\ \A u \in Threads \ {t} : TxnPlace(u)'
<1>1. PICK l \in {None, StepList, TxnFrame[t]} : F!Undisturbed(l)
  BY DEF OnlyOwn
<1>2. ASSUME NEW u \in Threads \ {t} PROVE TxnPlace(u)'
  <2>1. TxnFrame[u] \in Lists /\ TxnFrame[u] # l
    BY <1>1, ListsApart
  <2>2. F!Alone(next, LiveHead[TxnFrame[u]]) /\ F!IInv
    BY DEF Sound, TxnPlace
  <2>3. /\ LiveHead'[TxnFrame[u]] = LiveHead[TxnFrame[u]]
        /\ F!Alone(next', LiveHead'[TxnFrame[u]])
    BY <1>1, <2>1, <2>2, F!AloneStays, FramesAssumption
  <2>4. TxnPlace(u)
    BY DEF Sound
  <2>5. /\ job'[u] = job[u] /\ owned'[u] = owned[u]
        /\ txn'[u] = txn[u] /\ steps'[u] = steps[u] /\ addr'[u] = addr[u]
    BY DEF OnlyOwn
  <2> QED  BY <2>3, <2>4, <2>5 DEF TxnPlace, Done
<1>3. OthersEmpty'
  <2>1. ASSUME NEW m \in Lists, m # StepList, \A u \in Threads : m # TxnFrame[u]
        PROVE  LiveHead'[m] = LiveHead[m]
    <3>1. m # l
      BY <1>1, <2>1, ListsApart
    <3> QED  BY <1>1, <3>1 DEF F!Undisturbed
  <2> QED  BY <2>1 DEF OthersEmpty, Sound
<1> QED  BY <1>2, <1>3

\* No latch is held but by the thread of a call on the list.
LEMMA OwnUnlatched ==
  ASSUME Sound, NEW t \in Threads, NEW l \in Lists, job[t].list # l,
         l = TxnFrame[t] 
  PROVE  latch[l] = None
<1> SUFFICES ASSUME latch[l] # None PROVE FALSE
  OBVIOUS
<1>1. latch[l] \in Threads /\ job[latch[l]].list = l
  BY DEF Sound, LatchOK, F!IInv, F!JobsPart
<1> DEFINE u == latch[l]
<1> HIDE DEF u
<1>2. u \in Threads /\ job[u].list = l /\ u # t
  BY <1>1 DEF u
<1>3. job[u].list \in {None, StepList, TxnFrame[u]}
  <2>1. TxnPlace(u)
    BY <1>2 DEF Sound
  <2>2. job[u] = Idle \/ F!PlaceOK(job[u], u)
    BY <1>2, SameHelpers DEF Sound, F!IInv, F!JobsPart, F!PlacesOK
  <2>3. Idle.list = None
    BY DEF Idle
  <2> QED  BY <2>1, <2>2, <2>3 DEF TxnPlace, F!PlaceOK, F!OnList, F!OffList
<1> QED  BY <1>2, <1>3, ListsApart

-----------------------------------------------------------------------------
(* The steps inside a call.                                                *)

LEMMA RunDomain ==
  ASSUME DOMAIN head = Lists, NEW t \in Threads, Run(t)
  PROVE  DOMAIN head' = Lists
BY Zenon DEF Run, Latch, GetNode, ReturnFreeFrame, InitObjects, InitFrame, AddSlot

LEMMA JobIs ==
  ASSUME Sound, NEW t \in Threads
  PROVE  /\ job \in [Threads -> F!Jobs] /\ latch \in [Lists -> Threads \union {None}]
         /\ LiveHead \in [Lists -> [frame : Nat, nslot : Nat]]
         /\ job[t] = Idle \/ F!PlaceOK(job[t], t)
         /\ job[t].op = "return" => F!OffList(job[t])
         /\ job[t].list \in {None, StepList, TxnFrame[t]}
<1>1. /\ job \in [Threads -> F!Jobs] /\ latch \in [Lists -> Threads \union {None}]
      /\ LiveHead \in [Lists -> [frame : Nat, nslot : Nat]]
      /\ job[t] = Idle \/ F!PlaceOK(job[t], t)
  BY SameHelpers DEF Sound, F!IInv, F!JobsPart, F!PlacesOK
<1>2. job[t].op = "return" => F!OffList(job[t])
  BY <1>1 DEF Idle, F!PlaceOK, F!OnList
<1>3. TxnPlace(t)
  BY DEF Sound
<1> QED  BY <1>1, <1>2, <1>3 DEF TxnPlace, Idle, F!OffList

LEMMA RunInUse ==
  ASSUME Sound, NEW t \in Threads
  PROVE  InUse(t)
<1>1. TxnPlace(t) /\ DOMAIN head = Lists
  BY DEF Sound, TxnTypes
<1>2. job[t].list = TxnFrame[t] => txn[t] = "open"
  BY <1>1, JobIs, ListsApart DEF TxnPlace, Idle, F!OffList
<1>3. job[t].list \in Lists => ~DoneWith(job[t].list)
  <2>1. CASE job[t].list = TxnFrame[t]
    BY <1>2, <2>1, DoneOwn DEF Done
  <2>2. CASE job[t].list = StepList
    BY <2>2, DoneNot, ListsApart
  <2> QED  BY <2>1, <2>2, JobIs, ListsApart
<1> QED  BY <1>1, <1>3, JobIs DEF InUse

LEMMA RunStep ==
  ASSUME Sound, room > 0, NEW t \in Threads, Run(t), UNCHANGED txnVars, MaxSteps <= FrameSlots
  PROVE  Sound'
<1> DEFINE l == job[t].list
           own == TxnFrame[t]
           h == LiveHead[own]
<1>1. F!Run(t) /\ F!IInv
  BY RunInUse, RunSame DEF Sound
<1>2. F!IInv' /\ F!Undisturbed(l)
  BY <1>1, F!RunInv, FramesAssumption
<1>3. F!Effect(t)
  BY <1>1, F!RunEffect, FramesAssumption
<1>4. /\ \A u \in Threads \ {t} : job'[u] = job[u] /\ owned'[u] = owned[u]
      /\ lostObjects' = lostObjects
      /\ txn' = txn /\ steps' = steps /\ addr' = addr
  BY <1>3 DEF F!Effect, txnVars
<1>5. OthersEmpty' /\ \A u \in Threads \ {t} : TxnPlace(u)'
  <2>1. OnlyOwn(t)
    BY <1>2, <1>4, JobIs DEF OnlyOwn
  <2> QED  BY <1>2, <2>1, OthersStay
<1>6. TxnTypes'
  BY <1>4, RunDomain DEF Sound, TxnTypes
<1>7. LatchOK'
  <2> SUFFICES ASSUME NEW m \in Lists, latch'[m] # None PROVE job'[latch'[m]].list = m
    BY DEF LatchOK
  <2>1. latch[m] # None => latch[m] \in Threads /\ job[latch[m]].list = m
    BY JobIs DEF Sound, LatchOK
  <2>2. m # l => latch'[m] = latch[m]
    BY <1>2 DEF F!Undisturbed
  <2>3. CASE F!GoesOn(t)
    <3>1. job'[t].list = l /\ (m = l => latch'[m] = latch[m] \/ latch'[m] = t)
      BY <2>3 DEF F!GoesOn
    <3>2. \A u \in Threads : job'[u].list = job[u].list
      BY <1>4, <3>1
    <3> QED  BY <2>1, <2>2, <3>1, <3>2
  <2>4. CASE F!Ends(t)
    <3>1. m # l
      BY <2>4, ListsApart DEF F!Ends
    <3> QED  BY <1>4, <2>1, <2>2, <3>1
  <2> QED  BY <1>3, <2>3, <2>4 DEF F!Effect
<1>8. TxnPlace(t)'
  <2>1. TxnPlace(t) /\ own \in Lists /\ own # StepList /\ own # None /\ l \in {None, StepList, own}
    BY JobIs, ListsApart DEF Sound
  <2>2. l # own => LiveHead'[own] = h /\ F!Alone(next', LiveHead'[own])
    BY <1>1, <1>2, <2>1, F!AloneStays, FramesAssumption DEF TxnPlace
  <2>3. h.nslot \in Nat /\ F!AddrOK(next, h) /\ steps[t] \in 0..MaxSteps
    <3>1. F!AddrOK(next, h)
      BY <1>1, <2>1, F!AddrsAre, FramesAssumption
    <3> QED  BY <2>1, <3>1, JobIs DEF Sound, TxnTypes
  <2> HIDE DEF own, h
  <2>4. CASE F!GoesOn(t)
    <3>1. /\ job'[t].op = job[t].op /\ job'[t].list = l /\ l \in Lists /\ owned'[t] = owned[t]
          /\ job[t].op = "add" => LiveHead'[l] = LiveHead[l] /\ next' = next
      BY <2>4 DEF F!GoesOn
    <3>2. job[t] # Idle /\ job[t].op # "return"
      BY <3>1, JobIs, ListsApart DEF Idle, F!OffList
    <3>3. \/ /\ txn[t] = "open" /\ owned[t] = {} /\ h.nslot < steps[t]
             /\ \/ job[t].op = "alloc" /\ l = StepList
                \/ job[t].op = "add" /\ l = own
          \/ /\ txn[t] = "ending" /\ addr[t] = Some /\ owned[t] = {} /\ h.frame # NoFrame
             /\ job[t].op = "add" /\ l = StepList
      BY <2>1, <3>2 DEF TxnPlace, own, h
    <3>4. LiveHead'[own] = h /\ F!Alone(next', LiveHead'[own])
      <4>1. CASE l = own
        <5>1. LiveHead'[own] = h /\ next' = next
          BY <2>1, <3>1, <3>3, <4>1 DEF h
        <5> QED  BY <2>1, <5>1 DEF TxnPlace, own, h
      <4> QED  BY <2>2, <4>1
    <3> QED  BY <1>4, <3>1, <3>3, <3>4 DEF TxnPlace, own
  <2>5. CASE F!Ends(t)
    <3>1. job'[t] = Idle
      BY <2>5, SameHelpers DEF F!Ends
    <3>2. CASE job[t].op = "alloc"
      <4>1. l \in Lists /\ \E x : owned'[t] = owned[t] \union {x}
        BY <2>5, <3>2 DEF F!Ends
      <4>2. job[t] # Idle
        BY <3>2 DEF Idle
      <4>3. txn[t] = "open" /\ owned[t] = {} /\ h.nslot < steps[t] /\ l = StepList
        BY <2>1, <3>2, <4>2 DEF TxnPlace, own, h
      <4>4. LiveHead'[own] = h /\ F!Alone(next', LiveHead'[own])
        BY <2>1, <2>2, <4>3
      <4>5. \E o \in owned'[t] : owned'[t] = {o}
        BY <4>1, <4>3
      <4> QED  BY <1>4, <3>1, <4>3, <4>4, <4>5 DEF TxnPlace, own
    <3>3. CASE job[t].op = "return"
      <4>1. owned'[t] = owned[t] /\ l # own
        BY <2>1, <2>5, <3>3 DEF F!Ends
      <4>2. Done(t) /\ owned[t] = {}
        <5>1. job[t] # Idle
          BY <3>3 DEF Idle
        <5> QED  BY <2>1, <3>3, <5>1 DEF TxnPlace
      <4> QED  BY <1>4, <2>2, <3>1, <4>1, <4>2 DEF TxnPlace, Done, own
    <3>4. CASE job[t].op = "add" /\ l # own
      <4>1. owned'[t] = owned[t]
        BY <2>5, <3>4 DEF F!Ends
      <4>2. txn[t] = "ending" /\ addr[t] = Some /\ owned[t] = {} /\ h.frame # NoFrame
        <5>1. job[t] # Idle
          BY <3>4 DEF Idle
        <5> QED  BY <2>1, <3>4, <5>1 DEF TxnPlace, own, h
      <4> QED  BY <1>4, <2>2, <3>1, <3>4, <4>1, <4>2 DEF TxnPlace, own
    <3>5. CASE job[t].op = "add" /\ l = own
      <4>1. /\ owned'[t] = owned[t]
            /\ \/ F!HasSpace(h) /\ LiveHead'[own] = F!Addr(h.frame, h.nslot + 1) /\ next' = next
               \/ ~F!HasSpace(h) /\ \E f : f # 0 /\ LiveHead'[own] = F!Addr(f, 1) /\ next'[f] = h.frame
        BY <2>5, <3>5 DEF F!Ends, own, h
      <4>2. txn[t] = "open" /\ owned[t] = {} /\ h.nslot < steps[t]
        <5>1. job[t] # Idle
          BY <3>5 DEF Idle
        <5> QED  BY <2>1, <3>5, <5>1 DEF TxnPlace, own, h
      <4>3. LiveHead'[own].nslot <= steps[t] /\ F!Alone(next', LiveHead'[own])
        <5>1. CASE F!HasSpace(h)
          <6>1. LiveHead'[own] = Addr(h.frame, h.nslot + 1) /\ next' = next
            BY <4>1, <5>1, SameHelpers
          <6>2. F!Alone(next, h)
            BY <2>1 DEF TxnPlace, own, h
          <6> QED  BY <2>3, <4>2, <6>1, <6>2 DEF F!Alone, Addr
        <5>2. CASE ~F!HasSpace(h)
          <6>1. PICK f : f # 0 /\ LiveHead'[own] = Addr(f, 1) /\ next'[f] = h.frame
            BY <4>1, <5>2, SameHelpers
          <6>2. h.frame = 0
            <7>1. h.nslot < FrameSlots
              BY <2>3, <4>2, FramesAssumption, TxnStepsAssumption
            <7> QED  BY <5>2, <7>1 DEF F!HasSpace, F!NoFrame
          <6> QED  BY <2>3, <4>2, <6>1, <6>2 DEF F!Alone, Addr
        <5> QED  BY <5>1, <5>2
      <4> QED  BY <1>4, <3>1, <4>1, <4>2, <4>3 DEF TxnPlace, own
    <3> QED  BY <2>5, <3>2, <3>3, <3>4, <3>5 DEF F!Ends
  <2> QED  BY <1>3, <2>4, <2>5 DEF F!Effect
<1> QED  BY <1>2, <1>4, <1>5, <1>6, <1>7, <1>8 DEF Sound

-----------------------------------------------------------------------------
(* The steps of txnStep.                                                   *)

LEMMA LiveStays ==
  ASSUME head' = head, \A u \in Threads : Done(u)' = Done(u)
  PROVE  LiveHead' = LiveHead
<1>1. \A m \in Lists : DoneWith(m)' = DoneWith(m)
  BY DEF DoneWith
<1> QED  BY <1>1 DEF LiveHead

\* A call that begins leaves the latches as they were: its thread held none.
LEMMA LatchBegins ==
  ASSUME Sound, NEW t \in Threads, job[t] = Idle, latch' = latch,
         \A u \in Threads \ {t} : job'[u] = job[u]
  PROVE  LatchOK'
<1> SUFFICES ASSUME NEW m \in Lists, latch'[m] # None PROVE job'[latch'[m]].list = m
  BY DEF LatchOK
<1>1. latch[m] \in Threads /\ job[latch[m]].list = m
  BY JobIs DEF Sound, LatchOK
<1>2. latch[m] # t
  BY <1>1, ListsApart DEF Idle
<1> QED  BY <1>1, <1>2

LEMMA TxnStepStep ==
  ASSUME Sound, NEW t \in Threads, TxnStep(t)
  PROVE  Sound'
<1> DEFINE own == TxnFrame[t]
           h == LiveHead[own]
<1>1. /\ txn[t] = "open" /\ job[t] = Idle /\ owned[t] = {} /\ steps[t] < MaxSteps
      /\ job' = [job EXCEPT ![t] = [Idle EXCEPT !.op = "alloc", !.list = StepList, !.at = "latch"]]
      /\ steps' = [steps EXCEPT ![t] = @ + 1]
      /\ UNCHANGED <<head, latch, freeFrame, room, lostFrames, slots, next, made, owned, lostObjects,
                     txn, addr>>
  BY DEF TxnStep, poolVars, frameVars
<1>2. LiveHead' = LiveHead
  <2>1. \A u \in Threads : Done(u)' = Done(u)
    BY <1>1 DEF Done
  <2> QED  BY <1>1, <2>1, LiveStays
<1>3. StepList \in Lists
  BY TxnStepsAssumption
<1>4. F!IInv' /\ F!Undisturbed(None)
  <2>1. F!StartsAlloc(t, StepList)
    BY <1>1, <1>2, SameHelpers DEF F!StartsAlloc
  <2>2. F!IInv' /\ F!Undisturbed(job[t].list)
    BY <1>3, <2>1, F!StartsAllocInv, FramesAssumption DEF Sound
  <2> QED  BY <1>1, <2>2 DEF Idle
<1>5. job \in [Threads -> F!Jobs] /\ steps \in [Threads -> 0..MaxSteps]
  BY JobIs DEF Sound, TxnTypes
<1>6. /\ \A u \in Threads \ {t} : job'[u] = job[u] /\ steps'[u] = steps[u]
      /\ job'[t].op = "alloc" /\ job'[t].list = StepList /\ steps'[t] = steps[t] + 1
  BY <1>1, <1>5 DEF Idle
<1>7. OthersEmpty' /\ \A u \in Threads \ {t} : TxnPlace(u)'
  <2>1. OnlyOwn(t)
    BY <1>1, <1>4, <1>6 DEF OnlyOwn
  <2> QED  BY <1>4, <2>1, OthersStay
<1>8. TxnTypes'
  <2>1. steps' \in [Threads -> 0..MaxSteps]
    BY <1>1, <1>5, TxnStepsAssumption
  <2> QED  BY <1>1, <2>1 DEF Sound, TxnTypes
<1>9. LatchOK'
  BY <1>1, <1>6, LatchBegins
<1>10. TxnPlace(t)'
  <2>1. TxnPlace(t) /\ h.nslot \in Nat /\ steps[t] \in 0..MaxSteps
    BY <1>5, JobIs, ListsApart DEF Sound
  <2>2. h.nslot <= steps[t]
    BY <1>1, <2>1 DEF TxnPlace, Done, Idle
  <2>3. h.nslot < steps'[t]
    BY <1>6, <2>1, <2>2, TxnStepsAssumption
  <2> QED  BY <1>1, <1>2, <1>6, <2>1, <2>3 DEF TxnPlace
<1> QED  BY <1>1, <1>4, <1>7, <1>8, <1>9, <1>10 DEF Sound

LEMMA TxnStepAddStep ==
  ASSUME Sound, NEW t \in Threads, TxnStepAdd(t)
  PROVE  Sound'
<1> DEFINE own == TxnFrame[t]
           h == LiveHead[own]
<1>1. PICK o \in owned[t] :
        /\ job' = [job EXCEPT ![t] = [Idle EXCEPT !.op = "add", !.list = own, !.at = "latch", !.obj = o]]
        /\ owned' = [owned EXCEPT ![t] = @ \ {o}]
  BY DEF TxnStepAdd
<1>2. /\ txn[t] = "open" /\ job[t] = Idle
      /\ UNCHANGED <<head, latch, freeFrame, room, lostFrames, slots, next, made, lostObjects,
                     txn, steps, addr>>
  BY DEF TxnStepAdd, poolVars, frameVars, txnVars
<1>3. LiveHead' = LiveHead
  <2>1. \A u \in Threads : Done(u)' = Done(u)
    BY <1>2 DEF Done
  <2> QED  BY <1>2, <2>1, LiveStays
<1>4. own \in Lists
  BY ListsApart
<1>5. F!IInv' /\ F!Undisturbed(None)
  <2>1. F!StartsAdd(t, own, o)
    BY <1>1, <1>2, <1>3, SameHelpers DEF F!StartsAdd
  <2>2. F!IInv' /\ F!Undisturbed(job[t].list)
    BY <1>4, <2>1, F!StartsAddInv, FramesAssumption DEF Sound
  <2> QED  BY <1>2, <2>2 DEF Idle
<1>6. job \in [Threads -> F!Jobs] /\ owned \in [Threads -> SUBSET Object]
  BY JobIs DEF Sound, F!IInv, F!JobsPart, F!Object, Object
<1>7. /\ \A u \in Threads \ {t} : job'[u] = job[u] /\ owned'[u] = owned[u]
      /\ job'[t].op = "add" /\ job'[t].list = own /\ owned'[t] = owned[t] \ {o}
  BY <1>1, <1>6 DEF Idle
<1>8. OthersEmpty' /\ \A u \in Threads \ {t} : TxnPlace(u)'
  <2>1. OnlyOwn(t)
    BY <1>2, <1>5, <1>7 DEF OnlyOwn
  <2> QED  BY <1>5, <2>1, OthersStay
<1>9. TxnTypes'
  BY <1>2 DEF Sound, TxnTypes
<1>10. LatchOK'
  BY <1>2, <1>7, LatchBegins
<1>11. TxnPlace(t)'
  <2>1. TxnPlace(t)
    BY DEF Sound
  <2>2. owned[t] = {o} /\ h.nslot < steps[t]
    BY <1>2, <2>1 DEF TxnPlace, Done, Idle
  <2>3. owned'[t] = {}
    BY <1>7, <2>2
  <2> QED  BY <1>2, <1>3, <1>7, <2>1, <2>2, <2>3 DEF TxnPlace
<1> QED  BY <1>2, <1>5, <1>8, <1>9, <1>10, <1>11 DEF Sound

-----------------------------------------------------------------------------
(* Steps between the calls: the beginning of a transaction, the call of    *)
(* txnCommit or txnRollback, and its return.                               *)

LEMMA StillSound ==
  ASSUME Sound, NEW t \in Threads, LiveHead' = LiveHead,
         UNCHANGED <<latch, freeFrame, slots, next, made, room, job, owned, ops, lostFrames, lostObjects>>,
         \A u \in Threads \ {t} : txn'[u] = txn[u] /\ steps'[u] = steps[u] /\ addr'[u] = addr[u],
         TxnTypes', TxnPlace(t)'
  PROVE  Sound'
<1>1. F!IInv'
  <2>1. UNCHANGED F!vars
    BY DEF F!vars
  <2> QED  BY <2>1, F!StutterInv, FramesAssumption DEF Sound
<1>2. OthersEmpty' /\ \A u \in Threads \ {t} : TxnPlace(u)'
  <2>1. F!Undisturbed(None)
    BY DEF F!Undisturbed
  <2>2. OnlyOwn(t)
    BY <2>1 DEF OnlyOwn
  <2> QED  BY <1>1, <2>2, OthersStay
<1>3. LatchOK'
  BY DEF Sound, LatchOK
<1> QED  BY <1>1, <1>2, <1>3 DEF Sound

LEMMA TxnBeginStep ==
  ASSUME Sound, NEW t \in Threads, TxnBegin(t)
  PROVE  Sound'
<1>1. /\ txn[t] = "none" /\ txn' = [txn EXCEPT ![t] = "open"] /\ steps' = [steps EXCEPT ![t] = 0]
      /\ UNCHANGED <<head, latch, freeFrame, slots, next, made, room, job, owned, ops, lostFrames,
                     lostObjects, addr>>
  BY DEF TxnBegin, vars
<1>2. TxnTypes /\ TxnPlace(t)
  BY DEF Sound
<1>3. /\ txn'[t] = "open" /\ steps'[t] = 0
      /\ \A u \in Threads \ {t} : txn'[u] = txn[u] /\ steps'[u] = steps[u]
  BY <1>1, <1>2 DEF TxnTypes
<1>4. LiveHead' = LiveHead
  <2>1. \A u \in Threads : Done(u)' = Done(u)
    BY <1>1, <1>3 DEF Done
  <2> QED  BY <1>1, <2>1, LiveStays
<1>5. TxnTypes'
  BY <1>1, <1>2, TxnStepsAssumption DEF TxnTypes
<1>6. TxnPlace(t)'
  <2>1. /\ F!Alone(next, LiveHead[TxnFrame[t]]) /\ job[t] = Idle /\ owned[t] = {}
        /\ LiveHead[TxnFrame[t]] = Addr(NoFrame, 0)
    BY <1>1, <1>2 DEF TxnPlace, Done
  <2>2. LiveHead[TxnFrame[t]].nslot <= 0
    BY <2>1 DEF Addr
  <2> QED  BY <1>1, <1>3, <1>4, <2>1, <2>2 DEF TxnPlace
<1> QED  BY <1>1, <1>3, <1>4, <1>5, <1>6, StillSound

LEMMA TxnEndStep ==
  ASSUME Sound, NEW t \in Threads, TxnEnd(t)
  PROVE  Sound'
<1> DEFINE own == TxnFrame[t]
           h == LiveHead[own]
<1>1. /\ txn[t] = "open" /\ job[t] = Idle /\ owned[t] = {} /\ txn' = [txn EXCEPT ![t] = "ending"]
      /\ addr' = [addr EXCEPT ![t] = IF head[own].frame = NoFrame THEN NoFrame ELSE Some]
      /\ UNCHANGED <<head, latch, freeFrame, slots, next, made, room, job, owned, ops, lostFrames,
                     lostObjects, steps>>
  BY DEF TxnEnd, vars
<1>2. TxnTypes /\ TxnPlace(t) /\ own \in Lists
  BY ListsApart DEF Sound
<1>3. /\ txn'[t] = "ending" /\ addr'[t] = IF head[own].frame = NoFrame THEN NoFrame ELSE Some
      /\ \A u \in Threads \ {t} : txn'[u] = txn[u] /\ addr'[u] = addr[u]
  BY <1>1, <1>2 DEF TxnTypes
<1>4. h = head[own] /\ F!AddrOK(next, h)
  <2>1. ~DoneWith(own)
    BY <1>1, DoneOwn DEF Done
  <2> QED  BY <1>2, <2>1, F!AddrsAre, FramesAssumption DEF LiveHead, Sound
<1>5. h.frame = 0 => h = Addr(0, 0)
  <2>1. h = Addr(h.frame, h.nslot) /\ h.nslot \in 0..FrameSlots
    BY <1>4, F!AddrType, SameHelpers, FramesAssumption
  <2> QED  BY <1>4, <2>1, FramesAssumption DEF F!AddrOK
<1>6. LiveHead' = LiveHead
  <2>1. ASSUME NEW m \in Lists PROVE LiveHead'[m] = LiveHead[m]
    <3>1. CASE m = own
      <4>1. DoneWith(m)' <=> head[own].frame = NoFrame
        BY <1>3, <3>1, ListsApart DEF DoneWith, Done, Some, NoFrame
      <4> QED  BY <1>1, <1>4, <1>5, <2>1, <3>1, <4>1 DEF LiveHead, NoFrame
    <3>2. CASE m # own
      <4>1. DoneWith(m)' <=> DoneWith(m)
        BY <1>3, <3>2 DEF DoneWith, Done
      <4> QED  BY <1>1, <2>1, <4>1 DEF LiveHead
    <3> QED  BY <3>1, <3>2
  <2> QED  BY <2>1 DEF LiveHead
<1>7. TxnTypes'
  BY <1>1, <1>2 DEF TxnTypes
<1>8. TxnPlace(t)'
  BY <1>1, <1>2, <1>3, <1>4, <1>6 DEF TxnPlace, Done
<1> QED  BY <1>1, <1>3, <1>6, <1>7, <1>8, StillSound

LEMMA TxnClearStep ==
  ASSUME Sound, NEW t \in Threads, TxnClear(t)
  PROVE  Sound'
<1> DEFINE own == TxnFrame[t]
<1>1. /\ txn[t] = "ending" /\ job[t] = Idle /\ addr[t] = NoFrame
      /\ head' = [head EXCEPT ![own] = Addr(NoFrame, 0)] /\ txn' = [txn EXCEPT ![t] = "none"]
      /\ UNCHANGED <<latch, freeFrame, slots, next, made, room, job, owned, ops, lostFrames,
                     lostObjects, steps, addr>>
  BY DEF TxnClear, poolVars, frameVars
<1>2. TxnTypes /\ TxnPlace(t) /\ own \in Lists
  BY ListsApart DEF Sound
<1>3. txn'[t] = "none" /\ \A u \in Threads \ {t} : txn'[u] = txn[u]
  BY <1>1, <1>2 DEF TxnTypes
<1>4. LiveHead[own] = Addr(NoFrame, 0)
  BY <1>1, <1>2, DoneOwn DEF Done, LiveHead
<1>5. LiveHead' = LiveHead
  <2>1. head'[own] = Addr(NoFrame, 0) /\ \A m \in Lists : m # own => head'[m] = head[m]
    BY <1>1, <1>2 DEF TxnTypes
  <2>2. ASSUME NEW m \in Lists PROVE LiveHead'[m] = LiveHead[m]
    <3>1. CASE m = own
      <4>1. ~DoneWith(m)'
        BY <1>3, <3>1, ListsApart DEF DoneWith, Done
      <4> QED  BY <1>4, <2>1, <3>1, <4>1 DEF LiveHead
    <3>2. CASE m # own
      <4>1. DoneWith(m)' <=> DoneWith(m)
        BY <1>1, <1>3, <3>2 DEF DoneWith, Done
      <4> QED  BY <2>1, <3>2, <4>1 DEF LiveHead
    <3> QED  BY <3>1, <3>2
  <2> QED  BY <2>2 DEF LiveHead
<1>6. TxnTypes'
  BY <1>1, <1>2 DEF TxnTypes
<1>7. TxnPlace(t)'
  BY <1>1, <1>2, <1>3, <1>4, <1>5 DEF TxnPlace, Done, Some, NoFrame
<1> QED  BY <1>1, <1>3, <1>5, <1>6, <1>7, StillSound

-----------------------------------------------------------------------------
(* The loops of txnCommit.                                                 *)

\* A transaction that is being ended and still has its frame.
LEMMA StillThere ==
  ASSUME Sound, NEW t \in Threads, txn[t] = "ending", addr[t] # NoFrame, job[t] = Idle
  PROVE  LET own == TxnFrame[t]  h == head[own] IN
         /\ own \in Lists /\ own # StepList /\ StepList \in Lists
         /\ ~DoneWith(own) /\ LiveHead[own] = h /\ latch[own] = None
         /\ addr[t] = Some /\ owned[t] = {} /\ h.frame # NoFrame /\ F!Alone(next, h)
         /\ h = Addr(h.frame, h.nslot) /\ h.nslot \in Nat
<1> DEFINE own == TxnFrame[t]
           h == head[own]
<1>1. own \in Lists /\ own # StepList /\ own # None /\ StepList \in Lists
  BY ListsApart, TxnStepsAssumption
<1>2. ~DoneWith(own) /\ LiveHead[own] = h
  BY <1>1, DoneOwn DEF Done, LiveHead
<1>3. latch[own] = None
  BY <1>1, OwnUnlatched DEF Idle
<1>4. addr[t] = Some /\ owned[t] = {} /\ h.frame # NoFrame /\ F!Alone(next, h)
  BY <1>2 DEF Sound, TxnPlace, Done
<1>5. h = Addr(h.frame, h.nslot) /\ h.nslot \in Nat
  <2>1. F!AddrOK(next, h)
    BY <1>1, <1>2, F!AddrsAre, FramesAssumption DEF Sound
  <2>2. h = F!Addr(h.frame, h.nslot) /\ h.nslot \in 0..FrameSlots
    BY <2>1, F!AddrType, FramesAssumption
  <2> QED  BY <2>2, SameHelpers, FramesAssumption
<1> QED  BY <1>1, <1>2, <1>3, <1>4, <1>5

LEMMA EndStepStep ==
  ASSUME Sound, NEW t \in Threads, EndStep(t)
  PROVE  Sound'
<1> DEFINE own == TxnFrame[t]
           h == head[own]
           b == Addr(h.frame, h.nslot - 1)
<1>1. /\ txn[t] = "ending" /\ job[t] = Idle /\ addr[t] # NoFrame /\ h.nslot > 0
      /\ head' = [head EXCEPT ![own].nslot = @ - 1]
      /\ job' = [job EXCEPT ![t] = [Idle EXCEPT !.op = "add", !.list = StepList, !.at = "latch",
                                      !.obj = slots[h.frame][h.nslot]]]
      /\ UNCHANGED <<latch, freeFrame, room, lostFrames, slots, next, made, owned, lostObjects>>
      /\ UNCHANGED txnVars
  BY DEF EndStep, poolVars, frameVars
<1>2. /\ own \in Lists /\ own # StepList /\ StepList \in Lists
      /\ ~DoneWith(own) /\ LiveHead[own] = h /\ latch[own] = None
      /\ addr[t] = Some /\ owned[t] = {} /\ h.frame # NoFrame /\ F!Alone(next, h)
      /\ h = Addr(h.frame, h.nslot) /\ h.nslot \in Nat
  BY <1>1, StillThere
<1>3. /\ job \in [Threads -> F!Jobs] /\ DOMAIN head = Lists
      /\ LiveHead \in [Lists -> [frame : Nat, nslot : Nat]]
  BY JobIs DEF Sound, TxnTypes
<1>4. LiveHead' = [LiveHead EXCEPT ![own] = b]
  <2>1. head' = [head EXCEPT ![own] = [h EXCEPT !.nslot = @ - 1]]
    BY <1>1, <1>2
  <2>2. [h EXCEPT !.nslot = @ - 1] = b
    BY <1>2 DEF Addr
  <2>3. head' = [head EXCEPT ![own] = b]
    BY <2>1, <2>2
  <2> HIDE DEF b
  <2> QED  BY <1>1, <1>2, <1>3, <2>3, HeadUpdate
<1>5. F!IInv' /\ F!Undisturbed(own)
  <2>1. F!TakesOff(t, own, StepList)
    BY <1>1, <1>2, <1>4, SameHelpers DEF F!TakesOff
  <2> QED  BY <1>2, <2>1, F!TakesOffInv, FramesAssumption DEF Sound
<1>6. /\ \A u \in Threads \ {t} : job'[u] = job[u]
      /\ job'[t].op = "add" /\ job'[t].list = StepList
  BY <1>1, <1>3 DEF Idle
<1>7. OthersEmpty' /\ \A u \in Threads \ {t} : TxnPlace(u)'
  <2>1. OnlyOwn(t)
    BY <1>1, <1>5, <1>6 DEF OnlyOwn, txnVars
  <2> QED  BY <1>5, <2>1, OthersStay
<1>8. TxnTypes'
  <2>1. DOMAIN head' = Lists
    BY <1>1, <1>3
  <2> QED  BY <1>1, <2>1 DEF Sound, TxnTypes, txnVars
<1>9. LatchOK'
  BY <1>1, <1>6, LatchBegins
<1>10. TxnPlace(t)'
  <2>1. LiveHead'[own] = b /\ b.frame = h.frame
    BY <1>2, <1>3, <1>4 DEF Addr
  <2>2. F!Alone(next', LiveHead'[own]) /\ LiveHead'[own].frame # NoFrame
    BY <1>1, <1>2, <2>1 DEF F!Alone
  <2> QED  BY <1>1, <1>2, <1>6, <2>2 DEF TxnPlace, txnVars
<1> QED  BY <1>1, <1>5, <1>7, <1>8, <1>9, <1>10 DEF Sound

LEMMA EndFrameStep ==
  ASSUME Sound, NEW t \in Threads, EndFrame(t)
  PROVE  Sound'
<1> DEFINE own == TxnFrame[t]
           h == head[own]
<1>1. /\ txn[t] = "ending" /\ job[t] = Idle /\ addr[t] # NoFrame /\ h.nslot = 0
      /\ addr' = [addr EXCEPT ![t] = next[h.frame]]
      /\ job' = [job EXCEPT ![t] = [Idle EXCEPT !.op = "return", !.at = "return", !.frame = h.frame]]
      /\ UNCHANGED <<head, latch, freeFrame, room, lostFrames, slots, next, made, owned, lostObjects,
                     txn, steps>>
  BY DEF EndFrame, poolVars, frameVars
<1>2. /\ own \in Lists /\ LiveHead[own] = h /\ latch[own] = None
      /\ addr[t] = Some /\ owned[t] = {} /\ h.frame # NoFrame /\ F!Alone(next, h)
  BY <1>1, StillThere
<1>3. /\ job \in [Threads -> F!Jobs] /\ LiveHead \in [Lists -> [frame : Nat, nslot : Nat]]
      /\ addr \in [Threads -> {Some, NoFrame}]
  BY JobIs DEF Sound, TxnTypes
<1>4. next[h.frame] = NoFrame
  BY <1>2 DEF F!Alone, NoFrame
<1>5. /\ addr'[t] = NoFrame /\ \A u \in Threads \ {t} : addr'[u] = addr[u] /\ job'[u] = job[u]
      /\ job'[t].op = "return" /\ job'[t].list = None
  BY <1>1, <1>3, <1>4 DEF Idle
<1>6. LiveHead' = [LiveHead EXCEPT ![own] = Addr(NoFrame, 0)]
  <2>1. ASSUME NEW m \in Lists
        PROVE  LiveHead'[m] = IF m = own THEN Addr(NoFrame, 0) ELSE LiveHead[m]
    <3>1. CASE m = own
      <4>1. DoneWith(m)'
        BY <1>1, <1>5, <3>1 DEF DoneWith, Done
      <4> QED  BY <3>1, <4>1 DEF LiveHead
    <3>2. CASE m # own
      <4>1. DoneWith(m)' <=> DoneWith(m)
        BY <1>1, <1>5, <3>2 DEF DoneWith, Done
      <4> QED  BY <1>1, <3>2, <4>1 DEF LiveHead
    <3> QED  BY <3>1, <3>2
  <2> QED  BY <2>1 DEF LiveHead
<1>7. F!IInv' /\ F!Undisturbed(own)
  <2>1. F!GivesUp(t, own)
    BY <1>1, <1>2, <1>4, <1>6, SameHelpers DEF F!GivesUp
  <2> QED  BY <1>2, <2>1, F!GivesUpInv, FramesAssumption DEF Sound
<1>8. OthersEmpty' /\ \A u \in Threads \ {t} : TxnPlace(u)'
  <2>1. OnlyOwn(t)
    BY <1>1, <1>5, <1>7 DEF OnlyOwn
  <2> QED  BY <1>7, <2>1, OthersStay
<1>9. TxnTypes'
  <2>1. addr' \in [Threads -> {Some, NoFrame}]
    BY <1>1, <1>3, <1>4
  <2> QED  BY <1>1, <2>1 DEF Sound, TxnTypes
<1>10. LatchOK'
  BY <1>1, <1>5, LatchBegins
<1>11. TxnPlace(t)'
  <2>1. LiveHead'[own] = Addr(NoFrame, 0) /\ Addr(NoFrame, 0).frame = 0
    BY <1>2, <1>3, <1>6 DEF Addr, NoFrame
  <2>2. F!Alone(next', LiveHead'[own])
    BY <2>1 DEF F!Alone
  <2>3. Done(t)' /\ owned'[t] = {} /\ job'[t].op = "return"
    BY <1>1, <1>2, <1>5 DEF Done
  <2> QED  BY <2>2, <2>3 DEF TxnPlace
<1> QED  BY <1>1, <1>7, <1>8, <1>9, <1>10, <1>11 DEF Sound

-----------------------------------------------------------------------------
(* The invariant.                                                          *)

LEMMA TxnInitSound ==
  ASSUME TxnInit
  PROVE  TInv
<1>1. /\ Init /\ txn = [t \in Threads |-> "none"] /\ steps = [t \in Threads |-> 0]
      /\ addr = [t \in Threads |-> NoFrame]
  BY DEF TxnInit
<1>2. /\ head = [l \in Lists |-> Addr(NoFrame, 0)] /\ latch = [l \in Lists |-> None]
      /\ room = Room /\ lostObjects = {} /\ job = [t \in Threads |-> Idle]
      /\ owned = [t \in Threads |-> {}]
  BY <1>1 DEF Init
<1>3. LiveHead = [l \in Lists |-> Addr(NoFrame, 0)]
  BY <1>2 DEF LiveHead
<1>4. F!IInv
  <2>1. F!Init
    BY <1>1, <1>3, SameHelpers DEF Init, F!Init
  <2> QED  BY <2>1, F!InitInv, FramesAssumption
<1>5. TxnTypes
  BY <1>1, <1>2, TxnStepsAssumption DEF TxnTypes
<1>6. LatchOK /\ OthersEmpty
  BY <1>2, <1>3 DEF LatchOK, OthersEmpty
<1>7. ASSUME NEW t \in Threads PROVE TxnPlace(t)
  <2>1. LiveHead[TxnFrame[t]] = Addr(NoFrame, 0) /\ Addr(NoFrame, 0).frame = 0
    BY <1>3, ListsApart DEF Addr, NoFrame
  <2> QED  BY <1>1, <1>2, <2>1 DEF TxnPlace, F!Alone
<1> QED  BY <1>2, <1>4, <1>5, <1>6, <1>7, FramesAssumption DEF TInv, Sound

\* Memory does not come back.
LEMMA RoomFalls ==
  ASSUME room \in Nat, NEW t \in Threads, Run(t)
  PROVE  room' \in Nat /\ (room' > 0 => room > 0)
<1>1. CanAllocFrame => AllocFrame.room \in Nat /\ AllocFrame.room <= room
  <2>1. CASE freeFrame.nslot > 0 \/ CanGetFree
    <3>1. AllocFrame.room = room
      BY <2>1 DEF AllocFrame
    <3> QED  BY <3>1
  <2>2. CASE ~(freeFrame.nslot > 0) /\ ~CanGetFree
    <3>1. AllocFrame.room = room - 1
      BY <2>2 DEF AllocFrame
    <3> QED  BY <2>2, <3>1 DEF CanAllocFrame
  <2> QED  BY <2>1, <2>2
<1>2. CASE Latch(t) \/ GetNode(t) \/ ReturnFreeFrame(t)
  BY <1>2 DEF Latch, GetNode, ReturnFreeFrame, poolVars
<1>3. CASE InitObjects(t)
  <2>1. room' = room \/ (room > 0 /\ room' = room - 1)
    BY <1>3 DEF InitObjects
  <2> QED  BY <2>1
<1>4. CASE InitFrame(t)
  BY <1>1, <1>4 DEF InitFrame, TakeFrame, poolVars
<1>5. CASE AddSlot(t)
  BY <1>1, <1>5 DEF AddSlot, TakeFrame, poolVars
<1> QED  BY <1>2, <1>3, <1>4, <1>5 DEF Run

\* Only the steps of a call take memory.
LEMMA TxnStepInv ==
  ASSUME MaxSteps <= FrameSlots, TInv, [TxnNext]_allVars
  PROVE  TInv'
<1>1. CASE UNCHANGED allVars
  <2>1. UNCHANGED <<head, latch, freeFrame, slots, next, made, room, job, owned, ops, lostFrames,
                    lostObjects>>
    BY <1>1 DEF allVars, vars
  <2>2. UNCHANGED <<txn, steps, addr>>
    BY <1>1 DEF allVars, txnVars
  <2>3. LiveHead' = LiveHead
    BY <2>1, <2>2, LiveStays DEF Done
  <2>4. F!IInv => F!IInv'
    <3>1. UNCHANGED F!vars
      BY <2>1, <2>3 DEF F!vars
    <3> QED  BY <3>1, F!StutterInv, FramesAssumption
  <2>5. Sound => Sound'
    BY <2>1, <2>2, <2>3, <2>4 DEF Sound, TxnTypes, LatchOK, OthersEmpty, TxnPlace, Done
  <2> QED  BY <2>1, <2>5 DEF TInv
<1>2. ASSUME NEW t \in Threads, Run(t), UNCHANGED txnVars
      PROVE  TInv'
  <2>1. room' \in Nat /\ (room' > 0 => room > 0)
    BY <1>2, RoomFalls DEF TInv
  <2>2. room > 0 => Sound'
    BY <1>2, RunStep DEF TInv
  <2> QED  BY <2>1, <2>2 DEF TInv
<1>3. ASSUME NEW t \in Threads,
             \/ TxnStepAdd(t) \/ EndStep(t) \/ EndFrame(t) \/ TxnClear(t)
             \/ TxnBegin(t) \/ TxnStep(t) \/ TxnEnd(t)
      PROVE  TInv'
  <2>1. room' = room
    BY <1>3 DEF TxnStepAdd, EndStep, EndFrame, TxnClear, TxnBegin, TxnStep, TxnEnd, poolVars, vars
  <2>2. Sound => Sound'
    BY <1>3, TxnStepAddStep, EndStepStep, EndFrameStep, TxnClearStep, TxnBeginStep, TxnStepStep, TxnEndStep
  <2> QED  BY <2>1, <2>2 DEF TInv
<1> QED  BY <1>1, <1>2, <1>3 DEF TxnNext, TxnRun, TxnFinished

-----------------------------------------------------------------------------
(* What the invariant says of the steps and of the frames.                 *)

LEMMA SameParts ==
  /\ \A t : F!InHand(t) = InHand(t)
  /\ \A a : F!Chain(a) = Chain(a) /\ F!Used(a) = Used(a)
  /\ F!Object = Object /\ F!Frame = Frame
  /\ \A S : F!Cardinality(S) = Cardinality(S)
<1>0. \A S : F!Cardinality(S) = Cardinality(S)
  BY DEF F!Cardinality, Cardinality
<1>1. \A t : F!InHand(t) = InHand(t)
  BY DEF F!InHand, InHand, F!At, At
<1>2. \A a : F!Chain(a) = Chain(a)
  BY DEF F!Chain, Chain, F!NoFrame, NoFrame
<1>3. \A a : F!Used(a) = Used(a)
  BY <1>2 DEF F!Used, Used
<1> QED  BY <1>0, <1>1, <1>2, <1>3 DEF F!Object, Object, F!Frame, Frame

LEMMA LiveLists ==
  ASSUME Sound
  PROVE  /\ \A l : l \in Live <=> l \in Lists /\ ~DoneWith(l)
         /\ \A l \in Live : LiveHead[l] = head[l]
         /\ \A l \in Lists \ Live : Chain(LiveHead[l]) = {} /\ Used(LiveHead[l]) = {}
<1>1. \A t \in Threads : Ended(t) <=> Done(t)
  <2> SUFFICES ASSUME NEW t \in Threads, txn[t] = "ending", job[t].op = "return" PROVE Done(t)
    BY DEF Ended, Done
  <2>1. TxnPlace(t) /\ job[t] # Idle
    BY DEF Sound, Idle
  <2> QED  BY <2>1 DEF TxnPlace
<1>2. \A l : l \in Live <=> l \in Lists /\ ~DoneWith(l)
  BY <1>1 DEF Live, DoneWith
<1>3. \A l \in Live : LiveHead[l] = head[l]
  BY <1>2 DEF LiveHead
<1>4. ASSUME NEW l \in Lists \ Live
      PROVE  Chain(LiveHead[l]) = {} /\ Used(LiveHead[l]) = {}
  <2>1. LiveHead[l].frame = 0
    BY <1>2 DEF LiveHead, Addr, NoFrame
  <2>2. F!Chain(LiveHead[l]) = F!Reach(next, LiveHead[l].frame)
    BY F!ListsAre, FramesAssumption DEF Sound
  <2>3. F!Links(next)
    BY F!ListsAre, FramesAssumption DEF Sound
  <2>4. Chain(LiveHead[l]) = {}
    BY <2>1, <2>2, <2>3, F!ReachNone, FramesAssumption, SameParts
  <2> QED  BY <2>4 DEF Used
<1> QED  BY <1>2, <1>3, <1>4

LEMMA SoundStepsOnce ==
  ASSUME Sound
  PROVE  StepsOnce
<1> SUFFICES ASSUME NEW o \in Object PROVE Cardinality(PlacesIn(Live, o)) = 1
  BY DEF StepsOnce
<1>1. PlacesIn(Live, o) = F!PlacesIn(Lists, o)
  <2> DEFINE A == (UNION {{<<l, p>> : p \in {q \in Used(head[l]) : slots[q[1]][q[2]] = o}} : l \in Live})
             B == (UNION {{<<l, p>> : p \in {q \in Used(LiveHead[l]) : slots[q[1]][q[2]] = o}} : l \in Lists})
  <2>1. A \subseteq B
    <3>1. \A l \in Live : l \in Lists /\ head[l] = LiveHead[l]
      BY LiveLists
    <3> QED  BY <3>1
  <2>2. B \subseteq A
    <3>1. \A l \in Lists : \A p \in Used(LiveHead[l]) : l \in Live /\ head[l] = LiveHead[l]
      BY LiveLists
    <3> QED  BY <3>1
  <2>3. A = B
    BY <2>1, <2>2
  <2> QED  BY <2>3, SameParts DEF PlacesIn, F!PlacesIn
<1>2. F!ObjectsOnce /\ lostObjects = {}
  BY F!InvObjectsOnce, FramesAssumption DEF Sound
<1>3. Cardinality(F!PlacesIn(Lists, o)) = 1
  BY <1>2, SameParts DEF F!ObjectsOnce, F!Places
<1> QED  BY <1>1, <1>3

LEMMA SoundFramesKept ==
  ASSUME Sound
  PROVE  FramesKept
<1> SUFFICES ASSUME NEW f \in Frame
             PROVE  Cardinality(FramePlacesIn(Live, f)) = IF f \in lostFrames THEN 0 ELSE 1
  BY DEF FramesKept
<1>1. FramePlacesIn(Live, f) = F!FramePlacesIn(Lists, f)
  <2> DEFINE A == {m \in Live : f \in Chain(head[m])}
             B == {m \in Lists : f \in Chain(LiveHead[m])}
  <2>1. A = B
    <3>1. \A l \in Live : l \in Lists /\ head[l] = LiveHead[l]
      BY LiveLists
    <3>2. \A l \in Lists : l \notin Live => f \notin Chain(LiveHead[l])
      BY LiveLists
    <3> QED  BY <3>1, <3>2
  <2> QED  BY <2>1, SameParts DEF FramePlacesIn, F!FramePlacesIn
<1>2. F!FramesOnce
  BY F!InvFramesOnce, FramesAssumption DEF Sound
<1> QED  BY <1>1, <1>2, SameParts DEF F!FramesOnce

LEMMA SoundStepsReturned ==
  ASSUME Sound
  PROVE  StepsReturned
<1> SUFFICES ASSUME \A t \in Threads : txn[t] = "none", NEW o \in Object
             PROVE  \E p \in Used(head[StepList]) : slots[p[1]][p[2]] = o
  BY SoundFramesKept DEF StepsReturned
<1>1. StepList \in Lists
  BY TxnStepsAssumption
<1>2. ASSUME NEW t \in Threads
      PROVE  LiveHead[TxnFrame[t]] = Addr(NoFrame, 0) /\ F!Held(t) = {}
  <2>1. TxnPlace(t)
    BY DEF Sound
  <2>2. LiveHead[TxnFrame[t]] = Addr(NoFrame, 0) /\ job[t] = Idle /\ owned[t] = {}
    BY <2>1 DEF TxnPlace, Done
  <2>3. InHand(t) = {}
    BY <2>2 DEF InHand, At, Idle
  <2> QED  BY <2>2, <2>3, SameParts DEF F!Held
<1>3. ASSUME NEW l \in Lists, l # StepList
      PROVE  F!Used(LiveHead[l]) = {}
  <2>1. LiveHead[l] = Addr(NoFrame, 0)
    BY <1>2, <1>3 DEF Sound, OthersEmpty
  <2>2. LiveHead[l].frame = 0
    BY <2>1 DEF Addr, NoFrame
  <2>3. F!Chain(LiveHead[l]) = F!Reach(next, LiveHead[l].frame) /\ F!Links(next)
    BY F!ListsAre, FramesAssumption DEF Sound
  <2>4. F!Chain(LiveHead[l]) = {}
    BY <2>2, <2>3, F!ReachNone, FramesAssumption
  <2> QED  BY <2>4 DEF F!Used
<1>4. PICK d \in Lists \union Threads : o \in F!Cells[d]
  <2>1. F!Spread(Object, Lists \union Threads, F!Cells, {})
    BY SameParts DEF Sound, F!IInv, F!ObjectsPart
  <2> QED  BY <2>1 DEF F!Spread
<1>5. d \notin Threads
  BY <1>2, <1>4, F!CellsAre, FramesAssumption
<1>6. \E p \in F!Used(LiveHead[d]) : slots[p[1]][p[2]] = o
  <2>1. F!Cells[d] = F!StockIn(next, slots, LiveHead[d])
    BY <1>5, F!CellsAre, FramesAssumption
  <2>2. F!UsedIn(next, LiveHead[d]) = F!Used(LiveHead[d])
    BY <1>5, F!ListsAre, FramesAssumption DEF Sound
  <2> QED  BY <1>4, <2>1, <2>2 DEF F!StockIn, F!HeldIn
<1>7. d = StepList
  BY <1>3, <1>5, <1>6
<1>8. LiveHead[StepList] = head[StepList]
  BY <1>1, DoneNot, ListsApart DEF LiveHead
<1> QED  BY <1>6, <1>7, <1>8, SameParts

-----------------------------------------------------------------------------
(* The theorems.                                                           *)

\* As long as memory is left the invariant holds, however many threads have
\* transactions and however many one after another, when a transaction has no
\* more steps than a frame has slots.
THEOREM TxnInvariance == MaxSteps <= FrameSlots => (TxnSpec => []TInv)
<1> SUFFICES ASSUME MaxSteps <= FrameSlots PROVE TxnSpec => []TInv
  OBVIOUS
<1>1. TxnInit => TInv
  BY TxnInitSound
<1>2. TInv /\ [TxnNext]_allVars => TInv'
  BY TxnStepInv
<1> QED  BY <1>1, <1>2, PTL DEF TxnSpec

\* txnStep, txnCommit and txnRollback of all threads keep every step in one
\* place: the free list, one transaction or one thread, while the map of the
\* store has memory left and a transaction has no more steps than a frame.
THEOREM Steps == MaxSteps <= FrameSlots => (TxnSpec => [](room > 0 => StepsOnce))
<1>1. TInv => (room > 0 => StepsOnce)
  BY SoundStepsOnce DEF TInv
<1> QED  BY <1>1, TxnInvariance, PTL

\* txnCommit and txnRollback give back what the transaction took: no frame is
\* lost, none is in two chains while others take and return theirs, and all
\* steps are on the free list when no transaction is open.
THEOREM Returned == MaxSteps <= FrameSlots => (TxnSpec => [](room > 0 => StepsReturned))
<1>1. TInv => (room > 0 => StepsReturned)
  BY SoundStepsReturned DEF TInv
<1> QED  BY <1>1, TxnInvariance, PTL

=============================================================================
