------------------------------- MODULE RWLock -------------------------------
(***************************************************************************)
(* The reader/writer lock of oldjsdb/jsdb_rwlock.c, on which every page    *)
(* latch of the B-link tree, the handle latch of an arena and the child    *)
(* lists rest.  It is built from two futex mutexes: xcl, the gate every    *)
(* acquirer passes, and wrt, held by the writer or by the readers as a     *)
(* group.  One action is one atomic access to shared memory, or one futex  *)
(* system call; what a thread does between two of them is private.         *)
(*                                                                         *)
(* A Mutex is one 32-bit word holding two 16-bit fields, modelled as the   *)
(* functions xcl and waiters.  Fewer than 2^15 threads use a lock, so      *)
(* waiters and readers (both short) do not wrap: that they never exceed    *)
(* the number of threads is part of the invariants below.                  *)
(***************************************************************************)
EXTENDS Integers, FiniteSets

CONSTANT Threads

ASSUME ThreadsFinite == IsFiniteSet(Threads)

Mutexes == {"xcl", "wrt"}

VARIABLES
  xcl,          \* the lock field of each mutex
  waiters,      \* the waiter count of each mutex
  readers,      \* RWLock.readers
  type,         \* RWLock.type: 1 while the last acquirer was a writer
  asleep,       \* threads suspended in FUTEX_WAIT
  pc,           \* where in writeLock, readLock or rwUnlock a thread is
  step,         \* where in bt_mutexlock or bt_releasemutex it is
  waited,       \* the local of bt_mutexlock: this thread is counted in waiters
  prev          \* the local of bt_mutexlock: the waiters field of the word read

word  == <<xcl, waiters, asleep>>
local == <<pc, step, waited, prev>>
vars  == <<xcl, waiters, readers, type, asleep, pc, step, waited, prev>>

\* The places at which a thread is inside bt_mutexlock ...
WriterLocking == {"W_xcl", "W_wrt"}
ReaderLocking == {"R_xcl", "R_wrt"}
Locking == WriterLocking \union ReaderLocking
\* ... inside bt_releasemutex, the last being that of rwUnlock ...
Releasing == {"W_relx", "R_relx", "U_wrt"}
\* ... and everywhere else: idle and holding, the store to type, the atomic
\* add and subtract on readers.
Places == Locking \union Releasing \union
  {"idle", "W_type", "W_held", "R_add", "R_type", "R_held", "U_sub"}

\* The steps of bt_mutexlock are try, the fetch_and_or; addw, the increment
\* of waiters; wait, the call of FUTEX_WAIT; decw, the decrement after the
\* lock is taken.  Those of bt_releasemutex are try, the fetch_and_and; wake.
Steps == {"try", "addw", "wait", "decw", "wake"}

\* The mutex a thread at place p locks or releases.
MutexAt(p) == IF p \in {"W_xcl", "R_xcl", "W_relx", "R_relx"} THEN "xcl" ELSE "wrt"

\* Where control continues when bt_mutexlock or bt_releasemutex returns.
After(p) ==
  CASE p = "W_xcl"  -> "W_wrt"
    [] p = "W_wrt"  -> "W_type"
    [] p = "W_relx" -> "W_held"
    [] p = "R_xcl"  -> "R_add"
    [] p = "R_wrt"  -> "R_type"
    [] p = "R_relx" -> "R_held"
    [] OTHER        -> "idle"

TypeOK ==
  /\ xcl \in [Mutexes -> {0, 1}]
  /\ waiters \in [Mutexes -> Nat]
  /\ readers \in Nat
  /\ type \in {0, 1}
  /\ asleep \subseteq Threads
  /\ pc \in [Threads -> Places]
  /\ step \in [Threads -> Steps]
  /\ waited \in [Threads -> {0, 1}]
  /\ prev \in [Threads -> Nat]

Init ==
  /\ xcl = [m \in Mutexes |-> 0]
  /\ waiters = [m \in Mutexes |-> 0]
  /\ readers = 0
  /\ type = 0
  /\ asleep = {}
  /\ pc = [t \in Threads |-> "idle"]
  /\ step = [t \in Threads |-> "try"]
  /\ waited = [t \in Threads |-> 0]
  /\ prev = [t \in Threads |-> 0]

At(t, places, s) == pc[t] \in places /\ step[t] = s

Goto(t, p) == pc' = [pc EXCEPT ![t] = p]
Stepto(t, s) == step' = [step EXCEPT ![t] = s]

-----------------------------------------------------------------------------
(* bt_mutexlock                                                            *)

\* The fetch_and_or finds xcl clear: the mutex is taken.  A thread that
\* counted itself as a waiter has still to take itself off the count.
TakeFree(t) ==
  /\ At(t, Locking, "try")
  /\ xcl[MutexAt(pc[t])] = 0
  /\ xcl' = [xcl EXCEPT ![MutexAt(pc[t])] = 1]
  /\ IF waited[t] = 1
       THEN Stepto(t, "decw") /\ UNCHANGED pc
       ELSE Goto(t, After(pc[t])) /\ UNCHANGED step
  /\ UNCHANGED <<waiters, readers, type, asleep, waited, prev>>

\* The hundredth fetch_and_or of a round finds xcl set.  The ninety-nine
\* before it, when they fail, change nothing.
GiveUp(t) ==
  /\ At(t, Locking, "try")
  /\ xcl[MutexAt(pc[t])] = 1
  /\ prev' = [prev EXCEPT ![t] = waiters[MutexAt(pc[t])]]
  /\ Stepto(t, IF waited[t] = 1 THEN "wait" ELSE "addw")
  /\ UNCHANGED <<xcl, waiters, readers, type, asleep, pc, waited>>

\* The waiter counts itself, in the word and in the copy it will compare.
AddWaiter(t) ==
  /\ At(t, Locking, "addw")
  /\ waiters' = [waiters EXCEPT ![MutexAt(pc[t])] = @ + 1]
  /\ prev' = [prev EXCEPT ![t] = @ + 1]
  /\ waited' = [waited EXCEPT ![t] = 1]
  /\ Stepto(t, "wait")
  /\ UNCHANGED <<xcl, readers, type, asleep, pc>>

\* FUTEX_WAIT suspends the caller only if the whole word still is the copy,
\* whose xcl field is always 1.  The copy is not used again: it is cleared.
FutexWait(t) ==
  /\ At(t, Locking, "wait") /\ t \notin asleep
  /\ IF xcl[MutexAt(pc[t])] = 1 /\ waiters[MutexAt(pc[t])] = prev[t]
       THEN asleep' = asleep \union {t} /\ UNCHANGED step
       ELSE Stepto(t, "try") /\ UNCHANGED asleep
  /\ prev' = [prev EXCEPT ![t] = 0]
  /\ UNCHANGED <<xcl, waiters, readers, type, pc, waited>>

\* A signal makes FUTEX_WAIT return although nobody called FUTEX_WAKE.
Interrupt(t) ==
  /\ t \in asleep
  /\ asleep' = asleep \ {t}
  /\ Stepto(t, "try")
  /\ UNCHANGED <<xcl, waiters, readers, type, pc, waited, prev>>

\* Mutant: a waiter that gets the mutex stays in the count.
DecWaiterForgotten(t) ==
  /\ At(t, Locking, "decw")
  /\ waited' = [waited EXCEPT ![t] = 0]
  /\ Goto(t, After(pc[t]))
  /\ Stepto(t, "try")
  /\ UNCHANGED <<xcl, waiters, readers, type, asleep, prev>>

DecWaiter(t) ==
  /\ At(t, Locking, "decw")
  /\ waiters' = [waiters EXCEPT ![MutexAt(pc[t])] = @ - 1]
  /\ waited' = [waited EXCEPT ![t] = 0]
  /\ Goto(t, After(pc[t]))
  /\ Stepto(t, "try")
  /\ UNCHANGED <<xcl, readers, type, asleep, prev>>

-----------------------------------------------------------------------------
(* bt_releasemutex                                                         *)

\* Mutant: FUTEX_WAKE is called for the second waiter on.
ReleaseWakesLate(t) ==
  /\ At(t, Releasing, "try")
  /\ xcl' = [xcl EXCEPT ![MutexAt(pc[t])] = 0]
  /\ IF waiters[MutexAt(pc[t])] > 1
       THEN Stepto(t, "wake") /\ UNCHANGED pc
       ELSE Goto(t, After(pc[t])) /\ UNCHANGED step
  /\ UNCHANGED <<waiters, readers, type, asleep, waited, prev>>

\* The fetch_and_and clears xcl and returns the waiters at that instant.
Release(t) ==
  /\ At(t, Releasing, "try")
  /\ xcl' = [xcl EXCEPT ![MutexAt(pc[t])] = 0]
  /\ IF waiters[MutexAt(pc[t])] > 0
       THEN Stepto(t, "wake") /\ UNCHANGED pc
       ELSE Goto(t, After(pc[t])) /\ UNCHANGED step
  /\ UNCHANGED <<waiters, readers, type, asleep, waited, prev>>

SleepersOn(m) == {t \in asleep : MutexAt(pc[t]) = m}

\* FUTEX_WAKE lets one sleeper go, if there is one by now.
Wake(t) ==
  /\ At(t, Releasing, "wake")
  /\ Goto(t, After(pc[t]))
  /\ LET S == SleepersOn(MutexAt(pc[t])) IN
       \/ /\ S = {}
          /\ Stepto(t, "try")
          /\ UNCHANGED asleep
       \/ \E u \in S :
          /\ asleep' = asleep \ {u}
          /\ step' = [step EXCEPT ![t] = "try", ![u] = "try"]
  /\ UNCHANGED <<xcl, waiters, readers, type, waited, prev>>

-----------------------------------------------------------------------------
(* writeLock, readLock, rwUnlock                                           *)

\* Mutant: readLock does not pass the gate.
CallSkipsGate(t) ==
  /\ pc[t] = "idle"
  /\ \/ Goto(t, "W_xcl")
     \/ Goto(t, "R_add")
  /\ UNCHANGED <<word, readers, type, step, waited, prev>>

\* Entry of writeLock or readLock.
Call(t) ==
  /\ pc[t] = "idle"
  /\ \/ Goto(t, "W_xcl")
     \/ Goto(t, "R_xcl")
  /\ UNCHANGED <<word, readers, type, step, waited, prev>>

\* Mutant: add_and_fetch in place of fetch_and_add, so nobody is the first.
AddReaderNew(t) ==
  /\ pc[t] = "R_add"
  /\ readers' = readers + 1
  /\ Goto(t, IF readers + 1 = 0 THEN "R_wrt" ELSE "R_type")
  /\ UNCHANGED <<word, type, step, waited, prev>>

\* The first reader of a group goes on to take wrt, the others do not.
AddReader(t) ==
  /\ pc[t] = "R_add"
  /\ readers' = readers + 1
  /\ Goto(t, IF readers = 0 THEN "R_wrt" ELSE "R_type")
  /\ UNCHANGED <<word, type, step, waited, prev>>

\* Mutant: readLock leaves lock->type as the last writer set it.
SetTypeWriterOnly(t) ==
  /\ pc[t] \in {"W_type", "R_type"}
  /\ type' = IF pc[t] = "W_type" THEN 1 ELSE type
  /\ Goto(t, IF pc[t] = "W_type" THEN "W_relx" ELSE "R_relx")
  /\ UNCHANGED <<word, readers, step, waited, prev>>

SetType(t) ==
  /\ pc[t] \in {"W_type", "R_type"}
  /\ type' = IF pc[t] = "W_type" THEN 1 ELSE 0
  /\ Goto(t, IF pc[t] = "W_type" THEN "W_relx" ELSE "R_relx")
  /\ UNCHANGED <<word, readers, step, waited, prev>>

\* rwUnlock is not told which lock the caller holds: it reads lock->type.
Unlock(t) ==
  /\ pc[t] \in {"W_held", "R_held"}
  /\ Goto(t, IF type = 1 THEN "U_wrt" ELSE "U_sub")
  /\ UNCHANGED <<word, readers, type, step, waited, prev>>

SubReader(t) ==
  /\ pc[t] = "U_sub"
  /\ readers' = readers - 1
  /\ Goto(t, IF readers = 1 THEN "U_wrt" ELSE "idle")
  /\ UNCHANGED <<word, type, step, waited, prev>>

\* Everything a thread does of its own once it has called writeLock or
\* readLock, the call of rwUnlock included.
Run(t) ==
  \/ TakeFree(t) \/ GiveUp(t) \/ AddWaiter(t) \/ FutexWait(t) \/ DecWaiter(t)
  \/ Release(t) \/ Wake(t)
  \/ AddReader(t) \/ SetType(t) \/ Unlock(t) \/ SubReader(t)

Next == \E t \in Threads : Call(t) \/ Interrupt(t) \/ Run(t)

Spec == Init /\ [][Next]_vars

\* A thread that is not suspended is scheduled again and again, and whoever
\* gets the lock gives it back.  Nobody is obliged to ask for it, and the
\* kernel is not obliged to interrupt a sleeper.
Fairness == \A t \in Threads : WF_vars(Run(t))

FairSpec == Spec /\ Fairness

-----------------------------------------------------------------------------
(* Properties                                                              *)

Waiting(m) == {t \in Threads : waited[t] = 1 /\ MutexAt(pc[t]) = m}

\* The waiter count of a mutex is exactly the number of threads counted in
\* it: it neither leaks (a useless FUTEX_WAKE forever) nor drops to zero
\* while a thread is suspended (no FUTEX_WAKE at all).
WaiterCountExact == \A m \in Mutexes : waiters[m] = Cardinality(Waiting(m))

\* No lost wakeup: while a thread sleeps on a mutex, the mutex is held, so
\* that its owner will see waiters > 0 and wake somebody, or such a wake is
\* on its way, or another counted waiter is awake and about to retry.
NoLostWakeup ==
  \A m \in Mutexes : SleepersOn(m) # {} =>
    \/ xcl[m] = 1
    \/ \E t \in Threads : step[t] = "wake" /\ MutexAt(pc[t]) = m
    \/ \E t \in Waiting(m) \ asleep : step[t] \in {"try", "wait"}

\* The threads writeLock, or readLock, has returned to and that have not
\* called rwUnlock yet.
HoldWrite == {t \in Threads : pc[t] = "W_held"}
HoldRead  == {t \in Threads : pc[t] = "R_held"}

\* A writer is alone, whatever rwUnlock reads in lock->type.
MutualExclusion ==
  /\ \A t, u \in HoldWrite : t = u
  /\ HoldWrite # {} => HoldRead = {}

\* The readers that are counted in lock->readers: they have, or are about to
\* have, or have just given up, a share of wrt.
Group == {t \in Threads : pc[t] \in {"R_wrt", "R_type", "R_relx", "R_held", "U_sub"}}

\* Writers are not starved by a stream of readers: a writer that waits for
\* wrt holds the gate, and until it gets in no reader joins the group that
\* it is waiting for.
WriterBarrier ==
  [][(\E t \in Threads : pc[t] = "W_wrt") => Group' \subseteq Group]_vars

\* Whoever has passed the gate gets the lock: it is the only thread that can
\* contend for wrt, so no other can overtake it.
GateHolderGetsIn ==
  \A t \in Threads : /\ pc[t] = "W_wrt" ~> pc[t] = "W_held"
                     /\ pc[t] = "R_wrt" ~> pc[t] = "R_held"

\* Somebody always gets in: the lock is never free with everyone suspended.
SomebodyGetsIn ==
  (\E t \in Threads : pc[t] \in Locking) ~> (HoldWrite \union HoldRead # {})

\* The lock implements the reader/writer lock of RWLockSpec.
Promise == INSTANCE RWLockSpec WITH writers <- HoldWrite, readers <- HoldRead
Implements == Promise!AbsSpec

-----------------------------------------------------------------------------
(* The inductive invariant behind these properties (see RWLockProofs)      *)

\* What a step says of the place and of the wait count of its thread.
ControlInv ==
  \A t \in Threads :
    /\ step[t] \in {"addw", "wait", "decw"} => pc[t] \in Locking
    /\ step[t] = "wake" => pc[t] \in Releasing
    /\ waited[t] = 1 => pc[t] \in Locking /\ step[t] \in {"try", "wait", "decw"}
    /\ step[t] \in {"wait", "decw"} => waited[t] = 1
    /\ t \in asleep => step[t] = "wait"

\* The thread between taking and releasing the gate: there is at most one.
OwnsGate(t) ==
  \/ pc[t] \in {"W_wrt", "W_type", "R_add", "R_wrt", "R_type"}
  \/ pc[t] \in {"W_xcl", "R_xcl"} /\ step[t] = "decw"
  \/ pc[t] \in {"W_relx", "R_relx"} /\ step[t] = "try"

GateInv ==
  /\ \A t, u \in Threads : OwnsGate(t) /\ OwnsGate(u) => t = u
  /\ xcl["xcl"] = 1 <=> \E t \in Threads : OwnsGate(t)

\* The thread that owns wrt alone: a writer, or the last reader on its way out.
OwnsWrt(t) ==
  \/ pc[t] \in {"W_type", "W_relx", "W_held"}
  \/ pc[t] = "W_wrt" /\ step[t] = "decw"
  \/ pc[t] = "U_wrt" /\ step[t] = "try"

\* The first reader of a group, still without wrt.
Entering(t) == pc[t] = "R_wrt" /\ step[t] # "decw"

\* The counted readers own wrt together once the first of them has got it.
GroupOwnsWrt == Group # {} /\ \A t \in Threads : ~Entering(t)

WrtInv ==
  /\ \A t, u \in Threads : OwnsWrt(t) /\ OwnsWrt(u) => t = u
  /\ \A t \in Threads : OwnsWrt(t) => ~GroupOwnsWrt
  /\ xcl["wrt"] = 1 <=> GroupOwnsWrt \/ \E t \in Threads : OwnsWrt(t)
  /\ \A t, u \in Threads : pc[t] = "R_wrt" /\ u \in Group => t = u

\* The plain byte lock->type tells every holder which lock it holds.
TypeByteInv ==
  \A t \in Threads : /\ pc[t] \in {"W_relx", "W_held"} => type = 1
                     /\ pc[t] \in {"R_relx", "R_held"} => type = 0

CountInv == WaiterCountExact /\ readers = Cardinality(Group)

IInv == TypeOK /\ ControlInv /\ GateInv /\ WrtInv /\ TypeByteInv /\ CountInv
=============================================================================
