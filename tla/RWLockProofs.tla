---------------------------- MODULE RWLockProofs ----------------------------
(***************************************************************************)
(* Proofs about the reader/writer lock, for every finite set of threads.   *)
(* The invariants of RWLock are shown to be preserved one after the other: *)
(* control, the gate, lock->type, the group of readers with wrt, and the   *)
(* counters, each from those before it.                                    *)
(***************************************************************************)
EXTENDS RWLock, FiniteSetTheorems, TLAPS

\* The facts about places and mutex names that every step needs.
USE DEF Mutexes, WriterLocking, ReaderLocking, Locking, Releasing, Places, Steps

-----------------------------------------------------------------------------
(* Types, without the bounds on the two counters, which rest on CountInv.  *)

TypeCore ==
  /\ xcl \in [Mutexes -> {0, 1}]
  /\ waiters \in [Mutexes -> Int]
  /\ readers \in Int
  /\ type \in {0, 1}
  /\ asleep \subseteq Threads
  /\ pc \in [Threads -> Places]
  /\ step \in [Threads -> Steps]
  /\ waited \in [Threads -> {0, 1}]
  /\ prev \in [Threads -> Int]

LEMMA MutexAtType == \A p : MutexAt(p) \in Mutexes
BY DEF MutexAt

\* Where control goes after a mutex is taken or released.
LEMMA AfterType == \A p : After(p) \in Places
BY DEF After

LEMMA AfterLock == \A p \in Locking :
  After(p) = IF p = "W_xcl" THEN "W_wrt" ELSE IF p = "W_wrt" THEN "W_type"
             ELSE IF p = "R_xcl" THEN "R_add" ELSE "R_type"
BY DEF After

LEMMA AfterRelease == \A p \in Releasing :
  After(p) = IF p = "W_relx" THEN "W_held" ELSE IF p = "R_relx" THEN "R_held"
             ELSE "idle"
BY DEF After

LEMMA TypeCoreStep ==
  ASSUME TypeCore, [Next]_vars
  PROVE  TypeCore'
<1> USE MutexAtType, AfterType DEF TypeCore, Goto, Stepto, At, word, local
<1>1. CASE UNCHANGED vars
  BY <1>1 DEF vars
<1>2. ASSUME NEW t \in Threads, TakeFree(t) PROVE TypeCore'
  BY <1>2 DEF TakeFree
<1>3. ASSUME NEW t \in Threads, GiveUp(t) PROVE TypeCore'
  BY <1>3 DEF GiveUp
<1>4. ASSUME NEW t \in Threads, AddWaiter(t) PROVE TypeCore'
  BY <1>4 DEF AddWaiter
<1>5. ASSUME NEW t \in Threads, FutexWait(t) PROVE TypeCore'
  BY <1>5 DEF FutexWait
<1>6. ASSUME NEW t \in Threads, DecWaiter(t) PROVE TypeCore'
  BY <1>6 DEF DecWaiter
<1>7. ASSUME NEW t \in Threads, Release(t) PROVE TypeCore'
  BY <1>7 DEF Release
<1>8. ASSUME NEW t \in Threads, Wake(t) PROVE TypeCore'
  BY <1>8 DEF Wake, SleepersOn
<1>9. ASSUME NEW t \in Threads, AddReader(t) PROVE TypeCore'
  BY <1>9 DEF AddReader
<1>10. ASSUME NEW t \in Threads, SetType(t) PROVE TypeCore'
  BY <1>10 DEF SetType
<1>11. ASSUME NEW t \in Threads, Unlock(t) PROVE TypeCore'
  BY <1>11 DEF Unlock
<1>12. ASSUME NEW t \in Threads, SubReader(t) PROVE TypeCore'
  BY <1>12 DEF SubReader
<1>13. ASSUME NEW t \in Threads, Call(t) PROVE TypeCore'
  BY <1>13 DEF Call
<1>14. ASSUME NEW t \in Threads, Interrupt(t) PROVE TypeCore'
  BY <1>14 DEF Interrupt
<1>15. QED
  BY <1>1, <1>2, <1>3, <1>4, <1>5, <1>6, <1>7, <1>8, <1>9, <1>10, <1>11,
     <1>12, <1>13, <1>14 DEF Next, Run

\* A thread's step stays consistent with its place and its wait count.
LEMMA ControlStep ==
  ASSUME TypeCore, ControlInv, [Next]_vars
  PROVE  ControlInv'
<1> USE AfterLock, AfterRelease DEF TypeCore, ControlInv, Goto, Stepto, At
<1>1. CASE UNCHANGED vars
  BY <1>1 DEF vars
<1>2. ASSUME NEW t \in Threads, TakeFree(t) PROVE ControlInv'
  BY <1>2 DEF TakeFree
<1>3. ASSUME NEW t \in Threads, GiveUp(t) PROVE ControlInv'
  BY <1>3 DEF GiveUp
<1>4. ASSUME NEW t \in Threads, AddWaiter(t) PROVE ControlInv'
  BY <1>4 DEF AddWaiter
<1>5. ASSUME NEW t \in Threads, FutexWait(t) PROVE ControlInv'
  BY <1>5 DEF FutexWait
<1>6. ASSUME NEW t \in Threads, DecWaiter(t) PROVE ControlInv'
  BY <1>6 DEF DecWaiter
<1>7. ASSUME NEW t \in Threads, Release(t) PROVE ControlInv'
  BY <1>7 DEF Release
<1>8. ASSUME NEW t \in Threads, Wake(t) PROVE ControlInv'
  BY <1>8 DEF Wake, SleepersOn
<1>9. ASSUME NEW t \in Threads, AddReader(t) PROVE ControlInv'
  BY <1>9 DEF AddReader, word
<1>10. ASSUME NEW t \in Threads, SetType(t) PROVE ControlInv'
  BY <1>10 DEF SetType, word
<1>11. ASSUME NEW t \in Threads, Unlock(t) PROVE ControlInv'
  BY <1>11 DEF Unlock, word
<1>12. ASSUME NEW t \in Threads, SubReader(t) PROVE ControlInv'
  BY <1>12 DEF SubReader, word
<1>13. ASSUME NEW t \in Threads, Call(t) PROVE ControlInv'
  BY <1>13 DEF Call, word, local
<1>14. ASSUME NEW t \in Threads, Interrupt(t) PROVE ControlInv'
  BY <1>14 DEF Interrupt
<1>15. QED
  BY <1>1, <1>2, <1>3, <1>4, <1>5, <1>6, <1>7, <1>8, <1>9, <1>10, <1>11,
     <1>12, <1>13, <1>14 DEF Next, Run

\* The gate has at most one owner, and is marked taken exactly then.
LEMMA GateStep ==
  ASSUME TypeCore, ControlInv, GateInv, [Next]_vars
  PROVE  GateInv'
<1> USE AfterLock, AfterRelease DEF TypeCore, ControlInv, GateInv, OwnsGate, MutexAt, Goto, Stepto, At
<1>1. CASE UNCHANGED vars
  BY <1>1 DEF vars
<1>2. ASSUME NEW t \in Threads, TakeFree(t) PROVE GateInv'
  BY <1>2 DEF TakeFree
<1>3. ASSUME NEW t \in Threads, GiveUp(t) PROVE GateInv'
  BY <1>3 DEF GiveUp
<1>4. ASSUME NEW t \in Threads, AddWaiter(t) PROVE GateInv'
  BY <1>4 DEF AddWaiter
<1>5. ASSUME NEW t \in Threads, FutexWait(t) PROVE GateInv'
  BY <1>5 DEF FutexWait
<1>6. ASSUME NEW t \in Threads, DecWaiter(t) PROVE GateInv'
  BY <1>6 DEF DecWaiter
<1>7. ASSUME NEW t \in Threads, Release(t) PROVE GateInv'
  BY <1>7 DEF Release
<1>8. ASSUME NEW t \in Threads, Wake(t) PROVE GateInv'
  BY <1>8 DEF Wake, SleepersOn
<1>9. ASSUME NEW t \in Threads, AddReader(t) PROVE GateInv'
  BY <1>9 DEF AddReader, word
<1>10. ASSUME NEW t \in Threads, SetType(t) PROVE GateInv'
  BY <1>10 DEF SetType, word
<1>11. ASSUME NEW t \in Threads, Unlock(t) PROVE GateInv'
  BY <1>11 DEF Unlock, word
<1>12. ASSUME NEW t \in Threads, SubReader(t) PROVE GateInv'
  BY <1>12 DEF SubReader, word
<1>13. ASSUME NEW t \in Threads, Call(t) PROVE GateInv'
  BY <1>13 DEF Call, word, local
<1>14. ASSUME NEW t \in Threads, Interrupt(t) PROVE GateInv'
  BY <1>14 DEF Interrupt
<1>15. QED
  BY <1>1, <1>2, <1>3, <1>4, <1>5, <1>6, <1>7, <1>8, <1>9, <1>10, <1>11,
     <1>12, <1>13, <1>14 DEF Next, Run

\* What lock->readers, being the size of the group, tells about the group.
LEMMA GroupSize ==
  ASSUME readers = Cardinality(Group)
  PROVE  /\ IsFiniteSet(Group)
         /\ readers \in Nat
         /\ readers = 0 <=> \A u \in Threads : u \notin Group
         /\ \A t \in Group : readers = 1 <=> \A u \in Group : t = u
<1>1. IsFiniteSet(Group)
  BY ThreadsFinite, FS_Subset DEF Group
<1>2. readers \in Nat
  BY <1>1, FS_CardinalityType
<1>3. readers = 0 <=> \A u \in Threads : u \notin Group
  <2>1. readers = 0 <=> Group = {}
    BY <1>1, FS_EmptySet
  <2>2. QED
    BY <2>1 DEF Group
<1>4. ASSUME NEW t \in Group PROVE readers = 1 <=> \A u \in Group : t = u
  <2>1. readers = 1 <=> \E x : Group = {x}
    BY <1>1, FS_Singleton
  <2>2. (\E x : Group = {x}) <=> \A u \in Group : t = u
    <3>1. ASSUME \A u \in Group : t = u PROVE Group = {t}
      BY <3>1
    <3>2. QED
      BY <3>1
  <2>3. QED
    BY <2>1, <2>2
<1>5. QED
  BY <1>1, <1>2, <1>3, <1>4

\* The mutex wrt belongs to one writer, or to the readers together, or to
\* the last reader on its way out, and is marked taken exactly then.
LEMMA WrtStep ==
  ASSUME TypeCore, ControlInv, GateInv, WrtInv, TypeByteInv, CountInv,
         [Next]_vars
  PROVE  WrtInv'
<1>0. /\ readers \in Nat
      /\ readers = 0 <=> \A u \in Threads : u \notin Group
      /\ \A t \in Group : readers = 1 <=> \A u \in Group : t = u
  BY GroupSize DEF CountInv
<1> USE AfterLock, AfterRelease DEF TypeCore, ControlInv, GateInv, WrtInv,
    OwnsGate, OwnsWrt, GroupOwnsWrt, Entering, Group, MutexAt, Goto, Stepto, At
<1>1. CASE UNCHANGED vars
  BY <1>1 DEF vars
<1>2. ASSUME NEW t \in Threads, TakeFree(t) PROVE WrtInv'
  BY <1>2 DEF TakeFree
<1>3. ASSUME NEW t \in Threads, GiveUp(t) PROVE WrtInv'
  BY <1>3 DEF GiveUp
<1>4. ASSUME NEW t \in Threads, AddWaiter(t) PROVE WrtInv'
  BY <1>4 DEF AddWaiter
<1>5. ASSUME NEW t \in Threads, FutexWait(t) PROVE WrtInv'
  BY <1>5 DEF FutexWait
<1>6. ASSUME NEW t \in Threads, DecWaiter(t) PROVE WrtInv'
  BY <1>6 DEF DecWaiter
<1>7. ASSUME NEW t \in Threads, Release(t) PROVE WrtInv'
  BY <1>7 DEF Release
<1>8. ASSUME NEW t \in Threads, Wake(t) PROVE WrtInv'
  BY <1>8 DEF Wake, SleepersOn
<1>9. ASSUME NEW t \in Threads, AddReader(t) PROVE WrtInv'
  <2>1. /\ pc[t] = "R_add" /\ pc' = [pc EXCEPT ![t] = IF readers = 0 THEN "R_wrt" ELSE "R_type"]
        /\ step' = step /\ xcl' = xcl /\ step[t] # "decw"
    BY <1>9 DEF AddReader, word
  <2>2. \A u \in Threads : pc[u] # "R_wrt"
    BY <2>1
  <2>3. CASE readers = 0
    BY <1>0, <2>1, <2>2, <2>3
  <2>4. CASE readers # 0
    <3>1. GroupOwnsWrt
      BY <1>0, <2>2, <2>4
    <3>2. GroupOwnsWrt'
      BY <2>1, <2>2, <2>4, <3>1
    <3>3. \A u \in Threads : ~OwnsWrt(u) /\ ~OwnsWrt(u)'
      BY <2>1, <2>4, <3>1
    <3>4. QED
      BY <2>1, <2>2, <2>4, <3>1, <3>2, <3>3
  <2>5. QED
    BY <2>3, <2>4
<1>10. ASSUME NEW t \in Threads, SetType(t) PROVE WrtInv'
  BY <1>10 DEF SetType, word
<1>11. ASSUME NEW t \in Threads, Unlock(t) PROVE WrtInv'
  BY <1>11 DEF Unlock, word, TypeByteInv
<1>12. ASSUME NEW t \in Threads, SubReader(t) PROVE WrtInv'
  <2>1. CASE readers = 1
    BY <1>0, <1>12, <2>1 DEF SubReader, word
  <2>2. CASE readers # 1
    BY <1>0, <1>12, <2>2 DEF SubReader, word
  <2>3. QED
    BY <2>1, <2>2
<1>13. ASSUME NEW t \in Threads, Call(t) PROVE WrtInv'
  BY <1>13 DEF Call, word, local
<1>14. ASSUME NEW t \in Threads, Interrupt(t) PROVE WrtInv'
  BY <1>14 DEF Interrupt
<1>15. QED
  BY <1>1, <1>2, <1>3, <1>4, <1>5, <1>6, <1>7, <1>8, <1>9, <1>10, <1>11,
     <1>12, <1>13, <1>14 DEF Next, Run

\* lock->type tells every holder which lock it holds.
LEMMA TypeByteStep ==
  ASSUME TypeCore, WrtInv, TypeByteInv, [Next]_vars
  PROVE  TypeByteInv'
<1> USE AfterLock, AfterRelease DEF TypeCore, WrtInv, TypeByteInv, OwnsWrt,
    GroupOwnsWrt, Entering, Group, Goto, Stepto, At
<1>1. CASE UNCHANGED vars
  BY <1>1 DEF vars
<1>2. ASSUME NEW t \in Threads, TakeFree(t) PROVE TypeByteInv'
  BY <1>2 DEF TakeFree
<1>3. ASSUME NEW t \in Threads, GiveUp(t) PROVE TypeByteInv'
  BY <1>3 DEF GiveUp
<1>4. ASSUME NEW t \in Threads, AddWaiter(t) PROVE TypeByteInv'
  BY <1>4 DEF AddWaiter
<1>5. ASSUME NEW t \in Threads, FutexWait(t) PROVE TypeByteInv'
  BY <1>5 DEF FutexWait
<1>6. ASSUME NEW t \in Threads, DecWaiter(t) PROVE TypeByteInv'
  BY <1>6 DEF DecWaiter
<1>7. ASSUME NEW t \in Threads, Release(t) PROVE TypeByteInv'
  BY <1>7 DEF Release
<1>8. ASSUME NEW t \in Threads, Wake(t) PROVE TypeByteInv'
  BY <1>8 DEF Wake, SleepersOn
<1>9. ASSUME NEW t \in Threads, AddReader(t) PROVE TypeByteInv'
  BY <1>9 DEF AddReader, word
<1>10. ASSUME NEW t \in Threads, SetType(t) PROVE TypeByteInv'
  BY <1>10 DEF SetType, word
<1>11. ASSUME NEW t \in Threads, Unlock(t) PROVE TypeByteInv'
  BY <1>11 DEF Unlock, word
<1>12. ASSUME NEW t \in Threads, SubReader(t) PROVE TypeByteInv'
  BY <1>12 DEF SubReader, word
<1>13. ASSUME NEW t \in Threads, Call(t) PROVE TypeByteInv'
  BY <1>13 DEF Call, word, local
<1>14. ASSUME NEW t \in Threads, Interrupt(t) PROVE TypeByteInv'
  BY <1>14 DEF Interrupt
<1>15. QED
  BY <1>1, <1>2, <1>3, <1>4, <1>5, <1>6, <1>7, <1>8, <1>9, <1>10, <1>11,
     <1>12, <1>13, <1>14 DEF Next, Run

-----------------------------------------------------------------------------
(* The counters                                                            *)

\* Only AddReader and SubReader change the group, by the thread that acts.
LEMMA GroupCountStep ==
  ASSUME TypeCore, ControlInv, TypeByteInv, readers = Cardinality(Group),
         [Next]_vars
  PROVE  readers' = Cardinality(Group')
<1> DEFINE Same == readers' = readers /\ Group' = Group
<1> USE AfterLock, AfterRelease DEF TypeCore, ControlInv, Group, Goto, Stepto, At
<1>1. CASE UNCHANGED vars
  BY <1>1 DEF vars
<1>2. ASSUME NEW t \in Threads, TakeFree(t) PROVE Same
  BY <1>2 DEF TakeFree
<1>3. ASSUME NEW t \in Threads, GiveUp(t) PROVE Same
  BY <1>3 DEF GiveUp
<1>4. ASSUME NEW t \in Threads, AddWaiter(t) PROVE Same
  BY <1>4 DEF AddWaiter
<1>5. ASSUME NEW t \in Threads, FutexWait(t) PROVE Same
  BY <1>5 DEF FutexWait
<1>6. ASSUME NEW t \in Threads, DecWaiter(t) PROVE Same
  BY <1>6 DEF DecWaiter
<1>7. ASSUME NEW t \in Threads, Release(t) PROVE Same
  BY <1>7 DEF Release
<1>8. ASSUME NEW t \in Threads, Wake(t) PROVE Same
  BY <1>8 DEF Wake, SleepersOn
<1>9. ASSUME NEW t \in Threads, SetType(t) PROVE Same
  BY <1>9 DEF SetType, word
<1>10. ASSUME NEW t \in Threads, Unlock(t) PROVE Same
  BY <1>10 DEF Unlock, word, TypeByteInv
<1>11. ASSUME NEW t \in Threads, Call(t) PROVE Same
  BY <1>11 DEF Call, word, local
<1>12. ASSUME NEW t \in Threads, Interrupt(t) PROVE Same
  BY <1>12 DEF Interrupt
<1>13. ASSUME NEW t \in Threads, AddReader(t) PROVE readers' = Cardinality(Group')
  <2>1. Group' = Group \union {t} /\ t \notin Group /\ readers' = readers + 1
    BY <1>13 DEF AddReader
  <2> HIDE DEF Group
  <2>2. QED
    BY <2>1, GroupSize, FS_AddElement
<1>14. ASSUME NEW t \in Threads, SubReader(t) PROVE readers' = Cardinality(Group')
  <2>1. Group' = Group \ {t} /\ t \in Group /\ readers' = readers - 1
    BY <1>14 DEF SubReader
  <2> HIDE DEF Group
  <2>2. QED
    BY <2>1, GroupSize, FS_RemoveElement
<1> HIDE DEF Group
<1>15. ASSUME Same PROVE readers' = Cardinality(Group')
  BY <1>15
<1> HIDE DEF Same
<1>16. QED
  BY <1>1, <1>2, <1>3, <1>4, <1>5, <1>6, <1>7, <1>8, <1>9, <1>10, <1>11,
     <1>12, <1>13, <1>14, <1>15 DEF Next, Run

\* A thread that enters or leaves the count of a mutex changes it by one.
LEMMA WaiterSetFinite == \A m : IsFiniteSet(Waiting(m))
BY ThreadsFinite, FS_Subset DEF Waiting

\* Only AddWaiter and DecWaiter change who is counted.
LEMMA WaiterCountStep ==
  ASSUME TypeCore, ControlInv, WaiterCountExact, [Next]_vars
  PROVE  WaiterCountExact'
<1> DEFINE Same == waiters' = waiters /\ \A m \in Mutexes : Waiting(m)' = Waiting(m)
<1> USE AfterLock, AfterRelease DEF TypeCore, ControlInv, Waiting, Goto, Stepto, At
<1>1. ASSUME UNCHANGED vars PROVE Same
  BY <1>1 DEF vars
<1>2. ASSUME NEW t \in Threads, TakeFree(t) PROVE Same
  BY <1>2 DEF TakeFree
<1>3. ASSUME NEW t \in Threads, GiveUp(t) PROVE Same
  BY <1>3 DEF GiveUp
<1>4. ASSUME NEW t \in Threads, FutexWait(t) PROVE Same
  BY <1>4 DEF FutexWait
<1>5. ASSUME NEW t \in Threads, Release(t) PROVE Same
  BY <1>5 DEF Release
<1>6. ASSUME NEW t \in Threads, Wake(t) PROVE Same
  BY <1>6 DEF Wake, SleepersOn
<1>7. ASSUME NEW t \in Threads, AddReader(t) PROVE Same
  BY <1>7 DEF AddReader, word
<1>8. ASSUME NEW t \in Threads, SetType(t) PROVE Same
  BY <1>8 DEF SetType, word
<1>9. ASSUME NEW t \in Threads, Unlock(t) PROVE Same
  BY <1>9 DEF Unlock, word
<1>10. ASSUME NEW t \in Threads, SubReader(t) PROVE Same
  BY <1>10 DEF SubReader, word
<1>11. ASSUME NEW t \in Threads, Call(t) PROVE Same
  BY <1>11 DEF Call, word, local
<1>12. ASSUME NEW t \in Threads, Interrupt(t) PROVE Same
  BY <1>12 DEF Interrupt
<1>13. ASSUME NEW t \in Threads, AddWaiter(t) PROVE WaiterCountExact'
  <2>0. PICK k \in Mutexes : k = MutexAt(pc[t])
    BY MutexAtType
  <2>1. /\ t \notin Waiting(k)
        /\ waiters' = [waiters EXCEPT ![k] = @ + 1]
        /\ Waiting(k)' = Waiting(k) \union {t}
        /\ \A m \in Mutexes \ {k} : Waiting(m)' = Waiting(m)
    BY <1>13, <2>0 DEF AddWaiter
  <2> HIDE DEF Waiting
  <2>2. \A m \in Mutexes \ {k} : waiters'[m] = Cardinality(Waiting(m)')
    BY <2>1 DEF WaiterCountExact
  <2>3. waiters'[k] = Cardinality(Waiting(k)')
    <3>1. waiters[k] = Cardinality(Waiting(k))
      BY DEF WaiterCountExact
    <3>2. Cardinality(Waiting(k) \union {t}) = Cardinality(Waiting(k)) + 1
      BY <2>1, WaiterSetFinite, FS_AddElement
    <3>3. waiters'[k] = waiters[k] + 1
      BY <2>1
    <3>4. QED
      BY <2>1, <3>1, <3>2, <3>3
  <2>4. QED
    BY <2>2, <2>3 DEF WaiterCountExact
<1>14. ASSUME NEW t \in Threads, DecWaiter(t) PROVE WaiterCountExact'
  <2>0. PICK k \in Mutexes : k = MutexAt(pc[t])
    BY MutexAtType
  <2>1. /\ t \in Waiting(k)
        /\ waiters' = [waiters EXCEPT ![k] = @ - 1]
        /\ Waiting(k)' = Waiting(k) \ {t}
        /\ \A m \in Mutexes \ {k} : Waiting(m)' = Waiting(m)
    BY <1>14, <2>0 DEF DecWaiter
  <2> HIDE DEF Waiting
  <2>2. \A m \in Mutexes \ {k} : waiters'[m] = Cardinality(Waiting(m)')
    BY <2>1 DEF WaiterCountExact
  <2>3. waiters'[k] = Cardinality(Waiting(k)')
    <3>1. waiters[k] = Cardinality(Waiting(k))
      BY DEF WaiterCountExact
    <3>2. Cardinality(Waiting(k) \ {t}) = Cardinality(Waiting(k)) - 1
      BY <2>1, WaiterSetFinite, FS_RemoveElement
    <3>3. waiters'[k] = waiters[k] - 1
      BY <2>1
    <3>4. QED
      BY <2>1, <3>1, <3>2, <3>3
  <2>4. QED
    BY <2>2, <2>3 DEF WaiterCountExact
<1> HIDE DEF Waiting
<1>15. ASSUME Same PROVE WaiterCountExact'
  BY <1>15 DEF WaiterCountExact
<1> HIDE DEF Same
<1>16. QED
  BY <1>1, <1>2, <1>3, <1>4, <1>5, <1>6, <1>7, <1>8, <1>9, <1>10, <1>11,
     <1>12, <1>13, <1>14, <1>15 DEF Next, Run

-----------------------------------------------------------------------------
(* The inductive invariant                                                 *)

\* Every waiter a thread is counted in is positive.
LEMMA WaitersPositive ==
  ASSUME WaiterCountExact
  PROVE  \A m \in Mutexes : /\ waiters[m] \in Nat
                            /\ Waiting(m) # {} => waiters[m] > 0
<1> TAKE m \in Mutexes
<1>1. waiters[m] = Cardinality(Waiting(m))
  BY DEF WaiterCountExact
<1>2. Cardinality(Waiting(m)) \in Nat /\ (Cardinality(Waiting(m)) = 0 <=> Waiting(m) = {})
  BY WaiterSetFinite, FS_CardinalityType, FS_EmptySet
<1>3. QED
  BY <1>1, <1>2

LEMMA InitInv == Init => IInv
<1> SUFFICES ASSUME Init PROVE IInv
  OBVIOUS
<1>1. TypeOK
  BY DEF Init, TypeOK
<1>2. ControlInv /\ GateInv /\ TypeByteInv
  BY DEF Init, ControlInv, GateInv, OwnsGate, TypeByteInv
<1>3. WrtInv
  BY DEF Init, WrtInv, OwnsWrt, GroupOwnsWrt, Entering, Group
<1>4. Group = {} /\ \A m \in Mutexes : Waiting(m) = {}
  BY DEF Init, Group, Waiting
<1>5. CountInv
  BY <1>4, FS_EmptySet DEF Init, CountInv, WaiterCountExact
<1>6. QED
  BY <1>1, <1>2, <1>3, <1>5 DEF IInv

\* prev is a natural number although waiters is only proved to be one in the
\* end: it is copied from waiters, plus one.
LEMMA PrevStep ==
  ASSUME TypeOK, [Next]_vars
  PROVE  prev' \in [Threads -> Nat]
BY MutexAtType DEF TypeOK, vars, Next, Run, TakeFree, GiveUp, AddWaiter,
  FutexWait, DecWaiter, Release, Wake, AddReader, SetType, Unlock, SubReader,
  Call, Interrupt, local

LEMMA InvStep == IInv /\ [Next]_vars => IInv'
<1> SUFFICES ASSUME IInv, [Next]_vars PROVE IInv'
  OBVIOUS
<1>1. TypeCore
  BY DEF IInv, TypeOK, TypeCore
<1>2. TypeCore' /\ ControlInv'
  BY <1>1, TypeCoreStep, ControlStep DEF IInv
<1>3. GateInv' /\ TypeByteInv'
  BY <1>1, GateStep, TypeByteStep DEF IInv
<1>4. WrtInv'
  BY <1>1, WrtStep DEF IInv
<1>5. CountInv'
  BY <1>1, GroupCountStep, WaiterCountStep DEF IInv, CountInv
<1>6. TypeOK'
  <2>1. readers' \in Nat
    <3>1. IsFiniteSet(Group')
      BY ThreadsFinite, FS_Subset DEF Group
    <3>2. QED
      BY <1>5, <3>1, FS_CardinalityType DEF CountInv
  <2>2. waiters' \in [Mutexes -> Nat]
    <3>1. \A m \in Mutexes : IsFiniteSet(Waiting(m)')
      BY ThreadsFinite, FS_Subset DEF Waiting
    <3>2. \A m \in Mutexes : waiters'[m] \in Nat
      BY <1>5, <3>1, FS_CardinalityType DEF CountInv, WaiterCountExact
    <3>3. QED
      BY <1>2, <3>2 DEF TypeCore
  <2>3. prev' \in [Threads -> Nat]
    BY PrevStep DEF IInv
  <2>4. QED
    BY <1>2, <2>1, <2>2, <2>3 DEF TypeCore, TypeOK
<1>7. QED
  BY <1>2, <1>3, <1>4, <1>5, <1>6 DEF IInv

\* The inductive invariant holds in every state of the lock.
THEOREM Invariance == Spec => []IInv
BY InitInv, InvStep, PTL DEF Spec

\* The counters are natural numbers and control is where it should be.
THEOREM TypeCorrect == Spec => []TypeOK
<1>1. IInv => TypeOK
  BY DEF IInv
<1>2. QED
  BY <1>1, Invariance, PTL

\* waiters is exact: it counts the threads inside bt_mutexlock that have added
\* themselves and not yet taken themselves off.
THEOREM CountsExact == Spec => []WaiterCountExact
<1>1. IInv => WaiterCountExact
  BY DEF IInv, CountInv
<1>2. QED
  BY <1>1, Invariance, PTL

-----------------------------------------------------------------------------
(* Mutual exclusion and the abstract lock                                  *)

LEMMA InvExcludes == IInv => MutualExclusion
<1> SUFFICES ASSUME IInv PROVE MutualExclusion
  OBVIOUS
<1>1. \A t \in HoldWrite : t \in Threads /\ OwnsWrt(t)
  BY DEF HoldWrite, OwnsWrt
<1>2. HoldRead # {} => GroupOwnsWrt
  BY DEF IInv, WrtInv, HoldRead, GroupOwnsWrt, Entering, Group
<1>3. QED
  BY <1>1, <1>2 DEF IInv, WrtInv, MutualExclusion

\* A writer that writeLock has returned to is alone, whatever the number of
\* threads and however the two mutexes, the counter and the byte interleave.
THEOREM Exclusion == Spec => []MutualExclusion
BY InvExcludes, Invariance, PTL

\* Every step of the lock is one step of RWLockSpec, or none.
LEMMA StepImplements ==
  ASSUME IInv, MutualExclusion', [Next]_vars
  PROVE  [Promise!AbsNext]_Promise!absVars
<1> USE AfterLock, AfterRelease DEF IInv, TypeOK, HoldWrite, HoldRead, At, Goto, Stepto
<1> DEFINE Stutter == HoldWrite' = HoldWrite /\ HoldRead' = HoldRead
<1>1. CASE UNCHANGED vars
  BY <1>1 DEF vars, Promise!absVars
<1>2. ASSUME NEW t \in Threads, TakeFree(t) PROVE Stutter
  BY <1>2 DEF TakeFree, ControlInv
<1>3. ASSUME NEW t \in Threads, GiveUp(t) PROVE Stutter
  BY <1>3 DEF GiveUp, ControlInv
<1>4. ASSUME NEW t \in Threads, AddWaiter(t) PROVE Stutter
  BY <1>4 DEF AddWaiter, ControlInv
<1>5. ASSUME NEW t \in Threads, FutexWait(t) PROVE Stutter
  BY <1>5 DEF FutexWait, ControlInv
<1>6. ASSUME NEW t \in Threads, DecWaiter(t) PROVE Stutter
  BY <1>6 DEF DecWaiter, ControlInv
<1>7. ASSUME NEW t \in Threads, AddReader(t) PROVE Stutter
  BY <1>7 DEF AddReader, word, ControlInv
<1>8. ASSUME NEW t \in Threads, SetType(t) PROVE Stutter
  BY <1>8 DEF SetType, word, ControlInv
<1>9. ASSUME NEW t \in Threads, SubReader(t) PROVE Stutter
  BY <1>9 DEF SubReader, word, ControlInv
<1>10. ASSUME NEW t \in Threads, Call(t) PROVE Stutter
  BY <1>10 DEF Call, word, local, ControlInv
<1>11. ASSUME NEW t \in Threads, Interrupt(t) PROVE Stutter
  BY <1>11 DEF Interrupt, ControlInv
<1>12. ASSUME NEW t \in Threads, Unlock(t) PROVE Promise!AbsNext
  BY <1>12 DEF Unlock, word, Promise!AbsNext, Promise!ReleaseWrite, Promise!ReleaseRead
<1>13. ASSUME NEW t \in Threads, Release(t) PROVE [Promise!AbsNext]_Promise!absVars
  <2>1. CASE pc[t] = "W_relx" /\ pc'[t] = "W_held"
    <3>1. /\ t \notin HoldWrite /\ HoldWrite' = HoldWrite \union {t}
          /\ HoldRead' = HoldRead
      BY <1>13, <2>1 DEF Release, SleepersOn
    <3> HIDE DEF HoldWrite, HoldRead
    <3>2. HoldWrite' = {t} /\ HoldRead' = {}
      BY <3>1 DEF MutualExclusion
    <3>3. QED
      BY <3>1, <3>2 DEF Promise!AbsNext, Promise!AcquireWrite
  <2>2. CASE pc[t] = "R_relx" /\ pc'[t] = "R_held"
    <3>1. /\ t \notin HoldRead /\ HoldRead' = HoldRead \union {t}
          /\ HoldWrite' = HoldWrite
      BY <1>13, <2>2 DEF Release, SleepersOn
    <3> HIDE DEF HoldWrite, HoldRead
    <3>2. HoldWrite' = {}
      BY <3>1 DEF MutualExclusion
    <3>3. QED
      BY <3>1, <3>2 DEF Promise!AbsNext, Promise!AcquireRead
  <2>3. CASE ~(pc'[t] \in {"W_held", "R_held"})
    <3>1. Stutter
      BY <1>13, <2>3 DEF Release, SleepersOn
    <3>2. QED
      BY <3>1 DEF Promise!absVars
  <2>4. QED
    BY <1>13, <2>1, <2>2, <2>3 DEF Release
<1>14. ASSUME NEW t \in Threads, Wake(t) PROVE [Promise!AbsNext]_Promise!absVars
  <2>1. CASE pc[t] = "W_relx" /\ pc'[t] = "W_held"
    <3>1. /\ t \notin HoldWrite /\ HoldWrite' = HoldWrite \union {t}
          /\ HoldRead' = HoldRead
      BY <1>14, <2>1 DEF Wake, SleepersOn
    <3> HIDE DEF HoldWrite, HoldRead
    <3>2. HoldWrite' = {t} /\ HoldRead' = {}
      BY <3>1 DEF MutualExclusion
    <3>3. QED
      BY <3>1, <3>2 DEF Promise!AbsNext, Promise!AcquireWrite
  <2>2. CASE pc[t] = "R_relx" /\ pc'[t] = "R_held"
    <3>1. /\ t \notin HoldRead /\ HoldRead' = HoldRead \union {t}
          /\ HoldWrite' = HoldWrite
      BY <1>14, <2>2 DEF Wake, SleepersOn
    <3> HIDE DEF HoldWrite, HoldRead
    <3>2. HoldWrite' = {}
      BY <3>1 DEF MutualExclusion
    <3>3. QED
      BY <3>1, <3>2 DEF Promise!AbsNext, Promise!AcquireRead
  <2>3. CASE ~(pc'[t] \in {"W_held", "R_held"})
    <3>1. Stutter
      BY <1>14, <2>3 DEF Wake, SleepersOn
    <3>2. QED
      BY <3>1 DEF Promise!absVars
  <2>4. QED
    BY <1>14, <2>1, <2>2, <2>3 DEF Wake
<1>15. QED
  BY <1>1, <1>2, <1>3, <1>4, <1>5, <1>6, <1>7, <1>8, <1>9, <1>10, <1>11, <1>12, <1>13, <1>14 DEF Next, Run, Promise!absVars

\* The futex lock implements the abstract reader/writer lock.
THEOREM Refinement == Spec => Implements
<1>1. Init => Promise!AbsInit
  BY DEF Init, Promise!AbsInit, HoldWrite, HoldRead
<1>2. QED
  BY <1>1, StepImplements, Invariance, Exclusion, PTL DEF Spec, Implements, Promise!AbsSpec

-----------------------------------------------------------------------------
(* Writers before readers                                                  *)

\* The group grows by AddReader alone, whose thread owns the gate.
LEMMA GroupGrows ==
  ASSUME IInv, [Next]_vars
  PROVE  \A u \in Group' : u \in Group \/ OwnsGate(u)
<1> USE AfterLock, AfterRelease DEF IInv, TypeOK, ControlInv, Group, OwnsGate,
    At, Goto, Stepto
<1> DEFINE Goal == \A u \in Group' : u \in Group \/ OwnsGate(u)
<1>1. CASE UNCHANGED vars
  BY <1>1 DEF vars
<1>2. ASSUME NEW t \in Threads, TakeFree(t) PROVE Goal
  BY <1>2 DEF TakeFree
<1>3. ASSUME NEW t \in Threads, GiveUp(t) PROVE Goal
  BY <1>3 DEF GiveUp
<1>4. ASSUME NEW t \in Threads, AddWaiter(t) PROVE Goal
  BY <1>4 DEF AddWaiter
<1>5. ASSUME NEW t \in Threads, FutexWait(t) PROVE Goal
  BY <1>5 DEF FutexWait
<1>6. ASSUME NEW t \in Threads, DecWaiter(t) PROVE Goal
  BY <1>6 DEF DecWaiter
<1>7. ASSUME NEW t \in Threads, Release(t) PROVE Goal
  BY <1>7 DEF Release
<1>8. ASSUME NEW t \in Threads, Wake(t) PROVE Goal
  BY <1>8 DEF Wake, SleepersOn
<1>9. ASSUME NEW t \in Threads, AddReader(t) PROVE Goal
  BY <1>9 DEF AddReader, word
<1>10. ASSUME NEW t \in Threads, SetType(t) PROVE Goal
  BY <1>10 DEF SetType, word
<1>11. ASSUME NEW t \in Threads, Unlock(t) PROVE Goal
  BY <1>11 DEF Unlock, word, TypeByteInv
<1>12. ASSUME NEW t \in Threads, SubReader(t) PROVE Goal
  BY <1>12 DEF SubReader, word
<1>13. ASSUME NEW t \in Threads, Call(t) PROVE Goal
  BY <1>13 DEF Call, word, local
<1>14. ASSUME NEW t \in Threads, Interrupt(t) PROVE Goal
  BY <1>14 DEF Interrupt
<1>15. QED
  BY <1>1, <1>2, <1>3, <1>4, <1>5, <1>6, <1>7, <1>8, <1>9, <1>10, <1>11, <1>12, <1>13, <1>14 DEF Next, Run

\* No reader joins the group a writer is waiting for.
THEOREM Barrier == Spec => WriterBarrier
<1>1. ASSUME IInv, [Next]_vars, NEW t \in Threads, pc[t] = "W_wrt"
      PROVE  Group' \subseteq Group
  <2>1. ASSUME NEW u \in Group', u \notin Group PROVE FALSE
    <3>1. OwnsGate(u) /\ OwnsGate(t) /\ u \in Threads
      BY <1>1, <2>1, GroupGrows DEF OwnsGate, Group
    <3>2. u = t
      BY <1>1, <3>1 DEF IInv, GateInv
    <3>3. pc'[t] \in {"W_wrt", "W_type"}
      BY <1>1, AfterLock DEF IInv, TypeOK, vars, Next, Run, TakeFree, GiveUp,
        AddWaiter, FutexWait, DecWaiter, Release, Wake, AddReader, SetType,
        Unlock, SubReader, Call, Interrupt, At, Goto, Stepto, SleepersOn
    <3>4. QED
      BY <2>1, <3>2, <3>3 DEF Group
  <2>2. QED
    BY <2>1
<1>2. IInv /\ [Next]_vars =>
        [(\E t \in Threads : pc[t] = "W_wrt") => Group' \subseteq Group]_vars
  BY <1>1
<1>3. QED
  BY <1>2, Invariance, PTL DEF Spec, WriterBarrier

-----------------------------------------------------------------------------
(* No lost wakeup                                                          *)

\* Whoever is taking itself off the count of a mutex has that mutex.
LEMMA DecwOwns ==
  ASSUME IInv, NEW t \in Threads, step[t] = "decw"
  PROVE  xcl[MutexAt(pc[t])] = 1
BY DEF IInv, TypeOK, ControlInv, GateInv, WrtInv, OwnsGate, OwnsWrt,
   GroupOwnsWrt, Entering, Group, MutexAt

\* A mutex nobody sleeps on, one that is taken, and one whose sleepers are
\* about to be woken or to be replaced by a waiter that is awake, are safe.
LEMMA WakeupStep ==
  ASSUME IInv, NoLostWakeup, [Next]_vars
  PROVE  NoLostWakeup'
<1>0. /\ \A m \in Mutexes : Waiting(m) # {} => waiters[m] > 0
      /\ \A u \in asleep : u \in Threads /\ u \in Waiting(MutexAt(pc[u]))
  BY WaitersPositive DEF IInv, CountInv, ControlInv, TypeOK, Waiting
<1> USE AfterLock, AfterRelease, MutexAtType DEF IInv, TypeOK, ControlInv,
    NoLostWakeup, SleepersOn, Waiting, At, Goto, Stepto
<1>1. CASE UNCHANGED vars
  BY <1>1 DEF vars
<1>2. ASSUME NEW t \in Threads, TakeFree(t) PROVE NoLostWakeup'
  BY <1>2 DEF TakeFree
<1>3. ASSUME NEW t \in Threads, GiveUp(t) PROVE NoLostWakeup'
  BY <1>3 DEF GiveUp
<1>4. ASSUME NEW t \in Threads, AddWaiter(t) PROVE NoLostWakeup'
  BY <1>4 DEF AddWaiter
<1>5. ASSUME NEW t \in Threads, FutexWait(t) PROVE NoLostWakeup'
  BY <1>5 DEF FutexWait
<1>6. ASSUME NEW t \in Threads, DecWaiter(t) PROVE NoLostWakeup'
  BY DecwOwns, <1>6 DEF DecWaiter
<1>7. ASSUME NEW t \in Threads, Release(t) PROVE NoLostWakeup'
  BY <1>0, <1>7 DEF Release
<1>8. ASSUME NEW t \in Threads, Wake(t) PROVE NoLostWakeup'
  BY <1>8 DEF Wake, SleepersOn
<1>9. ASSUME NEW t \in Threads, AddReader(t) PROVE NoLostWakeup'
  BY <1>9 DEF AddReader, word
<1>10. ASSUME NEW t \in Threads, SetType(t) PROVE NoLostWakeup'
  BY <1>10 DEF SetType, word
<1>11. ASSUME NEW t \in Threads, Unlock(t) PROVE NoLostWakeup'
  BY <1>11 DEF Unlock, word
<1>12. ASSUME NEW t \in Threads, SubReader(t) PROVE NoLostWakeup'
  BY <1>12 DEF SubReader, word
<1>13. ASSUME NEW t \in Threads, Call(t) PROVE NoLostWakeup'
  BY <1>13 DEF Call, word, local
<1>14. ASSUME NEW t \in Threads, Interrupt(t) PROVE NoLostWakeup'
  BY <1>14 DEF Interrupt
<1>15. QED
  BY <1>1, <1>2, <1>3, <1>4, <1>5, <1>6, <1>7, <1>8, <1>9, <1>10, <1>11, <1>12, <1>13, <1>14 DEF Next, Run

\* A thread never sleeps in FUTEX_WAIT on a mutex that nobody will wake it from.
THEOREM Wakeups == Spec => []NoLostWakeup
<1>1. Init => NoLostWakeup
  BY DEF Init, NoLostWakeup, SleepersOn
<1>2. QED
  BY <1>1, WakeupStep, Invariance, PTL DEF Spec
=============================================================================
