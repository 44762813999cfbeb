----------------------------- MODULE RWLockSpec -----------------------------
(***************************************************************************)
(* What the reader/writer lock of jsdb_rwlock.c promises to the pages,     *)
(* handles and child lists it protects: at any time the lock is held by    *)
(* one writer, or by any number of readers, or by nobody.  The btree page  *)
(* latches (jsdb_dbbtree.h:9-16) rely on exactly this and on nothing else. *)
(***************************************************************************)
CONSTANT Threads

VARIABLES
  writers,      \* threads between the return of writeLock and rwUnlock
  readers       \* threads between the return of readLock and rwUnlock

absVars == <<writers, readers>>

AbsInit == writers = {} /\ readers = {}

AcquireWrite(t) ==
  /\ writers = {} /\ readers = {}
  /\ writers' = {t}
  /\ UNCHANGED readers

AcquireRead(t) ==
  /\ writers = {} /\ t \notin readers
  /\ readers' = readers \union {t}
  /\ UNCHANGED writers

ReleaseWrite(t) ==
  /\ t \in writers
  /\ writers' = writers \ {t}
  /\ UNCHANGED readers

ReleaseRead(t) ==
  /\ t \in readers
  /\ readers' = readers \ {t}
  /\ UNCHANGED writers

AbsNext ==
  \E t \in Threads :
    AcquireWrite(t) \/ AcquireRead(t) \/ ReleaseWrite(t) \/ ReleaseRead(t)

AbsSpec == AbsInit /\ [][AbsNext]_absVars
=============================================================================
