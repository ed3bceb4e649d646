------------------------------- MODULE Locks -------------------------------
(***************************************************************************)
(* The classes derived from Lock and SharedLock: SimpleSpinLock,           *)
(* AtomicSpinLock and PosixSpinLock of concurrent/spinlock.h, MutexBase and *)
(* NullLock of concurrent/mutex.h, PosixRWLock of concurrent/rwlock.h.     *)
(* CommonScopedLocker (concurrent/scoped_locker.h) is a call of lock() and *)
(* one of unlock().  A behaviour is that of one lock; the pthread locks    *)
(* below it are external.                                                  *)
(***************************************************************************)
EXTENDS Integers, FiniteSets

CONSTANTS Thread, Nobody,
          MaxReaders     \* bound: shared locks that nobody knows he holds included

ASSUME NobodyAssumption == Nobody \notin Thread /\ MaxReaders \in Nat
ASSUME ThreadsAssumption == IsFiniteSet(Thread)

VARIABLES lockKind,
          taken,     \* flag, lockState, m_locked, or the pthread lock taken for writing
          readers,   \* how often the pthread lock is taken for reading
          owner,     \* m_owner, m_pid
          lockAt,    \* where each thread is
          misled     \* did a try function say the opposite of what it did?

lockVars == <<lockKind, taken, readers, owner, lockAt, misled>>

RwKinds == {"rw", "rw_writer"}     \* kKindPreferReader (and Default), kKindPreferWriter
LockInit ==
  /\ lockKind \in {"simple", "atomic", "posix", "mutex", "null"} \cup RwKinds
  /\ taken = FALSE /\ readers = 0 /\ owner = Nobody /\ misled = FALSE
  /\ lockAt = [th \in Thread |-> "out"]

Goes(th, place) == lockAt' = [lockAt EXCEPT ![th] = place]
(* Mutant: the word is not tested. *)
FreeOfReaders == readers = 0
Free == ~taken /\ readers = 0

(* lock(): a call begins, and gets through when the word is free.  The      *)
(* outer loop of AtomicSpinLock exchanges, the inner one waits and reads.   *)
LockCall(th) ==
  /\ lockAt[th] = "out" /\ Goes(th, "trying")
  /\ UNCHANGED <<lockKind, taken, readers, owner, misled>>
NullAcquire(th) ==
  /\ lockKind = "null" /\ lockAt[th] = "trying"
  /\ taken' = TRUE /\ owner' = th /\ Goes(th, "in")
  /\ UNCHANGED <<lockKind, readers, misled>>
GetIn(th) == taken' = TRUE /\ Goes(th, IF lockKind = "posix" THEN "got" ELSE "in")
AcquireLock(th) ==
  /\ lockKind # "null" /\ lockAt[th] = "trying" /\ Free /\ GetIn(th)
  /\ UNCHANGED <<lockKind, readers, owner, misled>>
ExchangeFails(th) ==
  /\ lockKind = "atomic" /\ lockAt[th] = "trying" /\ taken /\ Goes(th, "spin")
  /\ UNCHANGED <<lockKind, taken, readers, owner, misled>>
SpinReads(th) ==
  /\ lockAt[th] = "spin" /\ ~taken /\ Goes(th, "trying")
  /\ UNCHANGED <<lockKind, taken, readers, owner, misled>>
(* PosixSpinLock notes its owner when it has the lock, and forgets it before *)
(* it gives it back.                                                        *)
SetOwner(th) ==
  /\ lockAt[th] = "got" /\ owner' = th /\ Goes(th, "in")
  /\ UNCHANGED <<lockKind, taken, readers, misled>>
ClearOwner(th) ==
  /\ lockKind = "posix" /\ lockAt[th] = "in" /\ owner' = Nobody /\ Goes(th, "leaving")
  /\ UNCHANGED <<lockKind, taken, readers, misled>>
(* Mutant: the lock is given back before the owner is cleared. *)
UnlockFirst == "in"
UnlockPlace == IF lockKind = "posix" THEN "leaving" ELSE "in"
Unlock(th) ==
  /\ lockAt[th] = UnlockPlace /\ taken' = FALSE /\ Goes(th, "out")
  /\ UNCHANGED <<lockKind, readers, owner, misled>>

(* try_lock(), where it does something.  PosixSpinLock takes the error code  *)
(* for success: it fails with the lock, and succeeds without it.            *)
TryLock(th) ==
  /\ lockAt[th] = "out" /\ UNCHANGED <<lockKind, readers>>
  /\ \/ /\ lockKind \notin {"posix", "null"} /\ Free /\ GetIn(th) /\ UNCHANGED <<owner, misled>>
     \/ /\ lockKind = "null" /\ taken' = TRUE /\ owner' = th /\ Goes(th, "in")
        /\ UNCHANGED misled
     \/ /\ lockKind = "posix" /\ misled' = TRUE /\ UNCHANGED owner
        /\ taken' = TRUE /\ IF taken THEN Goes(th, "got") ELSE UNCHANGED lockAt

(* PosixRWLock's shared half.  A lock that prefers writers lets no reader in *)
(* while a writer waits.                                                    *)
WriterWaits == \E th \in Thread : lockAt[th] = "trying"
(* Mutant: no preference. *)
OpenToAll == ~taken
OpenToReaders == ~taken /\ (lockKind = "rw_writer" => ~WriterWaits)
LockSharedCall(th) ==
  /\ lockKind \in RwKinds /\ lockAt[th] = "out" /\ Goes(th, "reading")
  /\ UNCHANGED <<lockKind, taken, readers, owner, misled>>
AcquireShared(th) ==
  /\ lockAt[th] = "reading" /\ OpenToReaders /\ (misled => readers < MaxReaders)
  /\ readers' = readers + 1 /\ Goes(th, "shared")
  /\ UNCHANGED <<lockKind, taken, owner, misled>>
(* try_lock_shared() returns the error code as a bool.                      *)
TryLockShared(th) ==
  /\ lockKind \in RwKinds /\ lockAt[th] = "out" /\ readers < MaxReaders /\ misled' = TRUE
  /\ IF OpenToReaders THEN readers' = readers + 1 /\ UNCHANGED lockAt
                      ELSE Goes(th, "shared") /\ UNCHANGED readers
  /\ UNCHANGED <<lockKind, taken, owner>>
(* pthread_rwlock_unlock() gives back whatever is taken; undefined, and not  *)
(* followed any further, if nothing is.                                     *)
UnlockShared(th) ==
  /\ lockAt[th] = "shared" /\ ~Free /\ Goes(th, "out")
  /\ taken' = FALSE /\ readers' = IF taken THEN readers ELSE readers - 1
  /\ UNCHANGED <<lockKind, owner, misled>>

LockStep(th) ==      \* what a call that has begun, or a holder, goes on to do
  \/ NullAcquire(th) \/ AcquireLock(th) \/ ExchangeFails(th) \/ SpinReads(th)
  \/ SetOwner(th) \/ ClearOwner(th) \/ Unlock(th) \/ AcquireShared(th) \/ UnlockShared(th)
LockNext ==
  \E th \in Thread :
    LockStep(th) \/ LockCall(th) \/ TryLock(th) \/ LockSharedCall(th) \/ TryLockShared(th)
LockFairness == \A th \in Thread : WF_lockVars(LockStep(th))
-----------------------------------------------------------------------------
ThreadsAt(places) == {th \in Thread : lockAt[th] \in places}
Sound == ~misled /\ lockKind # "null"

(* lock.h: each lock class is a lock for as long as no try function has     *)
(* given a wrong answer; NullLock never is one.                             *)
LockHolder ==
  IF Sound /\ taken THEN CHOOSE th \in Thread : th \in ThreadsAt({"got", "in", "leaving"}) ELSE Nobody
AbstractLock == INSTANCE MutexLock WITH holder <- LockHolder
ClassesImplementLock == AbstractLock!LockSpec

(* rwlock.h:47-69, spinlock.h:73-89: readers and a writer exclude each other *)
(* and are all counted; an owner that is noted is the one inside.           *)
HoldersAreKnown ==
  Sound =>
    /\ readers = Cardinality(ThreadsAt({"shared"}))
    /\ taken => readers = 0
    /\ Cardinality(ThreadsAt({"got", "in", "leaving"})) = IF taken THEN 1 ELSE 0
    /\ owner # Nobody => ThreadsAt({"in"}) = {owner}

(* rwlock.h:18-23, spinlock.h:34-44: whoever calls lock() waits for other   *)
(* callers of lock() only; where writers are preferred, or there are no     *)
(* readers, somebody always gets in.                                        *)
LockersGetIn ==
  lockKind # "rw" => \A th \in Thread :
    lockAt[th] \in {"trying", "spin"} ~> misled \/ ThreadsAt({"in"}) # {}
=============================================================================
