----------------------------- MODULE MutexLock -----------------------------
(***************************************************************************)
(* What every class derived from Lock (concurrent/lock.h) promises: at     *)
(* most one thread holds the lock, lock() and a successful try_lock() take *)
(* it when it is free, and only its holder gives it back.                  *)
(***************************************************************************)
CONSTANTS Thread,
          Nobody        \* the holder of a free lock, not a thread

VARIABLE holder

LockTypeOK == holder \in Thread \cup {Nobody}

LockInit == holder = Nobody

Acquire(th) == holder = Nobody /\ holder' = th
Release(th) == holder = th /\ holder' = Nobody

LockNext == \E th \in Thread : Acquire(th) \/ Release(th)

LockSpec == LockInit /\ [][LockNext]_holder
=============================================================================
