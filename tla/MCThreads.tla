------------------------------ MODULE MCThreads ------------------------------
(***************************************************************************)
(* The locks, semaphores, threads and coroutines.  They share no state: a  *)
(* behaviour is one of one part.                                           *)
(***************************************************************************)
EXTENDS Locks, Semaphores, BaseThreads, FiberThreads, Singletons, Fibers, UThreads

VARIABLE part               \* which part this behaviour is about

allVars == <<part, lockVars, semVars, baseVars, fthreadVars, singletonVars, fiberVars, uthreadVars>>

ThreadsInit ==
  /\ part \in {"locks", "semaphores", "base", "fthreads", "singletons", "fibers", "uthreads"}
  /\ LockInit /\ SemInit /\ BaseInit /\ FthreadInit /\ SingletonInit /\ FiberInit /\ UthreadInit
  /\ part = "locks" \/ lockKind = "mutex"            \* what the other parts do not look at
  /\ part = "semaphores" \/ semKind = "sem"
  /\ part = "base" \/ ~detachedAttr
ThreadsNext ==
  /\ UNCHANGED part
  /\ \/ /\ part = "locks" /\ LockNext
        /\ UNCHANGED <<semVars, baseVars, fthreadVars, singletonVars, fiberVars, uthreadVars>>
     \/ /\ part = "semaphores" /\ SemNext
        /\ UNCHANGED <<lockVars, baseVars, fthreadVars, singletonVars, fiberVars, uthreadVars>>
     \/ /\ part = "base" /\ BaseNext
        /\ UNCHANGED <<lockVars, semVars, fthreadVars, singletonVars, fiberVars, uthreadVars>>
     \/ /\ part = "fthreads" /\ FthreadNext
        /\ UNCHANGED <<lockVars, semVars, baseVars, singletonVars, fiberVars, uthreadVars>>
     \/ /\ part = "singletons" /\ SingletonNext
        /\ UNCHANGED <<lockVars, semVars, baseVars, fthreadVars, fiberVars, uthreadVars>>
     \/ /\ part = "fibers" /\ FiberNext
        /\ UNCHANGED <<lockVars, semVars, baseVars, fthreadVars, singletonVars, uthreadVars>>
     \/ /\ part = "uthreads" /\ UthreadNext
        /\ UNCHANGED <<lockVars, semVars, baseVars, fthreadVars, singletonVars, fiberVars>>
(* The calls that fairness makes go on have not begun in the other parts.   *)
ThreadsSpec ==
  /\ ThreadsInit /\ [][ThreadsNext]_allVars
  /\ LockFairness /\ BaseFairness /\ FthreadFairness
-----------------------------------------------------------------------------
(* concurrent/sem.h, rwlock.h, spinlock.h, base_thread.*, fiber_thread.*,    *)
(* singleton.h: what is held, started and built is what its users think.    *)
HandoversAreSound == PermitsBalance /\ ObjectKnowsItsThread /\ BuiltMeansStarted /\ OneInstanceForAll

(* fiber/fibers.cc, coroutine/uthread.h: tables and thread-local pointers    *)
(* follow the contexts that run.                                            *)
CoroutinesKeepState == FibersFollowContext /\ SlotsFollowCoroutines

(* spinlock.h, rwlock.h, base_thread.cc, fiber_thread.cc: who calls lock(),  *)
(* GetId(), join() or a constructor gets an answer.                         *)
NobodyWaitsForEver == LockersGetIn /\ CallersGetAnswers /\ MakersReturn
=============================================================================
