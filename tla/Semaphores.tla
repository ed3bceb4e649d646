----------------------------- MODULE Semaphores -----------------------------
(***************************************************************************)
(* The two wrappers of sem_t: SemaphoreOps and Semaphore of concurrent/    *)
(* sem.h, and the Semaphore of fiber/fiber_mutex.*.  sem_t itself is       *)
(* external: a number that is taken down when it is positive.  A user      *)
(* gives back what a wrapper told him he has.                              *)
(***************************************************************************)
EXTENDS Integers, FiniteSets

CONSTANTS SemUser,
          Permits,       \* the value the semaphore is made with
          Second         \* nanoseconds in a second

ASSUME SemAssumption == Permits \in Nat /\ Second \in Nat \ {0}
ASSUME SemUserAssumption == IsFiniteSet(SemUser)

VARIABLES semKind,   \* "sem" or "fiber"
          semValue,
          semAt,     \* where each thread is
          unpaid     \* the permits Acquire() returned without

semVars == <<semKind, semValue, semAt, unpaid>>

SemInit ==
  /\ semKind \in {"sem", "fiber"} /\ semValue = Permits /\ unpaid = 0
  /\ semAt = [th \in SemUser |-> "out"]

SemGoes(th, place) == semAt' = [semAt EXCEPT ![th] = place]
Take(th) == semValue > 0 /\ semValue' = semValue - 1 /\ SemGoes(th, "has")

AcquireCall(th) ==
  semAt[th] = "out" /\ SemGoes(th, "waiting") /\ UNCHANGED <<semKind, semValue, unpaid>>
AcquireReturns(th) ==
  semAt[th] = "waiting" /\ Take(th) /\ UNCHANGED <<semKind, unpaid>>
(* sem_wait() is interrupted by a signal handler.  Acquire() does not look;  *)
(* the fibers' wait() throws.                                               *)
AfterInterrupt == IF semKind = "sem" THEN "has" ELSE "out"
WaitInterrupted(th) ==
  /\ semAt[th] = "waiting" /\ SemGoes(th, AfterInterrupt)
  /\ unpaid' = IF semKind = "sem" THEN unpaid + 1 ELSE unpaid
  /\ UNCHANGED <<semKind, semValue>>

TryAcquire(th) ==
  semKind = "sem" /\ semAt[th] = "out" /\ Take(th) /\ UNCHANGED <<semKind, unpaid>>

(* TimedAcquire(): the timeout is added to the nanoseconds alone.  With a    *)
(* second's worth of them or more the call is refused, at once or when it    *)
(* would have to wait: POSIX allows both.                                    *)
ValidTime(nsec, timeout) == nsec + timeout < Second
TimedAcquireCall(th) ==
  /\ semKind = "sem" /\ semAt[th] = "out"
  /\ \E nsec \in 0 .. Second - 1, timeout \in 1 .. Second :
       \/ ValidTime(nsec, timeout) /\ SemGoes(th, "timed") /\ UNCHANGED semValue
       \/ ~ValidTime(nsec, timeout) /\ Take(th)
  /\ UNCHANGED <<semKind, unpaid>>
TimedAcquireReturns(th) ==
  /\ semAt[th] = "timed"
  /\ Take(th) \/ (SemGoes(th, "out") /\ UNCHANGED semValue)
  /\ UNCHANGED <<semKind, unpaid>>

ReleasedValue == semValue + 1
SemRelease(th) ==
  /\ semAt[th] = "has" /\ semValue' = ReleasedValue /\ SemGoes(th, "out")
  /\ UNCHANGED <<semKind, unpaid>>

SemNext ==
  /\ \E th \in SemUser :
       \/ AcquireCall(th) \/ AcquireReturns(th) \/ WaitInterrupted(th) \/ TryAcquire(th)
       \/ TimedAcquireCall(th) \/ TimedAcquireReturns(th) \/ SemRelease(th)
  /\ unpaid' <= Cardinality(SemUser)       \* bound
-----------------------------------------------------------------------------
(* sem.h:11-28, fiber_mutex.cc:13-23: the permits that are out and those in  *)
(* the semaphore add up, through timeouts and exceptions, to what it was     *)
(* made with and one for every Acquire() that was interrupted.              *)
PermitsBalance ==
  /\ semValue + Cardinality({th \in SemUser : semAt[th] = "has"}) = Permits + unpaid
  /\ semKind = "fiber" => unpaid = 0
=============================================================================
