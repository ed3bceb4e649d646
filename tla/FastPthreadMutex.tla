-------------------------- MODULE FastPthreadMutex --------------------------
(***************************************************************************)
(* FastPthreadMutex of concurrent/mutex.h and mutex.cc, the futex calls of *)
(* concurrent/sys_futex.h, and the client that mutex_test.cc runs: every   *)
(* thread takes the mutex Rounds times and increments a plain counter in   *)
(* its critical section.                                                   *)
(*                                                                         *)
(* The lock word is the union of two bytes, locked and contended.  Only    *)
(* three of its values occur: 0 (free), LOCKED (1) and CONTENDED (257).    *)
(*                                                                         *)
(* A sleep in futex_wait ends by a wake-up, for no reason (the kernel may  *)
(* do that), or because a signal handler ran: then the call fails with     *)
(* EINTR.                                                                  *)
(***************************************************************************)
EXTENDS Integers, FiniteSets

CONSTANTS Thread,
          Nobody,       \* no thread: the holder of a free mutex
          Rounds        \* bound: how often each thread takes the mutex

ASSUME RoundsAssumption == Rounds \in Nat
ASSUME NobodyAssumption == Nobody \notin Thread

LOCKED == 1             \* BTHREAD_MUTEX_LOCKED
CONTENDED == 257        \* BTHREAD_MUTEX_CONTENDED

VARIABLES futex,        \* _futex
          asleep,       \* the threads that sleep in the kernel on _futex
          pc,           \* where each thread is
          left,         \* how often it will still take the mutex
          counter, seen,        \* the client's counter, and what each thread has read of it
          interrupted   \* history: has a signal interrupted futex_wait so far?

vars == <<futex, asleep, pc, left, counter, seen, interrupted>>

TypeOK == /\ futex \in {0, LOCKED, CONTENDED}
          /\ asleep \subseteq Thread
          /\ pc \in [Thread -> {"out", "contend", "wait", "sleep", "read", "write",
                                "unlock", "wake"}]
          /\ left \in [Thread -> 0 .. Rounds]
          /\ counter \in Nat /\ seen \in [Thread -> Nat]
          /\ interrupted \in BOOLEAN

Init == /\ futex = 0 /\ asleep = {}
        /\ pc = [th \in Thread |-> "out"]
        /\ left = [th \in Thread |-> Rounds]
        /\ counter = 0 /\ seen = [th \in Thread |-> 0]
        /\ interrupted = FALSE

Goto(th, place) == pc' = [pc EXCEPT ![th] = place]

(* What an exchange of the lock word or of its locked byte has replaced.    *)
(* Mutant: compared with LOCKED instead of masked with it.                  *)
NotLocked == futex # LOCKED
WasFree == futex = 0

(* The thread is back in its caller, which believes to hold the mutex. *)
Enter(th) == Goto(th, "read") /\ left' = [left EXCEPT ![th] = @ - 1]

-----------------------------------------------------------------------------
(* The byte exchange that lock() and try_lock() begin with: it leaves the   *)
(* contended byte as it is.                                                 *)
SetLockedByte == futex' = IF futex = CONTENDED THEN CONTENDED ELSE LOCKED

LockCall(th) ==
  /\ pc[th] = "out" /\ left[th] > 0
  /\ SetLockedByte
  /\ IF WasFree THEN Enter(th) ELSE Goto(th, "contend") /\ UNCHANGED left
  /\ UNCHANGED <<asleep, counter, seen, interrupted>>

TryLock(th) ==
  /\ pc[th] = "out" /\ left[th] > 0
  /\ SetLockedByte
  /\ IF WasFree THEN Enter(th) ELSE UNCHANGED <<pc, left>>
  /\ UNCHANGED <<asleep, counter, seen, interrupted>>

(* lock_contended(): exchange the whole word, *)
Contend(th) ==
  /\ pc[th] = "contend"
  /\ futex' = CONTENDED
  /\ IF WasFree THEN Enter(th) ELSE Goto(th, "wait") /\ UNCHANGED left
  /\ UNCHANGED <<asleep, counter, seen, interrupted>>

(* then sleep if the word is still CONTENDED, or else (EWOULDBLOCK) retry. *)
FutexWait(th) ==
  /\ pc[th] = "wait"
  /\ IF futex = CONTENDED
     THEN Goto(th, "sleep") /\ asleep' = asleep \cup {th}
     ELSE Goto(th, "contend") /\ UNCHANGED asleep
  /\ UNCHANGED <<futex, left, counter, seen, interrupted>>

SpuriousWakeup(th) ==
  /\ th \in asleep
  /\ asleep' = asleep \ {th}
  /\ Goto(th, "contend")
  /\ UNCHANGED <<futex, left, counter, seen, interrupted>>

(* EINTR: lock_contended() returns the error and lock() drops it. *)
Interrupted(th) ==
  /\ th \in asleep
  /\ asleep' = asleep \ {th}
  /\ Enter(th)
  /\ interrupted' = TRUE
  /\ UNCHANGED <<futex, counter, seen>>

-----------------------------------------------------------------------------
(* The critical section of the client: counter++ on a plain int. *)
ReadCounter(th) ==
  /\ pc[th] = "read"
  /\ seen' = [seen EXCEPT ![th] = counter]
  /\ Goto(th, "write")
  /\ UNCHANGED <<futex, asleep, left, counter, interrupted>>

WriteCounter(th) ==
  /\ pc[th] = "write"
  /\ counter' = seen[th] + 1
  /\ Goto(th, "unlock")
  /\ UNCHANGED <<futex, asleep, left, seen, interrupted>>

-----------------------------------------------------------------------------
(* Mutant: the test for sleepers the wrong way round. *)
WakeIfLocked == futex = LOCKED
MustWake == futex # LOCKED

Unlock(th) ==
  /\ pc[th] = "unlock"
  /\ futex' = 0
  /\ Goto(th, IF MustWake THEN "wake" ELSE "out")
  /\ UNCHANGED <<asleep, left, counter, seen, interrupted>>

(* futex_wake_private(whole, 1) wakes one sleeper, whichever, if there is one. *)
FutexWake(th) ==
  /\ pc[th] = "wake"
  /\ IF asleep = {}
     THEN Goto(th, "out") /\ UNCHANGED asleep
     ELSE \E sleeper \in asleep :
            /\ asleep' = asleep \ {sleeper}
            /\ pc' = [pc EXCEPT ![th] = "out", ![sleeper] = "contend"]
  /\ UNCHANGED <<futex, left, counter, seen, interrupted>>

-----------------------------------------------------------------------------
ThreadStep(th) == \/ LockCall(th) \/ Contend(th) \/ FutexWait(th)
                  \/ ReadCounter(th) \/ WriteCounter(th)
                  \/ Unlock(th) \/ FutexWake(th)

(* The threads of the test end after their last round. *)
AllDone == \A th \in Thread : left[th] = 0 /\ pc[th] = "out"
Finished == AllDone /\ UNCHANGED vars

Next == \/ \E th \in Thread : \/ ThreadStep(th) \/ TryLock(th)
                              \/ SpuriousWakeup(th) \/ Interrupted(th)
        \/ Finished

(***************************************************************************)
(* Fairness.  The scheduler lets every runnable thread run.  A sleeper     *)
(* cannot count on a spurious wake-up or a signal, and nobody has to call  *)
(* try_lock().                                                             *)
(***************************************************************************)
Spec == Init /\ [][Next]_vars
FairSpec == Spec /\ \A th \in Thread : WF_vars(ThreadStep(th))

-----------------------------------------------------------------------------
Inside == {th \in Thread : pc[th] \in {"read", "write", "unlock"}}

(* At most one thread is between lock() and the exchange of unlock(), as    *)
(* long as no signal has made lock() return early.                          *)
MutualExclusion == ~interrupted => \A p, q \in Inside : p = q

(* No wake-up is lost: while a thread sleeps, either the word tells the     *)
(* next unlock() to wake somebody, or a thread is about to wake one, or one *)
(* that is awake will mark the word again (fast path of lock() against the  *)
(* contended byte that unlock() has cleared).                               *)
NoLostWakeup ==
  asleep # {} => \/ futex = CONTENDED
                 \/ \E th \in Thread : pc[th] \in {"wake", "contend"}

(* The assertion at the end of the test: no increment is lost.              *)
CounterIsExact ==
  AllDone => counter = Rounds * Cardinality(Thread)

(* lock(), try_lock() and unlock() are those of a lock, up to the moment    *)
(* when a signal interrupts lock() (from there on, nobody is said to hold). *)
Holder == IF Inside = {} \/ interrupted THEN Nobody ELSE CHOOSE th \in Thread : th \in Inside
Abstract == INSTANCE MutexLock WITH holder <- Holder
ImplementsLock == Abstract!LockSpec

(* Every thread gets all its rounds: nobody sleeps for ever.                *)
EverybodyFinishes == <>AllDone
=============================================================================
