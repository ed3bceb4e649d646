----------------------- MODULE FastPthreadMutexProofs -----------------------
(***************************************************************************)
(* For every set of threads and every number of rounds, FastPthreadMutex   *)
(* loses no wake-up, and it is a lock until a signal interrupts a wait.    *)
(*                                                                         *)
(* The invariant ties the word to the critical section: the word is 0      *)
(* exactly when nobody is inside.  Mutual exclusion alone is not           *)
(* inductive, because a thread enters on reading 0.  Both hold until the   *)
(* first interrupted wait; from there on the lock promises nothing.        *)
(***************************************************************************)
EXTENDS FastPthreadMutex, TLAPS

(* A thread sleeps exactly when it is in the kernel's wait set, and one     *)
(* that waits for the mutex has a round to spend on it.                     *)
SleepersWait == /\ asleep = {th \in Thread : pc[th] = "sleep"}
                /\ \A th \in Thread : pc[th] \in {"contend", "wait", "sleep"} => left[th] > 0

WordTellsHolder == ~interrupted => (futex = 0 <=> Inside = {})

WakeupInv == TypeOK /\ SleepersWait /\ NoLostWakeup
LockInv == TypeOK /\ SleepersWait /\ MutualExclusion /\ WordTellsHolder

-----------------------------------------------------------------------------
(* Every step keeps every variable in its type: lock(), try_lock(),         *)
(* unlock() and the futex calls.                                            *)
LEMMA StepKeepsTypeOK ==
  ASSUME TypeOK, SleepersWait, [Next]_vars, RoundsAssumption
  PROVE  TypeOK' /\ SleepersWait'
<1> USE DEF TypeOK, SleepersWait, Goto, Enter, LOCKED, CONTENDED
<1>1. ASSUME NEW th \in Thread, LockCall(th) PROVE TypeOK' /\ SleepersWait'
  BY <1>1 DEF LockCall, WasFree, SetLockedByte
<1>2. ASSUME NEW th \in Thread, TryLock(th) PROVE TypeOK' /\ SleepersWait'
  BY <1>2 DEF TryLock, WasFree, SetLockedByte
<1>3. ASSUME NEW th \in Thread, Contend(th) PROVE TypeOK' /\ SleepersWait'
  BY <1>3 DEF Contend, WasFree
<1>4. ASSUME NEW th \in Thread, FutexWait(th) PROVE TypeOK' /\ SleepersWait'
  BY <1>4 DEF FutexWait
<1>5. ASSUME NEW th \in Thread, SpuriousWakeup(th) PROVE TypeOK' /\ SleepersWait'
  BY <1>5 DEF SpuriousWakeup
<1>6. ASSUME NEW th \in Thread, Interrupted(th) PROVE TypeOK' /\ SleepersWait'
  BY <1>6 DEF Interrupted
<1>7. ASSUME NEW th \in Thread, ReadCounter(th) PROVE TypeOK' /\ SleepersWait'
  BY <1>7 DEF ReadCounter
<1>8. ASSUME NEW th \in Thread, WriteCounter(th) PROVE TypeOK' /\ SleepersWait'
  BY <1>8 DEF WriteCounter
<1>9. ASSUME NEW th \in Thread, Unlock(th) PROVE TypeOK' /\ SleepersWait'
  BY <1>9 DEF Unlock, MustWake
<1>10. ASSUME NEW th \in Thread, FutexWake(th) PROVE TypeOK' /\ SleepersWait'
  BY <1>10 DEF FutexWake
<1>11. CASE Finished \/ UNCHANGED vars
  BY <1>11 DEF Finished, vars
<1>12. QED
  BY <1>1, <1>2, <1>3, <1>4, <1>5, <1>6, <1>7, <1>8, <1>9, <1>10, <1>11
  DEF Next, ThreadStep

(* Every step keeps the wake-up promise: whoever clears the contended byte  *)
(* wakes a sleeper, and a woken sleeper marks the word again.               *)
LEMMA StepKeepsWakeups ==
  ASSUME TypeOK, SleepersWait, NoLostWakeup, [Next]_vars
  PROVE  NoLostWakeup'
<1> USE DEF TypeOK, NoLostWakeup, Goto, Enter, LOCKED, CONTENDED
<1>1. ASSUME NEW th \in Thread, LockCall(th) \/ TryLock(th) PROVE NoLostWakeup'
  BY <1>1 DEF LockCall, TryLock, WasFree, SetLockedByte
<1>2. ASSUME NEW th \in Thread, Contend(th) PROVE NoLostWakeup'
  BY <1>2 DEF Contend, WasFree
<1>3. ASSUME NEW th \in Thread, FutexWait(th) PROVE NoLostWakeup'
  BY <1>3 DEF FutexWait
<1>4. ASSUME NEW th \in Thread, SpuriousWakeup(th) PROVE NoLostWakeup'
  BY <1>4 DEF SpuriousWakeup
<1>5. ASSUME NEW th \in Thread, Interrupted(th) PROVE NoLostWakeup'
  BY <1>5 DEF Interrupted, SleepersWait
<1>6. ASSUME NEW th \in Thread, ReadCounter(th) \/ WriteCounter(th) PROVE NoLostWakeup'
  BY <1>6 DEF ReadCounter, WriteCounter
<1>7. ASSUME NEW th \in Thread, Unlock(th) PROVE NoLostWakeup'
  BY <1>7 DEF Unlock, MustWake
<1>8. ASSUME NEW th \in Thread, FutexWake(th) PROVE NoLostWakeup'
  <2>1. CASE asleep = {}
    BY <1>8, <2>1 DEF FutexWake
  <2>2. CASE asleep # {}
    <3>1. PICK sleeper \in asleep :
            pc' = [pc EXCEPT ![th] = "out", ![sleeper] = "contend"]
      BY <1>8, <2>2 DEF FutexWake
    <3>2. sleeper \in Thread /\ pc'[sleeper] = "contend"
      BY <3>1
    <3>3. QED
      BY <3>2
  <2>3. QED
    BY <2>1, <2>2
<1>9. CASE Finished \/ UNCHANGED vars
  BY <1>9 DEF Finished, vars
<1>10. QED
  BY <1>1, <1>2, <1>3, <1>4, <1>5, <1>6, <1>7, <1>8, <1>9 DEF Next, ThreadStep

(* Until a wait is interrupted, every step keeps the word and the critical  *)
(* section in agreement, and is a step of the abstract lock: entering on    *)
(* reading 0 acquires it, the exchange of unlock() releases it, and nothing *)
(* else changes who is inside.                                              *)
LEMMA NobodyElseMoves ==
  ASSUME LockInv, ~interrupted, NEW th \in Thread, NEW place,
         pc' = [pc EXCEPT ![th] = place],
         place \in {"read", "write", "unlock"} <=> th \in Inside,
         futex' = 0 <=> futex = 0
  PROVE  Inside' = Inside /\ MutualExclusion' /\ WordTellsHolder'
<1>1. Inside' = Inside
  BY DEF LockInv, TypeOK, Inside
<1>2. QED
  BY <1>1 DEF LockInv, MutualExclusion, WordTellsHolder

(* Who finds the word 0 and sets it goes alone into an empty section.       *)
LEMMA Entering ==
  ASSUME LockInv, ~interrupted, NEW th \in Thread, Enter(th), futex = 0, futex' # 0
  PROVE  Inside = {} /\ Inside' = {th} /\ MutualExclusion' /\ WordTellsHolder'
<1>1. Inside = {}
  BY DEF LockInv, WordTellsHolder
<1>2. Inside' = {th}
  BY <1>1 DEF LockInv, TypeOK, Inside, Enter, Goto
<1>3. QED
  BY <1>1, <1>2 DEF MutualExclusion, WordTellsHolder

(* unlock() is called by the one inside, and leaves the section empty.      *)
LEMMA Leaving ==
  ASSUME LockInv, ~interrupted, NEW th \in Thread, Unlock(th)
  PROVE  Inside = {th} /\ Inside' = {} /\ MutualExclusion' /\ WordTellsHolder'
<1>1. Inside = {th}
  BY DEF LockInv, MutualExclusion, Unlock, Inside
<1>2. Inside' = {}
  BY <1>1 DEF LockInv, TypeOK, Inside, Unlock, MustWake, Goto
<1>3. QED
  BY <1>1, <1>2 DEF MutualExclusion, WordTellsHolder, Unlock

(* The holder of the abstract lock is the thread inside.                    *)
LEMMA HolderIsInside ==
  /\ Inside = {} => Holder = Nobody
  /\ \A th \in Thread : Inside = {th} /\ ~interrupted => Holder = th
BY DEF Holder, Inside

(* The same after a step.                                                   *)
LEMMA HolderIsInsideNext ==
  /\ Inside' = {} => Holder' = Nobody
  /\ \A th \in Thread : Inside' = {th} /\ ~interrupted' => Holder' = th
BY DEF Holder, Inside

(* Without an interrupted wait every step keeps the word and the section in *)
(* agreement and is a step of the abstract lock.                            *)
LEMMA UninterruptedStep ==
  ASSUME LockInv, [Next]_vars, ~interrupted, ~interrupted'
  PROVE  /\ MutualExclusion' /\ WordTellsHolder'
         /\ [Abstract!LockNext]_Holder
<1> DEFINE Goal == MutualExclusion' /\ WordTellsHolder' /\ [Abstract!LockNext]_Holder
<1>1. ASSUME Inside' = Inside PROVE Holder' = Holder
  BY <1>1 DEF Holder
<1>2. ASSUME NEW th \in Thread, Enter(th), futex = 0, futex' # 0 PROVE Goal
  <2>1. Holder = Nobody /\ Holder' = th
    BY <1>2, Entering, HolderIsInside, HolderIsInsideNext
  <2>2. Abstract!LockNext
    BY <2>1 DEF Abstract!LockNext, Abstract!Acquire
  <2>3. QED
    BY <1>2, <2>2, Entering
<1>3. ASSUME NEW th \in Thread, Unlock(th) PROVE Goal
  <2>1. Holder = th /\ Holder' = Nobody
    BY <1>3, Leaving, HolderIsInside, HolderIsInsideNext
  <2>2. Abstract!LockNext
    BY <2>1 DEF Abstract!LockNext, Abstract!Release
  <2>3. QED
    BY <1>3, <2>2, Leaving
<1>4. ASSUME NEW th \in Thread, LockCall(th) \/ TryLock(th) PROVE Goal
  <2>1. futex' # 0 /\ pc[th] = "out"
    BY <1>4 DEF LockCall, TryLock, WasFree, SetLockedByte, LOCKED, CONTENDED
  <2>2. CASE futex = 0
    BY <1>2, <1>4, <2>1, <2>2 DEF LockCall, TryLock, WasFree
  <2>3. CASE futex # 0
    <3>1. Inside' = Inside
      BY <1>4, <2>1, <2>3 DEF LockCall, TryLock, WasFree, Goto, Inside, LockInv, TypeOK
    <3>2. QED
      BY <1>1, <2>1, <2>3, <3>1 DEF LockInv, MutualExclusion, WordTellsHolder
  <2>4. QED
    BY <2>2, <2>3
<1>5. ASSUME NEW th \in Thread, Contend(th) PROVE Goal
  <2>1. futex' # 0 /\ pc[th] = "contend"
    BY <1>5 DEF Contend, WasFree, CONTENDED
  <2>2. CASE futex = 0
    BY <1>2, <1>5, <2>1, <2>2 DEF Contend, WasFree
  <2>3. CASE futex # 0
    BY <1>1, <1>5, <2>1, <2>3, NobodyElseMoves DEF Contend, WasFree, Goto, Inside
  <2>4. QED
    BY <2>2, <2>3
<1>6. ASSUME NEW th \in Thread, FutexWait(th) \/ SpuriousWakeup(th) PROVE Goal
  <2>1. th \notin Inside /\ futex' = futex
    BY <1>6 DEF FutexWait, SpuriousWakeup, Inside, LockInv, SleepersWait
  <2>2. pc' = [pc EXCEPT ![th] = "sleep"] \/ pc' = [pc EXCEPT ![th] = "contend"]
    BY <1>6 DEF FutexWait, SpuriousWakeup, Goto
  <2>3. Inside' = Inside /\ MutualExclusion' /\ WordTellsHolder'
    BY <2>1, <2>2, NobodyElseMoves
  <2>4. QED
    BY <1>1, <2>3
<1>7. ASSUME NEW th \in Thread, ReadCounter(th) \/ WriteCounter(th) PROVE Goal
  <2>1. th \in Inside /\ futex' = futex
    BY <1>7 DEF ReadCounter, WriteCounter, Inside
  <2>2. pc' = [pc EXCEPT ![th] = "write"] \/ pc' = [pc EXCEPT ![th] = "unlock"]
    BY <1>7 DEF ReadCounter, WriteCounter, Goto
  <2>3. Inside' = Inside /\ MutualExclusion' /\ WordTellsHolder'
    BY <2>1, <2>2, NobodyElseMoves
  <2>4. QED
    BY <1>1, <2>3
<1>8. ASSUME NEW th \in Thread, FutexWake(th) PROVE Goal
  <2>1. Inside' = Inside /\ futex' = futex
    <3>1. CASE asleep = {}
      BY <1>8, <3>1 DEF FutexWake, Goto, Inside, LockInv, TypeOK
    <3>2. CASE asleep # {}
      <4>1. PICK sleeper \in asleep :
              pc' = [pc EXCEPT ![th] = "out", ![sleeper] = "contend"]
        BY <1>8, <3>2 DEF FutexWake
      <4>2. pc[sleeper] = "sleep" /\ pc[th] = "wake" /\ sleeper \in Thread
        BY <1>8 DEF FutexWake, LockInv, SleepersWait
      <4>3. QED
        BY <1>8, <4>1, <4>2 DEF FutexWake, Inside, LockInv, TypeOK
    <3>3. QED
      BY <3>1, <3>2
  <2>2. QED
    BY <1>1, <2>1 DEF LockInv, MutualExclusion, WordTellsHolder
<1>9. CASE Finished \/ UNCHANGED vars
  <2>1. Inside' = Inside /\ futex' = futex
    BY <1>9 DEF Finished, vars, Inside
  <2>2. QED
    BY <1>1, <2>1 DEF LockInv, MutualExclusion, WordTellsHolder
<1>10. ASSUME NEW th \in Thread PROVE ~Interrupted(th)
  BY DEF Interrupted
<1>11. QED
  BY <1>3, <1>4, <1>5, <1>6, <1>7, <1>8, <1>9, <1>10 DEF Next, ThreadStep

(* The step that interrupts the first wait takes the mutex from its holder, *)
(* if there is one; before and after it nothing more is promised.           *)
LEMMA FirstInterruption ==
  ASSUME LockInv, ~interrupted, interrupted'
  PROVE  [Abstract!LockNext]_Holder
<1>1. Holder' = Nobody
  BY DEF Holder
<1>2. CASE Inside = {}
  BY <1>1, <1>2, HolderIsInside
<1>3. CASE Inside # {}
  <2>1. PICK th \in Thread : Inside = {th}
    BY <1>3 DEF LockInv, MutualExclusion, Inside
  <2>2. Holder = th
    BY <2>1, HolderIsInside
  <2>3. QED
    BY <1>1, <2>2 DEF Abstract!LockNext, Abstract!Release
<1>4. QED
  BY <1>2, <1>3

(* The flag that a wait was interrupted is never taken back.                *)
LEMMA InterruptionIsForGood ==
  ASSUME interrupted, [Next]_vars
  PROVE  interrupted'
BY DEF Next, vars, ThreadStep, LockCall, TryLock, Contend, FutexWait, SpuriousWakeup,
   Interrupted, ReadCounter, WriteCounter, Unlock, FutexWake, Finished

(* Every step is a step of the abstract lock, or comes after an             *)
(* interruption.                                                            *)
LEMMA StepIsLockStep ==
  ASSUME LockInv, [Next]_vars
  PROVE  /\ MutualExclusion' /\ WordTellsHolder'
         /\ [Abstract!LockNext]_Holder
<1>1. CASE interrupted
  <2>1. interrupted'
    BY <1>1, InterruptionIsForGood
  <2>2. Holder' = Holder
    BY <1>1, <2>1 DEF Holder
  <2>3. QED
    BY <2>1, <2>2 DEF MutualExclusion, WordTellsHolder
<1>2. CASE ~interrupted /\ interrupted'
  BY <1>2, FirstInterruption DEF MutualExclusion, WordTellsHolder
<1>3. CASE ~interrupted /\ ~interrupted'
  BY <1>3, UninterruptedStep
<1>4. QED
  BY <1>1, <1>2, <1>3

-----------------------------------------------------------------------------
(* The mutex starts free, with nobody inside or asleep. *)
LEMMA InitInvs == Init => /\ TypeOK /\ SleepersWait /\ NoLostWakeup
                          /\ MutualExclusion /\ WordTellsHolder /\ Inside = {}
<1> SUFFICES ASSUME Init PROVE /\ TypeOK /\ SleepersWait /\ NoLostWakeup
                               /\ MutualExclusion /\ WordTellsHolder /\ Inside = {}
  OBVIOUS
<1>1. TypeOK
  <2>1. left \in [Thread -> 0 .. Rounds]
    BY RoundsAssumption DEF Init
  <2>2. interrupted \in BOOLEAN
    BY Zenon DEF Init
  <2>3. QED
    BY <2>1, <2>2 DEF Init, TypeOK, LOCKED, CONTENDED
<1>2. SleepersWait /\ NoLostWakeup
  BY DEF Init, SleepersWait, NoLostWakeup
<1>3. Inside = {}
  BY DEF Init, Inside
<1>4. QED
  BY <1>1, <1>2, <1>3 DEF Init, MutualExclusion, WordTellsHolder

(* Type correctness: in particular the lock word is never anything but 0,   *)
(* LOCKED or CONTENDED, whatever the order of byte and word exchanges.      *)
THEOREM TypeCorrect == Spec => []TypeOK
<1>1. Init => TypeOK /\ SleepersWait
  BY InitInvs
<1>2. TypeOK /\ SleepersWait /\ [Next]_vars => (TypeOK /\ SleepersWait)'
  BY StepKeepsTypeOK, RoundsAssumption
<1>3. QED
  BY <1>1, <1>2, PTL DEF Spec

(* A thread that sleeps in futex_wait is never forgotten by unlock(), even  *)
(* when signals break mutual exclusion.                                     *)
THEOREM NoWakeupIsLost == Spec => []NoLostWakeup
<1>1. Init => WakeupInv
  BY InitInvs DEF WakeupInv
<1>2. WakeupInv /\ [Next]_vars => WakeupInv'
  BY StepKeepsTypeOK, StepKeepsWakeups, RoundsAssumption DEF WakeupInv
<1>3. WakeupInv => NoLostWakeup
  BY DEF WakeupInv
<1>4. QED
  BY <1>1, <1>2, <1>3, PTL DEF Spec

(* The inductive invariant of mutual exclusion. *)
LEMMA LockInvariance == Spec => []LockInv
<1>1. Init => LockInv
  BY InitInvs DEF LockInv
<1>2. LockInv /\ [Next]_vars => LockInv'
  BY StepKeepsTypeOK, StepIsLockStep, RoundsAssumption DEF LockInv
<1>3. QED
  BY <1>1, <1>2, PTL DEF Spec

(* Until a signal interrupts a wait, lock() and try_lock() exclude.         *)
THEOREM LockExcludes == Spec => []MutualExclusion
<1>1. LockInv => MutualExclusion
  BY DEF LockInv
<1>2. QED
  BY <1>1, LockInvariance, PTL

(* FastPthreadMutex implements MutexLock until a signal interrupts a wait.  *)
THEOREM MutexImplementsLock == Spec => ImplementsLock
<1>1. Init => Abstract!LockInit
  BY InitInvs, HolderIsInside DEF Abstract!LockInit
<1>2. LockInv /\ [Next]_vars => [Abstract!LockNext]_Holder
  BY StepIsLockStep
<1>3. QED
  BY <1>1, <1>2, LockInvariance, PTL DEF Spec, ImplementsLock, Abstract!LockSpec
=============================================================================
