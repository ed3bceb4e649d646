----------------------- MODULE SimpleThreadPoolProofs -----------------------
(***************************************************************************)
(* For any workers, callers and tasks, SimpleThreadPool neither loses nor  *)
(* doubles a task and strands none: notifying after the mutex has been     *)
(* released is enough.                                                     *)
(***************************************************************************)
EXTENDS SimpleThreadPool, TLAPS

(* A worker that is about to run has taken a task to run. *)
RunsWhatItTook == \A w \in Worker : wPc[w] = "run" => task[w] \in Task

PoolInv == TypeOK /\ RunsWhatItTook

-----------------------------------------------------------------------------
(* Taking the first task moves it from what waits to what was started. *)
LEMMA MoveFront ==
  ASSUME NEW S, NEW s \in Seq(S), NEW t \in Seq(S), t # <<>>
  PROVE  /\ Head(t) \in S /\ Tail(t) \in Seq(S)
         /\ Append(s, Head(t)) \o Tail(t) = s \o t
<1>1. Head(t) \in S /\ Tail(t) \in Seq(S) /\ Len(t) \in Nat \ {0}
  OBVIOUS
<1>2. Append(s, Head(t)) \in Seq(S) /\ s \o t \in Seq(S)
  BY <1>1
<1>3. Append(s, Head(t)) \o Tail(t) \in Seq(S)
  BY <1>1, <1>2
<1>4. Len(Append(s, Head(t)) \o Tail(t)) = Len(s \o t)
  BY <1>1, <1>2
<1>5. \A i \in 1 .. Len(s \o t) :
        (Append(s, Head(t)) \o Tail(t))[i] = (s \o t)[i]
  BY <1>1, <1>2
<1>6. QED
  BY <1>1, <1>2, <1>3, <1>4, <1>5

(* Queueing a task appends it to what waits, hence to the whole. *)
LEMMA QueueAtEnd ==
  ASSUME NEW S, NEW s \in Seq(S), NEW t \in Seq(S), NEW e \in S
  PROVE  s \o Append(t, e) = Append(s \o t, e)
<1>1. /\ s \o Append(t, e) \in Seq(S) /\ Append(s \o t, e) \in Seq(S)
      /\ Len(s \o Append(t, e)) = Len(Append(s \o t, e))
  OBVIOUS
<1>2. \A i \in 1 .. Len(Append(s \o t, e)) :
        (s \o Append(t, e))[i] = Append(s \o t, e)[i]
  OBVIOUS
<1>3. QED
  BY <1>1, <1>2

-----------------------------------------------------------------------------
(* Every step keeps the types: enqueue(), the worker's loop, the destructor. *)
LEMMA StepKeepsPoolInv ==
  ASSUME PoolInv, [Next]_vars, ChildAssumption
  PROVE  PoolInv'
<1> USE DEF PoolInv, TypeOK, RunsWhatItTook
<1>1. ASSUME NEW c \in Caller, NEW new \in Task, CallerEnqueues(c, new) PROVE PoolInv'
  BY <1>1 DEF CallerEnqueues, Enqueue
<1>2. ASSUME NEW w \in Worker, RunTask(w) PROVE PoolInv'
  <2>1. task[w] \in Task
    BY <1>2 DEF RunTask
  <2>2. CASE Child[task[w]] = NoTask
    <3>1. UNCHANGED <<tasks, stop, asleep, notifying, dPc, enqueued, started>>
      BY <1>2, <2>2, Zenon DEF RunTask
    <3>2. wPc' = [wPc EXCEPT ![w] = "take"] /\ task' = [task EXCEPT ![w] = NoTask]
      BY <1>2 DEF RunTask
    <3>3. QED
      BY <3>1, <3>2
  <2>3. CASE Child[task[w]] # NoTask
    <3>1. Child[task[w]] \in Task
      BY <2>1, <2>3, ChildAssumption DEF ChildAssumption
    <3>2. Enqueue(w, Child[task[w]])
      BY <1>2, <2>3, Zenon DEF RunTask
    <3>3. UNCHANGED <<stop, asleep, dPc, started>>
      BY <1>2 DEF RunTask
    <3>4. wPc' = [wPc EXCEPT ![w] = "take"] /\ task' = [task EXCEPT ![w] = NoTask]
      BY <1>2 DEF RunTask
    <3>5. QED
      BY <3>1, <3>2, <3>3, <3>4 DEF Enqueue
  <2>4. QED
    BY <2>2, <2>3
<1>3. ASSUME NEW a \in Caller \cup Worker, NotifyOne(a) PROVE PoolInv'
  BY <1>3 DEF NotifyOne, WakeOne
<1>4. ASSUME NEW w \in Worker, TakeTask(w) PROVE PoolInv'
  <2>1. CASE stop \/ tasks = <<>>
    <3>1. UNCHANGED <<tasks, stop, task, notifying, dPc, enqueued, started>>
      BY <1>4, <2>1, Zenon DEF TakeTask
    <3>2. \/ wPc' = [wPc EXCEPT ![w] = "done"] /\ asleep' = asleep
          \/ wPc' = wPc /\ asleep' = asleep \cup {w}
      BY <1>4, <2>1, Zenon DEF TakeTask
    <3>3. QED
      BY <3>1, <3>2
  <2>2. CASE ~stop /\ tasks # <<>>
    <3>1. Front \in Task /\ Rest \in Seq(Task)
      BY <2>2, MoveFront DEF Front, Rest
    <3>2. /\ task' = [task EXCEPT ![w] = Front] /\ wPc' = [wPc EXCEPT ![w] = "run"]
          /\ tasks' = Rest /\ started' = Append(started, Front)
      BY <1>4, <2>2, Zenon DEF TakeTask
    <3>3. UNCHANGED <<stop, asleep, notifying, dPc, enqueued>>
      BY <1>4, <2>2, Zenon DEF TakeTask
    <3>4. QED
      BY <3>1, <3>2, <3>3
  <2>3. QED
    BY <2>1, <2>2
<1>5. ASSUME NEW w \in Worker, SpuriousWakeup(w) PROVE PoolInv'
  BY <1>5 DEF SpuriousWakeup
<1>6. CASE DestructorStops
  BY <1>6 DEF DestructorStops
<1>7. CASE DestructorNotifies
  BY <1>7 DEF DestructorNotifies, WakeAll
<1>8. CASE DestructorJoins
  BY <1>8 DEF DestructorJoins
<1>9. CASE UNCHANGED vars
  BY <1>9 DEF vars
<1>10. QED
  BY <1>1, <1>2, <1>3, <1>4, <1>5, <1>6, <1>7, <1>8, <1>9 DEF Next, WorkerStep

(* Every step keeps what was started and what waits together equal to what  *)
(* was queued: the worker takes the front, enqueue() adds at the end.       *)
LEMMA StepKeepsTasks ==
  ASSUME PoolInv, NothingLostOrDoubled, [Next]_vars, ChildAssumption
  PROVE  NothingLostOrDoubled'
<1> USE DEF PoolInv, TypeOK, NothingLostOrDoubled
<1>1. ASSUME NEW a, NEW new \in Task, Enqueue(a, new), UNCHANGED started
      PROVE  NothingLostOrDoubled'
  <2>1. started \o Append(tasks, new) = Append(started \o tasks, new)
    BY QueueAtEnd
  <2>2. QED
    BY <1>1, <2>1, Zenon DEF Enqueue
<1>2. ASSUME NEW c \in Caller, NEW new \in Task, CallerEnqueues(c, new)
      PROVE  NothingLostOrDoubled'
  BY <1>1, <1>2 DEF CallerEnqueues
<1>3. ASSUME NEW w \in Worker, RunTask(w) PROVE NothingLostOrDoubled'
  <2>1. task[w] \in Task
    BY <1>3 DEF RunTask, RunsWhatItTook
  <2>2. CASE Child[task[w]] = NoTask
    BY <1>3, <2>2, Zenon DEF RunTask
  <2>3. CASE Child[task[w]] # NoTask
    <3>1. Child[task[w]] \in Task
      BY <2>1, <2>3 DEF ChildAssumption
    <3>2. QED
      BY <1>1, <1>3, <2>3, <3>1 DEF RunTask
  <2>4. QED
    BY <2>2, <2>3
<1>4. ASSUME NEW w \in Worker, TakeTask(w) PROVE NothingLostOrDoubled'
  <2>1. CASE stop \/ tasks = <<>>
    BY <1>4, <2>1, Zenon DEF TakeTask
  <2>2. CASE ~stop /\ tasks # <<>>
    <3>1. Append(started, Head(tasks)) \o Tail(tasks) = started \o tasks
      BY <2>2, MoveFront
    <3>2. /\ tasks' = Tail(tasks) /\ started' = Append(started, Head(tasks))
          /\ enqueued' = enqueued
      BY <1>4, <2>2, Zenon DEF TakeTask, Front, Rest
    <3>3. QED
      BY <3>1, <3>2, Zenon
  <2>3. QED
    BY <2>1, <2>2
<1>5. CASE \/ \E a \in Caller \cup Worker : NotifyOne(a)
           \/ \E w \in Worker : SpuriousWakeup(w)
           \/ DestructorStops \/ DestructorNotifies \/ DestructorJoins
           \/ UNCHANGED vars
  BY <1>5 DEF NotifyOne, SpuriousWakeup, DestructorStops, DestructorNotifies,
     DestructorJoins, vars
<1>6. QED
  BY <1>2, <1>3, <1>4, <1>5 DEF Next, WorkerStep

(* Every step keeps the promise to the sleepers: whoever queues or stops    *)
(* has yet to notify, and a notification leaves a worker awake.             *)
LEMMA StepStrandsNobody ==
  ASSUME TypeOK, NoStrandedTask, [Next]_vars, Worker # {}
  PROVE  NoStrandedTask'
<1> USE DEF TypeOK, NoStrandedTask
<1>1. ASSUME NEW c \in Caller, NEW new \in Task, CallerEnqueues(c, new)
      PROVE  NoStrandedTask'
  BY <1>1 DEF CallerEnqueues, Enqueue
<1>2. ASSUME NEW w \in Worker, RunTask(w) PROVE NoStrandedTask'
  BY <1>2 DEF RunTask, Enqueue
<1>3. ASSUME NEW a \in Caller \cup Worker, NotifyOne(a) PROVE asleep' # Worker
  BY <1>3 DEF NotifyOne, WakeOne
<1>4. ASSUME NEW w \in Worker, TakeTask(w) PROVE NoStrandedTask'
  BY <1>4 DEF TakeTask
<1>5. ASSUME NEW w \in Worker, SpuriousWakeup(w) PROVE asleep' # Worker
  BY <1>5 DEF SpuriousWakeup
<1>6. CASE DestructorStops
  BY <1>6 DEF DestructorStops
<1>7. CASE DestructorNotifies
  BY <1>7 DEF DestructorNotifies, WakeAll
<1>8. CASE DestructorJoins
  BY <1>8 DEF DestructorJoins
<1>9. CASE UNCHANGED vars
  BY <1>9 DEF vars
<1>10. QED
  BY <1>1, <1>2, <1>3, <1>4, <1>5, <1>6, <1>7, <1>8, <1>9 DEF Next, WorkerStep

-----------------------------------------------------------------------------
(* The pool starts with no task, no stop, and its workers running.          *)
LEMMA InitPool == Init => PoolInv /\ NothingLostOrDoubled /\ NoStrandedTask
<1> SUFFICES ASSUME Init PROVE PoolInv /\ NothingLostOrDoubled /\ NoStrandedTask
  OBVIOUS
<1>1. stop \in BOOLEAN /\ ~stop /\ tasks = <<>>
  BY Zenon DEF Init
<1>2. PoolInv
  BY <1>1 DEF Init, PoolInv, TypeOK, RunsWhatItTook
<1>3. enqueued = started \o tasks
  <2>1. enqueued = <<>> /\ started = <<>> /\ tasks = <<>>
    BY Zenon DEF Init
  <2>2. QED
    BY <2>1
<1>4. NoStrandedTask
  BY <1>1, Zenon DEF NoStrandedTask
<1>5. QED
  BY <1>2, <1>3, <1>4 DEF NothingLostOrDoubled

(* Type correctness: in particular a worker runs only tasks that somebody   *)
(* enqueued.                                                                *)
THEOREM TypeCorrect == Spec => []TypeOK
<1>1. PoolInv /\ [Next]_vars => PoolInv'
  BY StepKeepsPoolInv, ChildAssumption
<1>2. PoolInv => TypeOK
  BY DEF PoolInv
<1>3. QED
  BY InitPool, <1>1, <1>2, PTL DEF Spec

(* Tasks are taken in the order they were enqueued, each once; none is lost *)
(* as long as the pool lives.                                               *)
THEOREM TasksAreKept == Spec => []NothingLostOrDoubled
<1>1. PoolInv /\ NothingLostOrDoubled /\ [Next]_vars => (PoolInv /\ NothingLostOrDoubled)'
  BY StepKeepsPoolInv, StepKeepsTasks, ChildAssumption
<1>2. QED
  BY InitPool, <1>1, PTL DEF Spec

(* A pool with at least one worker never lets all of them sleep while a     *)
(* task waits or the destructor has stopped the pool, unless a notification *)
(* is still on its way.                                                     *)
THEOREM NobodyIsStranded == ASSUME Worker # {} PROVE Spec => []NoStrandedTask
<1>1. PoolInv /\ NoStrandedTask /\ [Next]_vars => (PoolInv /\ NoStrandedTask)'
  BY StepKeepsPoolInv, StepStrandsNobody, ChildAssumption DEF PoolInv
<1>2. QED
  BY InitPool, <1>1, PTL DEF Spec
=============================================================================
