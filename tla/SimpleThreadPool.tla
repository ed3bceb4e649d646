-------------------------- MODULE SimpleThreadPool --------------------------
(***************************************************************************)
(* SimpleThreadPool of concurrent/thread_pool.h and thread_pool.cc: one    *)
(* queue of tasks, one mutex, one condition variable.  What the code does  *)
(* while it holds queueMutex is one action; a wait releases the mutex and  *)
(* goes to sleep in the same action; the notifications come after the      *)
(* mutex is released and are actions of their own.  A task may call        *)
(* enqueue() when it runs: Child says which task it enqueues.              *)
(***************************************************************************)
EXTENDS Integers, Sequences, FiniteSets

CONSTANTS Worker,
          Caller,       \* the threads outside the pool that call enqueue()
          Task,
          NoTask,
          Child         \* the task that a task enqueues when it runs, or NoTask

ASSUME ChildAssumption == /\ NoTask \notin Task
                          /\ Child \in [Task -> Task \cup {NoTask}]
ASSUME ActorAssumption == Caller \cap Worker = {}

VARIABLES tasks, stop,
          asleep,       \* the workers waiting on the condition variable
          wPc, task,    \* each worker: its place in the loop, and the task it took
          notifying,    \* the threads in enqueue() that have yet to notify
          dPc,          \* the destructor
          enqueued, started     \* history: tasks in the order they were queued, taken

vars == <<tasks, stop, asleep, wPc, task, notifying, dPc, enqueued, started>>

TypeOK == /\ tasks \in Seq(Task) /\ stop \in BOOLEAN
          /\ asleep \subseteq Worker
          /\ wPc \in [Worker -> {"take", "run", "done"}]
          /\ task \in [Worker -> Task \cup {NoTask}]
          /\ notifying \subseteq Caller \cup Worker
          /\ dPc \in {"use", "notify", "join", "destroyed"}
          /\ enqueued \in Seq(Task) /\ started \in Seq(Task)

Init == /\ tasks = <<>> /\ stop = FALSE
        /\ asleep = {}
        /\ wPc = [w \in Worker |-> "take"]
        /\ task = [w \in Worker |-> NoTask]
        /\ notifying = {}
        /\ dPc = "use"
        /\ enqueued = <<>> /\ started = <<>>

Elements(s) == {s[i] : i \in DOMAIN s}

-----------------------------------------------------------------------------
(* enqueue(): queue the task under the mutex, *)
Enqueue(a, new) == /\ tasks' = Append(tasks, new)
                   /\ enqueued' = Append(enqueued, new)
                   /\ notifying' = notifying \cup {a}

(* by a caller, before the owner destroys the pool, *)
CallerEnqueues(c, new) ==
  /\ dPc = "use" /\ c \notin notifying
  /\ new \notin Elements(enqueued) /\ \A parent \in Task : Child[parent] # new
  /\ Enqueue(c, new)
  /\ UNCHANGED <<stop, asleep, wPc, task, dPc, started>>

(* or by the task that a worker runs; a task that adds none just ends; *)
RunTask(w) ==
  /\ wPc[w] = "run" /\ w \notin notifying
  /\ wPc' = [wPc EXCEPT ![w] = "take"]
  /\ task' = [task EXCEPT ![w] = NoTask]
  /\ IF Child[task[w]] = NoTask
     THEN UNCHANGED <<tasks, enqueued, notifying>>
     ELSE Enqueue(w, Child[task[w]])
  /\ UNCHANGED <<stop, asleep, dPc, started>>

(* Mutant: the notification is forgotten. *)
WakeNobody == UNCHANGED asleep

(* notify_one: any sleeper wakes, or nobody if none sleeps. *)
WakeOne == IF asleep = {} THEN UNCHANGED asleep
           ELSE \E w \in asleep : asleep' = asleep \ {w}

(* then notify. *)
NotifyOne(a) ==
  /\ a \in notifying
  /\ notifying' = notifying \ {a}
  /\ WakeOne
  /\ UNCHANGED <<tasks, stop, wPc, task, dPc, enqueued, started>>

-----------------------------------------------------------------------------
Front == Head(tasks)

(* Mutant: the task stays in the queue. *)
NotPopped == tasks
Rest == Tail(tasks)

(* The worker's critical section: wait for a task or for stop.  Stop comes  *)
(* first, whatever is queued.  After the wait the queue cannot be empty, so *)
(* the second, timed wait of the code is never reached.                     *)
TakeTask(w) ==
  /\ wPc[w] = "take" /\ w \notin asleep /\ w \notin notifying
  /\ \/ /\ stop
        /\ wPc' = [wPc EXCEPT ![w] = "done"]
        /\ UNCHANGED <<tasks, asleep, task, started>>
     \/ /\ ~stop /\ tasks = <<>>
        /\ asleep' = asleep \cup {w}
        /\ UNCHANGED <<tasks, wPc, task, started>>
     \/ /\ ~stop /\ tasks # <<>>
        /\ task' = [task EXCEPT ![w] = Front]
        /\ tasks' = Rest
        /\ started' = Append(started, Front)
        /\ wPc' = [wPc EXCEPT ![w] = "run"]
        /\ UNCHANGED asleep
  /\ UNCHANGED <<stop, notifying, dPc, enqueued>>

SpuriousWakeup(w) ==
  /\ w \in asleep
  /\ asleep' = asleep \ {w}
  /\ UNCHANGED <<tasks, stop, wPc, task, notifying, dPc, enqueued, started>>

-----------------------------------------------------------------------------
(* The destructor, after the callers are done with enqueue(). *)
DestructorStops ==
  /\ dPc = "use" /\ notifying \cap Caller = {}
  /\ stop' = TRUE
  /\ dPc' = "notify"
  /\ UNCHANGED <<tasks, asleep, wPc, task, notifying, enqueued, started>>

(* Mutant: notify_one where there may be many sleepers: WakeOne. *)
WakeAll == asleep' = {}

DestructorNotifies ==
  /\ dPc = "notify"
  /\ WakeAll
  /\ dPc' = "join"
  /\ UNCHANGED <<tasks, stop, wPc, task, notifying, enqueued, started>>

DestructorJoins ==
  /\ dPc = "join" /\ \A w \in Worker : wPc[w] = "done"
  /\ dPc' = "destroyed"
  /\ UNCHANGED <<tasks, stop, asleep, wPc, task, notifying, enqueued, started>>

-----------------------------------------------------------------------------
WorkerStep(w) == TakeTask(w) \/ RunTask(w)

Next == \/ \E c \in Caller, new \in Task : CallerEnqueues(c, new)
        \/ \E a \in Caller \cup Worker : NotifyOne(a)
        \/ \E w \in Worker : WorkerStep(w) \/ SpuriousWakeup(w)
        \/ DestructorStops \/ DestructorNotifies \/ DestructorJoins

(***************************************************************************)
(* Fairness.  Workers run, a call of enqueue() and the destructor go on    *)
(* once begun.  Nobody must enqueue or destroy, and nobody can count on a  *)
(* spurious wake-up.                                                       *)
(***************************************************************************)
Spec == Init /\ [][Next]_vars
FairSpec == /\ Spec
            /\ \A w \in Worker : WF_vars(WorkerStep(w))
            /\ \A a \in Caller \cup Worker : WF_vars(NotifyOne(a))
            /\ WF_vars(DestructorNotifies) /\ WF_vars(DestructorJoins)

-----------------------------------------------------------------------------
(* No task is taken twice or skipped, and what was taken and what waits is  *)
(* what was enqueued, in order.                                             *)
NothingLostOrDoubled == enqueued = started \o tasks

(* No lost wake-up: a task never waits in the queue while all workers       *)
(* sleep, unless a notification is still to come, although enqueue()        *)
(* notifies after it released the mutex.                                    *)
NoStrandedTask ==
  (tasks # <<>> \/ stop) /\ asleep = Worker
     => notifying # {} \/ dPc = "notify"

(* "All tasks will be completed" (thread_pool_test.cc) unless the pool is   *)
(* destroyed first, which drops what is queued.                             *)
AllTasksComplete ==
  \A t \in Task : (t \in Elements(enqueued)) ~> (t \in Elements(started) \/ stop)

(* The destructor returns: no worker sleeps through stop.                   *)
DestructorReturns == (dPc # "use") ~> (dPc = "destroyed")
=============================================================================
