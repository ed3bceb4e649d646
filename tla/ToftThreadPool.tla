--------------------------- MODULE ToftThreadPool ---------------------------
(***************************************************************************)
(* ToftThreadPool of concurrent/thread_pool.h and thread_pool.cc.  Every   *)
(* worker has a context of its own: a mutex, a condition variable, a list  *)
(* of pending tasks and an exit flag.  What the code does while it holds a *)
(* context's mutex is one action; a wait releases the mutex and puts the   *)
(* worker to sleep in the same action.  m_exit_lock is a variable, because *)
(* Terminate() takes context mutexes while it holds it.                    *)
(*                                                                         *)
(* A task may call AddTask() itself when it runs: Child says which task it *)
(* adds.  The other tasks are added by callers.                            *)
(***************************************************************************)
EXTENDS Integers, Sequences, FiniteSets

CONSTANTS NumThreads,   \* m_num_threads
          Caller,       \* the threads outside the pool that call AddTask()
          Task,
          NoTask,
          Child         \* the task that a task adds when it runs, or NoTask

Worker == 1 .. NumThreads

ASSUME NumThreadsAssumption == NumThreads \in Nat \ {0}
ASSUME ChildAssumption == /\ NoTask \notin Task
                          /\ Child \in [Task -> Task \cup {NoTask}]
ASSUME ActorAssumption == Caller \cap Worker = {}

VARIABLES m_exit, m_num_busy_threads,
          exitLocked,           \* does Terminate() hold m_exit_lock?
          freed,                \* has Terminate() deleted the contexts?
          exit, pending, working,          \* per context
          wPc, asleep, continued, next,    \* per worker: WorkRoutine's locals
          aPc, aTask,           \* per thread: its place in AddTask(), and the argument
          oPc, signalled,       \* the owner: its place in Terminate(), and its loop index
          submitted,            \* history: the tasks that AddTask() was called with
          added, ran,           \* history: the tasks each context got, and ran, in order
          inTime,               \* history: the tasks added before their context's exit flag
          early                 \* history: who was past the check of m_exit when it was set

ctxVars == <<exit, pending, working>>
workerVars == <<wPc, asleep, continued, next>>
addVars == <<aPc, aTask>>
ownerVars == <<oPc, signalled, exitLocked, m_exit, freed>>
historyVars == <<submitted, added, ran, inTime, early>>
vars == <<m_num_busy_threads, ctxVars, workerVars, addVars, ownerVars, historyVars>>

TypeOK == /\ m_exit \in BOOLEAN /\ exitLocked \in BOOLEAN /\ freed \in BOOLEAN
          /\ m_num_busy_threads \in 0 .. NumThreads
          /\ exit \in [Worker -> BOOLEAN]
          /\ pending \in [Worker -> Seq(Task)] /\ working \in [Worker -> Seq(Task)]
          /\ wPc \in [Worker -> {"get", "run", "add", "exit", "done"}]
          /\ asleep \subseteq Worker
          /\ continued \in [Worker -> BOOLEAN] /\ next \in [Worker -> Nat \ {0}]
          /\ aPc \in [Caller \cup Worker -> {"idle", "check", "push"}]
          /\ aTask \in [Caller \cup Worker -> Task \cup {NoTask}]
          /\ oPc \in {"use", "signal", "wait", "join", "terminated"}
          /\ signalled \in 0 .. NumThreads
          /\ submitted \subseteq Task /\ inTime \subseteq Task
          /\ early \subseteq Caller \cup Worker
          /\ added \in [Worker -> Seq(Task)] /\ ran \in [Worker -> Seq(Task)]

(* The constructor has returned: the workers run. *)
Init == /\ m_exit = FALSE /\ exitLocked = FALSE /\ freed = FALSE
        /\ m_num_busy_threads = NumThreads
        /\ exit = [w \in Worker |-> FALSE]
        /\ pending = [w \in Worker |-> <<>>] /\ working = [w \in Worker |-> <<>>]
        /\ wPc = [w \in Worker |-> "get"] /\ asleep = {}
        /\ continued = [w \in Worker |-> TRUE] /\ next = [w \in Worker |-> 1]
        /\ aPc = [a \in Caller \cup Worker |-> "idle"]
        /\ aTask = [a \in Caller \cup Worker |-> NoTask]
        /\ oPc = "use" /\ signalled = 0
        /\ submitted = {} /\ inTime = {} /\ early = {}
        /\ added = [w \in Worker |-> <<>>] /\ ran = [w \in Worker |-> <<>>]

-----------------------------------------------------------------------------
(* AddTask(), by a caller or by the task that a worker runs. *)

Submit(a, task) ==
  /\ aPc' = [aPc EXCEPT ![a] = "check"]
  /\ aTask' = [aTask EXCEPT ![a] = task]
  /\ submitted' = submitted \cup {task}

IsRoot(task) == \A parent \in Task : Child[parent] # task

AddTask(c, task) ==
  /\ aPc[c] = "idle" /\ task \notin submitted /\ IsRoot(task)
  /\ Submit(c, task)
  /\ UNCHANGED <<m_num_busy_threads, ctxVars, workerVars, ownerVars, added, ran, inTime,
                 early>>

(* Mutant: nobody is told. *)
NotifyNobody(w) == UNCHANGED asleep

(* notify_one or notify_all on a context, whose worker alone waits there. *)
Notify(w) == asleep' = asleep \ {w}

Returns(a) == /\ aPc' = [aPc EXCEPT ![a] = "idle"]
              /\ aTask' = [aTask EXCEPT ![a] = NoTask]
              /\ early' = early \ {a}
              /\ IF a \in Worker
                 THEN wPc' = [wPc EXCEPT ![a] = "run"] ELSE UNCHANGED wPc

(* Mutant: the pool is never closed. *)
NeverClosed == FALSE

(* m_exit is read without a lock. *)
Closed == m_exit

AddCheck(a) ==
  /\ aPc[a] = "check"
  /\ IF Closed THEN Returns(a)
     ELSE aPc' = [aPc EXCEPT ![a] = "push"] /\ UNCHANGED <<aTask, wPc, early>>
  /\ UNCHANGED <<m_num_busy_threads, ctxVars, asleep, continued, next, ownerVars,
                 submitted, added, ran, inTime>>

(* The dispatch key, random or given, picks any context; push_back and      *)
(* notify_one happen under the context's mutex.  Once the contexts are gone *)
(* the step has no defined effect: NoUseAfterFree.                          *)
AddPush(a, w) ==
  /\ aPc[a] = "push" /\ ~freed
  /\ pending' = [pending EXCEPT ![w] = Append(@, aTask[a])]
  /\ Notify(w)
  /\ added' = [added EXCEPT ![w] = Append(@, aTask[a])]
  /\ inTime' = IF exit[w] THEN inTime ELSE inTime \cup {aTask[a]}
  /\ Returns(a)
  /\ UNCHANGED <<m_num_busy_threads, exit, working, continued, next, ownerVars, submitted, ran>>

-----------------------------------------------------------------------------
(* WorkRoutine() *)

GetPendingTask(w) ==
  /\ wPc[w] = "get" /\ w \notin asleep
  /\ IF pending[w] = <<>> /\ ~exit[w]
     THEN asleep' = asleep \cup {w} /\ UNCHANGED <<pending, working, continued, wPc, next>>
     ELSE /\ pending' = [pending EXCEPT ![w] = working[w]]
          /\ working' = [working EXCEPT ![w] = pending[w]]
          /\ continued' = [continued EXCEPT ![w] = ~exit[w]]
          /\ next' = [next EXCEPT ![w] = 1]
          /\ wPc' = [wPc EXCEPT ![w] = "run"]
          /\ UNCHANGED asleep
  /\ UNCHANGED <<m_num_busy_threads, exit, addVars, ownerVars, historyVars>>

SpuriousWakeup(w) ==
  /\ w \in asleep
  /\ asleep' = asleep \ {w}
  /\ UNCHANGED <<m_num_busy_threads, ctxVars, wPc, continued, next, addVars, ownerVars,
                 historyVars>>

(* Mutant: told to exit, the worker drops its last batch. *)
HasNextUnlessExit(w) == continued[w] /\ next[w] <= Len(working[w])
HasNext(w) == next[w] <= Len(working[w])

(* Outside the mutex: run the next task of the batch, which may add one. *)
RunTask(w) ==
  /\ wPc[w] = "run" /\ HasNext(w)
  /\ LET task == working[w][next[w]]
     IN  /\ ran' = [ran EXCEPT ![w] = Append(@, task)]
         /\ IF Child[task] = NoTask
            THEN UNCHANGED <<wPc, addVars, submitted>>
            ELSE wPc' = [wPc EXCEPT ![w] = "add"] /\ Submit(w, Child[task])
  /\ next' = [next EXCEPT ![w] = @ + 1]
  /\ UNCHANGED <<m_num_busy_threads, ctxVars, asleep, continued, ownerVars, added, inTime,
                 early>>

(* Mutant: the batch is not cleared, and swapped back next time. *)
NotCleared(w) == UNCHANGED working
Clear(w) == working' = [working EXCEPT ![w] = <<>>]

BatchDone(w) ==
  /\ wPc[w] = "run" /\ ~HasNext(w)
  /\ Clear(w)
  /\ wPc' = [wPc EXCEPT ![w] = IF continued[w] THEN "get" ELSE "exit"]
  /\ UNCHANGED <<m_num_busy_threads, exit, pending, asleep, continued, next, addVars,
                 ownerVars, historyVars>>

(* The last worker's notify_all reaches the owner, who waits for a count of 0. *)
WorkerExit(w) ==
  /\ wPc[w] = "exit" /\ ~exitLocked
  /\ m_num_busy_threads' = m_num_busy_threads - 1
  /\ wPc' = [wPc EXCEPT ![w] = "done"]
  /\ UNCHANGED <<ctxVars, asleep, continued, next, addVars, ownerVars, historyVars>>

-----------------------------------------------------------------------------
(* Terminate(), by the owner of the pool; the destructor calls it again, to *)
(* no effect.                                                               *)

TerminateCall ==
  /\ oPc = "use"
  /\ exitLocked' = TRUE /\ m_exit' = TRUE /\ signalled' = 0
  /\ oPc' = "signal"
  /\ early' = {a \in Caller \cup Worker : aPc[a] = "push"}
  /\ UNCHANGED <<m_num_busy_threads, freed, ctxVars, workerVars, addVars,
                 submitted, added, ran, inTime>>

MoreToSignal == signalled < NumThreads

TerminateSignal ==
  /\ oPc = "signal" /\ MoreToSignal
  /\ signalled' = signalled + 1
  /\ exit' = [exit EXCEPT ![signalled + 1] = TRUE]
  /\ Notify(signalled + 1)
  /\ UNCHANGED <<m_num_busy_threads, pending, working, wPc, continued, next, addVars,
                 oPc, exitLocked, m_exit, freed, historyVars>>

(* m_exit_cond.wait: gives m_exit_lock up until no thread is busy. *)
TerminateWait ==
  /\ oPc = "signal" /\ ~MoreToSignal
  /\ IF m_num_busy_threads = 0
     THEN oPc' = "join" /\ UNCHANGED exitLocked
     ELSE oPc' = "wait" /\ exitLocked' = FALSE
  /\ UNCHANGED <<m_num_busy_threads, ctxVars, workerVars, addVars, signalled, m_exit, freed,
                 historyVars>>

TerminateWake ==
  /\ oPc = "wait" /\ m_num_busy_threads = 0
  /\ exitLocked' = TRUE
  /\ oPc' = "join"
  /\ UNCHANGED <<m_num_busy_threads, ctxVars, workerVars, addVars, signalled, m_exit, freed,
                 historyVars>>

TerminateFinish ==
  /\ oPc = "join" /\ \A w \in Worker : wPc[w] = "done"
  /\ freed' = TRUE
  /\ exitLocked' = FALSE
  /\ oPc' = "terminated"
  /\ UNCHANGED <<m_num_busy_threads, ctxVars, workerVars, addVars, signalled, m_exit,
                 historyVars>>

-----------------------------------------------------------------------------
AddStep(a) == AddCheck(a) \/ \E w \in Worker : AddPush(a, w)

WorkerStep(w) == GetPendingTask(w) \/ RunTask(w) \/ BatchDone(w) \/ WorkerExit(w)

OwnerStep == TerminateSignal \/ TerminateWait \/ TerminateWake \/ TerminateFinish

Next == \/ \E c \in Caller, task \in Task : AddTask(c, task)
        \/ \E a \in Caller \cup Worker : AddStep(a)
        \/ \E w \in Worker : WorkerStep(w) \/ SpuriousWakeup(w)
        \/ TerminateCall \/ OwnerStep

(***************************************************************************)
(* Fairness.  Threads that can run do run: workers, calls that have begun, *)
(* the owner once it terminates the pool.  Nobody must add a task, nobody  *)
(* must terminate the pool, and nobody can count on spurious wake-ups.     *)
(***************************************************************************)
Spec == Init /\ [][Next]_vars
FairSpec == /\ Spec
            /\ \A w \in Worker : WF_vars(WorkerStep(w))
            /\ \A a \in Caller \cup Worker : WF_vars(AddStep(a))
            /\ WF_vars(OwnerStep)

-----------------------------------------------------------------------------
(* A context's tasks run in the order they were added, each at most once,   *)
(* although two lists are swapped and cleared under the worker's feet.      *)
RunsInOrder ==
  \A w \in Worker : /\ Len(ran[w]) <= Len(added[w])
                    /\ \A i \in 1 .. Len(ran[w]) : ran[w][i] = added[w][i]

HasRun(task) == \E w \in Worker : \E i \in DOMAIN ran[w] : ran[w][i] = task

(* Terminate() drains: when it returns, whatever reached a context before   *)
(* that context was told to exit has run.                                   *)
TerminateDrains == oPc = "terminated" => \A task \in inTime : HasRun(task)

(* Terminate() deletes no context that a worker or a task it runs still     *)
(* uses, nor one that a call begun after m_exit was set would use.  (A      *)
(* caller that was past the check by then has no such promise.)             *)
NoUseAfterFree ==
  freed => /\ \A w \in Worker : wPc[w] = "done" /\ aPc[w] = "idle"
           /\ \A a \in Caller : aPc[a] = "push" => a \in early

(* Terminate() returns once no worker is left in WorkRoutine(), and neither *)
(* waits for the other for ever.                                            *)
TerminateReturns == (oPc = "signal") ~> (oPc = "terminated")

(* A task that reached a context in time runs, Terminate() or not.          *)
AddedTasksRun == \A task \in Task : (task \in inTime) ~> HasRun(task)
=============================================================================
