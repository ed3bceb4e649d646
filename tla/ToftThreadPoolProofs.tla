------------------------ MODULE ToftThreadPoolProofs ------------------------
(***************************************************************************)
(* For any workers, callers and tasks, ToftThreadPool runs the tasks of a  *)
(* context in the order they were added, runs what came before a context   *)
(* was told to exit before Terminate() returns, and deletes no context     *)
(* that a worker or a call begun after m_exit was set still uses.          *)
(***************************************************************************)
EXTENDS ToftThreadPool, FiniteSetTheorems, TLAPS

InBatch(w) == wPc[w] \in {"run", "add"}

(* How much of its batch a worker has yet to run. *)
Left(w) == IF InBatch(w) THEN Len(working[w]) - next[w] + 1 ELSE 0

(* Two parts of the code agree on where a worker is: its loop, and the      *)
(* AddTask() that its task calls.  The list it will swap in is empty.       *)
WorkersKnowTheirPlace ==
  \A w \in Worker : /\ aPc[w] # "idle" <=> wPc[w] = "add"
                    /\ IF InBatch(w) THEN next[w] <= Len(working[w]) + 1
                                     ELSE working[w] = <<>>

(* Every call of AddTask() that is under way carries a task. *)
CallsCarryTasks == \A a \in Caller \cup Worker : aPc[a] # "idle" => aTask[a] \in Task

BusyAreCounted == m_num_busy_threads = Cardinality({w \in Worker : wPc[w] # "done"})

PoolInv == TypeOK /\ WorkersKnowTheirPlace /\ CallsCarryTasks /\ BusyAreCounted

(* Where Terminate() is, in its own flags; who was past the check of m_exit  *)
(* when it was set is the only one to be past it since.                     *)
TerminateIsWhereItSays ==
  /\ m_exit <=> oPc # "use"
  /\ freed <=> oPc = "terminated"
  /\ freed => \A w \in Worker : wPc[w] = "done"
  /\ m_exit => \A a \in Caller \cup Worker : aPc[a] = "push" => a \in early

(* A worker that has swapped its last list in, and one that runs no more.   *)
Leaving(w) == wPc[w] \in {"exit", "done"} \/ (InBatch(w) /\ ~continued[w])

(* How many of the tasks it was given a context's worker is sure to run.    *)
Due(w) == IF Leaving(w) THEN Len(ran[w]) + Left(w) ELSE Len(added[w])

(* A task that came in time is one of those. *)
Reaches(task, w) == \E i \in 1 .. Due(w) : added[w][i] = task
NobodyLeavesEarly ==
  /\ \A w \in Worker : Leaving(w) => exit[w]
  /\ \A task \in inTime : \E w \in Worker : Reaches(task, w)

(* a has, in this order: all of r, l elements of b from the n-th, all of p. *)
Follows(a, r, b, n, l, p) ==
  /\ Len(a) = Len(r) + l + Len(p)
  /\ \A i \in 1 .. Len(r) : r[i] = a[i]
  /\ \A i \in 1 .. l : b[n - 1 + i] = a[Len(r) + i]
  /\ \A i \in 1 .. Len(p) : p[i] = a[Len(r) + l + i]

(* What a context was given is what it ran, then the rest of the batch, then *)
(* what is pending: this, not the order of what ran, is kept by every step. *)
NothingOutOfPlace ==
  \A w \in Worker : Follows(added[w], ran[w], working[w], next[w], Left(w), pending[w])

-----------------------------------------------------------------------------
(* push_back on the pending list: *)
LEMMA PushAtEnd ==
  ASSUME NEW S, NEW a \in Seq(S), NEW r \in Seq(S), NEW b \in Seq(S), NEW p \in Seq(S),
         NEW n \in Nat, NEW l \in Nat, NEW e \in S, Follows(a, r, b, n, l, p)
  PROVE  Follows(Append(a, e), r, b, n, l, Append(p, e))
<1>1. Len(a) = Len(r) + l + Len(p)
  BY DEF Follows
<1>2. \A i \in 1 .. Len(r) : r[i] = Append(a, e)[i]
  BY <1>1 DEF Follows
<1>3. \A i \in 1 .. l : b[n - 1 + i] = Append(a, e)[Len(r) + i]
  <2> SUFFICES ASSUME NEW i \in 1 .. l PROVE b[n - 1 + i] = Append(a, e)[Len(r) + i]
    OBVIOUS
  <2>1. Len(r) + i \in 1 .. Len(a)
    BY <1>1
  <2>2. b[n - 1 + i] = a[Len(r) + i]
    BY Zenon DEF Follows
  <2>3. QED
    BY <2>1, <2>2
<1>4. \A i \in 1 .. Len(p) + 1 : Append(p, e)[i] = Append(a, e)[Len(r) + l + i]
  BY <1>1 DEF Follows
<1>5. Len(Append(a, e)) = Len(a) + 1 /\ Len(Append(p, e)) = Len(p) + 1
  OBVIOUS
<1>6. Len(Append(a, e)) = Len(r) + l + Len(Append(p, e))
  BY <1>1, <1>5
<1>7. QED
  BY <1>2, <1>3, <1>4, <1>5, <1>6, Zenon DEF Follows

(* swapping it with a batch that is over: *)
LEMMA SwapIn ==
  ASSUME NEW S, NEW a \in Seq(S), NEW r \in Seq(S), NEW b \in Seq(S), NEW p \in Seq(S),
         NEW n \in Nat, Follows(a, r, b, n, 0, p)
  PROVE  Follows(a, r, p, 1, Len(p), <<>>)
BY DEF Follows

(* running the next task of the batch: *)
LEMMA RunNext ==
  ASSUME NEW S, NEW a \in Seq(S), NEW r \in Seq(S), NEW b \in Seq(S), NEW p \in Seq(S),
         NEW n \in Nat \ {0}, NEW l \in Nat \ {0}, n <= Len(b), Follows(a, r, b, n, l, p)
  PROVE  Follows(a, Append(r, b[n]), b, n + 1, l - 1, p)
<1>1. b[n] = a[Len(r) + 1]
  <2>1. 1 \in 1 .. l /\ n - 1 + 1 = n
    OBVIOUS
  <2>2. QED
    BY <2>1 DEF Follows
<1>2. \A i \in 1 .. l - 1 : b[n + i] = a[Len(r) + 1 + i]
  <2> SUFFICES ASSUME NEW i \in 1 .. l - 1 PROVE b[n + i] = a[Len(r) + 1 + i]
    OBVIOUS
  <2>1. i + 1 \in 1 .. l /\ n - 1 + (i + 1) = n + i /\ Len(r) + (i + 1) = Len(r) + 1 + i
    OBVIOUS
  <2>2. QED
    BY <2>1 DEF Follows
<1>3. QED
  BY <1>1, <1>2 DEF Follows

(* clearing a batch that is over. *)
LEMMA ForgetBatch ==
  ASSUME NEW a, NEW r, NEW b, NEW c, NEW p, NEW n, NEW m, Follows(a, r, b, n, 0, p)
  PROVE  Follows(a, r, c, m, 0, p)
BY DEF Follows
-----------------------------------------------------------------------------
(* The counter of the busy and the workers that are not done change together. *)
LEMMA OneLessBusy ==
  ASSUME TypeOK, BusyAreCounted, NEW w \in Worker, wPc[w] = "exit",
         wPc' = [wPc EXCEPT ![w] = "done"], m_num_busy_threads' = m_num_busy_threads - 1
  PROVE  BusyAreCounted' /\ m_num_busy_threads' \in 0 .. NumThreads
<1> DEFINE Busy == {v \in Worker : wPc[v] # "done"}
<1>1. IsFiniteSet(Worker) /\ Cardinality(Worker) = NumThreads
  BY FS_Interval, NumThreadsAssumption DEF Worker
<1>2. IsFiniteSet(Busy) /\ Cardinality(Busy) \in Nat
  BY <1>1, FS_Subset, FS_CardinalityType
<1>3. Busy' = Busy \ {w} /\ w \in Busy
  BY DEF TypeOK
<1>4. Cardinality(Busy') = Cardinality(Busy) - 1
  BY <1>2, <1>3, FS_RemoveElement
<1>5. Cardinality(Busy') \in Nat
  BY <1>2, <1>3, FS_RemoveElement, FS_CardinalityType
<1>6. m_num_busy_threads = Cardinality(Busy)
  BY DEF BusyAreCounted
<1>7. BusyAreCounted'
  BY <1>4, <1>6 DEF BusyAreCounted
<1>8. QED
  BY <1>4, <1>5, <1>6, <1>7, NumThreadsAssumption DEF TypeOK

(* A worker that goes on without ending changes no count.                   *)
LEMMA SameBusy ==
  ASSUME TypeOK, BusyAreCounted, UNCHANGED m_num_busy_threads, NEW w \in Worker,
         NEW place, wPc' = [wPc EXCEPT ![w] = place], wPc[w] # "done", place # "done"
  PROVE  BusyAreCounted'
<1>1. {v \in Worker : wPc'[v] # "done"} = {v \in Worker : wPc[v] # "done"}
  BY DEF TypeOK
<1>2. QED
  BY <1>1 DEF BusyAreCounted

-----------------------------------------------------------------------------
(* AddTask() returns to the caller, or to the loop of the worker whose task *)
(* called it.                                                               *)
LEMMA ReturnKeepsPlaces ==
  ASSUME PoolInv, NEW a \in Caller \cup Worker, aPc[a] # "idle", Returns(a),
         UNCHANGED <<m_num_busy_threads, exit, working, continued, next, ownerVars,
                     submitted, ran>>,
         pending' \in [Worker -> Seq(Task)], added' \in [Worker -> Seq(Task)],
         asleep' \subseteq Worker, inTime' \subseteq Task
  PROVE  PoolInv'
<1> USE DEF PoolInv
<1>1. TypeOK'
  BY DEF TypeOK, Returns, ownerVars
<1>2. CASE a \in Worker
  <2>1. wPc[a] = "add" /\ wPc' = [wPc EXCEPT ![a] = "run"]
    BY <1>2 DEF Returns, WorkersKnowTheirPlace
  <2>2. WorkersKnowTheirPlace' /\ CallsCarryTasks'
    BY <1>2, <2>1 DEF TypeOK, Returns, WorkersKnowTheirPlace, CallsCarryTasks, InBatch
  <2>3. BusyAreCounted'
    BY <1>2, <2>1, SameBusy
  <2>4. QED
    BY <1>1, <2>2, <2>3
<1>3. CASE a \notin Worker
  BY <1>1, <1>3 DEF TypeOK, Returns, WorkersKnowTheirPlace, CallsCarryTasks, BusyAreCounted,
     InBatch
<1>4. QED
  BY <1>2, <1>3

(* Calls and workers keep their types and places in every step. *)
LEMMA StepKeepsPoolInv ==
  ASSUME PoolInv, [Next]_vars
  PROVE  PoolInv'
<1> USE DEF PoolInv
<1>1. ASSUME NEW c \in Caller, NEW task \in Task, AddTask(c, task) PROVE PoolInv'
  <2>1. TypeOK'
    BY <1>1 DEF AddTask, Submit, TypeOK, ctxVars, workerVars, ownerVars
  <2>2. c \notin Worker
    BY <1>1, ActorAssumption
  <2>3. WorkersKnowTheirPlace'
    BY <1>1, <2>2 DEF AddTask, Submit, TypeOK, ctxVars, workerVars, WorkersKnowTheirPlace,
       InBatch
  <2>4. CallsCarryTasks'
    BY <1>1 DEF AddTask, Submit, TypeOK, CallsCarryTasks
  <2>5. BusyAreCounted'
    BY <1>1 DEF AddTask, workerVars, BusyAreCounted
  <2>6. QED
    BY <2>1, <2>3, <2>4, <2>5
<1>2. ASSUME NEW a \in Caller \cup Worker, AddCheck(a) PROVE PoolInv'
  <2>1. CASE m_exit
    <3>1. /\ aPc[a] # "idle" /\ Returns(a)
          /\ UNCHANGED <<m_num_busy_threads, ctxVars, asleep, continued, next, ownerVars,
                         submitted, added, ran, inTime>>
      BY <1>2, <2>1 DEF AddCheck, Closed
    <3>2. /\ pending' \in [Worker -> Seq(Task)] /\ added' \in [Worker -> Seq(Task)]
          /\ asleep' \subseteq Worker /\ inTime' \subseteq Task
      BY <3>1 DEF TypeOK, ctxVars
    <3>3. QED
      BY <3>1, <3>2, ReturnKeepsPlaces DEF ctxVars
  <2>2. CASE ~m_exit
    <3>1. /\ aPc' = [aPc EXCEPT ![a] = "push"] /\ aPc[a] = "check"
          /\ UNCHANGED <<aTask, workerVars, early, m_num_busy_threads, ctxVars, ownerVars,
                         submitted, added, ran, inTime>>
      BY <1>2, <2>2 DEF AddCheck, Closed, workerVars
    <3>2. QED
      BY <3>1 DEF TypeOK, WorkersKnowTheirPlace, CallsCarryTasks, BusyAreCounted, InBatch,
         ctxVars, workerVars, ownerVars
  <2>3. QED
    BY <2>1, <2>2
<1>3. ASSUME NEW a \in Caller \cup Worker, NEW w \in Worker, AddPush(a, w) PROVE PoolInv'
  <2>1. aTask[a] \in Task
    BY <1>3 DEF AddPush, CallsCarryTasks
  <2>2. /\ pending' \in [Worker -> Seq(Task)] /\ added' \in [Worker -> Seq(Task)]
        /\ asleep' \subseteq Worker /\ inTime' \subseteq Task
    BY <1>3, <2>1 DEF AddPush, Notify, TypeOK
  <2>3. aPc[a] # "idle"
    BY <1>3 DEF AddPush
  <2>4. QED
    BY <1>3, <2>2, <2>3, ReturnKeepsPlaces DEF AddPush, ownerVars
<1>4. ASSUME NEW w \in Worker, GetPendingTask(w) PROVE PoolInv'
  <2>1. CASE pending[w] = <<>> /\ ~exit[w]
    BY <1>4, <2>1 DEF GetPendingTask, TypeOK, WorkersKnowTheirPlace, CallsCarryTasks,
       BusyAreCounted, InBatch, addVars, ownerVars, historyVars
  <2>2. CASE ~(pending[w] = <<>> /\ ~exit[w])
    <3>1. /\ wPc[w] = "get" /\ wPc' = [wPc EXCEPT ![w] = "run"]
          /\ pending' = [pending EXCEPT ![w] = working[w]]
          /\ working' = [working EXCEPT ![w] = pending[w]]
          /\ continued' = [continued EXCEPT ![w] = ~exit[w]]
          /\ next' = [next EXCEPT ![w] = 1]
          /\ UNCHANGED <<m_num_busy_threads, exit, asleep, addVars, ownerVars, historyVars>>
      BY <1>4, <2>2, Zenon DEF GetPendingTask
    <3>2. TypeOK'
      BY <3>1 DEF TypeOK, addVars, ownerVars, historyVars
    <3>3. WorkersKnowTheirPlace'
      BY <3>1 DEF TypeOK, addVars, WorkersKnowTheirPlace, InBatch
    <3>4. CallsCarryTasks'
      BY <3>1 DEF addVars, CallsCarryTasks
    <3>5. BusyAreCounted'
      BY <3>1, SameBusy
    <3>6. QED
      BY <3>2, <3>3, <3>4, <3>5
  <2>3. QED
    BY <2>1, <2>2
<1>5. ASSUME NEW w \in Worker, RunTask(w) PROVE PoolInv'
  <2>1. /\ next[w] \in 1 .. Len(working[w]) /\ working[w] \in Seq(Task) /\ wPc[w] = "run"
    BY <1>5 DEF RunTask, HasNext, TypeOK
  <2> DEFINE task == working[w][next[w]]
  <2>2. task \in Task
    BY <2>1
  <2>3. /\ ran' = [ran EXCEPT ![w] = Append(@, task)] /\ next' = [next EXCEPT ![w] = @ + 1]
        /\ UNCHANGED <<m_num_busy_threads, ctxVars, asleep, continued, ownerVars, added,
                       inTime, early>>
    BY <1>5 DEF RunTask
  <2>4. ran' \in [Worker -> Seq(Task)] /\ next' \in [Worker -> Nat \ {0}]
    BY <2>2, <2>3 DEF TypeOK
  <2>5. CASE Child[task] = NoTask
    <3>1. UNCHANGED <<wPc, addVars, submitted>>
      BY <1>5, <2>5 DEF RunTask
    <3>2. TypeOK'
      BY <2>3, <2>4, <3>1 DEF TypeOK, ctxVars, addVars, ownerVars
    <3>3. WorkersKnowTheirPlace'
      <4>1. wPc' = wPc /\ aPc' = aPc /\ working' = working
        BY <2>3, <3>1 DEF ctxVars, addVars
      <4>2. next'[w] <= Len(working[w]) + 1
        BY <2>1, <2>3 DEF TypeOK
      <4>3. \A v \in Worker : v # w => next'[v] = next[v]
        BY <2>3 DEF TypeOK
      <4>4. QED
        BY <2>1, <4>1, <4>2, <4>3 DEF WorkersKnowTheirPlace, InBatch
    <3>4. CallsCarryTasks' /\ BusyAreCounted'
      BY <2>3, <3>1 DEF CallsCarryTasks, BusyAreCounted, addVars
    <3>5. QED
      BY <3>2, <3>3, <3>4
  <2>6. CASE Child[task] # NoTask
    <3>1. wPc' = [wPc EXCEPT ![w] = "add"] /\ Submit(w, Child[task])
      BY <1>5, <2>6 DEF RunTask
    <3>2. Child[task] \in Task
      BY <2>2, <2>6, ChildAssumption
    <3>3. TypeOK'
      BY <2>3, <2>4, <3>1, <3>2 DEF Submit, TypeOK, ctxVars, ownerVars
    <3>4. WorkersKnowTheirPlace'
      BY <2>1, <2>3, <3>1 DEF Submit, TypeOK, WorkersKnowTheirPlace, InBatch, ctxVars
    <3>5. CallsCarryTasks'
      BY <3>1, <3>2 DEF Submit, TypeOK, CallsCarryTasks
    <3>6. BusyAreCounted'
      BY <2>1, <2>3, <3>1, SameBusy
    <3>7. QED
      BY <3>3, <3>4, <3>5, <3>6
  <2>7. QED
    BY <2>5, <2>6
<1>6. ASSUME NEW w \in Worker, BatchDone(w) PROVE PoolInv'
  <2> DEFINE place == IF continued[w] THEN "get" ELSE "exit"
  <2>1. /\ wPc[w] = "run" /\ wPc' = [wPc EXCEPT ![w] = place]
        /\ working' = [working EXCEPT ![w] = <<>>]
        /\ UNCHANGED <<m_num_busy_threads, exit, pending, asleep, continued, next, addVars,
                       ownerVars, historyVars>>
    BY <1>6 DEF BatchDone, Clear
  <2>2. place \in {"get", "exit"}
    OBVIOUS
  <2>3. TypeOK'
    BY <2>1, <2>2 DEF TypeOK, addVars, ownerVars, historyVars
  <2>4. WorkersKnowTheirPlace' /\ CallsCarryTasks'
    BY <2>1, <2>2 DEF TypeOK, WorkersKnowTheirPlace, CallsCarryTasks, InBatch, addVars
  <2>5. BusyAreCounted'
    BY <2>1, <2>2, SameBusy
  <2>6. QED
    BY <2>3, <2>4, <2>5
<1>7. ASSUME NEW w \in Worker, WorkerExit(w) PROVE PoolInv'
  <2>1. BusyAreCounted' /\ m_num_busy_threads' \in 0 .. NumThreads
    BY <1>7, OneLessBusy DEF WorkerExit
  <2>2. TypeOK'
    BY <1>7, <2>1 DEF WorkerExit, TypeOK, ctxVars, addVars, ownerVars, historyVars
  <2>3. WorkersKnowTheirPlace' /\ CallsCarryTasks'
    BY <1>7 DEF WorkerExit, TypeOK, WorkersKnowTheirPlace, CallsCarryTasks, InBatch, ctxVars,
       addVars
  <2>4. QED
    BY <2>1, <2>2, <2>3
<1>8. ASSUME NEW w \in Worker, SpuriousWakeup(w) PROVE PoolInv'
  BY <1>8 DEF SpuriousWakeup, TypeOK, WorkersKnowTheirPlace, CallsCarryTasks, BusyAreCounted,
     InBatch, ctxVars, addVars, ownerVars, historyVars
<1>9. CASE TerminateSignal
  <2>1. signalled + 1 \in Worker /\ signalled' \in 0 .. NumThreads
    BY <1>9, NumThreadsAssumption DEF TerminateSignal, MoreToSignal, TypeOK, Worker
  <2>2. QED
    BY <1>9, <2>1 DEF TerminateSignal, Notify, TypeOK, WorkersKnowTheirPlace,
       CallsCarryTasks, BusyAreCounted, InBatch, addVars, historyVars
<1>10. CASE TerminateCall \/ TerminateWait \/ TerminateWake \/ TerminateFinish
  <2>1. UNCHANGED <<m_num_busy_threads, ctxVars, workerVars, addVars>>
    BY <1>10 DEF TerminateCall, TerminateWait, TerminateWake, TerminateFinish
  <2>2. WorkersKnowTheirPlace' /\ CallsCarryTasks' /\ BusyAreCounted'
    BY <2>1 DEF WorkersKnowTheirPlace, CallsCarryTasks, BusyAreCounted, InBatch, ctxVars,
       workerVars, addVars
  <2>3. UNCHANGED <<submitted, added, ran, inTime>>
    BY <1>10 DEF TerminateCall, TerminateWait, TerminateWake, TerminateFinish, historyVars
  <2>4. /\ m_exit' \in BOOLEAN /\ exitLocked' \in BOOLEAN /\ freed' \in BOOLEAN
        /\ oPc' \in {"use", "signal", "wait", "join", "terminated"}
        /\ signalled' \in 0 .. NumThreads /\ early' \subseteq Caller \cup Worker
    <3>1. 0 \in 0 .. NumThreads
      BY NumThreadsAssumption
    <3>2. CASE TerminateCall
      BY <3>1, <3>2 DEF TerminateCall, TypeOK
    <3>3. CASE TerminateWait
      BY <3>3 DEF TerminateWait, historyVars, TypeOK
    <3>4. CASE TerminateWake
      BY <3>4 DEF TerminateWake, historyVars, TypeOK
    <3>5. CASE TerminateFinish
      BY <3>5 DEF TerminateFinish, historyVars, TypeOK
    <3>6. QED
      BY <1>10, <3>2, <3>3, <3>4, <3>5
  <2>5. TypeOK'
    BY <2>1, <2>3, <2>4 DEF TypeOK, ctxVars, workerVars, addVars
  <2>6. QED
    BY <2>2, <2>5
<1>11. CASE UNCHANGED vars
  BY <1>11 DEF vars, TypeOK, WorkersKnowTheirPlace, CallsCarryTasks, BusyAreCounted,
     InBatch, ctxVars, workerVars, addVars, ownerVars, historyVars
<1>12. QED
  BY <1>1, <1>2, <1>3, <1>4, <1>5, <1>6, <1>7, <1>8, <1>9, <1>10, <1>11
  DEF Next, AddStep, WorkerStep, OwnerStep
-----------------------------------------------------------------------------
(* The contexts that a step does not touch keep their tasks. *)
LEMMA OthersKeepPlace ==
  ASSUME NEW v \in Worker, UNCHANGED <<added[v], ran[v], working[v], next[v], pending[v]>>,
         Left(v)' = Left(v),
         Follows(added[v], ran[v], working[v], next[v], Left(v), pending[v])
  PROVE  Follows(added[v], ran[v], working[v], next[v], Left(v), pending[v])'
BY DEF Follows

(* Every step keeps the tasks of a context in their place: AddTask() pushes *)
(* at the end, the worker swaps a whole list in, runs and clears it.        *)
LEMMA StepKeepsOrder ==
  ASSUME PoolInv, NothingOutOfPlace, [Next]_vars
  PROVE  NothingOutOfPlace'
<1> DEFINE Fits(v) == Follows(added[v], ran[v], working[v], next[v], Left(v), pending[v])
<1>1. PoolInv'
  BY StepKeepsPoolInv
<1>2. \A v \in Worker : /\ added[v] \in Seq(Task) /\ ran[v] \in Seq(Task)
                        /\ working[v] \in Seq(Task) /\ pending[v] \in Seq(Task)
                        /\ next[v] \in Nat \ {0} /\ Left(v) \in Nat
  BY DEF PoolInv, TypeOK, WorkersKnowTheirPlace, Left
<1>3. \A v \in Worker : Fits(v)
  BY DEF NothingOutOfPlace
<1>4. SUFFICES ASSUME NEW v \in Worker PROVE Fits(v)'
  BY DEF NothingOutOfPlace
<1>5. ASSUME NEW a \in Caller \cup Worker, NEW w \in Worker, AddPush(a, w) PROVE Fits(v)'
  <2>1. Left(v)' = Left(v)
    BY <1>5 DEF AddPush, Returns, PoolInv, TypeOK, WorkersKnowTheirPlace, Left, InBatch
  <2>2. UNCHANGED <<ran, working, next>>
    BY <1>5 DEF AddPush
  <2>3. CASE v = w
    <3>1. aTask[a] \in Task
      BY <1>5 DEF AddPush, PoolInv, CallsCarryTasks
    <3>2. added'[v] = Append(added[v], aTask[a]) /\ pending'[v] = Append(pending[v], aTask[a])
      BY <1>5, <2>3 DEF AddPush, PoolInv, TypeOK
    <3>3. Follows(added'[v], ran[v], working[v], next[v], Left(v), pending'[v])
      BY <1>2, <1>3, <3>1, <3>2, PushAtEnd
    <3>4. QED
      BY <2>1, <2>2, <3>3
  <2>4. CASE v # w
    <3>1. added'[v] = added[v] /\ pending'[v] = pending[v]
      BY <1>5, <2>4 DEF AddPush, PoolInv, TypeOK
    <3>2. QED
      BY <1>3, <2>1, <2>2, <3>1, OthersKeepPlace
  <2>5. QED
    BY <2>3, <2>4
<1>6. ASSUME NEW w \in Worker, GetPendingTask(w) PROVE Fits(v)'
  <2>1. added' = added /\ ran' = ran /\ wPc[w] = "get"
    BY <1>6 DEF GetPendingTask, historyVars
  <2>2. CASE v = w /\ ~(pending[w] = <<>> /\ ~exit[w])
    <3>1. /\ wPc'[v] = "run" /\ pending'[v] = working[v] /\ working'[v] = pending[v]
          /\ next'[v] = 1
      BY <1>6, <2>2 DEF GetPendingTask, PoolInv, TypeOK
    <3>2. Left(v) = 0 /\ working[v] = <<>>
      BY <2>1, <2>2 DEF PoolInv, WorkersKnowTheirPlace, Left, InBatch
    <3>3. Left(v)' = Len(pending[v])
      BY <1>2, <3>1 DEF Left, InBatch
    <3>4. Follows(added[v], ran[v], pending[v], 1, Len(pending[v]), <<>>)
      BY <1>2, <1>3, <3>2, SwapIn
    <3>5. QED
      BY <2>1, <3>1, <3>2, <3>3, <3>4
  <2>3. CASE v # w \/ (pending[w] = <<>> /\ ~exit[w])
    <3>1. /\ pending'[v] = pending[v] /\ working'[v] = working[v] /\ next'[v] = next[v]
          /\ wPc'[v] = wPc[v]
      BY <1>6, <2>3 DEF GetPendingTask, PoolInv, TypeOK
    <3>2. Left(v)' = Left(v)
      BY <3>1 DEF Left, InBatch
    <3>3. QED
      BY <1>3, <2>1, <3>1, <3>2, OthersKeepPlace
  <2>4. QED
    BY <2>2, <2>3
<1>7. ASSUME NEW w \in Worker, RunTask(w) PROVE Fits(v)'
  <2>1. /\ wPc[w] = "run" /\ wPc'[w] \in {"run", "add"} /\ next[w] <= Len(working[w])
        /\ \A u \in Worker : u # w => wPc'[u] = wPc[u]
    BY <1>7 DEF RunTask, HasNext, PoolInv, TypeOK
  <2>2. /\ ran' = [ran EXCEPT ![w] = Append(@, working[w][next[w]])]
        /\ next' = [next EXCEPT ![w] = @ + 1] /\ UNCHANGED <<added, working, pending>>
    BY <1>7 DEF RunTask, ctxVars
  <2>3. CASE v = w
    <3>1. ran'[v] = Append(ran[v], working[v][next[v]]) /\ next'[v] = next[v] + 1
      BY <2>2, <2>3 DEF PoolInv, TypeOK
    <3>2. Left(v) \in Nat \ {0} /\ Left(v)' = Left(v) - 1
      BY <1>2, <2>1, <2>2, <2>3, <3>1 DEF Left, InBatch
    <3>3. Follows(added[v], ran'[v], working[v], next'[v], Left(v) - 1, pending[v])
      <4>1. next[v] \in Nat \ {0} /\ next[v] <= Len(working[v])
        BY <1>2, <2>1, <2>3
      <4>2. Follows(added[v], Append(ran[v], working[v][next[v]]), working[v], next[v] + 1,
                    Left(v) - 1, pending[v])
        BY <1>2, <1>3, <3>2, <4>1, RunNext
      <4>3. QED
        BY <3>1, <4>2
    <3>4. QED
      BY <2>2, <3>2, <3>3
  <2>4. CASE v # w
    <3>1. ran'[v] = ran[v] /\ next'[v] = next[v]
      BY <2>2, <2>4 DEF PoolInv, TypeOK
    <3>2. Left(v)' = Left(v)
      BY <2>1, <2>2, <2>4, <3>1 DEF Left, InBatch
    <3>3. QED
      BY <1>3, <2>2, <3>1, <3>2, OthersKeepPlace
  <2>5. QED
    BY <2>3, <2>4
<1>8. ASSUME NEW w \in Worker, BatchDone(w) PROVE Fits(v)'
  <2>1. /\ wPc[w] = "run" /\ wPc' = [wPc EXCEPT ![w] = IF continued[w] THEN "get" ELSE "exit"]
        /\ ~(next[w] <= Len(working[w])) /\ working' = [working EXCEPT ![w] = <<>>]
        /\ UNCHANGED <<added, ran, next, pending>>
    BY <1>8 DEF BatchDone, HasNext, Clear, historyVars
  <2>2. CASE v = w
    <3>1. Left(v) = 0
      BY <1>2, <2>1, <2>2 DEF PoolInv, WorkersKnowTheirPlace, Left, InBatch
    <3>2. Left(v)' = 0
      BY <2>1, <2>2 DEF PoolInv, TypeOK, Left, InBatch
    <3>3. Follows(added[v], ran[v], working'[v], next[v], 0, pending[v])
      BY <1>3, <3>1, ForgetBatch
    <3>4. QED
      BY <2>1, <3>2, <3>3
  <2>3. CASE v # w
    <3>1. wPc'[v] = wPc[v] /\ working'[v] = working[v]
      BY <2>1, <2>3 DEF PoolInv, TypeOK
    <3>2. Left(v)' = Left(v)
      BY <2>1, <3>1 DEF Left, InBatch
    <3>3. QED
      BY <1>3, <2>1, <3>1, <3>2, OthersKeepPlace
  <2>4. QED
    BY <2>2, <2>3
<1>9. ASSUME UNCHANGED <<added, ran, working, next, pending>>, InBatch(v)' = InBatch(v)
      PROVE  Fits(v)'
  <2>1. Left(v)' = Left(v)
    BY <1>9 DEF Left
  <2>2. QED
    BY <1>3, <1>9, <2>1, OthersKeepPlace
<1>10. ASSUME NEW a \in Caller \cup Worker, AddCheck(a) PROVE Fits(v)'
  BY <1>9, <1>10 DEF AddCheck, Returns, PoolInv, TypeOK, WorkersKnowTheirPlace, InBatch, ctxVars
<1>11. ASSUME NEW w \in Worker, WorkerExit(w) PROVE Fits(v)'
  BY <1>9, <1>11 DEF WorkerExit, PoolInv, TypeOK, InBatch, ctxVars, historyVars
<1>12. CASE \/ \E c \in Caller, task \in Task : AddTask(c, task)
            \/ \E w \in Worker : SpuriousWakeup(w)
            \/ TerminateCall \/ OwnerStep \/ UNCHANGED vars
  <2>1. UNCHANGED <<added, ran, working, next, pending, wPc>>
    BY <1>12 DEF AddTask, SpuriousWakeup, TerminateCall, OwnerStep, TerminateSignal,
       TerminateWait, TerminateWake, TerminateFinish, vars, ctxVars, workerVars, historyVars
  <2>2. QED
    BY <1>9, <2>1 DEF InBatch
<1>13. QED
  BY <1>5, <1>6, <1>7, <1>8, <1>10, <1>11, <1>12 DEF Next, AddStep, WorkerStep
-----------------------------------------------------------------------------
(* Every step leaves Terminate() where its place says it is.                *)
LEMMA StepKeepsTerminate ==
  ASSUME PoolInv, TerminateIsWhereItSays, [Next]_vars
  PROVE  TerminateIsWhereItSays'
<1> USE DEF TerminateIsWhereItSays
<1>1. ASSUME NEW c \in Caller, NEW task \in Task, AddTask(c, task)
      PROVE  TerminateIsWhereItSays'
  BY <1>1 DEF AddTask, Submit, PoolInv, TypeOK, workerVars, ownerVars
<1>2. ASSUME NEW a \in Caller \cup Worker, aPc[a] # "idle", Returns(a), UNCHANGED ownerVars
      PROVE  TerminateIsWhereItSays'
  <2>1. wPc[a] = "add" \/ wPc' = wPc
    BY <1>2 DEF Returns, PoolInv, WorkersKnowTheirPlace
  <2>2. \A w \in Worker : wPc[w] = "done" => wPc'[w] = "done"
    BY <1>2, <2>1 DEF Returns, PoolInv, TypeOK
  <2>3. \A b \in Caller \cup Worker : aPc'[b] = "push" => b # a /\ aPc[b] = "push"
    BY <1>2 DEF Returns, PoolInv, TypeOK
  <2>4. early' = early \ {a}
    BY <1>2 DEF Returns
  <2>5. QED
    BY <1>2, <2>2, <2>3, <2>4 DEF ownerVars
<1>3. ASSUME NEW a \in Caller \cup Worker, AddCheck(a) PROVE TerminateIsWhereItSays'
  <2>1. CASE m_exit
    BY <1>2, <1>3, <2>1 DEF AddCheck, Closed
  <2>2. CASE ~m_exit
    BY <1>3, <2>2 DEF AddCheck, Closed, PoolInv, TypeOK, ownerVars
  <2>3. QED
    BY <2>1, <2>2
<1>4. ASSUME NEW a \in Caller \cup Worker, NEW w \in Worker, AddPush(a, w)
      PROVE  TerminateIsWhereItSays'
  BY <1>2, <1>4 DEF AddPush
<1>5. ASSUME NEW w \in Worker, WorkerStep(w) PROVE TerminateIsWhereItSays'
  <2>1. wPc[w] # "done" /\ UNCHANGED <<ownerVars, early>>
    BY <1>5 DEF WorkerStep, GetPendingTask, RunTask, BatchDone, WorkerExit, historyVars
  <2>2. \A b \in Caller \cup Worker : aPc'[b] = "push" => aPc[b] = "push"
    BY <1>5 DEF WorkerStep, GetPendingTask, RunTask, Submit, BatchDone, WorkerExit, PoolInv,
       TypeOK, addVars
  <2>3. QED
    BY <2>1, <2>2 DEF ownerVars
<1>6. CASE TerminateCall
  BY <1>6 DEF TerminateCall, workerVars, addVars
<1>7. CASE TerminateSignal \/ TerminateWait \/ TerminateWake \/ TerminateFinish
  BY <1>7 DEF TerminateSignal, TerminateWait, TerminateWake, TerminateFinish, workerVars,
     addVars, historyVars
<1>8. CASE (\E w \in Worker : SpuriousWakeup(w)) \/ UNCHANGED vars
  BY <1>8 DEF SpuriousWakeup, vars, workerVars, addVars, ownerVars, historyVars
<1>9. QED
  BY <1>1, <1>3, <1>4, <1>5, <1>6, <1>7, <1>8 DEF Next, AddStep, OwnerStep

-----------------------------------------------------------------------------
(* Every step keeps the promise to the tasks that came in time: a worker    *)
(* leaves after a batch it swapped in when it had been told to exit.        *)
LEMMA StepKeepsPromise ==
  ASSUME PoolInv, NothingOutOfPlace, NobodyLeavesEarly, [Next]_vars
  PROVE  NobodyLeavesEarly'
<1> USE DEF NobodyLeavesEarly
<1>1. PoolInv' /\ NothingOutOfPlace'
  BY StepKeepsPoolInv, StepKeepsOrder
<1>2. \A v \in Worker :
        /\ Len(added[v]) \in Nat /\ Len(ran[v]) \in Nat /\ Len(pending[v]) \in Nat
        /\ Left(v) \in Nat /\ Len(added[v]) = Len(ran[v]) + Left(v) + Len(pending[v])
  BY DEF PoolInv, TypeOK, WorkersKnowTheirPlace, Left, NothingOutOfPlace, Follows
<1>3. \A v \in Worker :
        /\ Len(added'[v]) \in Nat /\ Len(ran'[v]) \in Nat /\ Len(pending'[v]) \in Nat
        /\ Left(v)' \in Nat /\ Len(added'[v]) = Len(ran'[v]) + Left(v)' + Len(pending'[v])
  <2>1. \A v \in Worker : Len(added'[v]) \in Nat /\ Len(ran'[v]) \in Nat /\ Len(pending'[v]) \in Nat
    BY <1>1 DEF PoolInv, TypeOK
  <2>2. \A v \in Worker : Left(v)' \in Nat
    BY <1>1 DEF PoolInv, TypeOK, WorkersKnowTheirPlace, Left
  <2>3. \A v \in Worker : Len(added'[v]) = Len(ran'[v]) + Left(v)' + Len(pending'[v])
    BY <1>1 DEF NothingOutOfPlace, Follows
  <2>4. QED
    BY <2>1, <2>2, <2>3
<1>4. \A v \in Worker : Due(v) \in Nat /\ Due(v) <= Len(added[v])
  BY <1>2 DEF Due
<1>5. ASSUME UNCHANGED <<added, inTime>>,
             \A v \in Worker : (Leaving(v)' => exit'[v]) /\ Due(v)' \in Nat /\ Due(v)' >= Due(v)
      PROVE  NobodyLeavesEarly'
  <2>1. \A task \in inTime, v \in Worker : Reaches(task, v) => Reaches(task, v)'
    BY <1>4, <1>5 DEF Reaches
  <2>2. QED
    BY <1>5, <2>1
<1>6. ASSUME NEW a \in Caller \cup Worker, NEW w \in Worker, AddPush(a, w)
      PROVE  NobodyLeavesEarly'
  <2>1. /\ added' = [added EXCEPT ![w] = Append(@, aTask[a])] /\ UNCHANGED <<exit, ran>>
        /\ inTime' = IF exit[w] THEN inTime ELSE inTime \cup {aTask[a]}
        /\ UNCHANGED <<continued, working, next>> /\ aPc[a] # "idle" /\ Returns(a)
    BY <1>6 DEF AddPush
  <2>2. (wPc' = [wPc EXCEPT ![a] = "run"] /\ wPc[a] = "add") \/ wPc' = wPc
    BY <2>1 DEF Returns, PoolInv, WorkersKnowTheirPlace
  <2>3. \A v \in Worker : Leaving(v)' = Leaving(v) /\ Left(v)' = Left(v)
    BY <2>1, <2>2 DEF PoolInv, TypeOK, Leaving, Left, InBatch
  <2>4. /\ added[w] \in Seq(Task) /\ aTask[a] \in Task
        /\ added'[w] = Append(added[w], aTask[a])
        /\ \A v \in Worker : v # w => added'[v] = added[v]
    BY <2>1 DEF PoolInv, TypeOK, CallsCarryTasks
  <2>5. \A v \in Worker : /\ Due(v)' \in Nat /\ Due(v)' >= Due(v)
                          /\ \A i \in 1 .. Due(v) : added'[v][i] = added[v][i]
    BY <1>2, <1>4, <2>1, <2>3, <2>4 DEF Due
  <2>6. \A task \in inTime, v \in Worker : Reaches(task, v) => Reaches(task, v)'
    BY <1>4, <2>5 DEF Reaches
  <2>7. ASSUME NEW task, task = aTask[a], ~exit[w] PROVE Reaches(task, w)'
    <3>1. Due(w)' = Len(added[w]) + 1
      BY <2>3, <2>4, <2>7 DEF Due
    <3>2. added'[w][Len(added[w]) + 1] = task
      BY <2>4, <2>7
    <3>3. Len(added[w]) + 1 \in 1 .. Due(w)'
      BY <1>2, <3>1
    <3>4. QED
      BY <3>2, <3>3 DEF Reaches
  <2>8. \A v \in Worker : Leaving(v)' => exit'[v]
    BY <2>1, <2>3
  <2>9. \A task \in inTime' : \E v \in Worker : Reaches(task, v)'
    <3> SUFFICES ASSUME NEW task \in inTime' PROVE \E v \in Worker : Reaches(task, v)'
      OBVIOUS
    <3>1. CASE task \in inTime
      BY <2>6, <3>1
    <3>2. CASE task \notin inTime
      BY <2>1, <2>7, <3>2
    <3>3. QED
      BY <3>1, <3>2
  <2>10. QED
    BY <2>8, <2>9
<1>7. ASSUME NEW w \in Worker, GetPendingTask(w) PROVE NobodyLeavesEarly'
  <2>1. UNCHANGED <<exit, added, ran, inTime>> /\ wPc[w] = "get" /\ ~Leaving(w)
    BY <1>7 DEF GetPendingTask, historyVars, Leaving, InBatch
  <2>2. ASSUME NEW v \in Worker
        PROVE  (Leaving(v)' => exit'[v]) /\ Due(v)' \in Nat /\ Due(v)' >= Due(v)
    <3>1. CASE v = w /\ ~(pending[w] = <<>> /\ ~exit[w])
      <4>1. wPc'[w] = "run" /\ pending'[w] = <<>> /\ continued'[w] = ~exit[w]
        <5>1. working[w] = <<>>
          BY <2>1 DEF PoolInv, WorkersKnowTheirPlace, InBatch
        <5>2. /\ pending' = [pending EXCEPT ![w] = working[w]]
              /\ continued' = [continued EXCEPT ![w] = ~exit[w]]
              /\ wPc' = [wPc EXCEPT ![w] = "run"]
          BY <1>7, <3>1 DEF GetPendingTask
        <5>3. w \in DOMAIN pending /\ w \in DOMAIN continued /\ w \in DOMAIN wPc
          BY DEF PoolInv, TypeOK
        <5>4. QED
          BY <5>1, <5>2, <5>3
      <4>2. Leaving(w)' => exit[w]
        BY <4>1 DEF Leaving, InBatch
      <4>3. Len(pending'[w]) = 0
        BY <4>1
      <4>4. Due(w)' = Len(added'[w])
        BY <1>3, <4>3 DEF Due
      <4>5. QED
        BY <1>2, <1>4, <2>1, <3>1, <4>2, <4>4
    <3>2. CASE v # w \/ (pending[w] = <<>> /\ ~exit[w])
      <4>1. /\ wPc'[v] = wPc[v] /\ continued'[v] = continued[v]
            /\ working'[v] = working[v] /\ next'[v] = next[v]
        BY <1>7, <3>2 DEF GetPendingTask, PoolInv, TypeOK
      <4>2. Leaving(v)' = Leaving(v) /\ Left(v)' = Left(v)
        BY <4>1 DEF Leaving, Left, InBatch
      <4>3. QED
        BY <1>4, <2>1, <4>2 DEF Due
    <3>3. QED
      BY <3>1, <3>2
  <2>3. QED
    BY <1>5, <2>1, <2>2
<1>8. ASSUME NEW w \in Worker, RunTask(w) \/ BatchDone(w) \/ WorkerExit(w)
      PROVE  NobodyLeavesEarly'
  <2>1. UNCHANGED <<exit, added, pending, inTime>>
    BY <1>8 DEF RunTask, BatchDone, WorkerExit, ctxVars, historyVars
  <2>2. \A v \in Worker : Leaving(v)' = Leaving(v)
    <3>1. UNCHANGED continued /\ wPc[w] \in {"run", "exit"}
      BY <1>8 DEF RunTask, BatchDone, WorkerExit
    <3>2. wPc' = [wPc EXCEPT ![w] = wPc'[w]]
      BY <1>8 DEF RunTask, BatchDone, WorkerExit, PoolInv, TypeOK
    <3>3. /\ wPc[w] = "run" => IF wPc'[w] \in {"run", "add"} THEN TRUE
                              ELSE wPc'[w] = IF continued[w] THEN "get" ELSE "exit"
          /\ wPc[w] = "exit" => wPc'[w] = "done"
      BY <1>8 DEF RunTask, BatchDone, WorkerExit, PoolInv, TypeOK
    <3>4. QED
      BY <3>1, <3>2, <3>3 DEF PoolInv, TypeOK, Leaving, InBatch
  <2>3. \A v \in Worker : Due(v)' = Due(v)
    <3> SUFFICES ASSUME NEW v \in Worker PROVE Due(v)' = Due(v)
      OBVIOUS
    <3>1. Len(ran'[v]) + Left(v)' = Len(ran[v]) + Left(v)
      <4>1. added'[v] = added[v] /\ pending'[v] = pending[v]
        BY <2>1
      <4>2. Len(added[v]) = Len(ran'[v]) + Left(v)' + Len(pending[v])
        BY <1>3, <4>1
      <4>3. Len(added[v]) = Len(ran[v]) + Left(v) + Len(pending[v])
        BY <1>2
      <4>4. /\ Len(ran[v]) \in Nat /\ Left(v) \in Nat /\ Len(pending[v]) \in Nat
            /\ Len(ran'[v]) \in Nat /\ Left(v)' \in Nat
        BY <1>2, <1>3
      <4> HIDE DEF NobodyLeavesEarly
      <4> DEFINE old == Len(ran[v]) + Left(v)
                 new == Len(ran'[v]) + Left(v)'
      <4>5. old \in Nat /\ new \in Nat
        BY <4>4
      <4>6. old + Len(pending[v]) = new + Len(pending[v])
        BY <4>2, <4>3
      <4> HIDE DEF old, new
      <4>7. old = new
        BY <4>4, <4>5, <4>6
      <4>8. QED
        BY <4>7 DEF old, new
    <3>2. QED
      BY <2>1, <2>2, <3>1 DEF Due
  <2>4. QED
    BY <1>4, <1>5, <2>1, <2>2, <2>3
<1>9. CASE TerminateSignal
  <2>1. UNCHANGED <<wPc, continued, working, next, ran, added, inTime>>
    BY <1>9 DEF TerminateSignal, historyVars
  <2>2. \A v \in Worker : exit[v] => exit'[v]
    BY <1>9 DEF TerminateSignal, PoolInv, TypeOK
  <2>3. \A v \in Worker : Leaving(v)' = Leaving(v) /\ Due(v)' = Due(v)
    BY <2>1 DEF Leaving, Due, Left, InBatch
  <2>4. QED
    BY <1>4, <1>5, <2>1, <2>2, <2>3
<1>10. CASE \/ \E c \in Caller, task \in Task : AddTask(c, task)
            \/ \E a \in Caller \cup Worker : AddCheck(a)
            \/ \E w \in Worker : SpuriousWakeup(w)
            \/ TerminateCall \/ TerminateWait \/ TerminateWake \/ TerminateFinish
            \/ UNCHANGED vars
  <2>1. UNCHANGED <<exit, added, ran, working, next, continued, pending, inTime>>
    BY <1>10 DEF AddTask, AddCheck, SpuriousWakeup, TerminateCall, TerminateWait,
       TerminateWake, TerminateFinish, vars, ctxVars, workerVars, historyVars
  <2>2. UNCHANGED wPc \/ \E a \in Worker : wPc[a] = "add" /\ wPc' = [wPc EXCEPT ![a] = "run"]
    BY <1>10 DEF AddTask, AddCheck, Returns, SpuriousWakeup, TerminateCall, TerminateWait,
       TerminateWake, TerminateFinish, vars, workerVars, PoolInv, WorkersKnowTheirPlace
  <2>3. \A v \in Worker : InBatch(v)' = InBatch(v) /\ Leaving(v)' = Leaving(v)
    BY <2>1, <2>2 DEF InBatch, Leaving, PoolInv, TypeOK
  <2>4. \A v \in Worker : Due(v)' = Due(v)
    BY <2>1, <2>3 DEF Due, Left
  <2>5. QED
    BY <1>4, <1>5, <2>1, <2>3, <2>4
<1>11. QED
  BY <1>6, <1>7, <1>8, <1>9, <1>10 DEF Next, AddStep, WorkerStep, OwnerStep

-----------------------------------------------------------------------------
(* The constructor has returned: nothing is added, nobody is leaving. *)
LEMMA InitInvs == Init => /\ PoolInv /\ NothingOutOfPlace
                          /\ TerminateIsWhereItSays /\ NobodyLeavesEarly
<1> SUFFICES ASSUME Init PROVE /\ PoolInv /\ NothingOutOfPlace
                               /\ TerminateIsWhereItSays /\ NobodyLeavesEarly
  OBVIOUS
<1>1. TypeOK
  <2>1. NumThreads \in 0 .. NumThreads /\ 0 \in 0 .. NumThreads
    BY NumThreadsAssumption
  <2>2. m_exit \in BOOLEAN /\ exitLocked \in BOOLEAN /\ freed \in BOOLEAN
    BY Zenon DEF Init
  <2>3. /\ pending \in [Worker -> Seq(Task)] /\ working \in [Worker -> Seq(Task)]
        /\ added \in [Worker -> Seq(Task)] /\ ran \in [Worker -> Seq(Task)]
    BY DEF Init
  <2>4. /\ exit \in [Worker -> BOOLEAN] /\ continued \in [Worker -> BOOLEAN]
        /\ next \in [Worker -> Nat \ {0}]
    BY DEF Init
  <2>5. QED
    BY <2>1, <2>2, <2>3, <2>4 DEF Init, TypeOK
<1>2. WorkersKnowTheirPlace /\ CallsCarryTasks
  BY DEF Init, WorkersKnowTheirPlace, CallsCarryTasks, InBatch
<1>3. BusyAreCounted
  <2>1. {w \in Worker : wPc[w] # "done"} = Worker
    BY DEF Init
  <2>2. Cardinality(Worker) = NumThreads
    BY FS_Interval, NumThreadsAssumption DEF Worker
  <2>3. QED
    BY <2>1, <2>2 DEF Init, BusyAreCounted
<1>4. NothingOutOfPlace
  BY DEF Init, NothingOutOfPlace, Follows, Left, InBatch
<1>5. TerminateIsWhereItSays
  BY DEF Init, TerminateIsWhereItSays
<1>6. NobodyLeavesEarly
  BY DEF Init, NobodyLeavesEarly, Leaving, InBatch
<1>7. QED
  BY <1>1, <1>2, <1>3, <1>4, <1>5, <1>6 DEF PoolInv

(* The inductive invariant. *)
LEMMA PoolInvariance ==
  Spec => [](PoolInv /\ NothingOutOfPlace /\ TerminateIsWhereItSays /\ NobodyLeavesEarly)
<1>1. /\ PoolInv /\ NothingOutOfPlace /\ TerminateIsWhereItSays /\ NobodyLeavesEarly
      /\ [Next]_vars
      => (PoolInv /\ NothingOutOfPlace /\ TerminateIsWhereItSays /\ NobodyLeavesEarly)'
  BY StepKeepsPoolInv, StepKeepsOrder, StepKeepsTerminate, StepKeepsPromise
<1>2. QED
  BY InitInvs, <1>1, PTL DEF Spec

(* Type correctness: in particular m_num_busy_threads never goes below zero, *)
(* and whatever is pending, in a batch or run is a task somebody added.     *)
THEOREM TypeCorrect == Spec => []TypeOK
<1>1. PoolInv => TypeOK
  BY DEF PoolInv
<1>2. QED
  BY <1>1, PoolInvariance, PTL

(* The tasks of a context run in the order they were added, each once.      *)
THEOREM TasksRunInOrder == Spec => []RunsInOrder
<1>1. PoolInv /\ NothingOutOfPlace => RunsInOrder
  <2> SUFFICES ASSUME PoolInv, NothingOutOfPlace, NEW w \in Worker
               PROVE  /\ Len(ran[w]) <= Len(added[w])
                      /\ \A i \in 1 .. Len(ran[w]) : ran[w][i] = added[w][i]
    BY DEF RunsInOrder
  <2>1. Len(ran[w]) \in Nat /\ Left(w) \in Nat /\ Len(pending[w]) \in Nat
    BY DEF PoolInv, TypeOK, WorkersKnowTheirPlace, Left
  <2>2. QED
    BY <2>1 DEF NothingOutOfPlace, Follows
<1>2. QED
  BY <1>1, PoolInvariance, PTL

(* When Terminate() returns, every worker has left its loop and every task  *)
(* has run that reached its context before the context's exit flag was set. *)
(* (A task that came later is deleted with the context, unrun.)             *)
THEOREM TerminateDrainsAll ==
  Spec => [](TerminateDrains /\ (oPc = "terminated" => \A w \in Worker : wPc[w] = "done"))
<1>1. PoolInv /\ NothingOutOfPlace /\ TerminateIsWhereItSays /\ NobodyLeavesEarly
      => TerminateDrains
  <2> SUFFICES ASSUME PoolInv, NothingOutOfPlace, TerminateIsWhereItSays, NobodyLeavesEarly,
                      oPc = "terminated", NEW task \in inTime
               PROVE  HasRun(task)
    BY DEF TerminateDrains
  <2>1. PICK w \in Worker : Reaches(task, w)
    BY DEF NobodyLeavesEarly
  <2>2. wPc[w] = "done"
    BY DEF TerminateIsWhereItSays
  <2>3. Due(w) = Len(ran[w]) /\ ran[w] \in Seq(Task)
    BY <2>2 DEF Due, Leaving, Left, InBatch, PoolInv, TypeOK
  <2>4. PICK i \in 1 .. Due(w) : added[w][i] = task
    BY <2>1 DEF Reaches
  <2>5. i \in 1 .. Len(ran[w]) /\ i \in DOMAIN ran[w]
    BY <2>3, <2>4
  <2>6. ran[w][i] = task
    BY <2>4, <2>5 DEF NothingOutOfPlace, Follows
  <2>7. QED
    BY <2>5, <2>6 DEF HasRun
<1>2. TerminateIsWhereItSays => (oPc = "terminated" => \A w \in Worker : wPc[w] = "done")
  BY DEF TerminateIsWhereItSays
<1>3. QED
  BY <1>1, <1>2, PoolInvariance, PTL

(* No context is deleted that a worker or its task still uses, nor one that *)
(* a call begun after m_exit was set would use.                             *)
THEOREM ContextsOutliveTheirUsers == Spec => []NoUseAfterFree
<1>1. PoolInv /\ TerminateIsWhereItSays => NoUseAfterFree
  BY DEF PoolInv, TypeOK, WorkersKnowTheirPlace, TerminateIsWhereItSays, NoUseAfterFree
<1>2. QED
  BY <1>1, PoolInvariance, PTL
=============================================================================
