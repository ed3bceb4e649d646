------------------------------ MODULE UThreads ------------------------------
(***************************************************************************)
(* coroutine/uthread.h: a table of coroutines that the main context creates *)
(* and resumes and that yield to it, as in the test.  A coroutine is the    *)
(* number of its creation; getcontext and its kin are external.             *)
(***************************************************************************)
EXTENDS Integers, FiniteSets

CONSTANTS MaxUthreads,     \* MAX_UTHREAD_SIZE
          MaxCreated       \* bound: coroutines ever created

ASSUME UthreadAssumption == MaxUthreads \in Nat \ {0} /\ MaxCreated \in Nat

VARIABLES ustate,          \* the state of each slot of schedule.threads
          occupant,        \* the coroutine whose context and function are in each slot
          running_thread, max_index,
          inContext,       \* the coroutine that runs, 0 for the main context
          coroutine,       \* what became of each one: "none", "unfinished", "finished"
          resumed,         \* the coroutines that were resumed
          lostYield,       \* the coroutines whose yield did nothing
          overrun          \* was a slot used behind the table?

uthreadVars == <<ustate, occupant, running_thread, max_index, inContext, coroutine, resumed,
                 lostYield, overrun>>

UthreadInit ==
  /\ ustate = [id \in 0 .. MaxUthreads - 1 |-> "FREE"]
  /\ occupant = [id \in 0 .. MaxUthreads - 1 |-> 0]
  /\ running_thread = -1 /\ max_index = 0 /\ inContext = 0
  /\ coroutine = [k \in 1 .. MaxCreated |-> "none"]
  /\ resumed = {} /\ lostYield = {} /\ overrun = FALSE

Created == Cardinality({k \in 1 .. MaxCreated : coroutine[k] # "none"})
InMain == inContext = 0 /\ ~overrun

(* uthread_create(): the first free slot or a new one, without a look at the *)
(* size of the table, and the coroutine runs.                               *)
Reusable(id) == ustate[id] = "FREE"
FirstFree == CHOOSE id \in 0 .. max_index :
               /\ id = max_index \/ Reusable(id)
               /\ \A i \in 0 .. id - 1 : ~Reusable(i)
UthreadCreate ==
  /\ InMain /\ Created < MaxCreated
  /\ max_index' = IF FirstFree = max_index THEN max_index + 1 ELSE max_index
  /\ IF FirstFree < MaxUthreads
     THEN /\ ustate' = [ustate EXCEPT ![FirstFree] = "RUNNABLE"]
          /\ occupant' = [occupant EXCEPT ![FirstFree] = Created + 1]
          /\ running_thread' = FirstFree /\ inContext' = Created + 1
          /\ coroutine' = [coroutine EXCEPT ![Created + 1] = "unfinished"]
          /\ UNCHANGED overrun
     ELSE /\ overrun' = TRUE
          /\ UNCHANGED <<ustate, occupant, running_thread, inContext, coroutine>>
  /\ UNCHANGED <<resumed, lostYield>>

(* uthread_yield(), of the coroutine that runs.                             *)
UthreadYield ==
  /\ inContext # 0
  /\ IF running_thread # -1
     THEN /\ ustate' = [ustate EXCEPT ![running_thread] = "SUSPEND"]
          /\ running_thread' = -1 /\ inContext' = 0 /\ UNCHANGED lostYield
     ELSE lostYield' = lostYield \cup {inContext} /\ UNCHANGED <<ustate, running_thread, inContext>>
  /\ UNCHANGED <<occupant, max_index, coroutine, resumed, overrun>>

(* uthread_resume() switches, and sets neither state nor running_thread.    *)
UthreadResume(id) ==
  /\ InMain /\ id \in 0 .. max_index - 1 /\ ustate[id] = "SUSPEND"
  /\ inContext' = occupant[id] /\ resumed' = resumed \cup {occupant[id]}
  /\ UNCHANGED <<ustate, occupant, running_thread, max_index, coroutine, lostYield, overrun>>

(* uthread_body() knows its slot from the time it began.                    *)
SlotOf(k) == CHOOSE id \in 0 .. MaxUthreads - 1 : occupant[id] = k
UthreadEnds ==
  /\ inContext # 0 /\ ustate' = [ustate EXCEPT ![SlotOf(inContext)] = "FREE"]
  /\ running_thread' = -1 /\ inContext' = 0
  /\ coroutine' = [coroutine EXCEPT ![inContext] = "finished"]
  /\ UNCHANGED <<occupant, max_index, resumed, lostYield, overrun>>

schedule_finished == running_thread = -1 /\ \A id \in 0 .. max_index - 1 : ustate[id] = "FREE"

UthreadNext ==
  \/ UthreadCreate \/ UthreadYield \/ UthreadEnds
  \/ \E id \in 0 .. MaxUthreads - 1 : UthreadResume(id)
-----------------------------------------------------------------------------
(* uthread.h:65-146: no slot is reused under a coroutine that is not        *)
(* finished, and one that does not run can be resumed; the loop of the test  *)
(* ends when all are finished and not before; a yield is lost only after a  *)
(* resume, and the table is left only when it is full.                      *)
SlotsFollowCoroutines ==
  LET unfinished == {k \in 1 .. MaxCreated : coroutine[k] = "unfinished"}
      slots(k) == {id \in 0 .. MaxUthreads - 1 : occupant[id] = k /\ ustate[id] # "FREE"}
  IN  /\ \A k \in unfinished : \E id \in slots(k) :
           slots(k) = {id} /\ (k = inContext \/ ustate[id] = "SUSPEND")
      /\ running_thread # -1 => occupant[running_thread] = inContext
      /\ InMain => (schedule_finished <=> unfinished = {})
      /\ lostYield \subseteq resumed
      /\ overrun => Cardinality(unfinished) = MaxUthreads
=============================================================================
