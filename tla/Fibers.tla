------------------------------- MODULE Fibers -------------------------------
(***************************************************************************)
(* Fiber of fiber/fibers.*: the fibers of one thread, which the thread's    *)
(* main fiber calls and which go back to it; swapIn() and swapOut() are     *)
(* empty.  Assertions end the program.  A fiber lives as long as a          *)
(* shared_ptr to it; once it has begun, its own stack holds one.            *)
(***************************************************************************)
EXTENDS Integers, FiniteSets

CONSTANTS Fiber,
          Main, NoFiber     \* the main fiber, and nullptr

ASSUME FiberAssumption == Main \notin Fiber /\ NoFiber \notin Fiber \cup {Main}
ASSUME FibersAreFinite == IsFiniteSet(Fiber)

VARIABLES fstate,       \* m_state; "none" for a fiber that does not exist
          begun,        \* has MainFunc() begun on the fiber's present context?
          refs,         \* shared_ptrs to each fiber
          owned,        \* the fibers that the client has a shared_ptr to
          current,      \* t_fiber; t_threadFiber is Main as soon as fstate[Main] is not "none"
          context,      \* where the thread really is: a fiber's context or Main's
          fiberCount,   \* s_fiber_count
          countAtMain,  \* what it was when the main fiber was made
          aborted       \* the assertion that failed, or "no"

fiberVars == <<fstate, begun, refs, owned, current, context, fiberCount, countAtMain, aborted>>

FiberInit ==
  /\ fstate = [f \in Fiber \cup {Main} |-> "none"] /\ begun = [f \in Fiber |-> FALSE]
  /\ refs = [f \in Fiber |-> 0] /\ owned = {}
  /\ current = NoFiber /\ context = Main /\ fiberCount = 0 /\ countAtMain = 0
  /\ aborted = "no"

InThread == aborted = "no" /\ context = Main
InFiber(f) == aborted = "no" /\ context = f
Becomes(f, state) == fstate' = [fstate EXCEPT ![f] = state]

(* GetThis() in the thread makes the main fiber, the first time.            *)
GetThis ==
  /\ InThread /\ current = NoFiber /\ Becomes(Main, "EXEC") /\ current' = Main
  /\ countAtMain' = fiberCount /\ fiberCount' = fiberCount % 2
  /\ UNCHANGED <<begun, refs, owned, context, aborted>>
CreateFiber(f) ==
  /\ InThread /\ fstate[f] = "none" /\ Becomes(f, "INIT")
  /\ begun' = [begun EXCEPT ![f] = FALSE] /\ refs' = [refs EXCEPT ![f] = 1]
  /\ owned' = owned \cup {f} /\ fiberCount' = fiberCount + 1
  /\ UNCHANGED <<current, context, countAtMain, aborted>>

(* MainFunc() has a pointer to its fiber in a local, from its beginning on.  *)
(* Mutant: MainFunc() holds no pointer. *)
NoStackRef(f) == refs[f]
StackRef(f) == IF begun[f] THEN refs[f] ELSE refs[f] + 1
(* call(), of the main fiber; the first one begins MainFunc().              *)
Call(f) ==
  /\ InThread /\ f \in owned /\ fstate[Main] # "none"
  /\ Becomes(f, "EXEC") /\ current' = f /\ context' = f
  /\ begun' = [begun EXCEPT ![f] = TRUE] /\ refs' = [refs EXCEPT ![f] = StackRef(f)]
  /\ UNCHANGED <<owned, fiberCount, countAtMain, aborted>>
(* back() leaves the state as it is.                                        *)
Back(f) ==
  /\ InFiber(f) /\ current' = Main /\ context' = Main
  /\ UNCHANGED <<fstate, begun, refs, owned, fiberCount, countAtMain, aborted>>

(* YieldToReady(), YieldToHold(), YieldToTerm(): a new state, unless the     *)
(* assertion fails, and no switch.                                          *)
Yield(f, state) ==
  LET cur == current
      asserted == IF state = "TERM" THEN fstate[cur] \notin {"TERM", "EXCEPT"}
                                    ELSE fstate[cur] = "EXEC"
  IN  /\ InFiber(f)
      /\ IF asserted THEN Becomes(cur, state) /\ UNCHANGED aborted
                     ELSE aborted' = "yield" /\ UNCHANGED fstate
      /\ UNCHANGED <<begun, refs, owned, current, context, fiberCount, countAtMain>>
(* The end of MainFunc() and CallerMainFunc(), when the callback returns or  *)
(* throws, is the assertion that it is never reached.                       *)
FiberEnds(f, state) ==
  /\ InFiber(f) /\ Becomes(f, state) /\ refs' = [refs EXCEPT ![f] = @ - 1]
  /\ aborted' = "never reach"
  /\ UNCHANGED <<begun, owned, current, context, fiberCount, countAtMain>>

(* reset() makes a new context on the old stack; what the old one held is    *)
(* not released.                                                            *)
Resettable == {"TERM", "INIT", "EXCEPT"}
ResetFiber(f) ==
  /\ InThread /\ f \in owned
  /\ IF fstate[f] \in Resettable
     THEN Becomes(f, "INIT") /\ begun' = [begun EXCEPT ![f] = FALSE] /\ UNCHANGED aborted
     ELSE aborted' = "reset" /\ UNCHANGED <<fstate, begun>>
  /\ refs[f] < 3                            \* bound
  /\ UNCHANGED <<refs, owned, current, context, fiberCount, countAtMain>>
(* The client drops its pointer; the last one calls the destructor.         *)
Drop(f) ==
  /\ InThread /\ f \in owned /\ owned' = owned \ {f} /\ refs' = [refs EXCEPT ![f] = @ - 1]
  /\ IF refs[f] > 1 THEN UNCHANGED <<fstate, fiberCount, aborted>>
     ELSE /\ fiberCount' = fiberCount - 1
          /\ IF fstate[f] \in Resettable THEN Becomes(f, "none") /\ UNCHANGED aborted
             ELSE aborted' = "destructor" /\ UNCHANGED fstate
  /\ UNCHANGED <<begun, current, context, countAtMain>>
(* The thread ends: the main fiber has no callback, which is asserted.      *)
ThreadExit ==
  /\ InThread /\ fstate[Main] # "none" /\ fiberCount' = fiberCount - 1
  /\ aborted' = "thread exit"
  /\ UNCHANGED <<fstate, begun, refs, owned, current, context, countAtMain>>

FiberNext ==
  \/ GetThis \/ ThreadExit
  \/ \E f \in Fiber :
       \/ CreateFiber(f) \/ Call(f) \/ Back(f) \/ ResetFiber(f) \/ Drop(f)
       \/ \E state \in {"READY", "HOLD", "TERM"} : Yield(f, state)
       \/ \E state \in {"TERM", "EXCEPT"} : FiberEnds(f, state)
-----------------------------------------------------------------------------
(* fibers.cc:40-184: t_fiber is the context that runs, whatever order of     *)
(* calls, resets and yields; a fiber that has not begun says so; one that    *)
(* has is never destroyed under its own stack, because that stack holds a   *)
(* reference, so the destructor's assertion never fails; and the number of   *)
(* fibers is right as long as fewer than two were there before the main one. *)
FibersFollowContext ==
  /\ aborted # "destructor"
  /\ aborted = "no" =>
       /\ current = IF fstate[Main] = "none" THEN NoFiber ELSE context
       /\ \A f \in Fiber : fstate[f] = "INIT" => ~begun[f]
       /\ \A f \in Fiber : begun[f] /\ fstate[f] # "none" => refs[f] > Cardinality(owned \cap {f})
       /\ countAtMain < 2 => fiberCount = Cardinality({f \in Fiber : fstate[f] # "none"})
=============================================================================
