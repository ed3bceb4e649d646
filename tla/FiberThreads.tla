---------------------------- MODULE FiberThreads ----------------------------
(***************************************************************************)
(* FiberThread of fiber/fiber_thread.*: the constructor starts a thread    *)
(* that takes what it needs from the object, and waits for it on a         *)
(* semaphore.  The names are views: of the string the constructor was      *)
(* called with, and of the last one given to SetName().  pthread is        *)
(* external.                                                               *)
(***************************************************************************)
EXTENDS Integers

VARIABLES makerAt,      \* who builds the object: "none", "waiting", "built", "joining", "gone"
          runAt,        \* run(), in the thread: "none", "start", "known", "took", "callback", "done"
          posted,       \* the value of m_semaphore
          idTold, cbTaken,   \* are m_id and m_cb what run() makes of them?
          pthreadOf,    \* m_thread: "none", "thread"; and "detached" once it is
          ctorName,     \* is the string the constructor was given still there?
          ranCallback,  \* how often the callback was run
          signalled,    \* did a signal interrupt the constructor's wait?
          lateAccess    \* what touched the object after its end

fthreadVars == <<makerAt, runAt, posted, idTold, cbTaken, pthreadOf, ctorName, ranCallback,
                 signalled, lateAccess>>

FthreadInit ==
  /\ makerAt = "none" /\ runAt = "none" /\ posted = 0 /\ idTold = FALSE /\ cbTaken = FALSE
  /\ pthreadOf = "none" /\ ctorName = TRUE /\ ranCallback = 0
  /\ signalled = FALSE /\ lateAccess = {}

(* The constructor; LOG(FATAL) ends the program if there is no thread.      *)
Construct ==
  /\ makerAt = "none" /\ makerAt' = "waiting"
  /\ runAt' = "start" /\ pthreadOf' = "thread"
  /\ UNCHANGED <<posted, idTold, cbTaken, ctorName, ranCallback, signalled, lateAccess>>
CtorReady == posted > 0
ConstructReturns ==
  /\ makerAt = "waiting" /\ CtorReady /\ makerAt' = "built"
  /\ posted' = posted - 1
  /\ UNCHANGED <<runAt, idTold, cbTaken, pthreadOf, ctorName, ranCallback, signalled, lateAccess>>
(* wait() throws when it is interrupted: no object, and nobody detaches.    *)
ConstructThrows ==
  /\ makerAt = "waiting" /\ signalled' = TRUE /\ makerAt' = "gone" /\ ctorName' = FALSE
  /\ UNCHANGED <<runAt, posted, idTold, cbTaken, pthreadOf, ranCallback, lateAccess>>
NameGoes ==         \* the string was a temporary, or its owner changes it
  /\ makerAt \notin {"none", "waiting"} /\ ctorName /\ ctorName' = FALSE
  /\ UNCHANGED <<makerAt, runAt, posted, idTold, cbTaken, pthreadOf, ranCallback, signalled,
                 lateAccess>>

(* join() waits for the thread, once; the destructor detaches one that was   *)
(* not joined.                                                              *)
JoinThread ==
  /\ makerAt = "built" /\ pthreadOf = "thread" /\ makerAt' = "joining"
  /\ UNCHANGED <<runAt, posted, idTold, cbTaken, pthreadOf, ctorName, ranCallback, signalled,
                 lateAccess>>
JoinThreadReturns ==
  /\ makerAt = "joining" /\ runAt = "done" /\ makerAt' = "built" /\ pthreadOf' = "none"
  /\ UNCHANGED <<runAt, posted, idTold, cbTaken, ctorName, ranCallback, signalled, lateAccess>>
DestroyThread ==
  /\ makerAt = "built" /\ makerAt' = "gone"
  /\ pthreadOf' = IF pthreadOf = "thread" THEN "detached" ELSE pthreadOf
  /\ UNCHANGED <<runAt, posted, idTold, cbTaken, ctorName, ranCallback, signalled, lateAccess>>

(* run(): name and id, the callback, the notification.                      *)
Touch(what) == lateAccess' = IF makerAt = "gone" THEN lateAccess \cup {what} ELSE lateAccess
RunTellsId ==
  /\ runAt = "start" /\ runAt' = "known" /\ idTold' = TRUE
  /\ lateAccess' = lateAccess \cup (IF makerAt = "gone" THEN {"run"} ELSE {})
                              \cup (IF ctorName THEN {} ELSE {"name"})
  /\ UNCHANGED <<makerAt, posted, cbTaken, pthreadOf, ctorName, ranCallback, signalled>>
RunTakesCallback ==
  /\ runAt = "known" /\ runAt' = "took" /\ cbTaken' = TRUE /\ Touch("run")
  /\ UNCHANGED <<makerAt, posted, idTold, pthreadOf, ctorName, ranCallback, signalled>>
RunNotifies ==
  /\ runAt = "took" /\ runAt' = "callback" /\ posted' = posted + 1 /\ Touch("run")
  /\ UNCHANGED <<makerAt, idTold, cbTaken, pthreadOf, ctorName, ranCallback, signalled>>
(* The callback may call SetName(), which follows t_thread.                 *)
CallbackSetsName ==
  /\ runAt = "callback" /\ Touch("SetName")
  /\ UNCHANGED <<makerAt, runAt, posted, idTold, cbTaken, pthreadOf, ctorName, ranCallback,
                 signalled>>
RunReturns ==
  /\ runAt = "callback" /\ runAt' = "done" /\ ranCallback' = ranCallback + 1
  /\ UNCHANGED <<makerAt, posted, idTold, cbTaken, pthreadOf, ctorName, signalled, lateAccess>>

RunStep == RunTellsId \/ RunTakesCallback \/ RunNotifies \/ RunReturns
FthreadNext ==
  \/ Construct \/ ConstructReturns \/ ConstructThrows \/ NameGoes
  \/ JoinThread \/ JoinThreadReturns \/ DestroyThread \/ RunStep \/ CallbackSetsName
FthreadFairness ==
  WF_fthreadVars(RunStep) /\ WF_fthreadVars(ConstructReturns \/ JoinThreadReturns)
-----------------------------------------------------------------------------
(* fiber_thread.cc:37, 56-66: an object that is built has its id, and its    *)
(* thread has its callback; the thread touches it after its end, or reads a  *)
(* name that is gone, only if a signal made the constructor throw, or if its *)
(* callback calls SetName() and nobody joined it.                           *)
BuiltMeansStarted ==
  /\ makerAt \in {"built", "joining"} => idTold /\ cbTaken /\ runAt \in {"callback", "done"}
  /\ {"run", "name"} \cap lateAccess # {} => signalled
  /\ "SetName" \in lateAccess => pthreadOf = "detached" \/ signalled
  /\ pthreadOf = "none" /\ makerAt # "none" => ranCallback = 1

(* fiber_thread.cc:37, 46-54: the constructor returns or throws, and so does *)
(* join().                                                                  *)
MakersReturn == makerAt \in {"waiting", "joining"} ~> makerAt \in {"built", "gone"}
=============================================================================
