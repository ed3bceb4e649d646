---------------------------- MODULE BaseThreads ----------------------------
(***************************************************************************)
(* BaseThread of concurrent/base_thread.*: an object that starts one       *)
(* thread after the other, and what it and they know of each other.  A     *)
(* thread is the number of its start; its id and its handle are that       *)
(* number.  One client thread owns the object.  pthread is external.       *)
(***************************************************************************)
EXTENDS Integers

CONSTANT MaxStarts         \* bound

ASSUME StartsAssumption == MaxStarts \in Nat

VARIABLES detachedAttr,    \* the object's attributes: m_attributes
          m_handle, m_id, m_is_alive,
          starts,          \* threads started so far
          threadAt,        \* where each thread is
          clientAt,        \* where the client is: "idle", "joining", "asking"
          abandoned        \* was a thread detached that was still running?

baseVars == <<detachedAttr, m_handle, m_id, m_is_alive, starts, threadAt, clientAt, abandoned>>

BaseInit ==
  /\ detachedAttr \in BOOLEAN
  /\ m_handle = 0 /\ m_id = -1 /\ m_is_alive = FALSE /\ starts = 0
  /\ threadAt = [k \in 1 .. MaxStarts |-> "none"] /\ clientAt = "idle" /\ abandoned = FALSE

IsJoinable == m_handle # 0

(* DoStart(), which throws for a thread that was not joined.  The id is 0    *)
(* from before the thread exists until it says who it is, and -1 if it      *)
(* could not be made.                                                       *)
DoStart ==
  /\ clientAt = "idle" /\ ~IsJoinable
  /\ \/ /\ starts < MaxStarts /\ starts' = starts + 1
        /\ m_handle' = starts' /\ m_id' = 0
        /\ threadAt' = [threadAt EXCEPT ![starts'] = "entry"]
     \/ /\ m_handle' = 0 /\ m_id' = -1 /\ UNCHANGED <<starts, threadAt>>
  /\ UNCHANGED <<detachedAttr, m_is_alive, clientAt, abandoned>>

(* DoDetach() and Join() forget the thread.  pthread_join() waits for the    *)
(* end of one that is not detached: the client may not join another.        *)
(* Mutant: the id outlives the handle. *)
ForgetHandle == m_handle' = 0 /\ UNCHANGED m_id
Forget == m_handle' = 0 /\ m_id' = -1
DoDetach ==
  /\ clientAt = "idle" /\ IsJoinable /\ ~detachedAttr /\ Forget
  /\ abandoned' = (abandoned \/ threadAt[m_handle] # "gone")
  /\ UNCHANGED <<detachedAttr, m_is_alive, starts, threadAt, clientAt>>
JoinCall ==
  /\ clientAt = "idle" /\ IsJoinable /\ ~detachedAttr /\ clientAt' = "joining"
  /\ UNCHANGED <<detachedAttr, m_handle, m_id, m_is_alive, starts, threadAt, abandoned>>
JoinReturns ==
  /\ clientAt = "joining" /\ threadAt[m_handle] = "gone" /\ Forget /\ clientAt' = "idle"
  /\ UNCHANGED <<detachedAttr, m_is_alive, starts, threadAt, abandoned>>

(* GetId() waits for as long as the id is 0.                                *)
GetIdCall ==
  /\ clientAt = "idle" /\ clientAt' = "asking"
  /\ UNCHANGED <<detachedAttr, m_handle, m_id, m_is_alive, starts, threadAt, abandoned>>
GetIdReturns ==
  /\ clientAt = "asking" /\ m_id # 0 /\ clientAt' = "idle"
  /\ UNCHANGED <<detachedAttr, m_handle, m_id, m_is_alive, starts, threadAt, abandoned>>

(* StaticEntry(), in the new thread, which reports to the object only if it  *)
(* is not detached by its attributes; Entry() returns, or exits the thread; *)
(* Cleanup() runs either way.                                               *)
ThreadGoes(k, from, to) == threadAt[k] = from /\ threadAt' = [threadAt EXCEPT ![k] = to]
TellAlive(k) ==
  /\ ThreadGoes(k, "entry", "alive") /\ m_is_alive' = (m_is_alive \/ ~detachedAttr)
  /\ UNCHANGED <<detachedAttr, m_handle, m_id, starts, clientAt, abandoned>>
ToldId(k) == IF detachedAttr THEN m_id ELSE k
TellId(k) ==
  /\ ThreadGoes(k, "alive", "run") /\ m_id' = ToldId(k)
  /\ UNCHANGED <<detachedAttr, m_handle, m_is_alive, starts, clientAt, abandoned>>
EntryReturns(k) ==
  /\ ThreadGoes(k, "run", "cleanup") /\ m_is_alive' = FALSE
  /\ UNCHANGED <<detachedAttr, m_handle, m_id, starts, clientAt, abandoned>>
ThreadExits(k) ==
  /\ ThreadGoes(k, "run", "cleanup")
  /\ UNCHANGED <<detachedAttr, m_handle, m_id, m_is_alive, starts, clientAt, abandoned>>
Cleanup(k) ==
  /\ ThreadGoes(k, "cleanup", "gone") /\ m_is_alive' = FALSE
  /\ UNCHANGED <<detachedAttr, m_handle, m_id, starts, clientAt, abandoned>>

NewThreadStep(k) == TellAlive(k) \/ TellId(k) \/ EntryReturns(k) \/ ThreadExits(k) \/ Cleanup(k)
ClientStep == JoinReturns \/ GetIdReturns
BaseNext ==
  \/ DoStart \/ DoDetach \/ JoinCall \/ GetIdCall \/ ClientStep
  \/ \E k \in 1 .. MaxStarts : NewThreadStep(k)
BaseFairness == WF_baseVars(ClientStep) /\ \A k \in 1 .. MaxStarts : WF_baseVars(NewThreadStep(k))
-----------------------------------------------------------------------------
(* base_thread.cc:65-135: until a thread is abandoned by DoDetach(), the    *)
(* object speaks of its own thread only: an id that is neither 0 nor -1 is  *)
(* that of the thread it has, and nothing of an earlier one is left; an     *)
(* object that is alive has a thread that is running.                       *)
ObjectKnowsItsThread ==
  ~abandoned =>
    /\ m_id > 0 => m_id = m_handle
    /\ m_id = 0 => IsJoinable /\ (detachedAttr \/ threadAt[m_handle] \in {"entry", "alive"})
    /\ m_is_alive => IsJoinable /\ threadAt[m_handle] \in {"alive", "run", "cleanup"}
    /\ \A k \in 1 .. starts : k # m_handle => threadAt[k] = "gone"

(* base_thread.cc:100-109: GetId() and Join() return, unless the object was  *)
(* made to start detached threads, which never tell their id.               *)
CallersGetAnswers ==
  /\ clientAt = "asking" ~> clientAt = "idle" \/ detachedAttr
  /\ clientAt = "joining" ~> clientAt = "idle"
=============================================================================
