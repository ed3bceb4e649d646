---------------------------- MODULE FiberTimers ----------------------------
(***************************************************************************)
(* FiberTimer and FiberTimerManager of fiber/fiber_timer.h and             *)
(* fiber_timer.cc: user threads add, cancel, refresh and reset timers; the *)
(* pollers of a derived class sleep for getNextTimer(), take what          *)
(* listExpiredCb() returns and run it.  What the code does under m_rw_lock *)
(* is one action; what it does before or after the lock is another.        *)
(*                                                                         *)
(* The class that derives from the manager is not in the repository.  Its  *)
(* part of the model is what the interface asks for: a poller sleeps, and  *)
(* onTimerInsertedAtFront() wakes one that sleeps or, if none does, the    *)
(* next one that is about to.                                              *)
(*                                                                         *)
(* Time is that of system_clock: it ticks, and may be set back.  A sleep   *)
(* does not notice that.                                                   *)
(***************************************************************************)
EXTENDS Integers, FiniteSets

CONSTANTS Timer,
          Recurring,    \* the timers that are added as recurring ones
          User, Poller, \* threads
          NoTimer,
          Periods,      \* the periods that timers are given
          Hour,         \* how far back a clock must jump to be a rollover
          MaxTime,      \* bound: the clock stops there
          MaxJumps      \* bound: how often the clock is set back

ASSUME TimerAssumption == Recurring \subseteq Timer /\ NoTimer \notin Timer
ASSUME PeriodAssumption == Periods \subseteq Nat
ASSUME TimeAssumption == Hour \in Nat /\ MaxTime \in Nat /\ MaxJumps \in Nat

VARIABLES now, jumps,         \* the clock, and how often it was set back
          m_timers,           \* the ordered set: the timers with the key they went in with
          m_next, m_ms, m_cb, \* per timer: due time, period, is there a callback?
          m_tickled, m_last_execute_time,
          uPc, uTimer,        \* each user: its place in a call, and the timer it is about
          pPc, pLeft, pNow, cbs,    \* each poller: its place, the rest of its sleep, locals
          tickle,             \* has onTimerInsertedAtFront() a poller still to wake?
          known,              \* the timers that addTimer() has returned
          ran,                \* history: runs of the callbacks that do not recur
          cancelled           \* history: the timers for which cancel() returned true

clockVars == <<now, jumps>>
timerVars == <<m_next, m_ms, m_cb>>
managerVars == <<m_timers, m_tickled, m_last_execute_time>>
userVars == <<uPc, uTimer, known>>
pollerVars == <<pPc, pLeft, pNow, cbs>>
historyVars == <<ran, cancelled>>
vars == <<clockVars, timerVars, managerVars, userVars, pollerVars, tickle, historyVars>>

Forever == -1                    \* numeric_limits<uint64_t>::max()
Entry(t, key) == [timer |-> t, key |-> key]

TypeOK ==
  /\ now \in 0 .. MaxTime /\ jumps \in 0 .. MaxJumps
  /\ m_timers \subseteq [timer : Timer, key : Nat]
  /\ m_next \in [Timer -> Nat] /\ m_ms \in [Timer -> Nat] /\ m_cb \in [Timer -> BOOLEAN]
  /\ m_tickled \in BOOLEAN /\ m_last_execute_time \in 0 .. MaxTime
  /\ uPc \in [User -> {"idle", "insert", "tickle"}]
  /\ uTimer \in [User -> Timer \cup {NoTimer}] /\ known \subseteq Timer
  /\ pPc \in [Poller -> {"next", "sleep", "time", "list", "run"}]
  /\ pLeft \in [Poller -> Nat \cup {Forever}] /\ pNow \in [Poller -> 0 .. MaxTime]
  /\ cbs \in [Poller -> SUBSET Timer]
  /\ tickle \in BOOLEAN
  /\ ran \in [Timer -> Nat] /\ cancelled \subseteq Timer

(* Time counts from when the manager is built, decades after the epoch: the *)
(* unsigned difference in detectClockRollover() does not wrap around.       *)
Init == /\ now = 0 /\ jumps = 0
        /\ m_timers = {} /\ m_tickled = FALSE /\ m_last_execute_time = 0
        /\ m_next = [t \in Timer |-> 0] /\ m_ms = [t \in Timer |-> 0]
        /\ m_cb = [t \in Timer |-> FALSE]
        /\ uPc = [u \in User |-> "idle"] /\ uTimer = [u \in User |-> NoTimer]
        /\ known = {}
        /\ pPc = [p \in Poller |-> "next"] /\ pLeft = [p \in Poller |-> 0]
        /\ pNow = [p \in Poller |-> 0] /\ cbs = [p \in Poller |-> {}]
        /\ tickle = FALSE
        /\ ran = [t \in Timer |-> 0] /\ cancelled = {}

First(timers) == CHOOSE e \in timers : \A f \in timers : e.key <= f.key

(* m_timers.find(): by the current due time of the timer. *)
Found(t) == Entry(t, m_next[t]) \in m_timers

-----------------------------------------------------------------------------
(* addTimer(): the constructor reads the clock before the lock is taken, *)
AddTimer(u, t, ms) ==
  /\ uPc[u] = "idle" /\ t \notin known /\ \A v \in User : uTimer[v] # t
  /\ m_next' = [m_next EXCEPT ![t] = now + ms]
  /\ m_ms' = [m_ms EXCEPT ![t] = ms]
  /\ m_cb' = [m_cb EXCEPT ![t] = TRUE]
  /\ uPc' = [uPc EXCEPT ![u] = "insert"]
  /\ uTimer' = [uTimer EXCEPT ![u] = t]
  /\ UNCHANGED <<clockVars, managerVars, known, pollerVars, tickle, historyVars>>

(* Mutant: nobody is told of a new timer. *)
NeverAtFront(entry, timers) == {FALSE}

(* then the timer goes into the set: is it the first?  Equal keys are       *)
(* ordered by address, so either answer may come.                           *)
AtFront(entry, timers) == {\A e \in timers : entry.key < e.key,
                           \A e \in timers : entry.key <= e.key}

(* A timer put first tickles the pollers, unless one is already tickled.    *)
InsertTimer(u, entry, timers) ==
  /\ m_timers' = timers \cup {entry}
  /\ \E front \in AtFront(entry, timers) :
       /\ m_tickled' = (m_tickled \/ front)
       /\ uPc' = [uPc EXCEPT ![u] = IF front /\ ~m_tickled THEN "tickle" ELSE "idle"]

AddInsert(u) ==
  /\ uPc[u] = "insert"
  /\ LET t == uTimer[u]
     IN  /\ InsertTimer(u, Entry(t, m_next[t]), m_timers)
         /\ known' = known \cup {t}
  /\ uTimer' = [uTimer EXCEPT ![u] = NoTimer]
  /\ UNCHANGED <<clockVars, timerVars, m_last_execute_time, pollerVars, tickle, historyVars>>

(* onTimerInsertedAtFront(), after the lock is released. *)
Tickle(u) ==
  /\ uPc[u] = "tickle"
  /\ tickle' = TRUE
  /\ uPc' = [uPc EXCEPT ![u] = "idle"]
  /\ UNCHANGED <<clockVars, timerVars, managerVars, uTimer, known, pollerVars, historyVars>>

-----------------------------------------------------------------------------
(* cancel(), refresh() and reset() on a timer that addTimer() has returned. *)
(* A call that returns false changes nothing.                               *)

(* Mutant: a timer that has fired is good enough. *)
AnyTimer(t) == TRUE
HasCallback(t) == m_cb[t]

Cancel(u, t) ==
  /\ uPc[u] = "idle" /\ t \in known /\ HasCallback(t)
  /\ m_cb' = [m_cb EXCEPT ![t] = FALSE]
  /\ m_timers' = m_timers \ {Entry(t, m_next[t])}
  /\ cancelled' = cancelled \cup {t}
  /\ UNCHANGED <<clockVars, m_next, m_ms, m_tickled, m_last_execute_time, userVars,
                 pollerVars, tickle, ran>>

(* Mutant: the due time is changed while the timer is in the set. *)
EraseLate(t, next) == m_timers \ {Entry(t, next)}
Erase(t, next) == m_timers \ {Entry(t, m_next[t])}

Refresh(u, t) ==
  /\ uPc[u] = "idle" /\ t \in known /\ HasCallback(t) /\ Found(t)
  /\ LET next == now + m_ms[t]
     IN  /\ m_next' = [m_next EXCEPT ![t] = next]
         /\ m_timers' = Erase(t, next) \cup {Entry(t, next)}
  /\ UNCHANGED <<clockVars, m_ms, m_cb, m_tickled, m_last_execute_time, userVars,
                 pollerVars, tickle, historyVars>>

(* Asked for the period it has, and not from now, reset() returns at once;  *)
(* it looks before it takes the lock, so this may no longer be so here.     *)
Reset(u, t, ms, fromNow) ==
  /\ uPc[u] = "idle" /\ t \in known
  /\ HasCallback(t) /\ Found(t)
  /\ LET next == (IF fromNow THEN now ELSE m_next[t] - m_ms[t]) + ms
     IN  /\ m_next' = [m_next EXCEPT ![t] = next]
         /\ InsertTimer(u, Entry(t, next), Erase(t, next))
  /\ m_ms' = [m_ms EXCEPT ![t] = ms]
  /\ UNCHANGED <<clockVars, m_cb, m_last_execute_time, uTimer, known, pollerVars, tickle,
                 historyVars>>

-----------------------------------------------------------------------------
(* Mutant: an unsigned difference that may go below zero. *)
Difference(key) == key - now

(* How long until a due time. *)
Remaining(key) == IF now >= key THEN 0 ELSE key - now

(* A poller: getNextTimer(), *)
GetNextTimer(p) ==
  /\ pPc[p] = "next"
  /\ m_tickled' = FALSE
  /\ pLeft' = [pLeft EXCEPT ![p] =
                 IF m_timers = {} THEN Forever ELSE Remaining(First(m_timers).key)]
  /\ pPc' = [pPc EXCEPT ![p] = "sleep"]
  /\ UNCHANGED <<clockVars, timerVars, m_timers, m_last_execute_time, userVars, pNow, cbs,
                 tickle, historyVars>>

(* a sleep that ends in time or by a tickle, *)
WakeUp(p) ==
  /\ pPc[p] = "sleep"
  /\ \/ pLeft[p] = 0 /\ UNCHANGED tickle
     \/ tickle /\ tickle' = FALSE
  /\ pPc' = [pPc EXCEPT ![p] = "time"]
  /\ pLeft' = [pLeft EXCEPT ![p] = 0]
  /\ UNCHANGED <<clockVars, timerVars, managerVars, userVars, pNow, cbs, historyVars>>

(* listExpiredCb(): the clock is read before the lock is taken, *)
ListTime(p) ==
  /\ pPc[p] = "time"
  /\ pNow' = [pNow EXCEPT ![p] = now]
  /\ pPc' = [pPc EXCEPT ![p] = "list"]
  /\ UNCHANGED <<clockVars, timerVars, managerVars, userVars, pLeft, cbs, tickle, historyVars>>

DetectClockRollover(at) ==
  at < m_last_execute_time /\ at < m_last_execute_time - Hour

(* Mutant: the timers due next are taken, too. *)
DueSoon(at) == {e \in m_timers : e.key <= at + 1}
DueBy(at) == {e \in m_timers : e.key <= at}

Expired(at) == IF DetectClockRollover(at) THEN m_timers ELSE DueBy(at)

(* Mutant: every timer comes back. *)
ComesBackAlways(t) == TRUE
ComesBack(t) == t \in Recurring

(* then the expired timers are taken out, their callbacks copied, and the   *)
(* recurring ones put back in.                                              *)
ListExpired(p) ==
  /\ pPc[p] = "list"
  /\ pPc' = [pPc EXCEPT ![p] = "run"]
  /\ LET expired == Expired(pNow[p])
         taken   == {e.timer : e \in expired}
         again   == {t \in taken : ComesBack(t)}
     IN  /\ cbs' = [cbs EXCEPT ![p] = taken]
         /\ m_next' = [t \in Timer |-> IF t \in again THEN pNow[p] + m_ms[t] ELSE m_next[t]]
         /\ m_cb' = [t \in Timer |-> m_cb[t] /\ t \notin taken \ again]
         /\ m_timers' = (m_timers \ expired) \cup {Entry(t, pNow[p] + m_ms[t]) : t \in again}
  /\ m_last_execute_time' = IF m_timers = {} THEN m_last_execute_time ELSE pNow[p]
  /\ UNCHANGED <<clockVars, m_ms, m_tickled, userVars, pLeft, pNow, tickle, historyVars>>

(* and run, outside the lock, before the poller starts again. *)
RunCallbacks(p) ==
  /\ pPc[p] = "run"
  /\ ran' = [t \in Timer |-> IF t \in cbs[p] \ Recurring THEN ran[t] + 1 ELSE ran[t]]
  /\ cbs' = [cbs EXCEPT ![p] = {}]
  /\ pNow' = [pNow EXCEPT ![p] = 0]
  /\ pPc' = [pPc EXCEPT ![p] = "next"]
  /\ UNCHANGED <<clockVars, timerVars, managerVars, userVars, pLeft, tickle, cancelled>>

-----------------------------------------------------------------------------
(* Time passes, for the clock and for the sleepers; once the clock has      *)
(* reached its bound, only for the sleepers.                                *)
Tick ==
  /\ now < MaxTime \/ \E p \in Poller : pLeft[p] > 0
  /\ now' = IF now < MaxTime THEN now + 1 ELSE now
  /\ pLeft' = [p \in Poller |-> IF pLeft[p] > 0 THEN pLeft[p] - 1 ELSE pLeft[p]]
  /\ UNCHANGED <<jumps, timerVars, managerVars, userVars, pPc, pNow, cbs, tickle, historyVars>>

SetBack ==
  /\ jumps < MaxJumps
  /\ jumps' = jumps + 1
  /\ now' \in 0 .. now - 1
  /\ UNCHANGED <<timerVars, managerVars, userVars, pollerVars, tickle, historyVars>>

UserStep(u) == AddInsert(u) \/ Tickle(u)

PollerStep(p) == \/ GetNextTimer(p) \/ WakeUp(p) \/ ListTime(p)
                 \/ ListExpired(p) \/ RunCallbacks(p)

UserCall(u, t) == \/ \E ms \in Periods : AddTimer(u, t, ms)
                  \/ Cancel(u, t) \/ Refresh(u, t)
                  \/ \E ms \in Periods, fromNow \in BOOLEAN : Reset(u, t, ms, fromNow)

Next == \/ \E u \in User : UserStep(u) \/ \E t \in Timer : UserCall(u, t)
        \/ \E p \in Poller : PollerStep(p)
        \/ Tick \/ SetBack

(***************************************************************************)
(* Fairness.  Pollers poll for ever, calls that have begun return, and     *)
(* time passes.                                                            *)
(***************************************************************************)
Spec == Init /\ [][Next]_vars
FairSpec == /\ Spec
            /\ \A u \in User : WF_vars(UserStep(u))
            /\ \A p \in Poller : WF_vars(PollerStep(p))
            /\ WF_vars(Tick)

-----------------------------------------------------------------------------
(* The set can be searched: each timer is in it at most once, under its     *)
(* current due time, and with a callback to call.                           *)
SetIsSound ==
  /\ \A e \in m_timers : e.key = m_next[e.timer] /\ m_cb[e.timer]
  /\ \A e, f \in m_timers : e.timer = f.timer => e = f

Taken(t) == {p \in Poller : t \in cbs[p]}
InSet(t) == \E e \in m_timers : e.timer = t

(* A timer that does not recur runs at most once, although listExpiredCb()  *)
(* races with itself and with refresh() and reset().                        *)
OneShotOnce == \A t \in Timer \ Recurring : ran[t] + Cardinality(Taken(t)) <= 1

(* After cancel() has returned true the timer is never taken again; one     *)
(* that does not recur has not run and never will.  (A recurring one may    *)
(* still run once on every poller that took it before.)                     *)
CancelIsFinal ==
  \A t \in cancelled : /\ ~InSet(t)
                       /\ t \notin Recurring => ran[t] = 0 /\ Taken(t) = {}

(* Somebody looks after the first timer in time: a poller that is awake or  *)
(* sleeps no longer than to its due time, or a tickle on its way.           *)
NoOversleep ==
  m_timers # {} =>
    \/ tickle \/ \E u \in User : uPc[u] = "tickle"
    \/ \E p \in Poller :
         \/ pPc[p] # "sleep"
         \/ pLeft[p] # Forever /\ now + pLeft[p] <= First(m_timers).key
         \/ pLeft[p] = 0

(* No timer is taken before it is due, although listExpiredCb() reads the   *)
(* clock before it takes the lock and the timer may be moved in between.    *)
NeverEarly ==
  [][\A p \in Poller : \A t \in cbs'[p] \ cbs[p] : m_next[t] <= now]_vars

(* No timer stays due for ever. *)
Due(t) == Found(t) /\ m_next[t] <= now
DueTimersFire == \A t \in Timer : Due(t) ~> ~Due(t)
=============================================================================
