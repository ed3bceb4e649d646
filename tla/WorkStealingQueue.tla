------------------------- MODULE WorkStealingQueue -------------------------
(***************************************************************************)
(* WorkStealingQueue<T> of concurrent/work_stealing_queue.h, one action    *)
(* per access to shared memory, on the memory of the machine it is built   *)
(* for: on x86 a thread's plain stores (release and relaxed alike) wait in *)
(* its store buffer and reach memory later, in order; the thread itself    *)
(* reads them at once; a compare-and-swap first waits for the buffer to    *)
(* drain.  Only the owner has plain stores; thieves write _top by          *)
(* compare-and-swap alone, and loads are not reordered with loads.         *)
(*                                                                         *)
(* FullFence says what the fence of pop() does.  The code asks for         *)
(* acq_rel, for which x86 compilers emit no instruction: FALSE.  TRUE is   *)
(* the seq_cst fence that drains the store buffer.                         *)
(*                                                                         *)
(* T is any copyable type, so a slot is written in more than one store:    *)
(* in between it holds Torn.                                               *)
(***************************************************************************)
EXTENDS Integers, Sequences, FiniteSets

CONSTANTS Thief,        \* the threads that call steal()
          InitArgs,     \* the arguments init() may be called with
          FullFence,    \* does the fence of pop() drain the store buffer?
          MaxPush,      \* bound: how many pushes may succeed in one behaviour
          Torn, Junk    \* a half written slot, a slot never written

ASSUME InitArgsAssumption == InitArgs \subseteq Nat
ASSUME FenceAssumption == FullFence \in BOOLEAN
ASSUME MaxPushAssumption == MaxPush \in Nat
ASSUME ContentAssumption == Torn \notin Nat /\ Junk \notin Nat

VARIABLES capacity,     \* _capacity: 0 until init() succeeds
          top,          \* _top
          mem,          \* _bottom and the slots of _buffer, as in memory
          stores,       \* the owner's store buffer, oldest first
          oPc, b, t,    \* the owner: its place in push() or pop() and its locals
          val,          \* the item pop() has read
          sPc, st, sVal,         \* each thief: its place in steal() and its locals
          pushed,       \* history: number of successful pushes; the n-th pushes item n
          popped, stolen         \* history: how often each item was handed out

ownerVars == <<oPc, b, t, val>>
thiefVars == <<sPc, st, sVal>>
vars == <<capacity, top, mem, stores, ownerVars, thiefVars, pushed, popped, stolen>>

Item == 1 .. MaxPush
Content == Item \cup {Torn, Junk}

Bottom == -1                             \* where _bottom is in mem
bottom == mem[Bottom]

Slot(i) == i % capacity                  \* i & (_capacity - 1)

(* What the owner reads: its own youngest pending store, or else memory. *)
Owner(at) ==
  LET pending == {i \in DOMAIN stores : stores[i].at = at}
  IN  IF pending = {} THEN mem[at]
      ELSE stores[CHOOSE i \in pending : \A j \in pending : j <= i].val

Store(at, v) == stores' = Append(stores, [at |-> at, val |-> v])

TypeOK ==
  /\ capacity \in Nat /\ top \in Nat /\ b \in Nat /\ t \in Nat
  /\ DOMAIN mem = {Bottom} \cup 0 .. capacity - 1
  /\ bottom \in Nat
  /\ \A i \in 0 .. capacity - 1 : mem[i] \in Content
  /\ \A i \in DOMAIN stores :
        \/ stores[i].at = Bottom /\ stores[i].val \in Nat
        \/ stores[i].at \in 0 .. capacity - 1 /\ stores[i].val \in Content
  /\ oPc \in {"idle", "push_full", "push_write", "push_written", "push_publish",
              "pop_empty", "pop_reserve", "pop_fence", "pop_reload", "pop_read",
              "pop_race", "pop_restore"}
  /\ val \in Content
  /\ sPc \in [Thief -> {"idle", "empty", "reload", "read", "race"}]
  /\ st \in [Thief -> Nat] /\ sVal \in [Thief -> Content]
  /\ pushed \in 0 .. MaxPush
  /\ popped \in [Content -> Nat] /\ stolen \in [Content -> Nat]

Init == /\ capacity = 0 /\ top = 1
        /\ mem = [at \in {Bottom} |-> 1]
        /\ stores = <<>>
        /\ oPc = "idle" /\ b = 1 /\ t = 1 /\ val = Junk
        /\ sPc = [s \in Thief |-> "idle"]
        /\ st = [s \in Thief |-> 1] /\ sVal = [s \in Thief |-> Junk]
        /\ pushed = 0
        /\ popped = [i \in Content |-> 0] /\ stolen = [i \in Content |-> 0]

-----------------------------------------------------------------------------
(* init(): refuses a second call, zero, what is not a power of two, and     *)
(* goes nowhere when the allocation fails.                                  *)
Accepts(c) == capacity = 0 /\ c # 0 /\ \E k \in 0 .. c : c = 2 ^ k

InitCall(c) ==
  /\ oPc = "idle" /\ Accepts(c)
  /\ capacity' = c
  /\ mem' = [at \in {Bottom} \cup 0 .. c - 1 |-> IF at = Bottom THEN bottom ELSE Junk]
  /\ UNCHANGED <<top, stores, ownerVars, thiefVars, pushed, popped, stolen>>

(* The store buffer lets its oldest store go to memory. *)
Drain ==
  /\ stores # <<>>
  /\ mem' = [mem EXCEPT ![Head(stores).at] = Head(stores).val]
  /\ stores' = Tail(stores)
  /\ UNCHANGED <<capacity, top, ownerVars, thiefVars, pushed, popped, stolen>>

-----------------------------------------------------------------------------
(* push() *)

PushBegin ==
  /\ oPc = "idle" /\ pushed < MaxPush
  /\ b' = Owner(Bottom)
  /\ oPc' = "push_full"
  /\ UNCHANGED <<capacity, top, mem, stores, t, val, thiefVars, pushed, popped, stolen>>

(* Mutant: one push too many. *)
FullTooLate == capacity = 0 \/ b > top + capacity
Full == b >= top + capacity

PushCheck ==
  /\ oPc = "push_full"
  /\ oPc' = IF Full THEN "idle" ELSE "push_write"
  /\ UNCHANGED <<capacity, top, mem, stores, b, t, val, thiefVars, pushed, popped, stolen>>

PushWriteBegins ==
  /\ oPc = "push_write"
  /\ Store(Slot(b), Torn)
  /\ oPc' = "push_written"
  /\ UNCHANGED <<capacity, top, mem, b, t, val, thiefVars, pushed, popped, stolen>>

PushWriteEnds ==
  /\ oPc = "push_written"
  /\ Store(Slot(b), pushed + 1)
  /\ oPc' = "push_publish"
  /\ UNCHANGED <<capacity, top, mem, b, t, val, thiefVars, pushed, popped, stolen>>

PushPublish ==
  /\ oPc = "push_publish"
  /\ Store(Bottom, b + 1)
  /\ pushed' = pushed + 1
  /\ oPc' = "idle"
  /\ UNCHANGED <<capacity, top, mem, b, t, val, thiefVars, popped, stolen>>

-----------------------------------------------------------------------------
(* pop() *)

PopBegin ==
  /\ oPc = "idle"
  /\ b' = Owner(Bottom)
  /\ oPc' = "pop_empty"
  /\ UNCHANGED <<capacity, top, mem, stores, t, val, thiefVars, pushed, popped, stolen>>

PopCheck ==
  /\ oPc = "pop_empty"
  /\ oPc' = IF top >= b THEN "idle" ELSE "pop_reserve"
  /\ UNCHANGED <<capacity, top, mem, stores, b, t, val, thiefVars, pushed, popped, stolen>>

PopReserve ==
  /\ oPc = "pop_reserve"
  /\ Store(Bottom, b - 1)
  /\ oPc' = "pop_fence"
  /\ UNCHANGED <<capacity, top, mem, b, t, val, thiefVars, pushed, popped, stolen>>

(* Mutant: a fence that lets the load of _top pass the store of _bottom.    *)
WeakFence == TRUE
Fence == FullFence => stores = <<>>

PopFence ==
  /\ oPc = "pop_fence"
  /\ Fence
  /\ oPc' = "pop_reload"
  /\ UNCHANGED <<capacity, top, mem, stores, b, t, val, thiefVars, pushed, popped, stolen>>

PopReload ==
  /\ oPc = "pop_reload"
  /\ t' = top
  /\ oPc' = IF top > b - 1 THEN "pop_restore" ELSE "pop_read"
  /\ UNCHANGED <<capacity, top, mem, stores, b, val, thiefVars, pushed, popped, stolen>>

(* Mutant: pop() never competes for the last item. *)
NeverLast == FALSE
LastItem == t = b - 1

(* The load of _top passes the store of _bottom, which still waits: the     *)
(* fence at line 101 is there to prevent it, and as acq_rel does not.       *)
Overtakes == PopReload /\ stores # <<>>

(* More than one item was left: pop() returns the last one without a race.  *)
PopRead ==
  /\ oPc = "pop_read"
  /\ LET v == Owner(Slot(b - 1))
     IN  /\ val' = v
         /\ IF LastItem
            THEN oPc' = "pop_race" /\ UNCHANGED popped
            ELSE oPc' = "idle" /\ popped' = [popped EXCEPT ![v] = @ + 1]
  /\ UNCHANGED <<capacity, top, mem, stores, b, t, thiefVars, pushed, stolen>>

(* The last item: whoever moves _top has it. *)
PopRace ==
  /\ oPc = "pop_race" /\ stores = <<>>
  /\ IF top = t
     THEN top' = t + 1 /\ popped' = [popped EXCEPT ![val] = @ + 1]
     ELSE UNCHANGED <<top, popped>>
  /\ oPc' = "pop_restore"
  /\ UNCHANGED <<capacity, mem, stores, b, t, val, thiefVars, pushed, stolen>>

(* Mutant: the reservation is never undone. *)
KeepReserved == oPc = "pop_restore" /\ oPc' = "idle" /\ UNCHANGED stores
Restore == oPc = "pop_restore" /\ oPc' = "idle" /\ Store(Bottom, b)

PopRestore ==
  /\ Restore
  /\ UNCHANGED <<capacity, top, mem, b, t, val, thiefVars, pushed, popped, stolen>>

-----------------------------------------------------------------------------
(* steal() by thief s *)

StealBegin(s) ==
  /\ sPc[s] = "idle"
  /\ st' = [st EXCEPT ![s] = top]
  /\ sPc' = [sPc EXCEPT ![s] = "empty"]
  /\ UNCHANGED <<capacity, top, mem, stores, ownerVars, sVal, pushed, popped, stolen>>

StealCheck(s) ==
  /\ sPc[s] = "empty"
  /\ sPc' = [sPc EXCEPT ![s] = IF st[s] >= bottom THEN "idle" ELSE "reload"]
  /\ UNCHANGED <<capacity, top, mem, stores, ownerVars, st, sVal, pushed, popped, stolen>>

StealReload(s) ==
  /\ sPc[s] = "reload"
  /\ sPc' = [sPc EXCEPT ![s] = IF st[s] >= bottom THEN "idle" ELSE "read"]
  /\ UNCHANGED <<capacity, top, mem, stores, ownerVars, st, sVal, pushed, popped, stolen>>

StealRead(s) ==
  /\ sPc[s] = "read"
  /\ sVal' = [sVal EXCEPT ![s] = mem[Slot(st[s])]]
  /\ sPc' = [sPc EXCEPT ![s] = "race"]
  /\ UNCHANGED <<capacity, top, mem, stores, ownerVars, st, pushed, popped, stolen>>

(* Mutant: _top is moved without a comparison. *)
AlwaysMine(s) == TRUE
StillMine(s) == top = st[s]

StealRace(s) ==
  /\ sPc[s] = "race"
  /\ IF StillMine(s)
     THEN /\ top' = top + 1
          /\ stolen' = [stolen EXCEPT ![sVal[s]] = @ + 1]
          /\ sPc' = [sPc EXCEPT ![s] = "idle"]
          /\ UNCHANGED st
     ELSE /\ st' = [st EXCEPT ![s] = top]
          /\ sPc' = [sPc EXCEPT ![s] = "reload"]
          /\ UNCHANGED <<top, stolen>>
  /\ UNCHANGED <<capacity, mem, stores, ownerVars, sVal, pushed, popped>>

-----------------------------------------------------------------------------
OwnerStep == \/ PushCheck \/ PushWriteBegins \/ PushWriteEnds \/ PushPublish
             \/ PopCheck \/ PopReserve \/ PopFence \/ PopReload
             \/ PopRead \/ PopRace \/ PopRestore

ThiefStep(s) == \/ StealBegin(s) \/ StealCheck(s) \/ StealReload(s)
                \/ StealRead(s) \/ StealRace(s)

Next == \/ \E c \in InitArgs : InitCall(c)
        \/ PushBegin \/ PopBegin \/ OwnerStep
        \/ Drain
        \/ \E s \in Thief : ThiefStep(s)

(***************************************************************************)
(* Fairness.  A call of the owner that has begun goes on, stores drain,    *)
(* and thieves steal for ever, as the threads of the test do.              *)
(***************************************************************************)
Fairness == /\ WF_vars(OwnerStep) /\ WF_vars(Drain)
            /\ \A s \in Thief : WF_vars(ThiefStep(s))

Spec == Init /\ [][Next]_vars
FairSpec == Spec /\ Fairness

-----------------------------------------------------------------------------
(* An item is handed out at most once, to the owner or to a thief: pop()    *)
(* and steal() "may run in parallel".                                       *)
HandedOutOnce == \A i \in Item : popped[i] + stolen[i] <= 1

(* No call returns a slot that was being written or never was: steal()      *)
(* reads slots that the owner may be overwriting, and its compare-and-swap  *)
(* must throw such a value away.                                            *)
OnlyWholeItems == \A v \in {Torn, Junk} : popped[v] + stolen[v] = 0

(* Whatever the fence does, thieves compete with each other on _top alone,  *)
(* and pop() never repeats itself: an item that goes out twice went once to *)
(* the owner and once to a thief.                                           *)
EachSideTakesOnce == \A i \in Item : popped[i] <= 1 /\ stolen[i] <= 1

(* The items that wait, oldest first: the slots from _top to _bottom as the *)
(* owner sees them; while pop() holds the last slot reserved, that one too. *)
LogicalBottom == IF oPc \in {"pop_fence", "pop_reload", "pop_read", "pop_race", "pop_restore"}
                 THEN b ELSE Owner(Bottom)
Waiting == [i \in 1 .. LogicalBottom - top |-> Owner(Slot(top + i - 1))]

(* push() adds at the new end, pop() takes there, steal() at the old end,   *)
(* and nothing is lost, doubled or moved.                                   *)
Abstract == INSTANCE StealableDeque WITH Item <- Content, line <- Waiting
ImplementsDeque == Abstract!DequeSpec

(* An item that was pushed is not forgotten while somebody steals.          *)
NothingForgotten == \A i \in Item : (pushed >= i) ~> (popped[i] + stolen[i] >= 1)
=============================================================================
