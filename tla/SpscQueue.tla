----------------------------- MODULE SpscQueue -----------------------------
(***************************************************************************)
(* SpscLockFreeQueue<T, N> of concurrent/lockfree_queue.h, one action per  *)
(* access to shared memory.                                                *)
(*                                                                         *)
(* The two atomics are kept as their modification orders: r_ and w_ are    *)
(* the sequences of indices ever stored, oldest first.  The thread that    *)
(* owns an atomic reads its last entry; the other one, which does an       *)
(* acquire load, may read any entry not older than the last one it read.   *)
(* That is what C++ coherence and release/acquire promise, and no more.    *)
(* The slots of data_ are plain memory: they may be read as the current    *)
(* value only because no access to a slot races with another, which        *)
(* NoDataRace states.                                                      *)
(***************************************************************************)
EXTENDS Integers, Sequences

CONSTANTS Elem,      \* the elements the producer pushes
          Junk,      \* the contents of a slot that was never written
          N,         \* the number of slots
          MaxPush    \* bound: how many pushes may succeed in one behaviour

ASSUME NAssumption == N \in Nat /\ N > 2      \* the static_assert on N
ASSUME JunkAssumption == Junk \notin Elem
ASSUME MaxPushAssumption == MaxPush \in Nat

VARIABLES data_,           \* the slots
          w_, r_,          \* modification orders of the two indices
          pSeen,           \* how far the producer has read r_'s order
          cSeen,           \* how far the consumer has read w_'s order
          pPc, pElem, w, wNext,    \* the producer: its place in push() and its locals
          cPc, r, element,         \* the consumer: its place in pop() and its locals
          sent, got        \* history: elements pushed and popped, in order

producerVars == <<pPc, pElem, w, wNext, pSeen>>
consumerVars == <<cPc, r, element, cSeen>>
vars == <<data_, w_, r_, producerVars, consumerVars, sent, got>>

Index == 0 .. N - 1
Last(s) == s[Len(s)]

(* Mutant: the wrap-around one step late. *)
WrapLate(i) == IF i > N THEN 0 ELSE i

Wrap(i) == IF i = N THEN 0 ELSE i

TypeOK == /\ data_ \in [Index -> Elem \cup {Junk}]
          /\ w_ \in Seq(Index) /\ r_ \in Seq(Index)
          /\ pSeen \in Nat /\ cSeen \in Nat
          /\ pPc \in {"idle", "check", "write", "publish"}
          /\ cPc \in {"idle", "check", "read", "release"}
          /\ pElem \in Elem \cup {Junk} /\ element \in Elem \cup {Junk}
          /\ w \in Index /\ wNext \in Index /\ r \in Index
          /\ sent \in Seq(Elem) /\ got \in Seq(Elem \cup {Junk})

Init == /\ data_ = [i \in Index |-> Junk]
        /\ w_ = <<0>> /\ r_ = <<0>>
        /\ pSeen = 1 /\ cSeen = 1
        /\ pPc = "idle" /\ pElem = Junk /\ w = 0 /\ wNext = 0
        /\ cPc = "idle" /\ r = 0 /\ element = Junk
        /\ sent = <<>> /\ got = <<>>

-----------------------------------------------------------------------------
(* push(), called by the producer thread alone. *)

PushBegin(e) ==
  /\ pPc = "idle" /\ Len(sent) < MaxPush
  /\ pElem' = e
  /\ w' = Last(w_) /\ wNext' = Wrap(Last(w_) + 1)
  /\ pPc' = "check"
  /\ UNCHANGED <<data_, w_, r_, pSeen, consumerVars, sent, got>>

(* The full check is made with the next write index, wrapped around.        *)
(* Mutant: made before the wrap-around.                                     *)
FullBeforeWrap(k) == w + 1 = r_[k]
LooksFull(k) == wNext = r_[k]

(* Mutant: the element is published but never written. *)
PushForgetsWrite(k) ==
  /\ pPc = "check"
  /\ pSeen' = k
  /\ pPc' = IF LooksFull(k) THEN "idle" ELSE "publish"
  /\ UNCHANGED <<data_, w_, r_, pElem, w, wNext, consumerVars, sent, got>>

(* The acquire load of r_ reads its k-th value; push() returns false when   *)
(* the queue looks full.                                                    *)
PushCheck(k) ==
  /\ pPc = "check"
  /\ pSeen' = k
  /\ pPc' = IF LooksFull(k) THEN "idle" ELSE "write"
  /\ UNCHANGED <<data_, w_, r_, pElem, w, wNext, consumerVars, sent, got>>

PushWrite ==
  /\ pPc = "write"
  /\ data_' = [data_ EXCEPT ![w] = pElem]
  /\ pPc' = "publish"
  /\ UNCHANGED <<w_, r_, pSeen, pElem, w, wNext, consumerVars, sent, got>>

PushPublish ==
  /\ pPc = "publish"
  /\ w_' = Append(w_, wNext)
  /\ sent' = Append(sent, pElem)
  /\ pPc' = "idle"
  /\ UNCHANGED <<data_, r_, pSeen, pElem, w, wNext, consumerVars, got>>

-----------------------------------------------------------------------------
(* pop(), called by the consumer thread alone.  pop() returning an optional *)
(* makes the same accesses.                                                 *)

PopBegin ==
  /\ cPc = "idle"
  /\ r' = Last(r_)
  /\ cPc' = "check"
  /\ UNCHANGED <<data_, w_, r_, cSeen, element, producerVars, sent, got>>

(* Mutant: the last element is mistaken for none. *)
EmptyTooSoon(k) == Wrap(r + 1) = w_[k]
LooksEmpty(k) == r = w_[k]

PopCheck(k) ==
  /\ cPc = "check"
  /\ cSeen' = k
  /\ cPc' = IF LooksEmpty(k) THEN "idle" ELSE "read"
  /\ UNCHANGED <<data_, w_, r_, r, element, producerVars, sent, got>>

PopRead ==
  /\ cPc = "read"
  /\ element' = data_[r]
  /\ cPc' = "release"
  /\ UNCHANGED <<data_, w_, r_, cSeen, r, producerVars, sent, got>>

PopRelease ==
  /\ cPc = "release"
  /\ r_' = Append(r_, Wrap(r + 1))
  /\ r' = Wrap(r + 1)
  /\ got' = Append(got, element)
  /\ cPc' = "idle"
  /\ UNCHANGED <<data_, w_, cSeen, element, producerVars, sent>>

-----------------------------------------------------------------------------
ProducerStep == \/ \E k \in pSeen .. Len(r_) : PushCheck(k)
                \/ PushWrite
                \/ PushPublish

ConsumerStep == \/ PopBegin
                \/ \E k \in cSeen .. Len(w_) : PopCheck(k)
                \/ PopRead
                \/ PopRelease

Next == \/ \E e \in Elem : PushBegin(e)
        \/ ProducerStep
        \/ ConsumerStep

(***************************************************************************)
(* Fairness.  A push that has begun goes on; the consumer polls for ever,  *)
(* as the consumer thread of the tests does.  A store becomes visible in   *)
(* finite time, so a thread that loads for ever cannot miss it for ever.   *)
(***************************************************************************)
Fairness == /\ WF_vars(ProducerStep)
            /\ WF_vars(ConsumerStep)
            /\ SF_vars(PopCheck(Len(w_)))

Spec == Init /\ [][Next]_vars
FairSpec == Spec /\ Fairness

-----------------------------------------------------------------------------
(* FIFO: the consumer gets what was pushed, in the order it was pushed,     *)
(* nothing twice, nothing skipped, never an unwritten slot (push() and      *)
(* pop()).                                                                  *)
Fifo == /\ Len(got) <= Len(sent)
        /\ \A i \in 1 .. Len(got) : got[i] = sent[i]

(* One slot stays free to tell full from empty: never more than N - 1       *)
(* elements wait, and a thread that the check lets pass really has a free   *)
(* slot or an element, although it may have read an old index.              *)
Bounded ==
  /\ Len(sent) - Len(got) <= N - 1
  /\ pPc \in {"write", "publish"} => Len(sent) - Len(got) < N - 1
  /\ cPc \in {"read", "release"} => Len(sent) > Len(got)

(* The producer's plain write of data_[w] and the consumer's plain read of  *)
(* data_[r] are never both about to happen on the same slot.                *)
NoDataRace == ~(pPc = "write" /\ cPc = "read" /\ w = r)

(* push() fails only when the queue holds N - 1 elements as far as the      *)
(* producer can know, and pop() only when it is empty as far as the         *)
(* consumer can know: no false failure at the wrap-around.                  *)
FailsOnlyWhenItMust ==
  [][ /\ (pPc = "check" /\ pPc' = "idle") => Len(w_) - pSeen' = N - 1
      /\ (cPc = "check" /\ cPc' = "idle") => cSeen' = Len(r_) ]_vars

(* The queue read from memory: the slots from the read index up to the      *)
(* write index.                                                             *)
InMemory == [i \in 1 .. ((Last(w_) + N - Last(r_)) % N) |->
                 data_[(Last(r_) + i - 1) % N]]

(* The contents of memory behave as the bounded FIFO of BoundedFifo.        *)
Abstract == INSTANCE BoundedFifo
              WITH Capacity <- N - 1, line <- InMemory, taken <- got
ImplementsFifo == Abstract!FifoSpec

(* Every element whose push returned is popped, if the consumer polls.      *)
Delivered == \A n \in 1 .. MaxPush : (Len(sent) >= n) ~> (Len(got) >= n)
=============================================================================
