---------------------------- MODULE RingBuffers ----------------------------
(***************************************************************************)
(* ds/ring_buffer.h: RingBuffer.  Its methods add elements and drop the    *)
(* oldest one; none takes an element out.  An element is a number never    *)
(* used before, and indices wrap like size_t at SizeMod.                   *)
(***************************************************************************)
EXTENDS Integers, FiniteSets, Sequences

CONSTANTS Capacity, MaxCapacity, SizeMod,
          MaxPushes       \* bound

ASSUME CapacityAssumption ==
  /\ Capacity \in Nat \ {0} /\ MaxCapacity \in Nat /\ MaxCapacity >= Capacity
  /\ SizeMod \in Nat /\ SizeMod > 2 * MaxCapacity /\ MaxPushes \in Nat

VARIABLES ring,    \* reader, writer and the buffer, from 0
          line,    \* the elements push_back() took and force_push() did not drop
          pushed,  \* how many elements there were
          wild     \* has resize() left the buffers, or the writer?

ringVars == <<ring, line, pushed, wild>>

RingInit ==
  /\ ring = [reader |-> 0, writer |-> 0, buffer |-> [i \in 0 .. Capacity - 1 |-> 0]]
  /\ line = <<>> /\ pushed = 0 /\ wild = FALSE

RingCapacity(r) == Cardinality(DOMAIN r.buffer)
NextIndex(r, n) == (n + 1) % RingCapacity(r)
PrevIndex(r, n) == IF n > 0 THEN (n - 1) % RingCapacity(r) ELSE RingCapacity(r) - 1
RingFull(r) == NextIndex(r, r.writer) = r.reader

PushBack ==
  /\ ~wild /\ pushed < MaxPushes /\ pushed' = pushed + 1
  /\ IF RingFull(ring) THEN UNCHANGED <<ring, line>>
     ELSE /\ ring' = [ring EXCEPT !.buffer[ring.writer] = pushed',
                                  !.writer = NextIndex(ring, @)]
          /\ line' = Append(line, pushed')
  /\ UNCHANGED wild

(* force_push() makes room, writes the element behind the last one, and      *)
(* leaves the writer where it was.                                           *)
ForcePush ==
  /\ ~wild /\ pushed < MaxPushes /\ pushed' = pushed + 1
  /\ ring' = [ring EXCEPT !.reader = IF RingFull(ring) THEN NextIndex(ring, @) ELSE @,
                          !.buffer[ring.writer] = pushed']
  /\ line' = IF RingFull(ring) /\ line # <<>> THEN Tail(line) ELSE line
  /\ UNCHANGED wild

(* resize(): the first copy ends writer elements behind the buffer; a writer *)
(* before the reader becomes a huge index.  The element of UB is only that   *)
(* nothing is known afterwards.                                              *)
LeavesBuffer(r) == IF r.writer >= r.reader THEN r.writer > 0 ELSE TRUE
Resize(capacity) ==
  /\ ~wild /\ capacity >= RingCapacity(ring)
  /\ wild' = LeavesBuffer(ring)
  /\ ring' = IF wild' THEN ring
             ELSE [reader |-> 0, writer |-> ring.writer - ring.reader,
                   buffer |-> [i \in 0 .. capacity - 1 |->
                     IF i \in DOMAIN ring.buffer THEN ring.buffer[i] ELSE 0]]
  /\ UNCHANGED <<line, pushed>>

RingNext == PushBack \/ ForcePush \/ \E capacity \in Capacity .. MaxCapacity : Resize(capacity)

(* The observers.  The difference of size() is unsigned and never negative.  *)
RingSize(r) == (r.writer - r.reader) % SizeMod
RingEmpty(r) == r.writer = r.reader
RingFront(r) == r.buffer[r.reader]
RingBack(r) == r.buffer[PrevIndex(r, r.writer)]
(* The iterators, as indices; end() is the capacity.                         *)
IteratorNext(r, i) == IF i + 1 = RingCapacity(r) THEN 0 ELSE i + 1
IteratorPrev(r, i) == IF i = 0 THEN RingCapacity(r) ELSE i - 1
-----------------------------------------------------------------------------
(* ring_buffer.h:83-126: through every wrap the ring holds what push_back()  *)
(* took, oldest first, without what force_push() dropped; size() counts it   *)
(* until the writer has wrapped and the reader has not.  A resize() with the *)
(* writer not at 0 ends what can be said.                                    *)
RingKeepsLine ==
  LET At[i \in Nat] == IF i = 0 THEN ring.reader ELSE NextIndex(ring, At[i - 1])
  IN  ~wild =>
    /\ \A i \in 1 .. Len(line) : ring.buffer[At[i - 1]] = line[i]
    /\ At[Len(line)] = ring.writer /\ Len(line) < RingCapacity(ring)
    /\ RingEmpty(ring) <=> line = <<>>
    /\ line # <<>> => RingFront(ring) = Head(line) /\ RingBack(ring) = line[Len(line)]
    /\ ring.writer >= ring.reader => RingSize(ring) = Len(line)
    /\ \A i \in DOMAIN ring.buffer :
         IteratorPrev(ring, IteratorNext(ring, i)) =
           (IF i = RingCapacity(ring) - 1 THEN RingCapacity(ring) ELSE i)
=============================================================================
