---------------------- MODULE WorkStealingQueueProofs ----------------------
(***************************************************************************)
(* Proofs about WorkStealingQueue, for any number of thieves, any capacity *)
(* and any number of pushes.  With any fence: TypeCorrect, and that each   *)
(* side takes an item once (EachSideAlwaysTakesOnce).  That an item goes   *)
(* out once and whole, and that the queue is a deque, is proved of the     *)
(* behaviours in which no load of _top in pop() Overtakes a store of       *)
(* _bottom that still waits; with a fence that drains the store buffer     *)
(* these are all (FullFencePreventsOvertaking), with the acq_rel of the    *)
(* code they are not (run wsq_double_delivery).                            *)
(*                                                                         *)
(* The argument.  Positions are counted for ever; position i is kept in    *)
(* the slot i % capacity.  Whatever waits in the store buffer is written   *)
(* at or behind the _bottom that memory shows (StoresBehind), so what lies *)
(* between _top and that _bottom is whole and stays as it is until _top    *)
(* moves (Readers); and when the buffer is empty where _top is loaded, no  *)
(* thief can be about to take a position that pop() takes without a race   *)
(* (ReservedIsMine).  What each side takes needs none of this: the owner   *)
(* goes by its own view (OwnerSide), and whichever _bottom a thief reads,  *)
(* nothing between _top and it was stolen already (ThiefSide).             *)
(***************************************************************************)
EXTENDS WorkStealingQueue, WellFoundedInduction, TLAPS

(* What a thread with the pending stores s sees of the memory m at x.       *)
Pending(s, x) == {i \in DOMAIN s : s[i].at = x}
View(s, m, x) ==
  IF Pending(s, x) = {} THEN m[x]
  ELSE s[CHOOSE i \in Pending(s, x) : \A j \in Pending(s, x) : j <= i].val

Reserving == {"pop_fence", "pop_reload", "pop_read", "pop_race", "pop_restore"}
Pushing == {"push_write", "push_written", "push_publish"}
Drained == {"pop_read", "pop_race", "pop_restore"}

(* _bottom as the owner means it: a reserved slot is still in the queue.    *)
Last == IF oPc \in Reserving THEN b ELSE View(stores, mem, Bottom)
Place(i, c) == i % c
At(i) == View(stores, mem, Place(i, capacity))

Where == {Bottom} \cup 0 .. capacity - 1
StoresAreRecords ==
  stores \in Seq([at : Where, val : Content \cup Nat])

(* Nobody gets past the first test of a call before init() has succeeded.   *)
NothingBeforeInit ==
  capacity = 0 =>
    /\ top = 1 /\ stores = <<>> /\ bottom = 1
    /\ oPc \in {"idle", "push_full", "pop_empty"}
    /\ oPc # "idle" => b = 1
    /\ \A s \in Thief : sPc[s] \in {"idle", "empty"} /\ st[s] = 1

(* The owner's locals agree with what it has stored.                        *)
OwnerKnowsBottom ==
  /\ oPc \in Reserving => View(stores, mem, Bottom) = b - 1
  /\ oPc \notin Reserving \cup {"idle"} => View(stores, mem, Bottom) = b
  /\ oPc \in Pushing => b < top + capacity /\ pushed < MaxPush
  /\ oPc = "push_full" => pushed < MaxPush
  /\ oPc \in {"pop_reserve"} \cup Reserving => b >= 1
  /\ oPc \in {"pop_read", "pop_race"} => t <= top /\ t <= b - 1
  /\ oPc = "pop_race" => t = b - 1 /\ val = At(b - 1)
  /\ oPc = "pop_restore" => b <= top

(* Once pop() has read _top, its own stores are in memory.                  *)
StoredBeforeRead ==
  /\ oPc \in Drained => stores = <<>>
  /\ oPc = "pop_restore" => top <= b

(* The positions in use fit into the ring.                                  *)
WithinRing == top <= Last /\ Last <= top + capacity

(* What is on its way to memory: values of _bottom no higher than the       *)
(* owner's, and contents of positions that _bottom has not passed.          *)
StoresBehind ==
  /\ bottom <= Last
  /\ \A i \in DOMAIN stores : stores[i].at = Bottom => stores[i].val <= Last
  /\ \A i \in DOMAIN stores : stores[i].at # Bottom =>
       \E p \in bottom .. top + capacity - 1 :
         /\ stores[i].at = Place(p, capacity)
         /\ \A h \in 1 .. i - 1 : stores[h].at = Bottom => stores[h].val <= p

(* A thief whose compare-and-swap may still succeed read what is there.     *)
Reader(s) == sPc[s] \in {"read", "race"} /\ st[s] = top
Readers ==
  \A s \in Thief :
    /\ st[s] <= top
    /\ Reader(s) => /\ top < Last
                    /\ \A i \in DOMAIN stores : stores[i].at # Place(top, capacity)
    /\ Reader(s) /\ sPc[s] = "race" => sVal[s] = At(top)

(* The item pop() takes without a race is out of every thief's reach.       *)
ReservedIsMine ==
  oPc = "pop_read" /\ t < b - 1 =>
    /\ top <= b - 1
    /\ \A s \in Thief : sPc[s] \in {"read", "race"} => st[s] < b - 1

(* Each position in use holds an item of its own that nobody was given.     *)
ItemsWait ==
  /\ \A i \in top .. Last - 1 :
       /\ At(i) \in 1 .. pushed
       /\ popped[At(i)] = 0 /\ stolen[At(i)] = 0
       /\ \A k \in top .. Last - 1 : At(i) = At(k) => i = k
  /\ oPc = "push_publish" => At(b) = pushed + 1
  /\ \A i \in Item : i > pushed => popped[i] = 0 /\ stolen[i] = 0

(* What holds with any fence, and what holds as long as nothing overtakes.  *)
CoreInv == TypeOK /\ StoresAreRecords /\ NothingBeforeInit /\ OwnerKnowsBottom
RingInv == /\ CoreInv /\ StoredBeforeRead
           /\ WithinRing /\ StoresBehind /\ Readers /\ ReservedIsMine

-----------------------------------------------------------------------------
(* Two positions less than a capacity apart are in different slots.         *)
LEMMA PlacesDiffer ==
  ASSUME NEW c \in Nat, c > 0, NEW i \in Nat, NEW j \in Nat, i < j, j < i + c
  PROVE  Place(i, c) # Place(j, c)
<1> DEFINE p == i \div c
           q == j \div c
<1>1. i = c * p + (i % c) /\ p \in Int /\ i % c \in 0 .. c - 1
  OBVIOUS
<1>2. j = c * q + (j % c) /\ q \in Int /\ j % c \in 0 .. c - 1
  OBVIOUS
<1> HIDE DEF p, q
<1>3. SUFFICES ASSUME i % c = j % c PROVE FALSE
  BY DEF Place
<1>4. j - i = c * (q - p)
  BY <1>1, <1>2, <1>3
<1>5. q - p \in Int /\ q - p > 0 /\ q - p < 1
  BY <1>1, <1>2, <1>4
<1>6. QED
  BY <1>5

(* A position's slot is a slot, and not the place of _bottom.               *)
LEMMA PlaceIsASlot ==
  ASSUME NEW c \in Nat, c > 0, NEW i \in Nat
  PROVE  Place(i, c) \in 0 .. c - 1 /\ Place(i, c) # Bottom
<1>1. i % c \in 0 .. c - 1
  OBVIOUS
<1>2. QED
  BY <1>1 DEF Place, Bottom

(* Pending stores to one place have a youngest.                             *)
LEMMA YoungestExists ==
  ASSUME NEW n \in Nat, NEW P \in SUBSET (1 .. n), P # {}
  PROVE  \E i \in P : \A j \in P : j <= i
<1> DEFINE Ages == {n - i : i \in P}
           Less == OpToRel(<, Nat)
<1>1. Ages \subseteq Nat /\ Ages # {}
  <2>1. \A i \in P : n - i \in Nat
    OBVIOUS
  <2>2. QED
    BY <2>1
<1>2. PICK least \in Ages : \A k \in Ages : ~(<<k, least>> \in Less)
  <2>1. IsWellFoundedOn(Less, Nat)
    BY NatLessThanWellFounded
  <2> HIDE DEF Less, Ages
  <2>2. QED
    BY <1>1, <2>1, WFMin
<1>3. \A k \in Ages : least <= k
  <2> SUFFICES ASSUME NEW k \in Ages, ~(least <= k) PROVE FALSE
    OBVIOUS
  <2>1. k \in Nat /\ least \in Nat /\ k < least
    BY <1>1
  <2>2. <<k, least>> \in Less
    BY <2>1 DEF OpToRel
  <2>3. QED
    BY <1>2, <2>2
<1>4. PICK i \in P : least = n - i
  OBVIOUS
<1>5. \A j \in P : n - i <= n - j
  BY <1>3, <1>4
<1>6. ASSUME NEW j \in P PROVE j <= i
  <2>1. j \in Nat /\ i \in Nat /\ n - i <= n - j
    BY <1>5
  <2>2. QED
    BY <2>1
<1>7. QED
  BY <1>6

(* A thread reads its own youngest store, and memory when it has none.      *)
LEMMA ViewIsYoungest ==
  ASSUME NEW R, NEW s \in Seq(R), NEW m, NEW x
  PROVE  /\ Pending(s, x) = {} => View(s, m, x) = m[x]
         /\ \A i \in Pending(s, x) :
              (\A j \in Pending(s, x) : j <= i) => View(s, m, x) = s[i].val
         /\ Pending(s, x) # {} =>
              \E i \in Pending(s, x) : \A j \in Pending(s, x) : j <= i
         /\ Pending(s, x) \subseteq 1 .. Len(s)
<1>1. Pending(s, x) \subseteq 1 .. Len(s) /\ Len(s) \in Nat
  BY DEF Pending
<1>2. Pending(s, x) # {} => \E i \in Pending(s, x) : \A j \in Pending(s, x) : j <= i
  BY <1>1, YoungestExists
<1>3. ASSUME NEW i \in Pending(s, x), \A j \in Pending(s, x) : j <= i
      PROVE  View(s, m, x) = s[i].val
  <2>1. \A k \in Pending(s, x) : (\A j \in Pending(s, x) : j <= k) => k = i
    BY <1>1, <1>3
  <2>2. i = CHOOSE k \in Pending(s, x) : \A j \in Pending(s, x) : j <= k
    BY <1>3, <2>1
  <2>3. QED
    BY <1>3, <2>2 DEF View
<1>4. QED
  BY <1>1, <1>2, <1>3 DEF View

(* A new store is what the thread sees at its place from then on.           *)
LEMMA ViewOfAppend ==
  ASSUME NEW R, NEW s \in Seq(R), NEW e \in R, NEW m, NEW x
  PROVE  View(Append(s, e), m, x) = IF e.at = x THEN e.val ELSE View(s, m, x)
<1> DEFINE n == Len(s)
           a == Append(s, e)
<1>1. /\ n \in Nat /\ a \in Seq(R) /\ Len(a) = n + 1 /\ a[n + 1] = e
      /\ \A i \in 1 .. n : a[i] = s[i]
  OBVIOUS
<1> HIDE DEF a
<1>2. CASE e.at = x
  <2>1. n + 1 \in Pending(a, x) /\ \A j \in Pending(a, x) : j <= n + 1
    BY <1>1, <1>2 DEF Pending
  <2>2. View(a, m, x) = a[n + 1].val
    BY <1>1, <2>1, ViewIsYoungest
  <2>3. QED
    BY <1>1, <1>2, <2>2 DEF a
<1>3. CASE e.at # x
  <2>1. Pending(a, x) = Pending(s, x)
    BY <1>1, <1>3 DEF Pending
  <2>2. CASE Pending(s, x) = {}
    BY <1>3, <2>1, <2>2 DEF View, a
  <2>3. CASE Pending(s, x) # {}
    <3>1. PICK i \in Pending(s, x) : \A j \in Pending(s, x) : j <= i
      BY <2>3, ViewIsYoungest
    <3>2. View(s, m, x) = s[i].val /\ i \in 1 .. n
      BY <3>1, ViewIsYoungest
    <3>3. i \in Pending(a, x) /\ \A j \in Pending(a, x) : j <= i
      BY <2>1, <3>1
    <3>4. \A k \in Pending(a, x) :
            (\A j \in Pending(a, x) : j <= k) => View(a, m, x) = a[k].val
      BY <1>1, ViewIsYoungest, SMTT(30)
    <3>5. View(a, m, x) = a[i].val
      BY <3>3, <3>4
    <3>6. QED
      BY <1>1, <1>3, <3>2, <3>5 DEF a
  <2>4. QED
    BY <2>2, <2>3
<1>4. QED
  BY <1>2, <1>3

(* What the buffer lets go to memory was there for the thread already.      *)
LEMMA ViewOfDrain ==
  ASSUME NEW R, NEW s \in Seq(R), s # <<>>, NEW m, NEW x \in DOMAIN m
  PROVE  View(Tail(s), [m EXCEPT ![Head(s).at] = Head(s).val], x) = View(s, m, x)
<1> DEFINE n == Len(s)
           l == Tail(s)
           k == [m EXCEPT ![s[1].at] = s[1].val]
<1>1. /\ n \in Nat /\ n > 0 /\ l \in Seq(R) /\ Len(l) = n - 1 /\ Head(s) = s[1]
      /\ \A i \in 1 .. n - 1 : l[i] = s[i + 1]
  OBVIOUS
<1>2. k[x] = IF s[1].at = x THEN s[1].val ELSE m[x]
  OBVIOUS
<1> HIDE DEF l, k
<1>3. /\ \A i \in Pending(l, x) : i + 1 \in Pending(s, x)
      /\ \A i \in Pending(s, x) : i # 1 => i - 1 \in Pending(l, x)
      /\ Pending(s, x) \subseteq 1 .. n /\ Pending(l, x) \subseteq 1 .. n - 1
  BY <1>1 DEF Pending
<1>4. CASE Pending(s, x) = {}
  <2>1. s[1].at # x /\ Pending(l, x) = {}
    BY <1>1, <1>3, <1>4 DEF Pending
  <2>2. QED
    BY <1>1, <1>2, <1>4, <2>1 DEF View, l, k
<1>5. CASE Pending(s, x) # {}
  <2>1. PICK i \in Pending(s, x) : \A j \in Pending(s, x) : j <= i
    BY <1>5, ViewIsYoungest
  <2>2. View(s, m, x) = s[i].val /\ i \in 1 .. n
    BY <1>3, <2>1, ViewIsYoungest
  <2>3. CASE i = 1
    <3>1. Pending(l, x) = {} /\ s[1].at = x
      BY <1>3, <2>1, <2>3 DEF Pending
    <3>2. QED
      BY <1>1, <1>2, <2>2, <2>3, <3>1 DEF View, l, k
  <2>4. CASE i # 1
    <3>1. i - 1 \in Pending(l, x) /\ \A j \in Pending(l, x) : j <= i - 1
      BY <1>3, <2>1, <2>4
    <3>2. View(l, k, x) = l[i - 1].val /\ l[i - 1] = s[i]
      BY <1>1, <2>2, <2>4, <3>1, ViewIsYoungest
    <3>3. QED
      BY <1>1, <2>2, <3>2 DEF l, k
  <2>5. QED
    BY <2>3, <2>4
<1>6. QED
  BY <1>4, <1>5

-----------------------------------------------------------------------------
(* What the owner sees has the right kind: a number or the contents of a    *)
(* slot.                                                                    *)
LEMMA Kinds ==
  ASSUME TypeOK, StoresAreRecords
  PROVE  /\ View(stores, mem, Bottom) \in Nat /\ Last \in Nat
         /\ \A i \in 0 .. capacity - 1 : View(stores, mem, i) \in Content
         /\ DOMAIN stores = 1 .. Len(stores) /\ Len(stores) \in Nat
         /\ DOMAIN mem = Where
<1>0. Bottom \notin 0 .. capacity - 1
  <2>1. capacity \in Nat
    BY DEF TypeOK
  <2>2. QED
    BY <2>1 DEF Bottom
<1>1. DOMAIN stores = 1 .. Len(stores) /\ Len(stores) \in Nat
  BY DEF StoresAreRecords
<1>2. ASSUME NEW x
      PROVE  \/ View(stores, mem, x) = mem[x]
             \/ \E i \in DOMAIN stores :
                  stores[i].at = x /\ View(stores, mem, x) = stores[i].val
  <2>1. stores \in Seq([at : Where, val : Content \cup Nat])
    BY DEF StoresAreRecords
  <2>2. CASE Pending(stores, x) = {}
    BY <2>1, <2>2, ViewIsYoungest
  <2>3. CASE Pending(stores, x) # {}
    <3>1. PICK i \in Pending(stores, x) : \A j \in Pending(stores, x) : j <= i
      BY <2>1, <2>3, ViewIsYoungest
    <3>2. View(stores, mem, x) = stores[i].val
      BY <2>1, <3>1, ViewIsYoungest
    <3>3. QED
      BY <3>2 DEF Pending
  <2>4. QED
    BY <2>2, <2>3
<1>3. View(stores, mem, Bottom) \in Nat
  <2>1. \A i \in DOMAIN stores : stores[i].at = Bottom => stores[i].val \in Nat
    BY <1>0 DEF TypeOK
  <2>2. mem[Bottom] \in Nat
    BY DEF TypeOK, bottom
  <2>3. QED
    BY <1>2, <2>1, <2>2
<1>4. ASSUME NEW y \in 0 .. capacity - 1 PROVE View(stores, mem, y) \in Content
  <2>1. y # Bottom
    BY <1>0
  <2>2. \A i \in DOMAIN stores : stores[i].at = y => stores[i].val \in Content
    BY <2>1 DEF TypeOK
  <2>3. mem[y] \in Content
    BY DEF TypeOK
  <2>4. QED
    BY <1>2, <2>2, <2>3
<1>5. Last \in Nat
  BY <1>3 DEF Last, TypeOK
<1>6. QED
  BY <1>1, <1>3, <1>4, <1>5 DEF TypeOK, Where

(* The owner stores v at x.                                                 *)
LEMMA StoreStep ==
  ASSUME TypeOK, StoresAreRecords, NEW x \in Where, NEW v \in Content \cup Nat,
         Store(x, v), mem' = mem
  PROVE  /\ \A y : View(stores', mem', y) = IF x = y THEN v ELSE View(stores, mem, y)
         /\ stores' \in Seq([at : Where, val : Content \cup Nat])
         /\ DOMAIN stores' = 1 .. Len(stores) + 1
         /\ \A i \in DOMAIN stores : stores'[i] = stores[i]
         /\ stores'[Len(stores) + 1] = [at |-> x, val |-> v]
         /\ \A i \in DOMAIN stores' : i \in DOMAIN stores \/ i = Len(stores) + 1
<1> DEFINE e == [at |-> x, val |-> v]
           R == [at : Where, val : Content \cup Nat]
<1>1. stores \in Seq(R) /\ e \in R /\ stores' = Append(stores, e)
  BY DEF StoresAreRecords, Store
<1>2. e.at = x /\ e.val = v
  OBVIOUS
<1> HIDE DEF e, R
<1>3. \A y : View(stores', mem', y) = IF e.at = y THEN e.val ELSE View(stores, mem, y)
  BY <1>1, ViewOfAppend
<1>4. /\ stores' \in Seq(R) /\ DOMAIN stores' = 1 .. Len(stores) + 1
      /\ \A i \in DOMAIN stores : stores'[i] = stores[i]
      /\ stores'[Len(stores) + 1] = e
  BY <1>1
<1>5. \A i \in DOMAIN stores' : i \in DOMAIN stores \/ i = Len(stores) + 1
  BY <1>1, <1>4
<1>6. QED
  BY <1>2, <1>3, <1>4, <1>5 DEF e, R

(* The oldest store goes to memory: the owner sees what it saw.             *)
LEMMA DrainStep ==
  ASSUME TypeOK, StoresAreRecords, Drain
  PROVE  /\ \A y \in Where : View(stores', mem', y) = View(stores, mem, y)
         /\ stores' \in Seq([at : Where, val : Content \cup Nat])
         /\ DOMAIN stores' = 1 .. Len(stores) - 1
         /\ \A i \in DOMAIN stores' : i + 1 \in DOMAIN stores /\ stores'[i] = stores[i + 1]
         /\ 1 \in DOMAIN stores /\ stores[1].at \in Where
         /\ DOMAIN mem' = Where
         /\ \A y \in Where : mem'[y] = IF y = stores[1].at THEN stores[1].val ELSE mem[y]
<1> DEFINE R == [at : Where, val : Content \cup Nat]
<1>1. stores \in Seq(R) /\ stores # <<>> /\ DOMAIN mem = Where
  BY Kinds DEF StoresAreRecords, Drain
<1>2. /\ stores' = Tail(stores) /\ Head(stores) = stores[1]
      /\ mem' = [mem EXCEPT ![Head(stores).at] = Head(stores).val]
  BY <1>1 DEF Drain
<1> HIDE DEF R
<1>3. stores[1] \in R /\ 1 \in DOMAIN stores
  <2>1. Len(stores) \in Nat /\ Len(stores) > 0
    BY <1>1
  <2>2. QED
    BY <1>1, <2>1
<1>4. stores[1].at \in Where
  BY <1>3 DEF R
<1>5. \A y \in Where : View(stores', mem', y) = View(stores, mem, y)
  BY <1>1, <1>2, ViewOfDrain
<1>6. /\ stores' \in Seq(R) /\ DOMAIN stores' = 1 .. Len(stores) - 1
      /\ \A i \in DOMAIN stores' : i + 1 \in DOMAIN stores /\ stores'[i] = stores[i + 1]
  BY <1>1, <1>2
<1>7. QED
  BY <1>1, <1>2, <1>3, <1>4, <1>5, <1>6 DEF R

-----------------------------------------------------------------------------
StoresTyped ==
  \A i \in DOMAIN stores :
    \/ stores[i].at = Bottom /\ stores[i].val \in Nat
    \/ stores[i].at \in 0 .. capacity - 1 /\ stores[i].val \in Content

(* A store of the right kind keeps the buffer's.                            *)
LEMMA StoreKeepsTypes ==
  ASSUME TypeOK, StoresAreRecords, NEW x \in Where, NEW v \in Content \cup Nat,
         Store(x, v), mem' = mem, capacity' = capacity,
         x = Bottom => v \in Nat, x # Bottom => v \in Content
  PROVE  StoresTyped' /\ StoresAreRecords'
<1>1. x = Bottom \/ x \in 0 .. capacity - 1
  BY DEF Where
<1>2. /\ stores' \in Seq([at : Where, val : Content \cup Nat])
      /\ \A i \in DOMAIN stores : stores'[i] = stores[i]
      /\ stores'[Len(stores) + 1] = [at |-> x, val |-> v]
      /\ \A i \in DOMAIN stores' : i \in DOMAIN stores \/ i = Len(stores) + 1
  BY StoreStep
<1>3. StoresTyped
  BY DEF TypeOK, StoresTyped
<1>4. StoresTyped'
  BY <1>1, <1>2, <1>3 DEF StoresTyped
<1>5. QED
  BY <1>2, <1>4 DEF StoresAreRecords, Where

(* Slots are where the owner and the thieves look for items.                *)
LEMMA SlotIsPlace ==
  ASSUME TypeOK, NEW i \in Nat
  PROVE  /\ Slot(i) = Place(i, capacity)
         /\ capacity # 0 => Slot(i) \in 0 .. capacity - 1 /\ Slot(i) \in Where /\ Slot(i) # Bottom
<1>1. capacity \in Nat
  BY DEF TypeOK
<1>2. Slot(i) = Place(i, capacity)
  BY DEF Slot, Place
<1>3. QED
  BY <1>1, <1>2, PlaceIsASlot DEF Where

(* Types are kept.                                                          *)
LEMMA StepKeepsTypes ==
  ASSUME CoreInv, [Next]_vars
  PROVE  TypeOK' /\ StoresAreRecords'
<1>1. TypeOK /\ StoresAreRecords /\ NothingBeforeInit /\ OwnerKnowsBottom
  BY DEF CoreInv
<1>2. /\ capacity \in Nat /\ top \in Nat /\ b \in Nat /\ t \in Nat /\ val \in Content
      /\ pushed \in 0 .. MaxPush /\ popped \in [Content -> Nat] /\ stolen \in [Content -> Nat]
      /\ sPc \in [Thief -> {"idle", "empty", "reload", "read", "race"}]
      /\ st \in [Thief -> Nat] /\ sVal \in [Thief -> Content]
      /\ bottom \in Nat /\ DOMAIN mem = Where /\ StoresTyped
      /\ \A i \in 0 .. capacity - 1 : mem[i] \in Content
  BY <1>1 DEF TypeOK, StoresTyped, Where
<1>3. /\ View(stores, mem, Bottom) \in Nat
      /\ \A i \in 0 .. capacity - 1 : View(stores, mem, i) \in Content
      /\ Bottom \notin 0 .. capacity - 1
  BY <1>1, <1>2, Kinds DEF Bottom
<1>0. /\ oPc \in Pushing => pushed < MaxPush /\ capacity # 0
      /\ oPc \in {"pop_reserve"} \cup Reserving => b >= 1 /\ capacity # 0
      /\ oPc = "pop_fence" => oPc \in Reserving
      /\ oPc = "pop_restore" => capacity # 0
  BY <1>1 DEF OwnerKnowsBottom, NothingBeforeInit, Pushing, Reserving
<1>4. \A x : Owner(x) = View(stores, mem, x)
  BY DEF Owner, View, Pending
<1>5. Bottom \in Where /\ Torn \in Content /\ \A i \in Item : i \in Content
  BY DEF Content, Where
<1>6. ASSUME NEW c \in InitArgs, InitCall(c) PROVE TypeOK' /\ StoresAreRecords'
  <2>1. c \in Nat /\ capacity = 0 /\ stores = <<>> /\ capacity' = c
    BY <1>1, <1>6, InitArgsAssumption DEF InitCall, Accepts, NothingBeforeInit
  <2>2. /\ DOMAIN mem' = {Bottom} \cup 0 .. c - 1 /\ mem'[Bottom] = bottom
        /\ \A i \in 0 .. c - 1 : mem'[i] \in Content
    BY <1>6, <2>1 DEF InitCall, Content, Bottom
  <2>3. /\ stores' = <<>> /\ DOMAIN stores' = {} /\ stores' \in Seq([at : Where', val : Content \cup Nat])
        /\ UNCHANGED <<top, oPc, b, t, val, sPc, st, sVal, pushed, popped, stolen>>
    BY <1>6, <2>1 DEF InitCall, ownerVars, thiefVars
  <2>4. TypeOK'
    BY <1>1, <2>1, <2>2, <2>3, <1>2 DEF TypeOK, bottom
  <2>5. QED
    BY <2>3, <2>4 DEF StoresAreRecords
<1>7. CASE Drain
  <2>1. /\ stores' \in Seq([at : Where, val : Content \cup Nat])
        /\ \A i \in DOMAIN stores' : i + 1 \in DOMAIN stores /\ stores'[i] = stores[i + 1]
        /\ 1 \in DOMAIN stores /\ DOMAIN mem' = Where
        /\ \A y \in Where : mem'[y] = IF y = stores[1].at THEN stores[1].val ELSE mem[y]
    BY <1>1, <1>7, DrainStep
  <2>2. StoresTyped' /\ capacity' = capacity /\ Where' = Where
    BY <1>2, <1>7, <2>1 DEF Drain, StoresTyped, Where
  <2>3. mem'[Bottom] \in Nat /\ \A i \in 0 .. capacity - 1 : mem'[i] \in Content
    <3>1. /\ Bottom \in Where /\ mem[Bottom] \in Nat
          /\ \A i \in 0 .. capacity - 1 : i \in Where /\ i # Bottom /\ mem[i] \in Content
      BY <1>2, <1>3 DEF Where, bottom, Bottom
    <3>2. \/ stores[1].at = Bottom /\ stores[1].val \in Nat
          \/ stores[1].at # Bottom /\ stores[1].val \in Content
      BY <1>2, <1>3, <2>1 DEF StoresTyped, Bottom
    <3>3. QED
      BY <2>1, <3>1, <3>2
  <2>4. TypeOK'
    BY <1>1, <1>7, <2>1, <2>2, <2>3 DEF Drain, TypeOK, StoresTyped, Where, bottom, ownerVars, thiefVars
  <2>5. QED
    BY <2>1, <2>2, <2>4 DEF StoresAreRecords
<1>8. CASE PushBegin \/ PushCheck \/ PopBegin \/ PopCheck \/ PopFence \/ PopReload
  BY <1>1, <1>2, <1>3, <1>4, <1>8 DEF PushBegin, PushCheck, PopBegin, PopCheck, PopFence,
     PopReload, TypeOK, StoresAreRecords, Where, bottom, thiefVars
<1>9. CASE PushWriteBegins
  <2>1. Slot(b) \in Where /\ Slot(b) # Bottom
    BY <1>1, <1>2, <1>9, SlotIsPlace DEF PushWriteBegins, NothingBeforeInit
  <2>2. StoresTyped' /\ StoresAreRecords'
    BY <1>1, <1>5, <1>9, <2>1, StoreKeepsTypes DEF PushWriteBegins
  <2>3. QED
    BY <1>1, <1>9, <2>2 DEF PushWriteBegins, TypeOK, StoresTyped, Where, bottom, thiefVars
<1>10. CASE PushWriteEnds
  <2>1. Slot(b) \in Where /\ Slot(b) # Bottom /\ pushed + 1 \in Content
    <3>1. pushed < MaxPush /\ capacity # 0
      BY <1>0, <1>10 DEF PushWriteEnds, Pushing
    <3>2. pushed + 1 \in Item
      BY <1>2, <3>1, MaxPushAssumption DEF Item
    <3>3. QED
      BY <1>1, <1>2, <1>5, <3>1, <3>2, SlotIsPlace
  <2>2. StoresTyped' /\ StoresAreRecords'
    BY <1>1, <1>5, <1>10, <2>1, StoreKeepsTypes DEF PushWriteEnds
  <2>3. QED
    BY <1>1, <1>10, <2>2 DEF PushWriteEnds, TypeOK, StoresTyped, Where, bottom, thiefVars
<1>11. CASE PushPublish
  <2>1. b + 1 \in Nat /\ pushed + 1 \in 0 .. MaxPush
    <3>1. pushed < MaxPush
      BY <1>0, <1>11 DEF PushPublish, Pushing
    <3>2. QED
      BY <1>2, <3>1, MaxPushAssumption
  <2>2. StoresTyped' /\ StoresAreRecords'
    <3> DEFINE x == Bottom
               v == b + 1
    <3>1. Store(x, v) /\ mem' = mem /\ capacity' = capacity
      BY <1>11 DEF PushPublish
    <3>2. x = Bottom /\ x \in Where /\ v \in Nat
      BY <1>5,  <2>1
    <3> HIDE DEF x, v
    <3>3. QED
      BY <1>1, <3>1, <3>2, StoreKeepsTypes
  <2>3. QED
    BY <1>1, <1>11, <2>1, <2>2 DEF PushPublish, TypeOK, StoresTyped, Where, bottom, thiefVars
<1>12. CASE PopReserve
  <2>1. b - 1 \in Nat
    <3>1. oPc = "pop_reserve"
      BY <1>12 DEF PopReserve
    <3>2. b >= 1
      BY <1>0, <3>1
    <3>3. QED
      BY <1>2, <3>2
  <2>2. StoresTyped' /\ StoresAreRecords'
    <3> DEFINE x == Bottom
               v == b - 1
    <3>1. Store(x, v) /\ mem' = mem /\ capacity' = capacity
      BY <1>12 DEF PopReserve
    <3>2. x = Bottom /\ x \in Where /\ v \in Nat
      BY <1>5,  <2>1
    <3> HIDE DEF x, v
    <3>3. QED
      BY <1>1, <3>1, <3>2, StoreKeepsTypes
  <2>3. QED
    BY <1>1, <1>12, <2>2 DEF PopReserve, TypeOK, StoresTyped, Where, bottom, thiefVars
<1>13. CASE PopRead
  <2>1. Slot(b - 1) \in 0 .. capacity - 1
    <3>1. b >= 1 /\ capacity # 0
      BY <1>0, <1>13 DEF PopRead, Reserving
    <3>2. b - 1 \in Nat
      BY <1>2, <3>1
    <3>3. QED
      BY <1>1, <3>1, <3>2, SlotIsPlace
  <2>2. val' \in Content /\ popped' \in [Content -> Nat]
    <3> DEFINE v == Owner(Slot(b - 1))
    <3>1. v \in Content
      BY <1>3, <1>4, <2>1
    <3>2. val' = v /\ (popped' = popped \/ popped' = [popped EXCEPT ![v] = @ + 1])
      BY <1>13 DEF PopRead
    <3> HIDE DEF v
    <3>3. QED
      BY <1>2, <3>1, <3>2
  <2>3. QED
    BY <1>1, <1>13, <2>2 DEF PopRead, TypeOK, StoresAreRecords, Where, bottom, thiefVars
<1>14. CASE PopRace
  <2>1. top' \in Nat /\ popped' \in [Content -> Nat]
    <3>1. CASE top = t
      <4>1. top' = t + 1 /\ popped' = [popped EXCEPT ![val] = @ + 1]
        BY <1>14, <3>1 DEF PopRace
      <4>2. QED
        BY <1>2, <4>1
    <3>2. CASE top # t
      BY <1>2, <1>14, <3>2 DEF PopRace
    <3>3. QED
      BY <3>1, <3>2
  <2>2. QED
    BY <1>1, <1>14, <2>1 DEF PopRace, TypeOK, StoresAreRecords, Where, bottom, thiefVars
<1>15. CASE PopRestore
  <2>1. StoresTyped' /\ StoresAreRecords'
    <3> DEFINE x == Bottom
               v == b
    <3>1. Store(x, v) /\ mem' = mem /\ capacity' = capacity
      BY <1>15 DEF PopRestore, Restore
    <3>2. x = Bottom /\ x \in Where /\ v \in Nat
      BY <1>5,  <1>2
    <3> HIDE DEF x, v
    <3>3. QED
      BY <1>1, <3>1, <3>2, StoreKeepsTypes
  <2>2. QED
    BY <1>1, <1>15, <2>1 DEF PopRestore, Restore, TypeOK, StoresTyped, Where, bottom, thiefVars
<1>16. ASSUME NEW s \in Thief, StealBegin(s) \/ StealCheck(s) \/ StealReload(s)
       PROVE  TypeOK' /\ StoresAreRecords'
  BY <1>1, <1>2, <1>16 DEF StealBegin, StealCheck, StealReload, TypeOK, StoresAreRecords,
     Where, bottom, ownerVars
<1>17. ASSUME NEW s \in Thief, StealRead(s) PROVE TypeOK' /\ StoresAreRecords'
  <2>1. Slot(st[s]) \in 0 .. capacity - 1
    BY <1>1, <1>2, <1>17, SlotIsPlace DEF StealRead, NothingBeforeInit
  <2>2. QED
    BY <1>1, <1>2, <1>17, <2>1 DEF StealRead, TypeOK, StoresAreRecords, Where, bottom, ownerVars
<1>18. ASSUME NEW s \in Thief, StealRace(s) PROVE TypeOK' /\ StoresAreRecords'
  <2>1. /\ top' \in Nat /\ stolen' \in [Content -> Nat] /\ st' \in [Thief -> Nat]
        /\ sPc' \in [Thief -> {"idle", "empty", "reload", "read", "race"}]
    BY <1>2, <1>18 DEF StealRace
  <2>2. QED
    BY <1>1, <1>18, <2>1 DEF StealRace, TypeOK, StoresAreRecords, Where, bottom, ownerVars
<1>19. CASE UNCHANGED vars
  BY <1>1, <1>19 DEF vars, ownerVars, thiefVars, TypeOK, StoresAreRecords, Where, bottom
<1>20. QED
  BY <1>6, <1>7, <1>8, <1>9, <1>10, <1>11, <1>12, <1>13, <1>14, <1>15, <1>16, <1>17, <1>18,
     <1>19 DEF Next, OwnerStep, ThiefStep

(* What the invariant says of the numbers a step computes with.             *)
LEMMA CoreFacts ==
  ASSUME CoreInv
  PROVE  /\ capacity \in Nat /\ top \in Nat /\ b \in Nat /\ t \in Nat /\ bottom \in Nat
         /\ st \in [Thief -> Nat] /\ pushed \in 0 .. MaxPush /\ MaxPush \in Nat
         /\ sPc \in [Thief -> {"idle", "empty", "reload", "read", "race"}]
         /\ sVal \in [Thief -> Content]
         /\ View(stores, mem, Bottom) \in Nat /\ Last \in Nat
         /\ DOMAIN stores = 1 .. Len(stores) /\ Len(stores) \in Nat
         /\ \A x : Owner(x) = View(stores, mem, x)
         /\ stores = <<>> => \A x : View(stores, mem, x) = mem[x]
         /\ oPc \notin Reserving => Last = View(stores, mem, Bottom)
         /\ oPc \in Reserving => Last = b
         /\ Torn \in Content /\ Bottom \in Where
<1>1. TypeOK /\ StoresAreRecords
  BY DEF CoreInv
<1>2. \A x : Owner(x) = View(stores, mem, x)
  BY DEF Owner, View, Pending
<1>3. stores = <<>> => \A x : View(stores, mem, x) = mem[x]
  BY DEF View, Pending
<1>4. QED
  BY <1>1, <1>2, <1>3, Kinds, MaxPushAssumption DEF TypeOK, Last, Content, Where

(* The slot of a position is not the place of _bottom, nor that of another  *)
(* position in use.                                                         *)
LEMMA CorePlaces ==
  ASSUME CoreInv, capacity # 0
  PROVE  /\ \A i \in Nat : /\ Slot(i) = Place(i, capacity) /\ Place(i, capacity) # Bottom
                           /\ Place(i, capacity) \in Where
         /\ \A i, j \in Nat : i < j /\ j < i + capacity => Place(i, capacity) # Place(j, capacity)
<1>1. TypeOK /\ capacity \in Nat /\ capacity > 0
  BY CoreFacts DEF CoreInv
<1>2. QED
  BY <1>1, SlotIsPlace, PlacesDiffer

(* What the owner knows at each place, whatever the fence does.             *)
LEMMA CoreOwner ==
  ASSUME CoreInv
  PROVE  /\ oPc = "push_full" => View(stores, mem, Bottom) = b /\ pushed < MaxPush
         /\ oPc \in {"push_write", "push_written", "push_publish"} =>
              /\ View(stores, mem, Bottom) = b /\ Last = b /\ b < top + capacity
              /\ pushed < MaxPush /\ pushed + 1 \in Item /\ pushed + 1 \in Content
         /\ oPc = "pop_empty" => View(stores, mem, Bottom) = b
         /\ oPc = "pop_reserve" => View(stores, mem, Bottom) = b /\ Last = b
         /\ oPc \in {"pop_fence", "pop_reload", "pop_read", "pop_race", "pop_restore"} =>
              View(stores, mem, Bottom) = b - 1 /\ Last = b
         /\ oPc \in {"pop_reserve", "pop_fence", "pop_reload", "pop_read", "pop_race",
                     "pop_restore"} => b >= 1 /\ b - 1 \in Nat
         /\ oPc \in {"pop_read", "pop_race"} => t <= top /\ t <= b - 1
         /\ oPc = "pop_race" =>
              t = b - 1 /\ val = View(stores, mem, Place(b - 1, capacity))
         /\ oPc = "pop_restore" => b <= top
         /\ oPc \notin {"idle", "push_full", "pop_empty"} => capacity # 0
<1>1. OwnerKnowsBottom /\ NothingBeforeInit
  BY DEF CoreInv
<1>2. /\ top \in Nat /\ b \in Nat /\ pushed \in 0 .. MaxPush /\ MaxPush \in Nat
      /\ oPc \notin Reserving => Last = View(stores, mem, Bottom)
      /\ oPc \in Reserving => Last = b
  BY CoreFacts
<1>3. oPc \in {"push_write", "push_written", "push_publish"} =>
        /\ View(stores, mem, Bottom) = b /\ Last = b /\ b < top + capacity
        /\ pushed < MaxPush
  BY <1>1, <1>2 DEF OwnerKnowsBottom, Pushing, Reserving
<1>4. pushed < MaxPush => pushed + 1 \in Item /\ pushed + 1 \in Content
  BY <1>2 DEF Item, Content
<1>5. oPc = "pop_reserve" => View(stores, mem, Bottom) = b /\ Last = b
  BY <1>1, <1>2 DEF OwnerKnowsBottom, Reserving
<1>6. oPc \in Reserving => View(stores, mem, Bottom) = b - 1 /\ Last = b
  BY <1>1, <1>2 DEF OwnerKnowsBottom
<1>7. oPc \in {"pop_reserve"} \cup Reserving => b >= 1 /\ b - 1 \in Nat
  BY <1>1, <1>2 DEF OwnerKnowsBottom, Reserving
<1>8. QED
  BY <1>1, <1>2, <1>3, <1>4, <1>5, <1>6, <1>7
  DEF OwnerKnowsBottom, Pushing, Reserving, At, NothingBeforeInit

(* The same while nothing has overtaken, and what the ring adds to it.      *)
LEMMA RingFacts ==
  ASSUME RingInv
  PROVE  /\ capacity \in Nat /\ top \in Nat /\ b \in Nat /\ t \in Nat /\ bottom \in Nat
         /\ st \in [Thief -> Nat] /\ pushed \in 0 .. MaxPush /\ MaxPush \in Nat
         /\ sPc \in [Thief -> {"idle", "empty", "reload", "read", "race"}]
         /\ sVal \in [Thief -> Content]
         /\ View(stores, mem, Bottom) \in Nat /\ Last \in Nat
         /\ DOMAIN stores = 1 .. Len(stores) /\ Len(stores) \in Nat
         /\ \A x : Owner(x) = View(stores, mem, x)
         /\ stores = <<>> => \A x : View(stores, mem, x) = mem[x]
         /\ oPc \notin Reserving => Last = View(stores, mem, Bottom)
         /\ oPc \in Reserving => Last = b
         /\ Torn \in Content /\ Bottom \in Where
BY CoreFacts DEF RingInv

(* The places are those of any state.                                       *)
LEMMA PlaceFacts ==
  ASSUME RingInv, capacity # 0
  PROVE  /\ \A i \in Nat : /\ Slot(i) = Place(i, capacity) /\ Place(i, capacity) # Bottom
                           /\ Place(i, capacity) \in Where
         /\ \A i, j \in Nat : i < j /\ j < i + capacity => Place(i, capacity) # Place(j, capacity)
BY CorePlaces DEF RingInv

(* What the owner knows at each place as long as nothing has overtaken.     *)
LEMMA OwnerFacts ==
  ASSUME RingInv
  PROVE  /\ oPc = "push_full" => View(stores, mem, Bottom) = b /\ pushed < MaxPush
         /\ oPc \in {"push_write", "push_written", "push_publish"} =>
              /\ View(stores, mem, Bottom) = b /\ Last = b /\ top <= b /\ b < top + capacity
              /\ pushed < MaxPush /\ pushed + 1 \in Item /\ pushed + 1 \in Content
         /\ oPc = "pop_empty" => View(stores, mem, Bottom) = b
         /\ oPc = "pop_reserve" => View(stores, mem, Bottom) = b /\ Last = b
         /\ oPc \in {"pop_fence", "pop_reload", "pop_read", "pop_race", "pop_restore"} =>
              View(stores, mem, Bottom) = b - 1 /\ Last = b
         /\ oPc \in {"pop_reserve", "pop_fence", "pop_reload", "pop_read", "pop_race",
                     "pop_restore"} =>
              b >= 1 /\ b - 1 \in Nat /\ top <= b /\ b <= top + capacity
         /\ oPc \in {"pop_read", "pop_race", "pop_restore"} =>
              stores = <<>> /\ bottom = b - 1
         /\ oPc \in {"pop_read", "pop_race"} => t <= top /\ t <= b - 1
         /\ oPc = "pop_race" =>
              t = b - 1 /\ val = View(stores, mem, Place(b - 1, capacity))
         /\ oPc = "pop_restore" => top = b
         /\ oPc \notin {"idle", "push_full", "pop_empty"} => capacity # 0
<1>1. CoreInv /\ StoredBeforeRead /\ WithinRing
  BY DEF RingInv
<1>2. /\ top \in Nat /\ b \in Nat
      /\ stores = <<>> => bottom = View(stores, mem, Bottom)
  BY RingFacts DEF bottom
<1>3. oPc \in {"push_write", "push_written", "push_publish"} => top <= b
  BY <1>1, CoreOwner DEF WithinRing
<1>4. oPc \in {"pop_reserve", "pop_fence", "pop_reload", "pop_read", "pop_race",
               "pop_restore"} => top <= b /\ b <= top + capacity
  BY <1>1, CoreOwner DEF WithinRing
<1>5. oPc \in {"pop_read", "pop_race", "pop_restore"} => stores = <<>> /\ bottom = b - 1
  BY <1>1, <1>2, CoreOwner DEF StoredBeforeRead, Drained
<1>6. oPc = "pop_restore" => top = b
  BY <1>1, <1>2, CoreOwner DEF StoredBeforeRead
<1>7. QED
  BY <1>1, <1>3, <1>4, <1>5, <1>6, CoreOwner

(* Before init() calls return at their first test.                          *)
LEMMA StepKeepsNothing ==
  ASSUME CoreInv, [Next]_vars
  PROVE  NothingBeforeInit'
<1>1. SUFFICES ASSUME capacity' = 0 PROVE NothingBeforeInit'
  BY DEF NothingBeforeInit
<1>2. CASE \E c \in InitArgs : InitCall(c)
  BY <1>1, <1>2 DEF InitCall, Accepts
<1>3. CASE ~ \E c \in InitArgs : InitCall(c)
  <2>1. capacity = 0
    BY <1>1, <1>3 DEF Next, OwnerStep, ThiefStep, vars, PushBegin, PushCheck, PushWriteBegins,
       PushWriteEnds, PushPublish, PopBegin, PopCheck, PopReserve, PopFence, PopReload, PopRead,
       PopRace, PopRestore, StealBegin, StealCheck, StealReload, StealRead, StealRace, Drain
  <2>2. /\ top = 1 /\ stores = <<>> /\ bottom = 1 /\ oPc \in {"idle", "push_full", "pop_empty"}
        /\ oPc # "idle" => b = 1
        /\ \A s \in Thief : sPc[s] \in {"idle", "empty"} /\ st[s] = 1
    BY <2>1 DEF CoreInv, NothingBeforeInit
  <2>3. Owner(Bottom) = 1
    BY <2>2, CoreFacts DEF bottom
  <2>4. CASE PushBegin \/ PushCheck \/ PopBegin \/ PopCheck
    <3>1. UNCHANGED <<capacity, top, mem, stores, sPc, st>>
      BY <2>4 DEF PushBegin, PushCheck, PopBegin, PopCheck, thiefVars
    <3>2. oPc' \in {"idle", "push_full", "pop_empty"} /\ (oPc' # "idle" => b' = 1)
      BY <2>1, <2>2, <2>3, <2>4 DEF PushBegin, PushCheck, Full, PopBegin, PopCheck
    <3>3. QED
      BY <2>2, <3>1, <3>2 DEF NothingBeforeInit, bottom
  <2>5. ASSUME NEW s \in Thief, StealBegin(s) \/ StealCheck(s) PROVE NothingBeforeInit'
    <3>1. UNCHANGED <<capacity, top, mem, stores, oPc, b>>
      BY <2>5 DEF StealBegin, StealCheck, ownerVars
    <3>2. \A r \in Thief : sPc'[r] \in {"idle", "empty"} /\ st'[r] = 1
      BY <2>2, <2>5, CoreFacts DEF StealBegin, StealCheck
    <3>3. QED
      BY <2>2, <3>1, <3>2 DEF NothingBeforeInit, bottom
  <2>6. CASE UNCHANGED vars
    BY <2>1, <2>2, <2>6 DEF vars, NothingBeforeInit, bottom, ownerVars, thiefVars
  <2>7. QED
    BY <1>3, <2>2, <2>4, <2>5, <2>6 DEF Next, OwnerStep, ThiefStep, PushWriteBegins,
       PushWriteEnds, PushPublish, PopReserve, PopFence, PopReload, PopRead,
       PopRace, PopRestore, Restore, StealReload, StealRead, StealRace, Drain
<1>4. QED
  BY <1>2, <1>3

(* The owner's locals stay in step with what it has stored.                 *)
LEMMA StepKeepsOwner ==
  ASSUME CoreInv, [Next]_vars
  PROVE  OwnerKnowsBottom'
<1>1. OwnerKnowsBottom /\ NothingBeforeInit /\ TypeOK /\ StoresAreRecords
  BY DEF CoreInv
<1>2. /\ top \in Nat /\ b \in Nat /\ t \in Nat /\ capacity \in Nat
      /\ Bottom \in Where /\ Torn \in Content
  BY CoreFacts
<1>3. ASSUME NEW s \in Thief, StealBegin(s) \/ StealCheck(s) \/ StealReload(s) \/ StealRead(s)
      PROVE  OwnerKnowsBottom'
  BY <1>1, <1>3 DEF StealBegin, StealCheck, StealReload, StealRead, OwnerKnowsBottom, ownerVars, At
<1>4. ASSUME NEW s \in Thief, StealRace(s) PROVE OwnerKnowsBottom'
  <2>1. /\ UNCHANGED <<capacity, mem, stores, oPc, b, t, val, pushed>>
        /\ top' = top \/ top' = top + 1
    BY <1>4 DEF StealRace, ownerVars
  <2>2. top <= top' /\ (b < top + capacity => b < top' + capacity)
    BY <1>2, <2>1
  <2>3. oPc = "pop_restore" => b <= top'
    BY <1>2, <2>1, CoreOwner
  <2>4. oPc \in Pushing => b < top' + capacity
    BY <2>2, CoreOwner DEF Pushing
  <2>5. oPc \in {"pop_read", "pop_race"} => t <= top'
    BY <1>2, <2>1, CoreOwner
  <2>6. QED
    BY <1>1, <2>1, <2>3, <2>4, <2>5 DEF OwnerKnowsBottom, At
<1>5. CASE Drain
  <2>1. /\ \A y \in Where : View(stores', mem', y) = View(stores, mem, y)
        /\ UNCHANGED <<capacity, top, oPc, b, t, val, pushed>>
    BY <1>1, <1>5, DrainStep DEF Drain, ownerVars
  <2>2. oPc = "pop_race" => Place(b - 1, capacity) \in Where
    BY CoreOwner, CorePlaces
  <2>3. QED
    BY <1>1, <1>2, <2>1, <2>2 DEF OwnerKnowsBottom, At
<1>6. ASSUME NEW c \in InitArgs, InitCall(c) PROVE OwnerKnowsBottom'
  BY <1>6 DEF InitCall, OwnerKnowsBottom, ownerVars, Reserving, Pushing
<1>7. CASE PushBegin
  BY <1>7, CoreFacts DEF PushBegin, OwnerKnowsBottom, Reserving, Pushing
<1>8. CASE PushCheck
  BY <1>2, <1>8, CoreOwner DEF PushCheck, Full, OwnerKnowsBottom, Reserving, Pushing
<1>9. CASE PushWriteBegins \/ PushWriteEnds
  <2>1. /\ oPc \in {"push_write", "push_written"} /\ oPc' \in {"push_written", "push_publish"}
        /\ UNCHANGED <<capacity, top, mem, b, pushed>>
    BY <1>9 DEF PushWriteBegins, PushWriteEnds
  <2>2. capacity # 0 /\ b < top + capacity /\ pushed < MaxPush /\ View(stores, mem, Bottom) = b
        /\ pushed + 1 \in Content
    BY <2>1, CoreOwner
  <2>3. Slot(b) \in Where /\ Slot(b) # Bottom
    BY <1>2, <2>2, CorePlaces
  <2>4. View(stores', mem', Bottom) = View(stores, mem, Bottom)
    BY <1>1, <1>2, <1>9, <2>2, <2>3, StoreStep DEF PushWriteBegins, PushWriteEnds
  <2>5. QED
    BY <2>1, <2>2, <2>4 DEF OwnerKnowsBottom, Reserving, Pushing
<1>11. CASE PushPublish \/ PopRestore
  BY <1>11 DEF PushPublish, PopRestore, Restore, OwnerKnowsBottom, Reserving, Pushing
<1>12. CASE PopBegin
  BY <1>12, CoreFacts DEF PopBegin, OwnerKnowsBottom, Reserving, Pushing
<1>13. CASE PopCheck
  <2>1. oPc = "pop_empty" /\ oPc' \in {"idle", "pop_reserve"} /\ UNCHANGED <<b, mem, stores>>
    BY <1>13 DEF PopCheck
  <2>2. oPc' = "pop_reserve" => b >= 1
    BY <1>2, <1>13 DEF PopCheck
  <2>3. View(stores, mem, Bottom) = b
    BY <2>1, CoreOwner
  <2>4. QED
    BY <2>1, <2>2, <2>3 DEF OwnerKnowsBottom, Reserving, Pushing
<1>14. CASE PopReserve
  <2> DEFINE v == b - 1
  <2>1. oPc = "pop_reserve" /\ oPc' = "pop_fence" /\ Store(Bottom, v) /\ b' = b /\ mem' = mem
    BY <1>14 DEF PopReserve
  <2>2. v \in Nat /\ b >= 1
    BY <2>1, CoreOwner
  <2> HIDE DEF v
  <2>3. View(stores', mem', Bottom) = v
    BY <1>1, <1>2, <2>1, <2>2, StoreStep
  <2>4. View(stores', mem', Bottom) = b - 1
    BY <2>3 DEF v
  <2>5. QED
    BY <2>1, <2>2, <2>4 DEF OwnerKnowsBottom, Reserving, Pushing
<1>15. CASE PopFence
  <2>1. oPc = "pop_fence" /\ oPc' = "pop_reload" /\ UNCHANGED <<b, mem, stores>>
    BY <1>15 DEF PopFence
  <2>2. View(stores, mem, Bottom) = b - 1 /\ b >= 1
    BY <2>1, CoreOwner
  <2>3. QED
    BY <2>1, <2>2 DEF OwnerKnowsBottom, Reserving, Pushing
<1>16. CASE PopReload
  <2>1. /\ oPc = "pop_reload" /\ oPc' \in {"pop_restore", "pop_read"}
        /\ UNCHANGED <<b, top, mem, stores>> /\ t' = top
        /\ oPc' = "pop_restore" => top > b - 1
        /\ oPc' = "pop_read" => ~(top > b - 1)
    BY <1>16 DEF PopReload
  <2>2. View(stores, mem, Bottom) = b - 1 /\ b >= 1
    BY <2>1, CoreOwner
  <2>3. QED
    BY <1>2, <2>1, <2>2 DEF OwnerKnowsBottom, Reserving, Pushing
<1>17. CASE PopRead
  <2>1. /\ oPc = "pop_read" /\ oPc' \in {"pop_race", "idle"}
        /\ UNCHANGED <<capacity, b, t, top, mem, stores>> /\ val' = Owner(Slot(b - 1))
        /\ oPc' = "pop_race" => t = b - 1
    BY <1>17 DEF PopRead, LastItem
  <2>2. /\ View(stores, mem, Bottom) = b - 1 /\ b >= 1 /\ b - 1 \in Nat
        /\ t <= top /\ t <= b - 1 /\ capacity # 0
    BY <2>1, CoreOwner
  <2>3. Owner(Slot(b - 1)) = View(stores, mem, Place(b - 1, capacity))
    BY <2>2, CoreFacts, CorePlaces
  <2>4. QED
    BY <2>1, <2>2, <2>3 DEF OwnerKnowsBottom, Reserving, Pushing, At
<1>18. CASE PopRace
  <2>1. /\ oPc = "pop_race" /\ oPc' = "pop_restore" /\ UNCHANGED <<b, mem, stores>>
        /\ IF top = t THEN top' = t + 1 ELSE top' = top
    BY <1>18 DEF PopRace
  <2>2. t = b - 1 /\ t <= top /\ b >= 1 /\ View(stores, mem, Bottom) = b - 1
    BY <2>1, CoreOwner
  <2>3. b <= top'
    BY <1>2, <2>1, <2>2
  <2>4. QED
    BY <2>1, <2>2, <2>3 DEF OwnerKnowsBottom, Reserving, Pushing
<1>19. CASE UNCHANGED vars
  BY <1>1, <1>19 DEF vars, ownerVars, thiefVars, OwnerKnowsBottom, At
<1>20. QED
  BY <1>3, <1>4, <1>5, <1>6, <1>7, <1>8, <1>9, <1>11, <1>12, <1>13, <1>14, <1>15, <1>16,
     <1>17, <1>18, <1>19 DEF Next, OwnerStep, ThiefStep

(* The core starts with _top and _bottom at 1 and survives every step.      *)
LEMMA InitCore == Init => CoreInv
<1>1. SUFFICES ASSUME Init PROVE CoreInv
  OBVIOUS
<1>2. /\ capacity = 0 /\ top = 1 /\ mem = [at \in {Bottom} |-> 1] /\ stores = <<>> /\ oPc = "idle"
      /\ b = 1 /\ t = 1 /\ val = Junk /\ sPc = [s \in Thief |-> "idle"]
      /\ st = [s \in Thief |-> 1] /\ sVal = [s \in Thief |-> Junk] /\ pushed = 0
      /\ popped = [i \in Content |-> 0] /\ stolen = [i \in Content |-> 0]
  BY <1>1 DEF Init
<1>3. bottom = 1 /\ DOMAIN stores = {} /\ 0 .. capacity - 1 = {} /\ Junk \in Content /\ Torn \in Content
  BY <1>2 DEF bottom, Content
<1>4. TypeOK
  BY <1>2, <1>3, MaxPushAssumption DEF TypeOK
<1>5. StoresAreRecords /\ NothingBeforeInit
  BY <1>2, <1>3 DEF StoresAreRecords, NothingBeforeInit
<1>6. OwnerKnowsBottom
  BY <1>2 DEF OwnerKnowsBottom, Reserving, Pushing
<1>7. QED
  BY <1>4, <1>5, <1>6 DEF CoreInv

LEMMA StepKeepsCore == CoreInv /\ [Next]_vars => CoreInv'
BY StepKeepsTypes, StepKeepsNothing, StepKeepsOwner DEF CoreInv

(* The indices, the slots and what waits for memory have their types, with  *)
(* any fence.                                                               *)
THEOREM TypeCorrect == Spec => []TypeOK
<1>1. CoreInv => TypeOK
  BY DEF CoreInv
<1>2. QED
  BY <1>1, InitCore, StepKeepsCore, PTL DEF Spec

-----------------------------------------------------------------------------
(* pop() reads _top when its stores are in memory.                          *)
LEMMA StepKeepsStored ==
  ASSUME RingInv, [Next]_vars, ~Overtakes
  PROVE  StoredBeforeRead'
<1>1. /\ CoreInv /\ StoredBeforeRead /\ WithinRing /\ Readers /\ TypeOK /\ StoresAreRecords
  BY DEF RingInv, CoreInv
<1>2. top \in Nat /\ b \in Nat
  BY RingFacts
<1>3. CASE PopReload
  <2>1. /\ oPc = "pop_reload" /\ stores = <<>> /\ UNCHANGED <<b, top, stores>>
    BY <1>3 DEF PopReload, Overtakes
  <2>2. QED
    BY <2>1, OwnerFacts DEF StoredBeforeRead
<1>4. CASE PopRead
  BY <1>1, <1>4 DEF PopRead, StoredBeforeRead, Drained
<1>5. CASE PopRace
  <2>1. /\ oPc = "pop_race" /\ UNCHANGED <<b, stores>>
        /\ IF top = t THEN top' = t + 1 ELSE top' = top
    BY <1>5 DEF PopRace
  <2>2. top <= b /\ t = b - 1 /\ stores = <<>>
    BY <2>1, OwnerFacts
  <2>3. top' <= b
    BY <1>2, <2>1, <2>2
  <2>4. QED
    BY <2>1, <2>2, <2>3 DEF StoredBeforeRead
<1>6. CASE Drain
  <2>1. stores # <<>> /\ oPc' = oPc
    BY <1>6 DEF Drain, ownerVars
  <2>2. QED
    BY <1>1, <2>1 DEF StoredBeforeRead, Drained
<1>7. ASSUME NEW s \in Thief, ThiefStep(s) PROVE StoredBeforeRead'
  <2>1. UNCHANGED <<oPc, b, stores>>
    BY <1>7 DEF ThiefStep, StealBegin, StealCheck, StealReload, StealRead, StealRace, ownerVars
  <2>2. top' = top \/ (top' = top + 1 /\ top < Last)
    BY <1>1, <1>7 DEF ThiefStep, StealBegin, StealCheck, StealReload, StealRead, StealRace,
       StillMine, Readers, Reader
  <2>3. oPc = "pop_restore" => top' <= b
    BY <1>2, <2>2, OwnerFacts
  <2>4. QED
    BY <1>1, <2>1, <2>3 DEF StoredBeforeRead
<1>8. CASE \E c \in InitArgs : InitCall(c)
  BY <1>8 DEF InitCall, ownerVars, StoredBeforeRead, Drained
<1>9. CASE PushBegin \/ PopBegin \/ (OwnerStep /\ ~PopReload /\ ~PopRead /\ ~PopRace)
  <2>1. oPc' \notin Drained
    BY <1>9 DEF OwnerStep, PushBegin, PushCheck, PushWriteBegins, PushWriteEnds, PushPublish,
       PopBegin, PopCheck, PopReserve, PopFence, PopRestore, Restore, Drained
  <2>2. QED
    BY <2>1 DEF StoredBeforeRead, Drained
<1>10. CASE UNCHANGED vars
  BY <1>1, <1>10 DEF vars, ownerVars, StoredBeforeRead
<1>11. QED
  BY <1>3, <1>4, <1>5, <1>6, <1>7, <1>8, <1>9, <1>10 DEF Next

(* The positions in use still fit.                                          *)
LEMMA StepKeepsWithinRing ==
  ASSUME RingInv, [Next]_vars
  PROVE  WithinRing'
<1>1. /\ TypeOK /\ StoresAreRecords /\ WithinRing /\ NothingBeforeInit /\ Readers /\ ReservedIsMine
  BY DEF RingInv, CoreInv
<1>2. /\ top \in Nat /\ b \in Nat /\ capacity \in Nat /\ Last \in Nat
      /\ Bottom \in Where /\ Torn \in Content
      /\ top <= Last /\ Last <= top + capacity
      /\ stores = <<>> => View(stores, mem, Bottom) = mem[Bottom]
      /\ oPc \notin Reserving => Last = View(stores, mem, Bottom)
  BY <1>1, RingFacts DEF WithinRing
<1>3. ASSUME top' = top, capacity' = capacity, Last' = Last PROVE WithinRing'
  BY <1>1, <1>3 DEF WithinRing
<1>4. ASSUME NEW s \in Thief, StealBegin(s) \/ StealCheck(s) \/ StealReload(s) \/ StealRead(s)
      PROVE  WithinRing'
  <2>1. UNCHANGED <<top, capacity, oPc, b, stores, mem>>
    BY <1>4 DEF StealBegin, StealCheck, StealReload, StealRead, ownerVars
  <2>2. QED
    BY <1>3, <2>1 DEF Last
<1>5. ASSUME NEW s \in Thief, StealRace(s) PROVE WithinRing'
  <2>1. UNCHANGED <<capacity, oPc, b, stores, mem>> /\ (top' = top \/ top' = top + 1)
    BY <1>5 DEF StealRace, ownerVars
  <2>2. Last' = Last
    BY <2>1 DEF Last
  <2>3. top' # top => top < Last
    BY <1>1, <1>5 DEF StealRace, StillMine, Readers, Reader
  <2>4. QED
    BY <1>2, <2>1, <2>2, <2>3 DEF WithinRing
<1>6. CASE Drain
  <2>1. UNCHANGED <<top, capacity, oPc, b>> /\ View(stores', mem', Bottom) = View(stores, mem, Bottom)
    BY <1>1, <1>2, <1>6, DrainStep DEF Drain, ownerVars
  <2>2. QED
    BY <1>3, <2>1 DEF Last
<1>7. ASSUME NEW c \in InitArgs, InitCall(c) PROVE WithinRing'
  <2>1. /\ capacity = 0 /\ capacity' = c /\ c \in Nat
        /\ UNCHANGED <<top, stores, oPc, b>> /\ oPc = "idle" /\ mem'[Bottom] = mem[Bottom]
    BY <1>7, InitArgsAssumption DEF InitCall, Accepts, ownerVars, bottom
  <2>2. stores = <<>>
    BY <1>1, <2>1 DEF NothingBeforeInit
  <2>3. View(stores', mem', Bottom) = View(stores, mem, Bottom)
    BY <2>1, <2>2 DEF View, Pending
  <2>4. Last' = Last
    BY <2>1, <2>3 DEF Last
  <2>5. QED
    BY <1>2, <2>1, <2>4 DEF WithinRing
<1>8. CASE PushBegin \/ PushCheck \/ PopBegin \/ PopCheck
  <2>1. /\ UNCHANGED <<top, capacity, stores, mem>>
        /\ oPc \notin Reserving /\ oPc' \notin Reserving
    BY <1>8 DEF PushBegin, PushCheck, PopBegin, PopCheck, Reserving
  <2>2. QED
    BY <1>3, <2>1 DEF Last
<1>9. CASE PopFence \/ PopReload \/ (PopRead /\ oPc' = "pop_race")
  <2>1. /\ UNCHANGED <<top, capacity, b>> /\ oPc \in Reserving /\ oPc' \in Reserving
    BY <1>9 DEF PopFence, PopReload, PopRead, Reserving
  <2>2. QED
    BY <1>3, <2>1 DEF Last
<1>10. CASE PushWriteBegins \/ PushWriteEnds
  <2>1. /\ oPc \in {"push_write", "push_written"} /\ oPc' \in {"push_written", "push_publish"}
        /\ UNCHANGED <<capacity, top, mem, b>>
    BY <1>10 DEF PushWriteBegins, PushWriteEnds
  <2>2. capacity # 0 /\ pushed + 1 \in Content
    BY <2>1, OwnerFacts
  <2>3. Slot(b) \in Where /\ Slot(b) # Bottom
    BY <1>2, <2>2, PlaceFacts
  <2>4. View(stores', mem', Bottom) = View(stores, mem, Bottom)
    BY <1>1, <1>2, <1>10, <2>2, <2>3, StoreStep DEF PushWriteBegins, PushWriteEnds
  <2>5. QED
    BY <1>3, <2>1, <2>4 DEF Last, Reserving
<1>11. CASE PushPublish
  <2> DEFINE v == b + 1
  <2>1. /\ oPc = "push_publish" /\ oPc' = "idle" /\ Store(Bottom, v) /\ mem' = mem
        /\ UNCHANGED <<capacity, top>>
    BY <1>11 DEF PushPublish
  <2>2. v \in Nat /\ Last = b /\ b < top + capacity
    BY <1>2, <2>1, OwnerFacts
  <2> HIDE DEF v
  <2>3. View(stores', mem', Bottom) = v
    BY <1>1, <1>2, <2>1, <2>2, StoreStep
  <2>4. Last' = b + 1
    BY <2>1, <2>3 DEF Last, Reserving, v
  <2>5. QED
    BY <1>2, <2>1, <2>2, <2>4 DEF WithinRing
<1>12. CASE PopReserve
  <2>1. oPc = "pop_reserve" /\ oPc' = "pop_fence" /\ UNCHANGED <<capacity, top, b>>
    BY <1>12 DEF PopReserve
  <2>2. Last = b /\ Last' = b
    BY <2>1, OwnerFacts DEF Last, Reserving
  <2>3. QED
    BY <1>3, <2>1, <2>2
<1>13. CASE PopRead /\ oPc' # "pop_race"
  <2>1. /\ oPc = "pop_read" /\ oPc' = "idle" /\ t # b - 1
        /\ UNCHANGED <<capacity, top, stores, mem>>
    BY <1>13 DEF PopRead, LastItem
  <2>2. t < b - 1 /\ b - 1 \in Nat /\ View(stores, mem, Bottom) = b - 1 /\ b <= top + capacity
    BY <1>2, <2>1, OwnerFacts, RingFacts
  <2>3. top <= b - 1
    BY <1>1, <2>1, <2>2 DEF ReservedIsMine
  <2>4. Last' = b - 1
    BY <2>1, <2>2 DEF Last, Reserving
  <2>5. QED
    BY <1>2, <2>1, <2>2, <2>3, <2>4 DEF WithinRing
<1>14. CASE PopRace
  <2>1. /\ oPc = "pop_race" /\ oPc' = "pop_restore" /\ UNCHANGED <<capacity, b>>
        /\ IF top = t THEN top' = t + 1 ELSE top' = top
    BY <1>14 DEF PopRace
  <2>2. Last = b /\ Last' = b /\ t = b - 1 /\ b <= top + capacity /\ top <= b
    BY <2>1, OwnerFacts DEF Last, Reserving
  <2>3. QED
    BY <1>2, <2>1, <2>2 DEF WithinRing
<1>15. CASE PopRestore
  <2>1. /\ oPc = "pop_restore" /\ oPc' = "idle" /\ Store(Bottom, b) /\ mem' = mem
        /\ UNCHANGED <<capacity, top, b>>
    BY <1>15 DEF PopRestore, Restore
  <2>2. View(stores', mem', Bottom) = b
    BY <1>1, <1>2, <2>1, StoreStep
  <2>3. Last = b /\ Last' = b
    BY <2>1, <2>2, OwnerFacts DEF Last, Reserving
  <2>4. QED
    BY <1>3, <2>1, <2>3
<1>16. CASE UNCHANGED vars
  BY <1>3, <1>16 DEF vars, ownerVars, thiefVars, Last
<1>17. QED
  BY <1>4, <1>5, <1>6, <1>7, <1>8, <1>9, <1>10, <1>11, <1>12, <1>13, <1>14, <1>15, <1>16
  DEF Next, OwnerStep, ThiefStep

(* What is on its way to memory stays behind _bottom.                       *)
LEMMA StepKeepsBehind ==
  ASSUME RingInv, [Next]_vars
  PROVE  StoresBehind'
<1>1. /\ TypeOK /\ StoresAreRecords /\ WithinRing /\ NothingBeforeInit /\ StoresBehind
  BY DEF RingInv, CoreInv
<1>2. /\ top \in Nat /\ b \in Nat /\ capacity \in Nat /\ Last \in Nat /\ bottom \in Nat
      /\ Bottom \in Where /\ Torn \in Content
      /\ DOMAIN stores = 1 .. Len(stores) /\ Len(stores) \in Nat
      /\ bottom <= Last
      /\ \A i \in DOMAIN stores : stores[i].at = Bottom => stores[i].val <= Last
      /\ oPc \notin Reserving => Last = View(stores, mem, Bottom)
      /\ \A i \in DOMAIN stores : stores[i].at = Bottom => stores[i].val \in Nat
  <2>1. \A i \in DOMAIN stores : stores[i].at = Bottom => stores[i].val \in Nat
    BY <1>1 DEF TypeOK, Bottom
  <2>2. bottom <= Last /\ \A i \in DOMAIN stores : stores[i].at = Bottom => stores[i].val <= Last
    BY <1>1 DEF StoresBehind
  <2>3. QED
    BY <2>1, <2>2, RingFacts
<1>3. ASSUME UNCHANGED <<capacity, mem, stores>>, top' \in Nat, top <= top', Last' = Last
      PROVE  StoresBehind'
  <2>1. \A p \in bottom .. top + capacity - 1 : p \in bottom .. top' + capacity - 1
    BY <1>2, <1>3
  <2>2. QED
    BY <1>1, <1>3, <2>1 DEF StoresBehind, bottom
<1>4. ASSUME NEW s \in Thief, ThiefStep(s) PROVE StoresBehind'
  <2>1. UNCHANGED <<capacity, mem, stores, oPc, b>> /\ (top' = top \/ top' = top + 1)
    BY <1>4 DEF ThiefStep, StealBegin, StealCheck, StealReload, StealRead, StealRace, ownerVars
  <2>2. QED
    BY <1>2, <1>3, <2>1 DEF Last
<1>5. ASSUME NEW c \in InitArgs, InitCall(c) PROVE StoresBehind'
  <2>1. /\ capacity = 0 /\ UNCHANGED <<stores, oPc, b>> /\ oPc = "idle" /\ mem'[Bottom] = mem[Bottom]
    BY <1>5 DEF InitCall, Accepts, ownerVars, bottom
  <2>2. stores = <<>> /\ stores' = <<>> /\ DOMAIN stores' = {}
    BY <1>1, <2>1 DEF NothingBeforeInit
  <2>3. View(stores', mem', Bottom) = View(stores, mem, Bottom)
    BY <2>1, <2>2 DEF View, Pending
  <2>4. Last' = Last /\ bottom' = bottom
    BY <2>1, <2>3 DEF Last, bottom
  <2>5. QED
    BY <1>2, <2>2, <2>4 DEF StoresBehind
<1>6. CASE Drain
  <2>1. /\ UNCHANGED <<top, capacity, oPc, b>> /\ View(stores', mem', Bottom) = View(stores, mem, Bottom)
        /\ 1 \in DOMAIN stores /\ DOMAIN stores' = 1 .. Len(stores) - 1
        /\ \A i \in DOMAIN stores' : i + 1 \in DOMAIN stores /\ stores'[i] = stores[i + 1]
        /\ mem'[Bottom] = IF Bottom = stores[1].at THEN stores[1].val ELSE mem[Bottom]
    BY <1>1, <1>2, <1>6, DrainStep DEF Drain, ownerVars
  <2>2. Last' = Last
    BY <2>1 DEF Last
  <2>3. bottom' \in Nat /\ bottom' <= Last
    BY <1>2, <2>1 DEF bottom
  <2>4. ASSUME NEW i \in DOMAIN stores', stores'[i].at # Bottom
        PROVE  \E p \in bottom' .. top + capacity - 1 :
                 /\ stores'[i].at = Place(p, capacity)
                 /\ \A h \in 1 .. i - 1 : stores'[h].at = Bottom => stores'[h].val <= p
    <3>1. i + 1 \in DOMAIN stores /\ stores'[i] = stores[i + 1] /\ i \in 1 .. Len(stores) - 1
      BY <2>1
    <3>2. PICK p \in bottom .. top + capacity - 1 :
            /\ stores[i + 1].at = Place(p, capacity)
            /\ \A h \in 1 .. i + 1 - 1 : stores[h].at = Bottom => stores[h].val <= p
      BY <1>1, <2>4, <3>1 DEF StoresBehind
    <3>3. bottom' <= p
      BY <1>2, <2>1, <3>1, <3>2 DEF bottom
    <3>4. ASSUME NEW h \in 1 .. i - 1, stores'[h].at = Bottom PROVE stores'[h].val <= p
      <4>1. h \in DOMAIN stores' /\ h + 1 \in 1 .. i + 1 - 1
        BY <1>2, <2>1, <3>1
      <4>2. QED
        BY <2>1, <3>2, <3>4, <4>1
    <3>5. QED
      BY <1>2, <2>3, <3>1, <3>2, <3>3, <3>4
  <2>5. \A i \in DOMAIN stores' : stores'[i].at = Bottom => stores'[i].val <= Last
    BY <1>2, <2>1
  <2>6. QED
    BY <2>1, <2>2, <2>3, <2>4, <2>5 DEF StoresBehind
<1>7. ASSUME NEW x \in Where, NEW v \in Content \cup Nat, Store(x, v), mem' = mem,
             UNCHANGED <<capacity, top>>, Last' \in Nat, Last <= Last',
             x = Bottom => v <= Last',
             x # Bottom => x = Place(b, capacity) /\ b = Last /\ b < top + capacity
      PROVE  StoresBehind'
  <2>1. /\ DOMAIN stores' = 1 .. Len(stores) + 1
        /\ \A i \in DOMAIN stores : stores'[i] = stores[i]
        /\ stores'[Len(stores) + 1] = [at |-> x, val |-> v]
        /\ \A i \in DOMAIN stores' : i \in DOMAIN stores \/ i = Len(stores) + 1
    BY <1>1, <1>7, StoreStep
  <2>2. bottom' = bottom /\ bottom' <= Last'
    BY <1>2, <1>7 DEF bottom
  <2>3. ASSUME NEW i \in DOMAIN stores', stores'[i].at = Bottom PROVE stores'[i].val <= Last'
    <3>1. CASE i \in DOMAIN stores
      BY <1>2, <1>7, <2>1, <2>3, <3>1
    <3>2. CASE i = Len(stores) + 1
      BY <1>7, <2>1, <2>3, <3>2
    <3>3. QED
      BY <2>1, <3>1, <3>2
  <2>4. ASSUME NEW i \in DOMAIN stores', stores'[i].at # Bottom
        PROVE  \E p \in bottom .. top + capacity - 1 :
                 /\ stores'[i].at = Place(p, capacity)
                 /\ \A h \in 1 .. i - 1 : stores'[h].at = Bottom => stores'[h].val <= p
    <3>1. \A h \in 1 .. i - 1 : h \in DOMAIN stores /\ stores'[h] = stores[h]
      BY <1>2, <2>1
    <3>2. CASE i \in DOMAIN stores
      <4>1. stores'[i] = stores[i]
        BY <2>1, <3>2
      <4>2. PICK p \in bottom .. top + capacity - 1 :
              /\ stores[i].at = Place(p, capacity)
              /\ \A h \in 1 .. i - 1 : stores[h].at = Bottom => stores[h].val <= p
        BY <1>1, <2>4, <3>2, <4>1 DEF StoresBehind
      <4>3. QED
        BY <3>1, <4>1, <4>2
    <3>3. CASE i = Len(stores) + 1
      <4>1. stores'[i].at = Place(b, capacity) /\ b = Last /\ b < top + capacity
        BY <1>7, <2>1, <2>4, <3>3
      <4>2. b \in bottom .. top + capacity - 1
        BY <1>2, <4>1
      <4>3. \A h \in 1 .. i - 1 : stores'[h].at = Bottom => stores'[h].val <= b
        BY <1>2, <3>1, <4>1
      <4>4. QED
        BY <4>1, <4>2, <4>3
    <3>4. QED
      BY <2>1, <3>2, <3>3
  <2>5. QED
    BY <1>7, <2>2, <2>3, <2>4 DEF StoresBehind
<1>8. CASE PushBegin \/ PushCheck \/ PopBegin \/ PopCheck
  <2>1. /\ UNCHANGED <<top, capacity, stores, mem>>
        /\ oPc \notin Reserving /\ oPc' \notin Reserving
    BY <1>8 DEF PushBegin, PushCheck, PopBegin, PopCheck, Reserving
  <2>2. QED
    BY <1>2, <1>3, <2>1 DEF Last
<1>9. CASE PopFence \/ PopReload \/ (PopRead /\ oPc' = "pop_race")
  <2>1. /\ UNCHANGED <<top, capacity, b, stores, mem>> /\ oPc \in Reserving /\ oPc' \in Reserving
    BY <1>9 DEF PopFence, PopReload, PopRead, Reserving
  <2>2. QED
    BY <1>2, <1>3, <2>1 DEF Last
<1>10. CASE PushWriteBegins \/ PushWriteEnds
  <2>1. /\ oPc \in {"push_write", "push_written"} /\ oPc' \in {"push_written", "push_publish"}
        /\ UNCHANGED <<capacity, top, mem, b>>
    BY <1>10 DEF PushWriteBegins, PushWriteEnds
  <2>2. capacity # 0 /\ pushed + 1 \in Content /\ Last = b /\ b < top + capacity
    BY <2>1, OwnerFacts
  <2>3. Slot(b) \in Where /\ Slot(b) # Bottom /\ Slot(b) = Place(b, capacity)
    BY <1>2, <2>2, PlaceFacts
  <2>4. View(stores', mem', Bottom) = View(stores, mem, Bottom)
    BY <1>1, <1>2, <1>10, <2>2, <2>3, StoreStep DEF PushWriteBegins, PushWriteEnds
  <2>5. Last' = Last
    BY <2>1, <2>4 DEF Last, Reserving
  <2>6. Store(Slot(b), Torn) \/ Store(Slot(b), pushed + 1)
    BY <1>10 DEF PushWriteBegins, PushWriteEnds
  <2>7. QED
    BY <1>2, <1>7, <2>1, <2>2, <2>3, <2>5, <2>6
<1>11. CASE PushPublish
  <2> DEFINE v == b + 1
  <2>1. /\ oPc = "push_publish" /\ oPc' = "idle" /\ Store(Bottom, v) /\ mem' = mem
        /\ UNCHANGED <<capacity, top>>
    BY <1>11 DEF PushPublish
  <2>2. v \in Nat /\ Last = b /\ b <= v
    BY <1>2, <2>1, OwnerFacts
  <2> HIDE DEF v
  <2>3. View(stores', mem', Bottom) = v
    BY <1>1, <1>2, <2>1, <2>2, StoreStep
  <2>4. Last' = v
    BY <2>1, <2>3 DEF Last, Reserving
  <2>5. QED
    BY <1>2, <1>7, <2>1, <2>2, <2>4
<1>12. CASE PopReserve
  <2> DEFINE v == b - 1
  <2>1. /\ oPc = "pop_reserve" /\ oPc' = "pop_fence" /\ Store(Bottom, v) /\ mem' = mem
        /\ UNCHANGED <<capacity, top, b>>
    BY <1>12 DEF PopReserve
  <2>2. v \in Nat /\ v <= b
    BY <1>2, <2>1, OwnerFacts
  <2>3. Last = b /\ Last' = b
    BY <2>1, OwnerFacts DEF Last, Reserving
  <2> HIDE DEF v
  <2>4. QED
    BY <1>2, <1>7, <2>1, <2>2, <2>3
<1>13. CASE PopRead /\ oPc' # "pop_race"
  <2>1. /\ oPc = "pop_read" /\ oPc' = "idle" /\ UNCHANGED <<capacity, top, stores, mem>>
    BY <1>13 DEF PopRead
  <2>2. stores = <<>> /\ bottom = b - 1 /\ View(stores, mem, Bottom) = b - 1 /\ DOMAIN stores = {}
    BY <2>1, OwnerFacts
  <2>3. Last' = b - 1 /\ bottom' = bottom
    BY <2>1, <2>2 DEF Last, Reserving, bottom
  <2>4. QED
    BY <1>2, <2>1, <2>2, <2>3 DEF StoresBehind
<1>14. CASE PopRace
  <2>1. /\ oPc = "pop_race" /\ oPc' = "pop_restore" /\ UNCHANGED <<capacity, b, stores, mem>>
        /\ IF top = t THEN top' = t + 1 ELSE top' = top
    BY <1>14 DEF PopRace
  <2>2. Last = b /\ Last' = b /\ t = b - 1 /\ top <= b
    BY <2>1, OwnerFacts DEF Last, Reserving
  <2>3. QED
    BY <1>2, <1>3, <2>1, <2>2
<1>15. CASE PopRestore
  <2>1. /\ oPc = "pop_restore" /\ oPc' = "idle" /\ Store(Bottom, b) /\ mem' = mem
        /\ UNCHANGED <<capacity, top, b>>
    BY <1>15 DEF PopRestore, Restore
  <2>2. View(stores', mem', Bottom) = b
    BY <1>1, <1>2, <2>1, StoreStep
  <2>3. Last = b /\ Last' = b
    BY <2>1, <2>2, OwnerFacts DEF Last, Reserving
  <2>4. QED
    BY <1>2, <1>7, <2>1, <2>3
<1>16. CASE UNCHANGED vars
  BY <1>2, <1>3, <1>16 DEF vars, ownerVars, thiefVars, Last
<1>17. QED
  BY <1>4, <1>5, <1>6, <1>8, <1>9, <1>10, <1>11, <1>12, <1>13, <1>14, <1>15, <1>16
  DEF Next, OwnerStep

(* Whoever may still win _top has read what is there.                       *)
LEMMA StepKeepsReaders ==
  ASSUME RingInv, [Next]_vars
  PROVE  Readers'
<1>1. /\ TypeOK /\ StoresAreRecords /\ WithinRing /\ NothingBeforeInit /\ StoresBehind
      /\ Readers /\ ReservedIsMine
  BY DEF RingInv, CoreInv
<1>2. /\ top \in Nat /\ b \in Nat /\ capacity \in Nat /\ Last \in Nat /\ bottom \in Nat
      /\ Bottom \in Where /\ Torn \in Content /\ bottom <= Last
      /\ st \in [Thief -> Nat] /\ sVal \in [Thief -> Content]
      /\ sPc \in [Thief -> {"idle", "empty", "reload", "read", "race"}]
      /\ DOMAIN stores = 1 .. Len(stores) /\ Len(stores) \in Nat
      /\ oPc \notin Reserving => Last = View(stores, mem, Bottom)
      /\ stores = <<>> => bottom = View(stores, mem, Bottom)
  BY <1>1, RingFacts DEF StoresBehind, bottom
<1>3. \A s \in Thief : sPc[s] \in {"reload", "read", "race"} => capacity # 0
  BY <1>1 DEF NothingBeforeInit
(* The slot of the first position is not written while it is in use.        *)
<1>4. top < bottom => \A i \in DOMAIN stores : stores[i].at # Place(top, capacity)
  <2>1. SUFFICES ASSUME top < bottom, NEW i \in DOMAIN stores PROVE stores[i].at # Place(top, capacity)
    OBVIOUS
  <2>2. capacity # 0
    BY <1>1, <2>1 DEF NothingBeforeInit
  <2>3. CASE stores[i].at = Bottom
    BY <1>2, <2>2, <2>3, PlaceFacts
  <2>4. CASE stores[i].at # Bottom
    <3>1. PICK p \in bottom .. top + capacity - 1 : stores[i].at = Place(p, capacity)
      BY <1>1, <2>4 DEF StoresBehind
    <3>2. p \in Nat /\ top < p /\ p < top + capacity
      BY <1>2, <2>1, <3>1
    <3>3. QED
      BY <1>2, <2>2, <3>1, <3>2, PlaceFacts
  <2>5. QED
    BY <2>3, <2>4
(* Steps that leave the thieves and _top alone.                             *)
<1>5. ASSUME UNCHANGED <<capacity, top, sPc, st, sVal>>,
             \A s \in Thief : Reader(s) => top < Last',
             \A s \in Thief, i \in DOMAIN stores' : Reader(s) => stores'[i].at # Place(top, capacity),
             capacity # 0 => View(stores', mem', Place(top, capacity)) = View(stores, mem, Place(top, capacity))
      PROVE  Readers'
  <2>1. \A s \in Thief : Reader(s)' <=> Reader(s)
    BY <1>5 DEF Reader
  <2>2. \A s \in Thief : Reader(s) => capacity # 0
    BY <1>3 DEF Reader
  <2>3. QED
    BY <1>1, <1>5, <2>1, <2>2 DEF Readers, At, Reader
<1>6. ASSUME UNCHANGED <<capacity, top, sPc, st, sVal, mem, stores>>, Last' = Last PROVE Readers'
  BY <1>1, <1>5, <1>6 DEF Readers
<1>7. ASSUME NEW s \in Thief, StealBegin(s) \/ StealCheck(s)  PROVE Readers'
  <2>1. /\ UNCHANGED <<capacity, top, mem, stores, sVal, oPc, b>>
        /\ \A r \in Thief : r # s => sPc'[r] = sPc[r] /\ st'[r] = st[r]
        /\ sPc'[s] \in {"idle", "empty", "reload"} /\ st'[s] <= top
    BY <1>1, <1>2, <1>7 DEF StealBegin, StealCheck, ownerVars, Readers
  <2>2. \A r \in Thief : Reader(r)' => r # s /\ Reader(r)
    BY <2>1 DEF Reader
  <2>3. Last' = Last
    BY <2>1 DEF Last
  <2>4. QED
    BY <1>1, <2>1, <2>2, <2>3 DEF Readers, At
<1>8. ASSUME NEW s \in Thief, StealReload(s)  PROVE Readers'
  <2>1. /\ UNCHANGED <<capacity, top, mem, stores, st, sVal, oPc, b>> /\ sPc[s] = "reload"
        /\ \A r \in Thief : r # s => sPc'[r] = sPc[r]
        /\ sPc'[s] \in {"idle", "read"}
        /\ sPc'[s] = "read" => st[s] < bottom
    BY <1>1, <1>2, <1>8 DEF StealReload, ownerVars
  <2>2. \A r \in Thief : r # s /\ Reader(r)' => Reader(r)
    BY <2>1 DEF Reader
  <2>3. Last' = Last
    BY <2>1 DEF Last
  <2>4. Reader(s)' => top < bottom
    BY <2>1 DEF Reader
  <2>5. \A r \in Thief : Reader(r)' => /\ top < Last
                                       /\ \A i \in DOMAIN stores : stores[i].at # Place(top, capacity)
    BY <1>1, <1>2, <1>4, <2>2, <2>4 DEF Readers
  <2>6. \A r \in Thief : st'[r] <= top' /\ (sPc'[r] = "race" => sPc[r] = "race" /\ r # s)
    BY <1>1, <2>1 DEF Readers
  <2>7. QED
    BY <1>1, <2>1, <2>2, <2>3, <2>5, <2>6 DEF Readers, At
<1>9. ASSUME NEW s \in Thief, StealRead(s) PROVE Readers'
  <2>1. /\ UNCHANGED <<capacity, top, mem, stores, st, oPc, b>> /\ sPc[s] = "read"
        /\ \A r \in Thief : r # s => sPc'[r] = sPc[r] /\ sVal'[r] = sVal[r]
        /\ sPc'[s] = "race" /\ sVal'[s] = mem[Slot(st[s])]
    BY <1>1, <1>2, <1>9 DEF StealRead, ownerVars
  <2>2. \A r \in Thief : Reader(r)' => Reader(r)
    BY <2>1 DEF Reader
  <2>3. Last' = Last
    BY <2>1 DEF Last
  <2>4. Reader(s) => sVal'[s] = View(stores, mem, Place(top, capacity))
    <3>1. SUFFICES ASSUME Reader(s) PROVE sVal'[s] = View(stores, mem, Place(top, capacity))
      OBVIOUS
    <3>2. Slot(st[s]) = Place(top, capacity)
      BY <1>2, <1>3, <2>1, <3>1, PlaceFacts DEF Reader
    <3>3. Pending(stores, Place(top, capacity)) = {}
      BY <1>1, <3>1 DEF Readers, Pending
    <3>4. QED
      BY <2>1, <3>2, <3>3 DEF View
  <2>5. \A r \in Thief : /\ st[r] <= top
                         /\ Reader(r) => /\ top < Last
                                         /\ \A i \in DOMAIN stores : stores[i].at # Place(top, capacity)
                         /\ Reader(r) /\ sPc[r] = "race" =>
                              sVal[r] = View(stores, mem, Place(top, capacity))
    BY <1>1 DEF Readers, At
  <2>6. QED
    BY <2>1, <2>2, <2>3, <2>4, <2>5 DEF Readers, At
(* When _top moves nobody has read its new slot yet.                        *)
<1>10. ASSUME top' \in Nat, top < top', \A s \in Thief : st'[s] = st[s] PROVE Readers'
  <2>1. \A s \in Thief : st[s] \in Nat /\ st[s] <= top
    BY <1>1, <1>2 DEF Readers
  <2>2. \A s \in Thief : st'[s] <= top' /\ st'[s] # top'
    BY <1>2, <1>10, <2>1
  <2>3. QED
    BY <2>2 DEF Readers, Reader
<1>11. ASSUME NEW s \in Thief, StealRace(s) PROVE Readers'
  <2>1. CASE StillMine(s)
    BY <1>2, <1>10, <1>11, <2>1 DEF StealRace
  <2>2. CASE ~StillMine(s)
    <3>1. /\ UNCHANGED <<capacity, top, mem, stores, sVal, oPc, b>>
          /\ \A r \in Thief : r # s => sPc'[r] = sPc[r] /\ st'[r] = st[r]
          /\ sPc'[s] = "reload" /\ st'[s] = top
      BY <1>2, <1>11, <2>2 DEF StealRace, ownerVars
    <3>2. \A r \in Thief : Reader(r)' => r # s /\ Reader(r)
      BY <3>1 DEF Reader
    <3>3. Last' = Last
      BY <3>1 DEF Last
    <3>4. top' <= top'
      BY <1>2, <3>1
    <3>5. QED
      BY <1>1, <3>1, <3>2, <3>3, <3>4 DEF Readers, At
  <2>3. QED
    BY <2>1, <2>2
<1>12. ASSUME NEW c \in InitArgs, InitCall(c) PROVE Readers'
  <2>1. /\ capacity = 0 /\ UNCHANGED <<top, sPc, st>>
    BY <1>12 DEF InitCall, Accepts, thiefVars
  <2>2. \A s \in Thief : ~Reader(s)'
    BY <1>3, <2>1 DEF Reader
  <2>3. QED
    BY <1>1, <2>1, <2>2 DEF Readers
<1>13. CASE Drain
  <2>1. /\ UNCHANGED <<top, capacity, oPc, b, sPc, st, sVal>>
        /\ \A y \in Where : View(stores', mem', y) = View(stores, mem, y)
        /\ \A i \in DOMAIN stores' : i + 1 \in DOMAIN stores /\ stores'[i] = stores[i + 1]
    BY <1>1, <1>2, <1>13, DrainStep DEF Drain, ownerVars, thiefVars
  <2>2. Last' = Last
    BY <1>2, <2>1 DEF Last
  <2>3. capacity # 0 => Place(top, capacity) \in Where
    BY <1>2, PlaceFacts
  <2>4. \A s \in Thief : Reader(s) => /\ top < Last
                                      /\ \A i \in DOMAIN stores : stores[i].at # Place(top, capacity)
    BY <1>1 DEF Readers
  <2>5. QED
    BY <1>5, <2>1, <2>2, <2>3, <2>4
(* The owner stores outside the first position.                             *)
<1>14. ASSUME NEW x \in Where, NEW v \in Content \cup Nat, Store(x, v), mem' = mem,
              UNCHANGED <<capacity, top, sPc, st, sVal>>, Last' \in Nat, Last <= Last',
              x # Bottom => x = Place(b, capacity) /\ b = Last /\ b < top + capacity
       PROVE  Readers'
  <2>1. /\ \A i \in DOMAIN stores : stores'[i] = stores[i]
        /\ stores'[Len(stores) + 1] = [at |-> x, val |-> v]
        /\ \A i \in DOMAIN stores' : i \in DOMAIN stores \/ i = Len(stores) + 1
        /\ \A y : View(stores', mem', y) = IF x = y THEN v ELSE View(stores, mem, y)
    BY <1>1, <1>14, StoreStep
  <2>2. ASSUME NEW s \in Thief, Reader(s)
        PROVE  /\ top < Last' /\ x # Place(top, capacity)
               /\ \A i \in DOMAIN stores' : stores'[i].at # Place(top, capacity)
    <3>1. top < Last /\ \A i \in DOMAIN stores : stores[i].at # Place(top, capacity)
      BY <1>1, <2>2 DEF Readers
    <3>2. capacity # 0
      BY <1>3, <2>2 DEF Reader
    <3>3. x # Place(top, capacity)
      BY <1>2, <1>14, <3>1, <3>2, PlaceFacts
    <3>4. \A i \in DOMAIN stores' : stores'[i].at # Place(top, capacity)
      BY <2>1, <3>1, <3>3
    <3>5. QED
      BY <1>2, <1>14, <3>1, <3>3, <3>4
  <2>3. \A s \in Thief : Reader(s)' <=> Reader(s)
    BY <1>14 DEF Reader
  <2>4. \A s \in Thief : Reader(s) =>
          View(stores', mem', Place(top, capacity)) = View(stores, mem, Place(top, capacity))
    BY <2>1, <2>2
  <2>5. QED
    BY <1>1, <1>14, <2>2, <2>3, <2>4 DEF Readers, At
<1>15. CASE PushBegin \/ PushCheck \/ PopBegin \/ PopCheck
  <2>1. /\ UNCHANGED <<top, capacity, stores, mem, sPc, st, sVal>>
        /\ oPc \notin Reserving /\ oPc' \notin Reserving
    BY <1>15 DEF PushBegin, PushCheck, PopBegin, PopCheck, Reserving, thiefVars
  <2>2. QED
    BY <1>2, <1>6, <2>1 DEF Last
<1>16. CASE PopFence \/ PopReload \/ (PopRead /\ oPc' = "pop_race")
  <2>1. /\ UNCHANGED <<top, capacity, b, stores, mem, sPc, st, sVal>>
        /\ oPc \in Reserving /\ oPc' \in Reserving
    BY <1>16 DEF PopFence, PopReload, PopRead, Reserving, thiefVars
  <2>2. QED
    BY <1>2, <1>6, <2>1 DEF Last
<1>17. CASE PushWriteBegins \/ PushWriteEnds
  <2>1. /\ oPc \in {"push_write", "push_written"} /\ oPc' \in {"push_written", "push_publish"}
        /\ UNCHANGED <<capacity, top, mem, b, sPc, st, sVal>>
    BY <1>17 DEF PushWriteBegins, PushWriteEnds, thiefVars
  <2>2. capacity # 0 /\ pushed + 1 \in Content /\ Last = b /\ b < top + capacity
    BY <2>1, OwnerFacts
  <2>3. Slot(b) \in Where /\ Slot(b) # Bottom /\ Slot(b) = Place(b, capacity)
    BY <1>2, <2>2, PlaceFacts
  <2>4. View(stores', mem', Bottom) = View(stores, mem, Bottom)
    BY <1>1, <1>2, <1>17, <2>2, <2>3, StoreStep DEF PushWriteBegins, PushWriteEnds
  <2>5. Last' = Last
    BY <2>1, <2>4 DEF Last, Reserving
  <2>6. Store(Slot(b), Torn) \/ Store(Slot(b), pushed + 1)
    BY <1>17 DEF PushWriteBegins, PushWriteEnds
  <2>7. QED
    BY <1>2, <1>14, <2>1, <2>2, <2>3, <2>5, <2>6
<1>18. CASE PushPublish
  <2> DEFINE v == b + 1
  <2>1. /\ oPc = "push_publish" /\ oPc' = "idle" /\ Store(Bottom, v) /\ mem' = mem
        /\ UNCHANGED <<capacity, top, sPc, st, sVal>>
    BY <1>18 DEF PushPublish, thiefVars
  <2>2. v \in Nat /\ Last = b /\ b <= v
    BY <1>2, <2>1, OwnerFacts
  <2> HIDE DEF v
  <2>3. View(stores', mem', Bottom) = v
    BY <1>1, <1>2, <2>1, <2>2, StoreStep
  <2>4. Last' = v
    BY <2>1, <2>3 DEF Last, Reserving
  <2>5. QED
    BY <1>2, <1>14, <2>1, <2>2, <2>4
<1>19. CASE PopReserve
  <2> DEFINE v == b - 1
  <2>1. /\ oPc = "pop_reserve" /\ oPc' = "pop_fence" /\ Store(Bottom, v) /\ mem' = mem
        /\ UNCHANGED <<capacity, top, b, sPc, st, sVal>>
    BY <1>19 DEF PopReserve, thiefVars
  <2>2. v \in Nat
    BY <2>1, OwnerFacts
  <2>3. Last = b /\ Last' = b
    BY <2>1, OwnerFacts DEF Last, Reserving
  <2> HIDE DEF v
  <2>4. QED
    BY <1>2, <1>14, <2>1, <2>2, <2>3
<1>20. CASE PopRead /\ oPc' # "pop_race"
  <2>1. /\ oPc = "pop_read" /\ oPc' = "idle" /\ t # b - 1
        /\ UNCHANGED <<capacity, top, stores, mem, sPc, st, sVal>>
    BY <1>20 DEF PopRead, LastItem, thiefVars
  <2>2. t < b - 1 /\ b - 1 \in Nat /\ View(stores, mem, Bottom) = b - 1
    BY <1>2, <2>1, OwnerFacts, RingFacts
  <2>3. Last' = b - 1
    BY <2>1, <2>2 DEF Last, Reserving
  <2>4. \A s \in Thief : Reader(s) => top < Last'
    BY <1>1, <2>1, <2>2, <2>3 DEF ReservedIsMine, Reader
  <2>5. \A s \in Thief, i \in DOMAIN stores' : Reader(s) => stores'[i].at # Place(top, capacity)
    BY <1>1, <2>1 DEF Readers
  <2>6. QED
    BY <1>5, <2>1, <2>4, <2>5
<1>21. CASE PopRace
  <2>1. /\ oPc = "pop_race" /\ oPc' = "pop_restore"
        /\ UNCHANGED <<capacity, b, stores, mem, sPc, st, sVal>>
        /\ IF top = t THEN top' = t + 1 ELSE top' = top
    BY <1>21 DEF PopRace, thiefVars
  <2>2. Last = b /\ Last' = b
    BY <2>1, OwnerFacts DEF Last, Reserving
  <2>3. CASE top = t
    BY <1>2, <1>10, <2>1, <2>3
  <2>4. CASE top # t
    BY <1>6, <2>1, <2>2, <2>4
  <2>5. QED
    BY <2>3, <2>4
<1>22. CASE PopRestore
  <2>1. /\ oPc = "pop_restore" /\ oPc' = "idle" /\ Store(Bottom, b) /\ mem' = mem
        /\ UNCHANGED <<capacity, top, b, sPc, st, sVal>>
    BY <1>22 DEF PopRestore, Restore, thiefVars
  <2>2. View(stores', mem', Bottom) = b
    BY <1>1, <1>2, <2>1, StoreStep
  <2>3. Last = b /\ Last' = b
    BY <2>1, <2>2, OwnerFacts DEF Last, Reserving
  <2>4. QED
    BY <1>2, <1>14, <2>1, <2>3
<1>23. CASE UNCHANGED vars
  BY <1>6, <1>23 DEF vars, ownerVars, thiefVars, Last
<1>24. QED
  BY <1>7, <1>8, <1>9, <1>11, <1>12, <1>13, <1>15, <1>16, <1>17, <1>18, <1>19, <1>20, <1>21,
     <1>22, <1>23 DEF Next, OwnerStep, ThiefStep

(* No thief gets at the item that pop() takes without a race.               *)
LEMMA StepKeepsReserved ==
  ASSUME RingInv, [Next]_vars
  PROVE  ReservedIsMine'
<1>1. TypeOK /\ Readers /\ ReservedIsMine
  BY DEF RingInv, CoreInv
<1>2. /\ top \in Nat /\ b \in Nat /\ t \in Nat /\ st \in [Thief -> Nat]
      /\ sPc \in [Thief -> {"idle", "empty", "reload", "read", "race"}]
      /\ oPc = "pop_read" => stores = <<>> /\ bottom = b - 1 /\ b - 1 \in Nat
  BY RingFacts, OwnerFacts
<1>3. \A s \in Thief : st[s] <= top
  BY <1>1 DEF Readers
<1>4. CASE PopReload
  <2>1. /\ UNCHANGED <<b, top, sPc, st>> /\ t' = top /\ oPc = "pop_reload"
    BY <1>4 DEF PopReload, thiefVars
  <2>2. b - 1 \in Nat
    BY <2>1, OwnerFacts
  <2>3. ASSUME t' < b' - 1 PROVE top' <= b' - 1 /\ \A s \in Thief : st'[s] < b' - 1
    BY <1>2, <1>3, <2>1, <2>2, <2>3
  <2>4. QED
    BY <2>3 DEF ReservedIsMine
<1>5. CASE UNCHANGED <<oPc, b, t, top, sPc, st>>
  BY <1>1, <1>5 DEF ReservedIsMine
<1>6. ASSUME NEW s \in Thief, ThiefStep(s) PROVE ReservedIsMine'
  <2>1. UNCHANGED <<oPc, b, t, mem>> /\ \A r \in Thief : r # s => sPc'[r] = sPc[r] /\ st'[r] = st[r]
    BY <1>2, <1>6 DEF ThiefStep, StealBegin, StealCheck, StealReload, StealRead, StealRace, ownerVars
  <2>2. SUFFICES ASSUME oPc = "pop_read", t < b - 1
                 PROVE  top' <= b - 1 /\ \A r \in Thief : sPc'[r] \in {"read", "race"} => st'[r] < b - 1
    BY <2>1 DEF ReservedIsMine
  <2>3. /\ top <= b - 1 /\ b - 1 \in Nat /\ bottom = b - 1
        /\ \A r \in Thief : sPc[r] \in {"read", "race"} => st[r] < b - 1
    BY <1>1, <1>2, <2>2 DEF ReservedIsMine
  <2>4. CASE StealBegin(s) \/ StealCheck(s)
    <3>1. top' = top /\ sPc'[s] \in {"idle", "empty", "reload"}
      BY <1>2, <2>4 DEF StealBegin, StealCheck
    <3>2. QED
      BY <2>1, <2>3, <3>1
  <2>5. CASE StealReload(s)
    <3>1. top' = top /\ st' = st /\ (sPc'[s] \in {"read", "race"} => st[s] < b - 1)
      BY <1>2, <2>3, <2>5 DEF StealReload
    <3>2. QED
      BY <2>1, <2>3, <3>1
  <2>6. CASE StealRead(s)
    <3>1. top' = top /\ st' = st /\ sPc[s] = "read"
      BY <2>6 DEF StealRead
    <3>2. QED
      BY <2>1, <2>3, <3>1
  <2>7. CASE StealRace(s)
    <3>1. sPc[s] = "race" /\ sPc'[s] \in {"idle", "reload"}
      BY <1>2, <2>7 DEF StealRace
    <3>2. st[s] < b - 1
      BY <2>3, <3>1
    <3>3. top' = top \/ (top' = top + 1 /\ top = st[s])
      BY <2>7 DEF StealRace, StillMine
    <3>4. top' <= b - 1
      BY <1>2, <2>3, <3>2, <3>3
    <3>5. QED
      BY <2>1, <2>3, <3>1, <3>4
  <2>8. QED
    BY <1>6, <2>4, <2>5, <2>6, <2>7 DEF ThiefStep
<1>7. CASE Drain
  BY <1>5, <1>7 DEF Drain, ownerVars, thiefVars
<1>8. CASE \E c \in InitArgs : InitCall(c)
  BY <1>5, <1>8 DEF InitCall, ownerVars, thiefVars
<1>9. CASE PushBegin \/ PopBegin \/ (OwnerStep /\ ~PopReload)
  BY <1>9 DEF OwnerStep, PushBegin, PushCheck, PushWriteBegins, PushWriteEnds, PushPublish,
     PopBegin, PopCheck, PopReserve, PopFence, PopRead, PopRace, PopRestore, Restore, ReservedIsMine
<1>10. CASE UNCHANGED vars
  BY <1>5, <1>10 DEF vars, ownerVars, thiefVars
<1>11. QED
  BY <1>4, <1>6, <1>7, <1>8, <1>9, <1>10 DEF Next

(* The queue starts in the invariant: _top and _bottom are 1.               *)
LEMMA InitRing == Init => RingInv
<1>1. SUFFICES ASSUME Init PROVE RingInv
  OBVIOUS
<1>2. /\ capacity = 0 /\ top = 1 /\ mem = [at \in {Bottom} |-> 1] /\ stores = <<>> /\ oPc = "idle"
      /\ b = 1 /\ t = 1 /\ val = Junk /\ sPc = [s \in Thief |-> "idle"]
      /\ st = [s \in Thief |-> 1] /\ sVal = [s \in Thief |-> Junk] /\ pushed = 0
      /\ popped = [i \in Content |-> 0] /\ stolen = [i \in Content |-> 0]
  BY <1>1 DEF Init
<1>3. bottom = 1 /\ DOMAIN stores = {} /\ 0 .. capacity - 1 = {} /\ Junk \in Content /\ Torn \in Content
  BY <1>2 DEF bottom, Content
<1>4. View(stores, mem, Bottom) = 1
  BY <1>2, <1>3 DEF View, Pending
<1>5. Last = 1
  BY <1>2, <1>4 DEF Last, Reserving
<1>6. CoreInv
  BY <1>1, InitCore
<1>8. StoredBeforeRead /\ ReservedIsMine
  BY <1>2 DEF StoredBeforeRead, ReservedIsMine, Drained
<1>9. WithinRing /\ StoresBehind
  BY <1>2, <1>3, <1>5 DEF WithinRing, StoresBehind
<1>10. Readers
  BY <1>2 DEF Readers, Reader
<1>11. QED
  BY <1>6, <1>8, <1>9, <1>10 DEF RingInv

(* Every step keeps it that overtakes nothing.                              *)
LEMMA StepKeepsRing == RingInv /\ [Next]_vars /\ ~Overtakes => RingInv'
BY StepKeepsCore, StepKeepsStored, StepKeepsWithinRing, StepKeepsBehind,
   StepKeepsReaders, StepKeepsReserved DEF RingInv

-----------------------------------------------------------------------------
(* What is handed out.                                                      *)
Delivered == ItemsWait /\ HandedOutOnce /\ OnlyWholeItems

(* Steps that hand nothing out leave the waiting items as they are.         *)
LEMMA NothingTaken ==
  ASSUME RingInv, Delivered, UNCHANGED <<capacity, pushed, popped, stolen>>,
         \A i \in top' .. Last' - 1 :
           /\ i \in top .. Last - 1
           /\ View(stores', mem', Place(i, capacity)) = View(stores, mem, Place(i, capacity)),
         oPc' = "push_publish" => View(stores', mem', Place(b', capacity)) = pushed + 1
  PROVE  Delivered'
<1>1. ItemsWait'
  BY DEF Delivered, ItemsWait, At
<1>2. HandedOutOnce' /\ OnlyWholeItems'
  BY DEF Delivered, HandedOutOnce, OnlyWholeItems
<1>3. QED
  BY <1>1, <1>2 DEF Delivered

(* A step that hands out an item that waited, and takes it from the line.   *)
LEMMA OneTaken ==
  ASSUME RingInv, Delivered, UNCHANGED <<capacity, pushed, mem, stores>>,
         NEW p \in top .. Last - 1, NEW v, v = View(stores, mem, Place(p, capacity)),
         \/ popped' = [popped EXCEPT ![v] = @ + 1] /\ stolen' = stolen
         \/ stolen' = [stolen EXCEPT ![v] = @ + 1] /\ popped' = popped,
         \A i \in top' .. Last' - 1 : i \in top .. Last - 1 /\ i # p,
         oPc' = "push_publish" => oPc = "push_publish" /\ b' = b
  PROVE  Delivered'
<1>1. /\ pushed \in 0 .. MaxPush /\ MaxPush \in Nat
      /\ popped \in [Content -> Nat] /\ stolen \in [Content -> Nat]
  BY RingFacts DEF RingInv, CoreInv, TypeOK
<1>2. v \in 1 .. pushed /\ popped[v] = 0 /\ stolen[v] = 0
  BY DEF Delivered, ItemsWait, At
<1>3. v \in Item /\ v \in Content /\ v # Torn /\ v # Junk
  BY <1>1, <1>2, ContentAssumption DEF Item, Content
<1>4. /\ \A x \in Content : x # v => popped'[x] = popped[x] /\ stolen'[x] = stolen[x]
      /\ popped'[v] + stolen'[v] = 1
  BY <1>1, <1>2, <1>3
<1>5. ASSUME NEW i \in top' .. Last' - 1
      PROVE  /\ View(stores, mem, Place(i, capacity)) \in 1 .. pushed
             /\ popped'[View(stores, mem, Place(i, capacity))] = 0
             /\ stolen'[View(stores, mem, Place(i, capacity))] = 0
             /\ \A k \in top' .. Last' - 1 :
                  View(stores, mem, Place(i, capacity)) = View(stores, mem, Place(k, capacity)) => i = k
  <2> DEFINE x == View(stores, mem, Place(i, capacity))
  <2>1. i \in top .. Last - 1 /\ i # p
    OBVIOUS
  <2>2. x \in 1 .. pushed /\ popped[x] = 0 /\ stolen[x] = 0 /\ x # v
    BY <2>1 DEF Delivered, ItemsWait, At
  <2>3. \A k \in top' .. Last' - 1 : x = View(stores, mem, Place(k, capacity)) => i = k
    BY <2>1 DEF Delivered, ItemsWait, At
  <2> HIDE DEF x
  <2>4. x \in Content
    BY <1>1, <2>2 DEF Content, Item
  <2>5. popped'[x] = 0 /\ stolen'[x] = 0
    BY <1>4, <2>2, <2>4
  <2>6. QED
    BY <2>2, <2>3, <2>5 DEF x
<1>6. \A i \in Item : i > pushed => popped'[i] = 0 /\ stolen'[i] = 0
  <2>1. \A i \in Item : i > pushed => popped[i] = 0 /\ stolen[i] = 0
    BY DEF Delivered, ItemsWait
  <2>2. \A i \in Item : i \in Content /\ (i > pushed => i # v)
    BY <1>1, <1>2 DEF Content, Item
  <2>3. QED
    BY <1>4, <2>1, <2>2
<1>7. ItemsWait'
  BY <1>5, <1>6 DEF Delivered, ItemsWait, At
<1>8. HandedOutOnce'
  <2>1. \A i \in Item : popped[i] + stolen[i] <= 1 /\ i \in Content
    BY DEF Delivered, HandedOutOnce, Content
  <2>2. \A i \in Item : popped'[i] + stolen'[i] <= 1
    BY <1>4, <2>1
  <2>3. QED
    BY <2>2 DEF HandedOutOnce
<1>9. OnlyWholeItems'
  <2>1. \A x \in {Torn, Junk} : popped[x] + stolen[x] = 0 /\ x \in Content /\ x # v
    BY <1>3 DEF Delivered, OnlyWholeItems, Content
  <2>2. \A x \in {Torn, Junk} : popped'[x] + stolen'[x] = 0
    BY <1>4, <2>1
  <2>3. QED
    BY <2>2 DEF OnlyWholeItems
<1>10. QED
  BY <1>7, <1>8, <1>9 DEF Delivered

(* Every step delivers each item at most once, and whole.                   *)
LEMMA StepKeepsDelivered ==
  ASSUME RingInv, RingInv', Delivered, [Next]_vars
  PROVE  Delivered'
<1>1. /\ TypeOK /\ StoresAreRecords /\ WithinRing /\ NothingBeforeInit /\ Readers /\ ReservedIsMine
      /\ TypeOK' /\ WithinRing'
  BY DEF RingInv, CoreInv
<1>2. /\ top \in Nat /\ b \in Nat /\ t \in Nat /\ capacity \in Nat /\ Last \in Nat
      /\ Bottom \in Where /\ Torn \in Content /\ top <= Last /\ pushed \in 0 .. MaxPush /\ MaxPush \in Nat
      /\ st \in [Thief -> Nat]
      /\ oPc \notin Reserving => Last = View(stores, mem, Bottom)
      /\ \A x : Owner(x) = View(stores, mem, x)
  BY <1>1, RingFacts DEF WithinRing
<1>3. ItemsWait
  BY DEF Delivered
<1>4. oPc = "push_publish" => View(stores, mem, Place(b, capacity)) = pushed + 1
  BY <1>3 DEF ItemsWait, At
(* Steps that neither store nor move _top.                                  *)
<1>5. ASSUME UNCHANGED <<capacity, pushed, popped, stolen, top, mem, stores>>, Last' = Last,
             oPc' = "push_publish" => oPc = "push_publish" /\ b' = b
      PROVE  Delivered'
  BY <1>4, <1>5, NothingTaken
<1>6. ASSUME NEW s \in Thief, StealBegin(s) \/ StealCheck(s) \/ StealReload(s) \/ StealRead(s)
      PROVE  Delivered'
  <2>1. UNCHANGED <<capacity, pushed, popped, stolen, top, mem, stores, oPc, b>>
    BY <1>6 DEF StealBegin, StealCheck, StealReload, StealRead, ownerVars
  <2>2. Last' = Last
    BY <2>1 DEF Last
  <2>3. QED
    BY <1>5, <2>1, <2>2
<1>7. ASSUME NEW s \in Thief, StealRace(s) PROVE Delivered'
  <2>1. UNCHANGED <<capacity, pushed, popped, mem, stores, oPc, b>> /\ sPc[s] = "race"
    BY <1>7 DEF StealRace, ownerVars
  <2>2. Last' = Last
    BY <2>1 DEF Last
  <2>3. CASE ~StillMine(s)
    <3>1. UNCHANGED <<top, stolen>>
      BY <1>7, <2>3 DEF StealRace
    <3>2. QED
      BY <1>5, <2>1, <2>2, <3>1
  <2>4. CASE StillMine(s)
    <3>1. top' = top + 1 /\ stolen' = [stolen EXCEPT ![sVal[s]] = @ + 1] /\ top = st[s]
      BY <1>7, <2>4 DEF StealRace, StillMine
    <3>2. top < Last /\ sVal[s] = View(stores, mem, Place(top, capacity))
      BY <1>1, <2>1, <3>1 DEF Readers, Reader, At
    <3>3. top \in top .. Last - 1 /\ \A i \in top' .. Last' - 1 : i \in top .. Last - 1 /\ i # top
      BY <1>2, <2>2, <3>1, <3>2
    <3>4. QED
      BY <2>1, <3>1, <3>2, <3>3, OneTaken
  <2>5. QED
    BY <2>3, <2>4
<1>8. ASSUME NEW c \in InitArgs, InitCall(c) PROVE Delivered'
  <2>1. /\ capacity = 0 /\ oPc = "idle" /\ UNCHANGED <<top, stores, oPc, b, pushed, popped, stolen>>
        /\ mem'[Bottom] = mem[Bottom]
    BY <1>8 DEF InitCall, Accepts, ownerVars, bottom
  <2>2. stores = <<>> /\ top = 1 /\ bottom = 1
    BY <1>1, <2>1 DEF NothingBeforeInit
  <2>3. View(stores', mem', Bottom) = 1
    BY <2>1, <2>2 DEF View, Pending, bottom
  <2>4. Last' = 1 /\ top' = 1 /\ top' .. Last' - 1 = {}
    BY <2>1, <2>2, <2>3 DEF Last, Reserving
  <2>5. ItemsWait'
    BY <1>3, <2>1, <2>4 DEF ItemsWait
  <2>6. QED
    BY <2>1, <2>5 DEF Delivered, HandedOutOnce, OnlyWholeItems
(* Positions in use have their slots.                                       *)
<1>9. \A i \in top .. Last - 1 : i \in Nat /\ capacity # 0
  <2>1. capacity = 0 => top = Last
    BY <1>1, <1>2 DEF WithinRing
  <2>2. QED
    BY <1>2, <2>1
<1>10. CASE Drain
  <2>1. /\ UNCHANGED <<top, capacity, oPc, b, pushed, popped, stolen>>
        /\ \A y \in Where : View(stores', mem', y) = View(stores, mem, y)
    BY <1>1, <1>10, DrainStep DEF Drain, ownerVars
  <2>2. Last' = Last
    BY <1>2, <2>1 DEF Last
  <2>3. \A i \in top .. Last - 1 : Place(i, capacity) \in Where
    BY <1>9, PlaceFacts
  <2>4. oPc = "push_publish" => Place(b, capacity) \in Where
    BY <1>2, OwnerFacts, PlaceFacts
  <2>5. QED
    BY <1>4, <2>1, <2>2, <2>3, <2>4, NothingTaken
<1>11. CASE PushBegin \/ PushCheck \/ PopBegin \/ PopCheck
  <2>1. /\ UNCHANGED <<capacity, pushed, popped, stolen, top, mem, stores>>
        /\ oPc \notin Reserving /\ oPc' \notin Reserving /\ oPc' # "push_publish"
    BY <1>11 DEF PushBegin, PushCheck, PopBegin, PopCheck, Reserving
  <2>2. QED
    BY <1>2, <1>5, <2>1 DEF Last
<1>12. CASE PopFence \/ PopReload \/ (PopRead /\ oPc' = "pop_race")
  <2>1. /\ UNCHANGED <<capacity, pushed, popped, stolen, top, mem, stores, b>>
        /\ oPc \in Reserving /\ oPc' \in Reserving /\ oPc' # "push_publish"
    BY <1>12 DEF PopFence, PopReload, PopRead, Reserving
  <2>2. QED
    BY <1>2, <1>5, <2>1 DEF Last
<1>13. CASE PushWriteBegins \/ PushWriteEnds
  <2>1. /\ oPc \in {"push_write", "push_written"} /\ oPc' \in {"push_written", "push_publish"}
        /\ oPc' = "push_publish" => PushWriteEnds
        /\ UNCHANGED <<capacity, pushed, popped, stolen, top, mem, b>>
    BY <1>13 DEF PushWriteBegins, PushWriteEnds
  <2>2. capacity # 0 /\ pushed + 1 \in Content /\ Last = b /\ b < top + capacity
    BY <2>1, OwnerFacts
  <2>3. Slot(b) \in Where /\ Slot(b) # Bottom /\ Slot(b) = Place(b, capacity)
    BY <1>2, <2>2, PlaceFacts
  <2>4. PICK v \in Content : /\ \A y : View(stores', mem', y) = IF Slot(b) = y THEN v ELSE View(stores, mem, y)
                             /\ oPc' = "push_publish" => v = pushed + 1
    <3>1. CASE PushWriteBegins
      BY <1>1, <1>2, <2>1, <2>3, <3>1, StoreStep DEF PushWriteBegins
    <3>2. CASE PushWriteEnds
      BY <1>1, <1>2, <2>1, <2>2, <2>3, <3>2, StoreStep DEF PushWriteEnds
    <3>3. QED
      BY <1>13, <3>1, <3>2
  <2>5. Last' = Last
    BY <2>1, <2>2, <2>3, <2>4, <1>2 DEF Last, Reserving
  <2>6. \A i \in top .. Last - 1 : Place(i, capacity) # Place(b, capacity)
    BY <1>2, <2>2, PlaceFacts
  <2>7. QED
    BY <2>1, <2>3, <2>4, <2>5, <2>6, NothingTaken
<1>14. CASE PushPublish
  <2> DEFINE v == b + 1
  <2>1. /\ oPc = "push_publish" /\ oPc' = "idle" /\ Store(Bottom, v) /\ mem' = mem
        /\ UNCHANGED <<capacity, top, popped, stolen>> /\ pushed' = pushed + 1
    BY <1>14 DEF PushPublish
  <2>2. v \in Nat /\ Last = b /\ capacity # 0 /\ top <= b /\ pushed + 1 \in Item
    BY <1>2, <2>1, OwnerFacts
  <2> HIDE DEF v
  <2>3. \A y : View(stores', mem', y) = IF Bottom = y THEN v ELSE View(stores, mem, y)
    BY <1>1, <1>2, <2>1, <2>2, StoreStep
  <2>4. Last' = b + 1
    BY <2>1, <2>3 DEF Last, Reserving, v
  <2>5. \A i \in top .. b : View(stores', mem', Place(i, capacity)) = View(stores, mem, Place(i, capacity))
    BY <1>2, <2>2, <2>3, PlaceFacts
  <2>6. ASSUME NEW i \in top .. b
        PROVE  /\ View(stores, mem, Place(i, capacity)) \in 1 .. pushed + 1
               /\ popped[View(stores, mem, Place(i, capacity))] = 0
               /\ stolen[View(stores, mem, Place(i, capacity))] = 0
               /\ \A k \in top .. b :
                    View(stores, mem, Place(i, capacity)) = View(stores, mem, Place(k, capacity)) => i = k
    <3>1. \A k \in top .. b : k = b \/ k \in top .. Last - 1
      BY <1>2, <2>2
    <3>2. View(stores, mem, Place(b, capacity)) = pushed + 1
      BY <1>4, <2>1
    <3>3. popped[pushed + 1] = 0 /\ stolen[pushed + 1] = 0
      BY <1>2, <1>3, <2>2 DEF ItemsWait
    <3>4. \A k \in top .. Last - 1 :
            /\ View(stores, mem, Place(k, capacity)) \in 1 .. pushed
            /\ popped[View(stores, mem, Place(k, capacity))] = 0
            /\ stolen[View(stores, mem, Place(k, capacity))] = 0
            /\ \A j \in top .. Last - 1 :
                 View(stores, mem, Place(k, capacity)) = View(stores, mem, Place(j, capacity)) => k = j
      BY <1>3 DEF ItemsWait, At
    <3>5. CASE i = b
      <4>1. \A k \in top .. Last - 1 : View(stores, mem, Place(k, capacity)) # pushed + 1
        BY <1>2, <3>4
      <4>2. QED
        BY <1>2, <3>1, <3>2, <3>3, <3>5, <4>1
    <3>6. CASE i \in top .. Last - 1
      <4>1. View(stores, mem, Place(i, capacity)) # pushed + 1
        BY <1>2, <3>4, <3>6
      <4>2. View(stores, mem, Place(i, capacity)) \in 1 .. pushed + 1
        BY <1>2, <3>4, <3>6
      <4>3. QED
        BY <3>1, <3>2, <3>4, <3>6, <4>1, <4>2
    <3>7. QED
      BY <3>1, <3>5, <3>6
  <2>7. \A i \in top' .. Last' - 1 : i \in top .. b
    BY <1>2, <2>1, <2>4
  <2>8. \A i \in Item : i > pushed' => popped'[i] = 0 /\ stolen'[i] = 0
    BY <1>2, <1>3, <2>1 DEF ItemsWait, Item
  <2>9. ItemsWait'
    BY <2>1, <2>5, <2>6, <2>7, <2>8 DEF ItemsWait, At
  <2>10. QED
    BY <2>1, <2>9 DEF Delivered, HandedOutOnce, OnlyWholeItems
<1>15. CASE PopReserve
  <2> DEFINE v == b - 1
  <2>1. /\ oPc = "pop_reserve" /\ oPc' = "pop_fence" /\ Store(Bottom, v) /\ mem' = mem
        /\ UNCHANGED <<capacity, top, b, pushed, popped, stolen>>
    BY <1>15 DEF PopReserve
  <2>2. v \in Nat
    BY <2>1, OwnerFacts
  <2>3. Last = b /\ Last' = b
    BY <2>1, OwnerFacts DEF Last, Reserving
  <2> HIDE DEF v
  <2>4. \A y : View(stores', mem', y) = IF Bottom = y THEN v ELSE View(stores, mem, y)
    BY <1>1, <1>2, <2>1, <2>2, StoreStep
  <2>5. \A i \in top .. Last - 1 : Place(i, capacity) # Bottom
    BY <1>9, PlaceFacts
  <2>6. QED
    BY <2>1, <2>3, <2>4, <2>5, NothingTaken
<1>16. CASE PopRead /\ oPc' # "pop_race"
  <2>1. /\ oPc = "pop_read" /\ oPc' = "idle" /\ t # b - 1
        /\ popped' = [popped EXCEPT ![Owner(Slot(b - 1))] = @ + 1] /\ stolen' = stolen
        /\ UNCHANGED <<capacity, top, stores, mem, pushed>>
    BY <1>16 DEF PopRead, LastItem
  <2>2. /\ t < b - 1 /\ b - 1 \in Nat /\ View(stores, mem, Bottom) = b - 1 /\ Last = b
        /\ capacity # 0
    BY <1>2, <2>1, OwnerFacts
  <2>3. top <= b - 1
    BY <1>1, <2>1, <2>2 DEF ReservedIsMine
  <2>4. Last' = b - 1
    BY <2>1, <2>2 DEF Last, Reserving
  <2>5. Owner(Slot(b - 1)) = View(stores, mem, Place(b - 1, capacity))
    BY <1>2, <2>2, PlaceFacts
  <2>6. b - 1 \in top .. Last - 1 /\ \A i \in top' .. Last' - 1 : i \in top .. Last - 1 /\ i # b - 1
    BY <1>2, <2>1, <2>2, <2>3, <2>4
  <2>7. QED
    BY <2>1, <2>5, <2>6, OneTaken
<1>17. CASE PopRace
  <2>1. /\ oPc = "pop_race" /\ oPc' = "pop_restore" /\ UNCHANGED <<capacity, b, stores, mem, pushed, stolen>>
        /\ IF top = t THEN top' = t + 1 /\ popped' = [popped EXCEPT ![val] = @ + 1]
                      ELSE UNCHANGED <<top, popped>>
    BY <1>17 DEF PopRace
  <2>2. /\ Last = b /\ Last' = b /\ t = b - 1 /\ b - 1 \in Nat
        /\ val = View(stores, mem, Place(b - 1, capacity))
    BY <2>1, OwnerFacts DEF Last, Reserving
  <2>3. CASE top = t
    <3>1. b - 1 \in top .. Last - 1 /\ top' .. Last' - 1 = {}
      BY <1>2, <2>1, <2>2, <2>3
    <3>2. QED
      BY <2>1, <2>2, <2>3, <3>1, OneTaken
  <2>4. CASE top # t
    BY <1>5, <2>1, <2>2, <2>4
  <2>5. QED
    BY <2>3, <2>4
<1>18. CASE PopRestore
  <2>1. /\ oPc = "pop_restore" /\ oPc' = "idle" /\ Store(Bottom, b) /\ mem' = mem
        /\ UNCHANGED <<capacity, top, b, pushed, popped, stolen>>
    BY <1>18 DEF PopRestore, Restore
  <2>2. \A y : View(stores', mem', y) = IF Bottom = y THEN b ELSE View(stores, mem, y)
    BY <1>1, <1>2, <2>1, StoreStep
  <2>3. Last = b /\ Last' = b
    BY <2>1, <2>2, OwnerFacts DEF Last, Reserving
  <2>4. \A i \in top .. Last - 1 : Place(i, capacity) # Bottom
    BY <1>9, PlaceFacts
  <2>5. QED
    BY <2>1, <2>2, <2>3, <2>4, NothingTaken
<1>19. CASE UNCHANGED vars
  BY <1>5, <1>19 DEF vars, ownerVars, thiefVars, Last
<1>20. QED
  BY <1>6, <1>7, <1>8, <1>10, <1>11, <1>12, <1>13, <1>14, <1>15, <1>16, <1>17, <1>18, <1>19
  DEF Next, OwnerStep, ThiefStep

(* The whole invariant holds of every behaviour in which no load of _top    *)
(* overtakes.                                                               *)
LEMMA DeliveredAlways == Spec /\ [][~Overtakes]_vars => [](RingInv /\ Delivered)
<1>2. Init => RingInv /\ Delivered
  <2>1. SUFFICES ASSUME Init PROVE RingInv /\ Delivered
    OBVIOUS
  <2>2. RingInv
    BY <2>1, InitRing
  <2>3. /\ top = 1 /\ oPc = "idle" /\ pushed = 0 /\ stores = <<>> /\ mem[Bottom] = 1
        /\ popped = [i \in Content |-> 0] /\ stolen = [i \in Content |-> 0]
    BY <2>1 DEF Init
  <2>4. Last = 1 /\ top .. Last - 1 = {}
    BY <2>3 DEF Last, Reserving, View, Pending
  <2>5. \A i \in Item \cup {Torn, Junk} : popped[i] = 0 /\ stolen[i] = 0
    BY <2>3 DEF Content
  <2>6. ItemsWait /\ HandedOutOnce /\ OnlyWholeItems
    BY <2>3, <2>4, <2>5 DEF ItemsWait, HandedOutOnce, OnlyWholeItems
  <2>7. QED
    BY <2>2, <2>6 DEF Delivered
<1>3. RingInv /\ Delivered /\ [Next]_vars /\ [~Overtakes]_vars => (RingInv /\ Delivered)'
  <2>1. SUFFICES ASSUME RingInv, Delivered, [Next]_vars, [~Overtakes]_vars
                 PROVE  (RingInv /\ Delivered)'
    OBVIOUS
  <2>2. ~Overtakes
    BY <2>1 DEF Overtakes, PopReload, vars, ownerVars
  <2>3. QED
    BY <2>1, <2>2, StepKeepsRing, StepKeepsDelivered
<1>4. QED
  BY <1>2, <1>3, PTL DEF Spec

(* Only by a load of _top that overtakes the store of _bottom in pop() can  *)
(* an item go out twice: as long as there was none, no item went to two     *)
(* thieves, to a thief and to pop(), or to pop() twice.  (A behaviour can   *)
(* rest after any of its states, so this speaks of every state that has no  *)
(* such load before it, whatever comes after.)                              *)
THEOREM ItemsGoOutOnce == Spec /\ [][~Overtakes]_vars => []HandedOutOnce
<1>1. RingInv /\ Delivered => HandedOutOnce
  BY DEF Delivered
<1>2. QED
  BY <1>1, DeliveredAlways, PTL

(* As long as no load has overtaken, the compare-and-swap of steal() throws *)
(* away whatever it read while push() was writing there: every item that is *)
(* handed out is whole.                                                     *)
THEOREM ItemsGoOutWhole == Spec /\ [][~Overtakes]_vars => []OnlyWholeItems
<1>1. RingInv /\ Delivered => OnlyWholeItems
  BY DEF Delivered
<1>2. QED
  BY <1>1, DeliveredAlways, PTL

(* The fence at line 101, were it one that drains the store buffer: once    *)
(* the fence is passed nothing waits, and no load of _top overtakes.        *)
THEOREM FullFencePreventsOvertaking == ASSUME FullFence PROVE Spec => [][~Overtakes]_vars
<1> DEFINE Waited == oPc = "pop_reload" => stores = <<>>
<1>1. Init => Waited
  BY DEF Init
<1>2. Waited /\ [Next]_vars => Waited'
  <2>1. SUFFICES ASSUME Waited, [Next]_vars, oPc' = "pop_reload" PROVE stores' = <<>>
    OBVIOUS
  <2>2. CASE PopFence
    BY <2>2 DEF PopFence, Fence
  <2>3. CASE Drain
    BY <2>1, <2>3 DEF Drain, ownerVars
  <2>4. CASE UNCHANGED <<oPc, stores>>
    BY <2>1, <2>4
  <2>5. QED
    BY <2>1, <2>2, <2>3, <2>4 DEF Next, OwnerStep, ThiefStep, InitCall, PushBegin, PopBegin,
       PushCheck, PushWriteBegins, PushWriteEnds, PushPublish, PopCheck, PopReserve, PopReload,
       PopRead, PopRace, PopRestore, Restore, StealBegin, StealCheck, StealReload, StealRead,
       StealRace, ownerVars, vars
<1>3. Waited => ~Overtakes
  BY DEF Overtakes, PopReload
<1>4. QED
  BY <1>1, <1>2, <1>3, PTL DEF Spec

-----------------------------------------------------------------------------
(* With any fence.  What each side takes by itself, it takes once.          *)

(* From where on the owner takes items: pop() goes by the _top it has read. *)
Low == IF oPc \in {"pop_read", "pop_race"} THEN t ELSE top

(* The owner's positions hold items of their own that it has not taken.     *)
OwnItemsWait ==
  \A i \in Low .. Last - 1 :
    /\ At(i) \in 1 .. pushed /\ popped[At(i)] = 0
    /\ \A k \in Low .. Last - 1 : At(i) = At(k) => i = k
OwnerSide ==
  /\ OwnItemsWait
  /\ oPc = "push_publish" => At(b) = pushed + 1
  /\ \A i \in Item : popped[i] <= 1 /\ (i > pushed => popped[i] = 0)

(* Steps that take nothing leave the owner's items as they are.             *)
LEMMA OwnerTakesNothing ==
  ASSUME OwnerSide, UNCHANGED <<capacity, pushed, popped>>,
         \A i \in Low' .. Last' - 1 :
           /\ i \in Low .. Last - 1
           /\ View(stores', mem', Place(i, capacity)) = View(stores, mem, Place(i, capacity)),
         oPc' = "push_publish" => View(stores', mem', Place(b', capacity)) = pushed + 1
  PROVE  OwnerSide'
<1>1. OwnItemsWait'
  BY DEF OwnerSide, OwnItemsWait, At
<1>2. QED
  BY <1>1 DEF OwnerSide, At

(* pop() takes the item of a position that it leaves.                       *)
LEMMA OwnerTakesOne ==
  ASSUME CoreInv, OwnerSide, UNCHANGED <<capacity, pushed, mem, stores>>,
         NEW p \in Low .. Last - 1, NEW v, v = View(stores, mem, Place(p, capacity)),
         popped' = [popped EXCEPT ![v] = @ + 1],
         \A i \in Low' .. Last' - 1 : i \in Low .. Last - 1 /\ i # p,
         oPc' # "push_publish"
  PROVE  OwnerSide'
<1>1. /\ pushed \in 0 .. MaxPush /\ MaxPush \in Nat /\ popped \in [Content -> Nat]
  BY CoreFacts DEF CoreInv, TypeOK
<1>2. v \in 1 .. pushed /\ popped[v] = 0
  BY DEF OwnerSide, OwnItemsWait, At
<1>3. v \in Item /\ \A i \in Item : i \in Content
  BY <1>1, <1>2 DEF Item, Content
<1>4. \A x \in Content : popped'[x] = IF x = v THEN 1 ELSE popped[x]
  BY <1>1, <1>2, <1>3
<1>5. ASSUME NEW i \in Low' .. Last' - 1
      PROVE  /\ View(stores, mem, Place(i, capacity)) \in 1 .. pushed
             /\ popped'[View(stores, mem, Place(i, capacity))] = 0
             /\ \A k \in Low' .. Last' - 1 :
                  View(stores, mem, Place(i, capacity)) = View(stores, mem, Place(k, capacity)) => i = k
  <2> DEFINE x == View(stores, mem, Place(i, capacity))
  <2>1. i \in Low .. Last - 1 /\ i # p
    OBVIOUS
  <2>2. x \in 1 .. pushed /\ popped[x] = 0 /\ x # v
    BY <2>1 DEF OwnerSide, OwnItemsWait, At
  <2>3. \A k \in Low' .. Last' - 1 : x = View(stores, mem, Place(k, capacity)) => i = k
    BY <2>1 DEF OwnerSide, OwnItemsWait, At
  <2> HIDE DEF x
  <2>4. x \in Content
    BY <1>1, <2>2 DEF Content, Item
  <2>5. popped'[x] = 0
    BY <1>4, <2>2, <2>4
  <2>6. QED
    BY <2>2, <2>3, <2>5 DEF x
<1>6. OwnItemsWait'
  BY <1>5 DEF OwnItemsWait, At
<1>7. \A i \in Item : popped'[i] <= 1 /\ (i > pushed => popped'[i] = 0)
  <2>1. \A i \in Item : popped[i] <= 1 /\ (i > pushed => popped[i] = 0) /\ (i > pushed => i # v)
    BY <1>1, <1>2 DEF OwnerSide
  <2>2. QED
    BY <1>3, <1>4, <2>1
<1>8. QED
  BY <1>6, <1>7 DEF OwnerSide

(* pop() never returns an item twice, whatever the fence does.              *)
LEMMA StepKeepsOwnerSide ==
  ASSUME CoreInv, CoreInv', OwnerSide, [Next]_vars
  PROVE  OwnerSide'
<1>1. /\ TypeOK /\ StoresAreRecords /\ NothingBeforeInit
  BY DEF CoreInv
<1>2. /\ top \in Nat /\ b \in Nat /\ t \in Nat /\ capacity \in Nat /\ Last \in Nat
      /\ Bottom \in Where /\ Torn \in Content /\ pushed \in 0 .. MaxPush /\ MaxPush \in Nat
      /\ oPc \notin Reserving => Last = View(stores, mem, Bottom)
      /\ \A x : Owner(x) = View(stores, mem, x)
      /\ oPc \in {"pop_read", "pop_race"} => t <= top /\ t <= b - 1
  BY CoreFacts, CoreOwner
<1>3. oPc = "push_publish" => View(stores, mem, Place(b, capacity)) = pushed + 1
  BY DEF OwnerSide, At
<1>4. Low \in Nat
  BY <1>2 DEF Low
(* Positions in use have their slots.                                       *)
<1>5. \A i \in Low .. Last - 1 : i \in Nat /\ capacity # 0
  <2>1. capacity = 0 => Low = 1 /\ Last = 1
    BY <1>1, <1>2 DEF NothingBeforeInit, Low, View, Pending, bottom, Reserving
  <2>2. QED
    BY <1>2, <1>4, <2>1
(* Steps that store nothing, and move _top at most.                         *)
<1>6. ASSUME UNCHANGED <<capacity, pushed, popped, mem, stores>>, Last' = Last,
             Low' \in Nat, Low <= Low',
             oPc' = "push_publish" => oPc = "push_publish" /\ b' = b
      PROVE  OwnerSide'
  <2>1. \A i \in Low' .. Last' - 1 : i \in Low .. Last - 1
    BY <1>2, <1>4, <1>6
  <2>2. QED
    BY <1>3, <1>6, <2>1, OwnerTakesNothing
<1>7. ASSUME NEW s \in Thief, ThiefStep(s) PROVE OwnerSide'
  <2>1. UNCHANGED <<capacity, pushed, popped, mem, stores, oPc, b, t>> /\ (top' = top \/ top' = top + 1)
    BY <1>7 DEF ThiefStep, StealBegin, StealCheck, StealReload, StealRead, StealRace, ownerVars
  <2>2. Last' = Last
    BY <2>1 DEF Last
  <2>3. Low' \in Nat /\ Low <= Low'
    BY <1>2, <2>1 DEF Low
  <2>4. QED
    BY <1>6, <2>1, <2>2, <2>3
<1>8. ASSUME NEW c \in InitArgs, InitCall(c) PROVE OwnerSide'
  <2>1. /\ capacity = 0 /\ oPc = "idle" /\ UNCHANGED <<top, stores, oPc, b, pushed, popped>>
        /\ mem'[Bottom] = mem[Bottom]
    BY <1>8 DEF InitCall, Accepts, ownerVars, bottom
  <2>2. stores = <<>> /\ top = 1 /\ bottom = 1
    BY <1>1, <2>1 DEF NothingBeforeInit
  <2>3. View(stores', mem', Bottom) = 1
    BY <2>1, <2>2 DEF View, Pending, bottom
  <2>4. Last' = 1 /\ Low' = 1 /\ Low' .. Last' - 1 = {}
    BY <2>1, <2>2, <2>3 DEF Last, Low, Reserving
  <2>5. QED
    BY <2>1, <2>4 DEF OwnerSide, OwnItemsWait
<1>9. CASE Drain
  <2>1. /\ UNCHANGED <<top, capacity, oPc, b, t, pushed, popped>>
        /\ \A y \in Where : View(stores', mem', y) = View(stores, mem, y)
    BY <1>1, <1>9, DrainStep DEF Drain, ownerVars
  <2>2. Last' = Last /\ Low' = Low
    BY <1>2, <2>1 DEF Last, Low
  <2>3. \A i \in Low .. Last - 1 : Place(i, capacity) \in Where
    BY <1>5, CorePlaces
  <2>4. oPc = "push_publish" => Place(b, capacity) \in Where
    BY <1>2, CoreOwner, CorePlaces
  <2>5. QED
    BY <1>3, <2>1, <2>2, <2>3, <2>4, OwnerTakesNothing
<1>10. CASE PushBegin \/ PushCheck \/ PopBegin \/ PopCheck
  <2>1. /\ UNCHANGED <<capacity, pushed, popped, top, mem, stores>>
        /\ oPc \notin Reserving /\ oPc' \notin Reserving /\ oPc' # "push_publish"
    BY <1>10 DEF PushBegin, PushCheck, PopBegin, PopCheck, Reserving
  <2>2. Last' = Last /\ Low' = Low /\ Low' = top
    BY <1>2, <2>1 DEF Last, Low, Reserving
  <2>3. QED
    BY <1>2, <1>6, <2>1, <2>2
<1>11. CASE PopFence \/ PopReload \/ (PopRead /\ oPc' = "pop_race")
  <2>1. /\ UNCHANGED <<capacity, pushed, popped, top, mem, stores, b>>
        /\ oPc \in Reserving /\ oPc' \in Reserving /\ oPc' # "push_publish"
        /\ oPc' = "pop_race" => oPc = "pop_read" /\ t' = t
        /\ oPc' = "pop_read" => t' = top /\ oPc = "pop_reload"
        /\ oPc' # "pop_race" => oPc \notin {"pop_read", "pop_race"}
    BY <1>11 DEF PopFence, PopReload, PopRead, Reserving
  <2>2. Last' = Last
    BY <2>1 DEF Last
  <2>3. Low' = Low
    BY <2>1 DEF Low
  <2>4. QED
    BY <1>2, <1>4, <1>6, <2>1, <2>2, <2>3
<1>12. CASE PushWriteBegins \/ PushWriteEnds
  <2>1. /\ oPc \in {"push_write", "push_written"} /\ oPc' \in {"push_written", "push_publish"}
        /\ oPc' = "push_publish" => PushWriteEnds
        /\ UNCHANGED <<capacity, pushed, popped, top, mem, b>>
    BY <1>12 DEF PushWriteBegins, PushWriteEnds
  <2>2. capacity # 0 /\ pushed + 1 \in Content /\ Last = b /\ b < top + capacity
    BY <2>1, CoreOwner
  <2>3. Slot(b) \in Where /\ Slot(b) # Bottom /\ Slot(b) = Place(b, capacity)
    BY <1>2, <2>2, CorePlaces
  <2>4. PICK v \in Content : /\ \A y : View(stores', mem', y) = IF Slot(b) = y THEN v ELSE View(stores, mem, y)
                             /\ oPc' = "push_publish" => v = pushed + 1
    <3>1. CASE PushWriteBegins
      BY <1>1, <1>2, <2>1, <2>3, <3>1, StoreStep DEF PushWriteBegins
    <3>2. CASE PushWriteEnds
      BY <1>1, <1>2, <2>1, <2>2, <2>3, <3>2, StoreStep DEF PushWriteEnds
    <3>3. QED
      BY <1>12, <3>1, <3>2
  <2>5. Last' = Last /\ Low = top /\ Low' = top
    BY <2>1, <2>2, <2>3, <2>4, <1>2 DEF Last, Low, Reserving
  <2>6. \A i \in Low .. Last - 1 : Place(i, capacity) # Place(b, capacity)
    <3>1. \A i \in Low .. Last - 1 : i \in Nat /\ i < b /\ b < i + capacity
      BY <1>2, <2>2, <2>5
    <3>2. QED
      BY <1>2, <2>2, <3>1, CorePlaces
  <2>7. QED
    BY <2>1, <2>3, <2>4, <2>5, <2>6, OwnerTakesNothing
<1>13. CASE PushPublish
  <2> DEFINE v == b + 1
  <2>1. /\ oPc = "push_publish" /\ oPc' = "idle" /\ Store(Bottom, v) /\ mem' = mem
        /\ UNCHANGED <<capacity, top, popped>> /\ pushed' = pushed + 1
    BY <1>13 DEF PushPublish
  <2>2. v \in Nat /\ Last = b /\ capacity # 0 /\ pushed + 1 \in Item
    BY <1>2, <2>1, CoreOwner
  <2> HIDE DEF v
  <2>3. \A y : View(stores', mem', y) = IF Bottom = y THEN v ELSE View(stores, mem, y)
    BY <1>1, <1>2, <2>1, <2>2, StoreStep
  <2>4. Last' = b + 1 /\ Low' = top /\ Low = top
    BY <2>1, <2>3 DEF Last, Low, Reserving, v
  <2>5. \A i \in Nat : View(stores', mem', Place(i, capacity)) = View(stores, mem, Place(i, capacity))
    BY <2>2, <2>3, CorePlaces
  <2>6. ASSUME NEW i \in top .. b
        PROVE  /\ View(stores, mem, Place(i, capacity)) \in 1 .. pushed + 1
               /\ popped[View(stores, mem, Place(i, capacity))] = 0
               /\ \A k \in top .. b :
                    View(stores, mem, Place(i, capacity)) = View(stores, mem, Place(k, capacity)) => i = k
    <3>1. \A k \in top .. b : k = b \/ k \in Low .. Last - 1
      BY <1>2, <2>2, <2>4
    <3>2. View(stores, mem, Place(b, capacity)) = pushed + 1
      BY <1>3, <2>1
    <3>3. popped[pushed + 1] = 0
      BY <1>2, <2>2 DEF OwnerSide
    <3>4. \A k \in Low .. Last - 1 :
            /\ View(stores, mem, Place(k, capacity)) \in 1 .. pushed
            /\ popped[View(stores, mem, Place(k, capacity))] = 0
            /\ \A j \in Low .. Last - 1 :
                 View(stores, mem, Place(k, capacity)) = View(stores, mem, Place(j, capacity)) => k = j
      BY DEF OwnerSide, OwnItemsWait, At
    <3>5. \A k \in Low .. Last - 1 : View(stores, mem, Place(k, capacity)) # pushed + 1
      BY <1>2, <3>4
    <3>6. CASE i = b
      BY <1>2, <3>1, <3>2, <3>3, <3>5, <3>6
    <3>7. CASE i \in Low .. Last - 1
      <4>1. View(stores, mem, Place(i, capacity)) \in 1 .. pushed + 1
        BY <1>2, <3>4, <3>7
      <4>2. QED
        BY <3>1, <3>2, <3>4, <3>5, <3>7, <4>1
    <3>8. QED
      BY <3>1, <3>6, <3>7
  <2>7. \A i \in Low' .. Last' - 1 : i \in top .. b /\ i \in Nat
    BY <1>2, <2>4
  <2>8. \A i \in Item : popped'[i] <= 1 /\ (i > pushed' => popped'[i] = 0)
    BY <1>2, <2>1 DEF OwnerSide, Item
  <2>9. OwnItemsWait'
    BY <2>1, <2>5, <2>6, <2>7 DEF OwnItemsWait, At
  <2>10. QED
    BY <2>1, <2>8, <2>9 DEF OwnerSide
<1>14. CASE PopReserve \/ PopRestore
  <2>1. /\ (oPc = "pop_reserve" /\ oPc' = "pop_fence") \/ (oPc = "pop_restore" /\ oPc' = "idle")
        /\ mem' = mem /\ UNCHANGED <<capacity, top, b, pushed, popped>>
    BY <1>14 DEF PopReserve, PopRestore, Restore
  <2>2. PICK v \in Nat : Store(Bottom, v) /\ (oPc = "pop_restore" => v = b)
    <3>1. CASE PopReserve
      <4>1. b - 1 \in Nat /\ Store(Bottom, b - 1) /\ oPc = "pop_reserve"
        BY <3>1, CoreOwner DEF PopReserve
      <4>2. QED
        BY <4>1
    <3>2. CASE PopRestore
      BY <1>2, <3>2 DEF PopRestore, Restore
    <3>3. QED
      BY <1>14, <3>1, <3>2
  <2>3. Last = b /\ Low = top /\ Low' = top
    BY <2>1, CoreOwner DEF Low
  <2>4. \A y : View(stores', mem', y) = IF Bottom = y THEN v ELSE View(stores, mem, y)
    BY <1>1, <1>2, <2>1, <2>2, StoreStep
  <2>5. Last' = b
    BY <2>1, <2>2, <2>4 DEF Last, Reserving
  <2>6. \A i \in Low .. Last - 1 : Place(i, capacity) # Bottom
    BY <1>5, CorePlaces
  <2>7. QED
    BY <2>1, <2>3, <2>4, <2>5, <2>6, OwnerTakesNothing
<1>15. CASE PopRead /\ oPc' # "pop_race"
  <2>1. /\ oPc = "pop_read" /\ oPc' = "idle" /\ t # b - 1
        /\ popped' = [popped EXCEPT ![Owner(Slot(b - 1))] = @ + 1]
        /\ UNCHANGED <<capacity, top, stores, mem, pushed>>
    BY <1>15 DEF PopRead, LastItem
  <2>2. /\ t < b - 1 /\ b - 1 \in Nat /\ View(stores, mem, Bottom) = b - 1 /\ Last = b
        /\ capacity # 0 /\ t <= top
    BY <1>2, <2>1, CoreOwner
  <2>3. Last' = b - 1 /\ Low = t /\ Low' = top
    BY <2>1, <2>2 DEF Last, Low, Reserving
  <2>4. Owner(Slot(b - 1)) = View(stores, mem, Place(b - 1, capacity))
    BY <1>2, <2>2, CorePlaces
  <2>5. b - 1 \in Low .. Last - 1 /\ \A i \in Low' .. Last' - 1 : i \in Low .. Last - 1 /\ i # b - 1
    BY <1>2, <2>2, <2>3
  <2>6. QED
    BY <2>1, <2>4, <2>5, OwnerTakesOne
<1>16. CASE PopRace
  <2>1. /\ oPc = "pop_race" /\ oPc' = "pop_restore" /\ UNCHANGED <<capacity, b, t, stores, mem, pushed>>
        /\ IF top = t THEN top' = t + 1 /\ popped' = [popped EXCEPT ![val] = @ + 1]
                      ELSE UNCHANGED <<top, popped>>
    BY <1>16 DEF PopRace
  <2>2. /\ Last = b /\ Last' = b /\ t = b - 1 /\ b - 1 \in Nat /\ Low = t /\ t <= top
        /\ val = View(stores, mem, Place(b - 1, capacity)) /\ Low' = top'
    BY <2>1, CoreOwner DEF Last, Low, Reserving
  <2>3. CASE top = t
    <3>1. b - 1 \in Low .. Last - 1 /\ Low' .. Last' - 1 = {}
      BY <1>2, <2>1, <2>2, <2>3
    <3>2. QED
      BY <2>1, <2>2, <2>3, <3>1, OwnerTakesOne
  <2>4. CASE top # t
    BY <1>2, <1>6, <2>1, <2>2, <2>4
  <2>5. QED
    BY <2>3, <2>4
<1>17. CASE UNCHANGED vars
  BY <1>2, <1>4, <1>6, <1>17 DEF vars, ownerVars, thiefVars, Last, Low
<1>18. QED
  BY <1>7, <1>8, <1>9, <1>10, <1>11, <1>12, <1>13, <1>14, <1>15, <1>16, <1>17
  DEF Next, OwnerStep

-----------------------------------------------------------------------------
(* Thieves compete on _top alone.  Memory, what waits in the store buffer   *)
(* and what a thief has read are looked at together.                        *)
Slots == 0 .. capacity - 1
SlotStores == {i \in DOMAIN stores : stores[i].at # Bottom}
Racing == {s \in Thief : sPc[s] = "race"}
Fresh(v) == v \in Item => stolen[v] = 0
(* How many items there are, the one push() has written and not published   *)
(* among them.                                                              *)
Made == IF oPc = "push_publish" THEN pushed + 1 ELSE pushed

(* An item is in one slot, and what a thief holds of it is a copy of that.  *)
OneSlotEach ==
  /\ \A x, y \in Slots : mem[x] = mem[y] /\ mem[x] \in Item => x = y
  /\ \A s \in Racing, x \in Slots :
       mem[x] = sVal[s] /\ mem[x] \in Item => x = Place(st[s], capacity)

(* An item on its way to memory is not there yet, and nobody has it.        *)
PendingAreNew ==
  \A i \in SlotStores : stores[i].val \in Item =>
    /\ \A x \in Slots : mem[x] # stores[i].val
    /\ \A s \in Racing : sVal[s] # stores[i].val
    /\ \A j \in SlotStores : stores[j].val = stores[i].val => j = i
    /\ Fresh(stores[i].val)

(* No item is seen anywhere before push() has made it.                      *)
OnlyMade ==
  /\ \A x \in Slots : mem[x] \in Item => mem[x] <= Made
  /\ \A i \in SlotStores : stores[i].val \in Item => stores[i].val <= Made
  /\ \A s \in Racing : sVal[s] \in Item => sVal[s] <= Made
  /\ \A v \in Item : v > Made => Fresh(v)

(* What lies from _top to before v is not stolen, or one of the first n     *)
(* stores will write there.                                                 *)
Covered(v, n) ==
  /\ v <= top + capacity
  /\ \A p \in top .. v - 1 :
       \/ Fresh(mem[Place(p, capacity)])
       \/ \E h \in 1 .. n : stores[h].at = Place(p, capacity)

(* Whichever _bottom a thief reads, now or when the stores before it have   *)
(* reached memory, nothing between it and _top was stolen already.          *)
StolenAreGone ==
  /\ \A s \in Thief : st[s] <= top
  /\ Covered(bottom, 0)
  /\ \A j \in DOMAIN stores : stores[j].at = Bottom => Covered(stores[j].val, j - 1)
  /\ oPc = "push_publish" /\ top <= b => Fresh(pushed + 1)
  /\ \A s \in Thief : sPc[s] = "read" /\ st[s] = top => Fresh(mem[Place(top, capacity)])
  /\ \A s \in Racing : st[s] = top => Fresh(sVal[s])
StolenOnce == \A i \in Item : stolen[i] <= 1

ThiefSide == OneSlotEach /\ PendingAreNew /\ OnlyMade /\ StolenAreGone /\ StolenOnce
WeakInv == CoreInv /\ OwnerSide /\ ThiefSide

(* So it is of the _bottom that the owner itself sees.                      *)
LEMMA OwnerIsCovered ==
  ASSUME CoreInv, StolenAreGone
  PROVE  Covered(View(stores, mem, Bottom), Len(stores))
<1>1. /\ stores \in Seq([at : Where, val : Content \cup Nat])
      /\ DOMAIN stores = 1 .. Len(stores) /\ Len(stores) \in Nat
  BY CoreFacts DEF CoreInv, StoresAreRecords
<1>2. CASE Pending(stores, Bottom) = {}
  <2>1. View(stores, mem, Bottom) = bottom
    BY <1>1, <1>2, ViewIsYoungest DEF bottom
  <2>2. Covered(bottom, 0) /\ 1 .. 0 = {}
    BY DEF StolenAreGone
  <2>3. QED
    BY <2>1, <2>2 DEF Covered
<1>3. CASE Pending(stores, Bottom) # {}
  <2>1. PICK j \in Pending(stores, Bottom) : \A k \in Pending(stores, Bottom) : k <= j
    BY <1>1, <1>3, ViewIsYoungest
  <2>2. View(stores, mem, Bottom) = stores[j].val
    <3>1. \A i \in Pending(stores, Bottom) :
            (\A k \in Pending(stores, Bottom) : k <= i) =>
              View(stores, mem, Bottom) = stores[i].val
      BY <1>1, ViewIsYoungest
    <3>2. QED
      BY <2>1, <3>1
  <2>3. j \in 1 .. Len(stores) /\ stores[j].at = Bottom
    BY <1>1, <2>1 DEF Pending
  <2>4. Covered(stores[j].val, j - 1)
    BY <1>1, <2>3 DEF StolenAreGone
  <2>5. 1 .. j - 1 \subseteq 1 .. Len(stores)
    BY <1>1, <2>3
  <2>6. QED
    BY <2>2, <2>4, <2>5 DEF Covered
<1>4. QED
  BY <1>2, <1>3

(* Steps that leave memory, the buffer and the thieves' values alone, and   *)
(* move _top, if at all, without a theft.                                   *)
LEMMA NothingStolen ==
  ASSUME CoreInv, ThiefSide, UNCHANGED <<capacity, mem, stores, thiefVars, stolen>>,
         Made' = Made, top' \in Nat, top <= top',
         oPc' = "push_publish" => oPc = "push_publish" /\ b' = b /\ pushed' = pushed
  PROVE  ThiefSide'
<1>1. /\ top \in Nat /\ capacity \in Nat /\ bottom \in Nat /\ st \in [Thief -> Nat] /\ b \in Nat
      /\ StoresTyped
  BY CoreFacts DEF CoreInv, TypeOK, StoresTyped
<1>2. OneSlotEach' /\ PendingAreNew' /\ OnlyMade' /\ StolenOnce'
  BY DEF ThiefSide, OneSlotEach, PendingAreNew, OnlyMade, StolenOnce, Slots, SlotStores, Racing,
         Fresh, thiefVars
<1>3. \A v, n : v \in Nat /\ Covered(v, n) =>
         /\ v <= top' + capacity
         /\ \A p \in top' .. v - 1 :
              \/ Fresh(mem[Place(p, capacity)])
              \/ \E h \in 1 .. n : stores[h].at = Place(p, capacity)
  <2>1. \A v \in Nat : top' .. v - 1 \subseteq top .. v - 1
    BY <1>1
  <2>2. ASSUME NEW v \in Nat, v <= top + capacity PROVE v <= top' + capacity
    <3>1. \A x, y, c \in Nat : v <= x + c /\ x <= y => v <= y + c
      OBVIOUS
    <3>2. QED
      BY <1>1, <2>2, <3>1
  <2>3. QED
    BY <2>1, <2>2 DEF Covered
<1>4. bottom' = bottom /\ \A j \in DOMAIN stores : stores[j].at = Bottom => stores[j].val \in Nat
  <2>1. Bottom \notin 0 .. capacity - 1
    BY <1>1 DEF Bottom
  <2>2. QED
    BY <1>1, <2>1 DEF bottom, StoresTyped
<1>5. Covered(bottom, 0)' /\ (\A j \in DOMAIN stores : stores[j].at = Bottom => Covered(stores[j].val, j - 1))'
  BY <1>1, <1>3, <1>4 DEF ThiefSide, StolenAreGone, Covered, Fresh
<1>6. \A s \in Thief : st[s] <= top /\ st[s] <= top' /\ (st[s] = top' => top' = top)
  BY <1>1 DEF ThiefSide, StolenAreGone
<1>7. oPc' = "push_publish" /\ top' <= b' => top <= b
  BY <1>1
<1>8. StolenAreGone'
  BY <1>5, <1>6, <1>7 DEF ThiefSide, StolenAreGone, Fresh, Racing, thiefVars
<1>9. QED
  BY <1>2, <1>8 DEF ThiefSide

(* A theft is of an item that nobody has stolen, and no other of the        *)
(* positions in use holds it.                                               *)
LEMMA OneStolen ==
  ASSUME CoreInv, OwnerSide, ThiefSide, NEW s \in Thief, StealRace(s), StillMine(s)
  PROVE  ThiefSide'
<1> DEFINE v == sVal[s]
<1>1. /\ sPc[s] = "race" /\ st[s] = top /\ top' = top + 1
      /\ stolen' = [stolen EXCEPT ![v] = @ + 1] /\ sPc' = [sPc EXCEPT ![s] = "idle"]
      /\ UNCHANGED <<capacity, mem, stores, oPc, b, st, sVal, pushed, bottom>> /\ Made' = Made
  BY DEF StealRace, StillMine, ownerVars, bottom, Made
<1>2. /\ top \in Nat /\ capacity \in Nat /\ bottom \in Nat /\ st \in [Thief -> Nat] /\ b \in Nat
      /\ sPc \in [Thief -> {"idle", "empty", "reload", "read", "race"}]
      /\ stolen \in [Content -> Nat] /\ v \in Content /\ capacity # 0
      /\ pushed \in 0 .. MaxPush /\ MaxPush \in Nat
      /\ DOMAIN stores = 1 .. Len(stores) /\ Len(stores) \in Nat
  BY <1>1, CoreFacts DEF CoreInv, TypeOK, NothingBeforeInit
<1>3. s \in Racing /\ Fresh(v) /\ \A i \in Item : i \in Content
  BY <1>1 DEF Racing, ThiefSide, StolenAreGone, Content
<1>4. Racing' \subseteq Racing /\ Slots' = Slots /\ SlotStores' = SlotStores
  BY <1>1, <1>2 DEF Racing, Slots, SlotStores
<1> HIDE DEF v
(* Every other item is as fresh as it was.                                  *)
<1>5. \A x : x # v /\ Fresh(x) => Fresh(x)'
  BY <1>1, <1>2, <1>3 DEF Fresh
<1>6. StolenOnce'
  <2>1. \A i \in Item : stolen'[i] = IF i = v THEN stolen[i] + 1 ELSE stolen[i]
    BY <1>1, <1>2, <1>3
  <2>2. v \in Item => stolen[v] = 0
    BY <1>3 DEF Fresh
  <2>3. QED
    BY <2>1, <2>2 DEF ThiefSide, StolenOnce
<1>7. OneSlotEach'
  BY <1>1, <1>4 DEF ThiefSide, OneSlotEach
<1>8. PendingAreNew'
  <2>1. \A i \in SlotStores : stores[i].val \in Item => stores[i].val # v
    BY <1>3 DEF ThiefSide, PendingAreNew, v
  <2>2. QED
    BY <1>1, <1>4, <1>5, <2>1 DEF ThiefSide, PendingAreNew
<1>9. OnlyMade'
  <2>1. \A x \in Item : x > Made => x # v
    <3>1. Made \in Nat /\ (v \in Item => v <= Made)
      BY <1>2, <1>3 DEF ThiefSide, OnlyMade, Made, v
    <3>2. QED
      BY <3>1 DEF Item
  <2>2. QED
    BY <1>1, <1>4, <1>5, <2>1 DEF ThiefSide, OnlyMade
<1>10. ASSUME NEW p \in Nat, top < p, p < top + capacity, Fresh(mem[Place(p, capacity)])
       PROVE  Fresh(mem[Place(p, capacity)])'
  <2>1. Place(p, capacity) # Place(top, capacity)
    BY <1>2, <1>10, CorePlaces
  <2>2. Place(p, capacity) \in Slots
    BY <1>2, PlaceIsASlot DEF Slots
  <2>3. mem[Place(p, capacity)] \in Item => mem[Place(p, capacity)] # v
    BY <1>1, <1>3, <2>1, <2>2 DEF ThiefSide, OneSlotEach, v
  <2>4. CASE mem[Place(p, capacity)] # v
    BY <1>1, <1>5, <1>10, <2>4 DEF Fresh
  <2>5. CASE mem[Place(p, capacity)] \notin Item
    BY <1>1, <2>5 DEF Fresh
  <2>6. QED
    BY <2>3, <2>4, <2>5
<1>11. ASSUME NEW w \in Nat, NEW n, Covered(w, n)
       PROVE  /\ w <= top' + capacity
              /\ \A p \in top' .. w - 1 :
                   \/ Fresh(mem[Place(p, capacity)])'
                   \/ \E h \in 1 .. n : stores[h].at = Place(p, capacity)
  <2>1. w <= top + capacity
    BY <1>11 DEF Covered
  <2>2. \A p \in top' .. w - 1 : p \in Nat /\ top < p /\ p < top + capacity /\ p \in top .. w - 1
    BY <1>1, <1>2, <2>1
  <2>3. QED
    BY <1>1, <1>2, <1>10, <1>11, <2>1, <2>2 DEF Covered
<1>12. \A j \in DOMAIN stores : stores[j].at = Bottom => stores[j].val \in Nat
  <2>1. Bottom \notin 0 .. capacity - 1
    BY <1>2 DEF Bottom
  <2>2. QED
    BY <2>1 DEF CoreInv, TypeOK
<1>13. Covered(bottom, 0)' /\ (\A j \in DOMAIN stores : stores[j].at = Bottom => Covered(stores[j].val, j - 1))'
  <2>1. Covered(bottom, 0)'
    <3>1. Covered(bottom, 0)
      BY DEF ThiefSide, StolenAreGone
    <3>2. /\ bottom <= top' + capacity
          /\ \A p \in top' .. bottom - 1 :
               \/ Fresh(mem[Place(p, capacity)])'
               \/ \E h \in 1 .. 0 : stores[h].at = Place(p, capacity)
      BY <1>2, <1>11, <3>1
    <3>3. QED
      BY <1>1, <3>2 DEF Covered
  <2>2. ASSUME NEW j \in DOMAIN stores, stores[j].at = Bottom PROVE Covered(stores[j].val, j - 1)'
    <3>1. Covered(stores[j].val, j - 1) /\ stores[j].val \in Nat
      BY <1>12, <2>2 DEF ThiefSide, StolenAreGone
    <3>2. /\ stores[j].val <= top' + capacity
          /\ \A p \in top' .. stores[j].val - 1 :
               \/ Fresh(mem[Place(p, capacity)])'
               \/ \E h \in 1 .. j - 1 : stores[h].at = Place(p, capacity)
      BY <1>11, <3>1
    <3>3. QED
      BY <1>1, <3>2 DEF Covered
  <2>3. QED
    BY <1>1, <2>1, <2>2
<1>14. \A r \in Thief : st'[r] <= top' /\ st'[r] # top'
  BY <1>1, <1>2 DEF ThiefSide, StolenAreGone
<1>15. oPc' = "push_publish" /\ top' <= b' => Fresh(pushed + 1)'
  <2>1. SUFFICES ASSUME oPc = "push_publish", top + 1 <= b PROVE pushed + 1 # v /\ Fresh(pushed + 1)
    BY <1>1, <1>5 DEF Fresh
  <2>2. Fresh(pushed + 1) /\ pushed + 1 \in Item /\ b < top + capacity
    BY <1>2, <2>1, CoreOwner DEF ThiefSide, StolenAreGone
  <2>3. View(stores, mem, Place(b, capacity)) = pushed + 1
    BY <2>1 DEF OwnerSide, At
  <2>4. Place(b, capacity) # Place(top, capacity) /\ Place(b, capacity) \in Slots
        /\ Place(b, capacity) # Bottom
    <3>1. top < b /\ b < top + capacity /\ capacity > 0
      BY <1>2, <2>1, <2>2
    <3>2. Place(top, capacity) # Place(b, capacity)
      BY <1>2, <3>1, CorePlaces
    <3>3. QED
      BY <1>2, <3>1, <3>2, PlaceIsASlot DEF Slots
  <2>5. stores \in Seq([at : Where, val : Content \cup Nat])
    BY DEF CoreInv, StoresAreRecords
  <2>6. CASE Pending(stores, Place(b, capacity)) = {}
    <3>1. mem[Place(b, capacity)] = pushed + 1
      BY <2>3, <2>5, <2>6, ViewIsYoungest
    <3>2. QED
      BY <1>1, <1>3, <2>2, <2>4, <3>1 DEF ThiefSide, OneSlotEach, v
  <2>7. CASE Pending(stores, Place(b, capacity)) # {}
    <3>1. PICK i \in Pending(stores, Place(b, capacity)) :
            \A j \in Pending(stores, Place(b, capacity)) : j <= i
      BY <2>5, <2>7, ViewIsYoungest
    <3>2. stores[i].val = pushed + 1
      BY <2>3, <2>5, <3>1, ViewIsYoungest
    <3>3. i \in SlotStores
      BY <2>4 DEF Pending, SlotStores
    <3>4. QED
      BY <1>3, <2>2, <3>2, <3>3 DEF ThiefSide, PendingAreNew, v
  <2>8. QED
    BY <2>6, <2>7
<1>16. StolenAreGone'
  BY <1>1, <1>13, <1>14, <1>15, <1>4 DEF StolenAreGone, Racing
<1>17. QED
  BY <1>6, <1>7, <1>8, <1>9, <1>16 DEF ThiefSide

(* A new value of _bottom waits behind all that waits already.              *)
LEMMA BottomStored ==
  ASSUME CoreInv, ThiefSide, NEW v \in Nat, Store(Bottom, v), Covered(v, Len(stores)),
         UNCHANGED <<capacity, top, mem, thiefVars, stolen, b>>, Made' = Made,
         oPc' # "push_publish"
  PROVE  ThiefSide'
<1> DEFINE n == Len(stores)
<1>1. /\ DOMAIN stores = 1 .. n /\ n \in Nat /\ n + 1 - 1 = n
  BY CoreFacts
<1>2. /\ DOMAIN stores' = 1 .. n + 1
      /\ \A i \in DOMAIN stores : stores'[i] = stores[i]
      /\ stores'[n + 1] = [at |-> Bottom, val |-> v]
      /\ \A i \in DOMAIN stores' : i \in DOMAIN stores \/ i = n + 1
  BY CoreFacts, StoreStep DEF CoreInv
<1> HIDE DEF n
<1>3. stores'[n + 1].at = Bottom /\ stores'[n + 1].val = v
  BY <1>2
<1>4. SlotStores' = SlotStores /\ \A i \in SlotStores : stores'[i] = stores[i]
  BY <1>1, <1>2, <1>3 DEF SlotStores
<1>5. /\ Slots' = Slots /\ Racing' = Racing /\ bottom' = bottom
      /\ \A x : Fresh(x)' <=> Fresh(x)
  BY DEF Slots, Racing, bottom, Fresh, thiefVars
<1>6. OneSlotEach' /\ PendingAreNew' /\ OnlyMade' /\ StolenOnce'
  BY <1>4, <1>5 DEF ThiefSide, OneSlotEach, PendingAreNew, OnlyMade, StolenOnce, Fresh, thiefVars
<1>7. ASSUME NEW j \in DOMAIN stores', stores'[j].at = Bottom
      PROVE  Covered(stores[j].val, j - 1)'
  <2>1. CASE j \in DOMAIN stores
    <3>1. Covered(stores[j].val, j - 1) /\ stores'[j] = stores[j]
      BY <1>2, <1>7, <2>1 DEF ThiefSide, StolenAreGone
    <3>2. \A h \in 1 .. j - 1 : stores'[h] = stores[h]
      BY <1>1, <1>2, <2>1
    <3>3. QED
      BY <3>1, <3>2 DEF Covered, Fresh
  <2>2. CASE j = n + 1
    <3>1. stores'[j].val = v /\ j - 1 = n /\ Covered(v, n)
      BY <1>1, <1>3, <2>2 DEF n
    <3>2. \A h \in 1 .. n : stores'[h] = stores[h]
      BY <1>1, <1>2
    <3>3. QED
      BY <3>1, <3>2 DEF Covered, Fresh
  <2>3. QED
    BY <1>2, <2>1, <2>2
<1>8. Covered(bottom, 0)'
  BY <1>5 DEF ThiefSide, StolenAreGone, Covered
<1>9. StolenAreGone'
  BY <1>5, <1>7, <1>8 DEF ThiefSide, StolenAreGone, thiefVars
<1>10. QED
  BY <1>6, <1>9 DEF ThiefSide

(* push() writes a slot: half of an item, or one that is new.               *)
LEMMA SlotStored ==
  ASSUME CoreInv, ThiefSide, NEW x \in Slots, NEW v \in Content, Store(x, v),
         UNCHANGED <<capacity, top, mem, thiefVars, stolen, b, pushed>>,
         oPc \in {"push_write", "push_written"},
         v \in Item => v = pushed + 1 /\ oPc' = "push_publish" /\ oPc = "push_written",
         oPc' \in {"push_written", "push_publish"}
  PROVE  ThiefSide'
<1> DEFINE n == Len(stores)
<1>1. /\ DOMAIN stores = 1 .. n /\ n \in Nat /\ pushed \in Nat
      /\ x \in Where /\ x # Bottom /\ Made = pushed /\ (v \in Item => Made' = v)
      /\ (Made' = pushed \/ Made' = pushed + 1) /\ capacity \in Nat
      /\ pushed + 1 \in Item
  BY CoreFacts, CoreOwner DEF Slots, Where, Bottom, Made
<1>2. /\ DOMAIN stores' = 1 .. n + 1
      /\ \A i \in DOMAIN stores : stores'[i] = stores[i]
      /\ stores'[n + 1] = [at |-> x, val |-> v]
      /\ \A i \in DOMAIN stores' : i \in DOMAIN stores \/ i = n + 1
  BY <1>1, StoreStep DEF CoreInv
<1> HIDE DEF n
<1>3. stores'[n + 1].at = x /\ stores'[n + 1].val = v
  BY <1>2
<1>4. /\ SlotStores' = SlotStores \cup {n + 1} /\ n + 1 \notin SlotStores
      /\ \A i \in SlotStores : stores'[i] = stores[i]
  BY <1>1, <1>2, <1>3 DEF SlotStores
<1>5. /\ Slots' = Slots /\ Racing' = Racing /\ bottom' = bottom
      /\ \A y : Fresh(y)' <=> Fresh(y)
  BY DEF Slots, Racing, bottom, Fresh, thiefVars
<1>6. OneSlotEach' /\ StolenOnce'
  BY <1>5 DEF ThiefSide, OneSlotEach, StolenOnce, thiefVars
(* A new item is like none there is.                                        *)
<1>7. v \in Item => /\ \A y \in Slots : mem[y] # v
                    /\ \A s \in Racing : sVal[s] # v
                    /\ \A i \in SlotStores : stores[i].val # v
                    /\ Fresh(v)
  BY <1>1 DEF ThiefSide, OnlyMade
<1>8. PendingAreNew'
  <2>1. ASSUME NEW i \in SlotStores', stores'[i].val \in Item
        PROVE  /\ \A y \in Slots : mem[y] # stores'[i].val
               /\ \A s \in Racing : sVal[s] # stores'[i].val
               /\ \A j \in SlotStores' : stores'[j].val = stores'[i].val => j = i
               /\ Fresh(stores'[i].val)
    <3>1. CASE i \in SlotStores
      <4>1. stores'[i] = stores[i]
        BY <1>4, <3>1
      <4>2. /\ \A y \in Slots : mem[y] # stores'[i].val
            /\ \A s \in Racing : sVal[s] # stores'[i].val
            /\ \A j \in SlotStores : stores'[j].val = stores'[i].val => j = i
            /\ Fresh(stores'[i].val)
        BY <1>4, <2>1, <3>1, <4>1 DEF ThiefSide, PendingAreNew
      <4>3. stores'[n + 1].val # stores'[i].val
        BY <1>3, <1>7, <2>1, <3>1, <4>1
      <4>4. QED
        BY <1>4, <4>2, <4>3
    <3>2. CASE i = n + 1
      BY <1>3, <1>4, <1>7, <2>1, <3>2
    <3>3. QED
      BY <1>4, <3>1, <3>2
  <2>2. QED
    BY <1>5, <2>1 DEF PendingAreNew, thiefVars
<1>9. OnlyMade'
  <2>1. \A m \in Item : (m <= pushed => m <= Made') /\ (m > Made' => m > Made)
    BY <1>1 DEF Item
  <2>2. \A y \in Slots : mem[y] \in Item => mem[y] <= Made'
    BY <1>1, <2>1 DEF ThiefSide, OnlyMade
  <2>3. \A s \in Racing : sVal[s] \in Item => sVal[s] <= Made'
    BY <1>1, <2>1 DEF ThiefSide, OnlyMade
  <2>4. \A i \in SlotStores : stores[i].val \in Item => stores[i].val <= Made'
    BY <1>1, <2>1 DEF ThiefSide, OnlyMade
  <2>5. v \in Item => v <= Made'
    BY <1>1
  <2>6. \A i \in SlotStores' : stores'[i].val \in Item => stores'[i].val <= Made'
    BY <1>3, <1>4, <2>4, <2>5
  <2>7. \A m \in Item : m > Made' => Fresh(m)
    BY <2>1 DEF ThiefSide, OnlyMade
  <2>8. QED
    BY <1>5, <2>2, <2>3, <2>6, <2>7 DEF OnlyMade, thiefVars
<1>10. ASSUME NEW j \in DOMAIN stores', stores'[j].at = Bottom
       PROVE  Covered(stores[j].val, j - 1)'
  <2>1. j \in DOMAIN stores
    BY <1>1, <1>2, <1>3, <1>10
  <2>2. Covered(stores[j].val, j - 1) /\ stores'[j] = stores[j]
    BY <1>2, <1>10, <2>1 DEF ThiefSide, StolenAreGone
  <2>3. \A h \in 1 .. j - 1 : stores'[h] = stores[h]
    BY <1>1, <1>2, <2>1
  <2>4. QED
    BY <2>2, <2>3 DEF Covered, Fresh
<1>11. Covered(bottom, 0)'
  BY <1>5 DEF ThiefSide, StolenAreGone, Covered
<1>12. oPc' = "push_publish" => Fresh(pushed + 1)
  <2>1. pushed + 1 > Made
    BY <1>1
  <2>2. QED
    BY <1>1, <2>1 DEF ThiefSide, OnlyMade
<1>13. StolenAreGone'
  BY <1>5, <1>10, <1>11, <1>12 DEF ThiefSide, StolenAreGone, thiefVars
<1>14. QED
  BY <1>6, <1>8, <1>9, <1>13 DEF ThiefSide

(* The oldest store goes to memory: what it brings is new there.            *)
LEMMA DrainKeepsThiefSide ==
  ASSUME CoreInv, ThiefSide, Drain
  PROVE  ThiefSide'
<1> DEFINE n == Len(stores)
           x == stores[1].at
           v == stores[1].val
<1>1. /\ DOMAIN stores = 1 .. n /\ n \in Nat /\ capacity \in Nat /\ top \in Nat /\ st \in [Thief -> Nat]
      /\ \A i \in Slots : i # Bottom /\ i \in Where
      /\ Where = {Bottom} \cup Slots
      /\ \A s \in Thief : sPc[s] = "read" => capacity # 0
      /\ bottom \in Nat /\ (x = Bottom => v \in Nat)
      /\ \A j \in DOMAIN stores : stores[j].at = Bottom => stores[j].val \in Nat
  <2>1. /\ DOMAIN stores = 1 .. n /\ n \in Nat /\ n # 0 /\ capacity \in Nat /\ bottom \in Nat
        /\ top \in Nat /\ st \in [Thief -> Nat] /\ Bottom \notin 0 .. capacity - 1
    BY CoreFacts, DrainStep DEF Bottom, CoreInv
  <2>2. \A j \in DOMAIN stores : stores[j].at = Bottom => stores[j].val \in Nat
    BY <2>1 DEF CoreInv, TypeOK
  <2>3. 1 \in DOMAIN stores
    BY <2>1
  <2>4. QED
    BY <2>1, <2>2, <2>3 DEF Where, Slots, CoreInv, NothingBeforeInit
<1>2. /\ UNCHANGED <<capacity, top, oPc, b, sPc, st, sVal, pushed, stolen>>
      /\ Slots' = Slots /\ Racing' = Racing /\ Made' = Made
      /\ \A y : Fresh(y)' <=> Fresh(y)
  BY DEF Drain, ownerVars, thiefVars, Slots, Racing, Made, Fresh
<1>3. /\ DOMAIN stores' = 1 .. n - 1
      /\ \A i \in DOMAIN stores' : i + 1 \in DOMAIN stores /\ stores'[i] = stores[i + 1]
      /\ 1 \in DOMAIN stores /\ x \in Where
      /\ \A y \in Where : mem'[y] = IF y = x THEN v ELSE mem[y]
  BY DrainStep DEF CoreInv
<1> HIDE DEF n, x, v
<1>4. \A i \in SlotStores' : i + 1 \in SlotStores /\ stores'[i] = stores[i + 1] /\ i \in Nat /\ i + 1 # 1
  BY <1>1, <1>3 DEF SlotStores
<1>5. x # Bottom => 1 \in SlotStores
  BY <1>3 DEF SlotStores, x
<1>6. \A y \in Slots : mem'[y] = mem[y] \/ (x # Bottom /\ y = x /\ mem'[y] = v)
  BY <1>1, <1>3
(* What goes into a slot is like nothing else.                              *)
<1>7. x # Bottom /\ v \in Item =>
        /\ \A y \in Slots : mem[y] # v
        /\ \A s \in Racing : sVal[s] # v
        /\ \A j \in SlotStores : stores[j].val = v => j = 1
        /\ Fresh(v) /\ v <= Made
  BY <1>5 DEF ThiefSide, PendingAreNew, OnlyMade, v
<1>8. StolenOnce'
  BY <1>2 DEF ThiefSide, StolenOnce
<1>9. OneSlotEach'
  <2>1. \A y, z \in Slots : mem'[y] = mem'[z] /\ mem'[y] \in Item => y = z
    BY <1>6, <1>7 DEF ThiefSide, OneSlotEach
  <2>2. \A s \in Racing, y \in Slots :
          mem'[y] = sVal[s] /\ mem'[y] \in Item => y = Place(st[s], capacity)
    BY <1>6, <1>7 DEF ThiefSide, OneSlotEach
  <2>3. QED
    BY <1>2, <2>1, <2>2 DEF OneSlotEach
<1>10. PendingAreNew'
  <2>1. ASSUME NEW i \in SlotStores', stores'[i].val \in Item
        PROVE  /\ \A y \in Slots : mem'[y] # stores'[i].val
               /\ \A s \in Racing : sVal[s] # stores'[i].val
               /\ \A j \in SlotStores' : stores'[j].val = stores'[i].val => j = i
               /\ Fresh(stores'[i].val)
    <3>1. i + 1 \in SlotStores /\ stores'[i] = stores[i + 1] /\ i + 1 # 1 /\ i \in Nat
      BY <1>4
    <3>2. /\ \A y \in Slots : mem[y] # stores'[i].val
          /\ \A s \in Racing : sVal[s] # stores'[i].val
          /\ \A j \in SlotStores : stores[j].val = stores'[i].val => j = i + 1
          /\ Fresh(stores'[i].val)
      BY <2>1, <3>1 DEF ThiefSide, PendingAreNew
    <3>3. x # Bottom => v # stores'[i].val
      BY <1>7, <2>1, <3>1
    <3>4. \A y \in Slots : mem'[y] # stores'[i].val
      BY <1>6, <3>2, <3>3
    <3>5. ASSUME NEW j \in SlotStores', stores'[j].val = stores'[i].val PROVE j = i
      <4>1. j + 1 \in SlotStores /\ stores'[j] = stores[j + 1] /\ j \in Nat
        BY <1>4
      <4>2. j + 1 = i + 1
        BY <3>2, <3>5, <4>1
      <4>3. QED
        BY <3>1, <4>1, <4>2
    <3>6. QED
      BY <3>2, <3>4, <3>5
  <2>2. QED
    BY <1>2, <2>1 DEF PendingAreNew
<1>11. OnlyMade'
  <2>1. \A y \in Slots : mem'[y] \in Item => mem'[y] <= Made
    BY <1>6, <1>7 DEF ThiefSide, OnlyMade
  <2>2. \A i \in SlotStores' : stores'[i].val \in Item => stores'[i].val <= Made
    BY <1>4 DEF ThiefSide, OnlyMade
  <2>3. QED
    BY <1>2, <2>1, <2>2 DEF ThiefSide, OnlyMade
(* A slot is as fresh as it was, or has become so.                          *)
<1>12. \A y \in Slots : Fresh(mem[y]) \/ (x # Bottom /\ y = x) => Fresh(mem'[y])
  <2>1. ASSUME NEW y \in Slots, Fresh(mem[y]) \/ (x # Bottom /\ y = x) PROVE Fresh(mem'[y])
    <3>1. x # Bottom => Fresh(v)
      BY <1>7 DEF Fresh
    <3>2. x # Bottom /\ y = x => mem'[y] = v
      BY <1>1, <1>3
    <3>3. QED
      BY <1>6, <2>1, <3>1, <3>2
  <2>2. QED
    BY <2>1
<1>13. \A p \in Nat : capacity # 0 => Place(p, capacity) \in Slots /\ Place(p, capacity) # Bottom
  BY <1>1, PlaceIsASlot DEF Slots
<1>14. \A w \in Nat : w <= top + capacity => \A p \in top .. w - 1 : p \in Nat /\ capacity # 0
  BY <1>1
(* What was covered by the first m + 1 stores is so by the first m.         *)
<1>15. ASSUME NEW w \in Nat, NEW m \in Nat, Covered(w, m + 1), m + 1 <= n
       PROVE  /\ w <= top + capacity
              /\ \A p \in top .. w - 1 :
                   \/ Fresh(mem'[Place(p, capacity)])
                   \/ \E h \in 1 .. m : stores'[h].at = Place(p, capacity)
  <2>1. w <= top + capacity
    BY <1>15 DEF Covered
  <2>2. ASSUME NEW p \in top .. w - 1
        PROVE  \/ Fresh(mem'[Place(p, capacity)])
               \/ \E h \in 1 .. m : stores'[h].at = Place(p, capacity)
    <3>1. Place(p, capacity) \in Slots /\ Place(p, capacity) # Bottom
      BY <1>13, <1>14, <2>1
    <3>2. CASE Fresh(mem[Place(p, capacity)])
      BY <1>12, <3>1, <3>2
    <3>3. CASE \E h \in 1 .. m + 1 : stores[h].at = Place(p, capacity)
      <4>1. PICK h \in 1 .. m + 1 : stores[h].at = Place(p, capacity)
        BY <3>3
      <4>2. CASE h = 1
        BY <1>12, <3>1, <4>1, <4>2 DEF x
      <4>3. CASE h # 1
        <5>1. h - 1 \in 1 .. m /\ h - 1 \in DOMAIN stores' /\ (h - 1) + 1 = h
          BY <1>1, <1>3, <1>15, <4>3
        <5>2. stores'[h - 1] = stores[h]
          BY <1>3, <5>1
        <5>3. QED
          BY <4>1, <5>1, <5>2
      <4>4. QED
        BY <4>2, <4>3
    <3>4. QED
      BY <1>15, <3>2, <3>3 DEF Covered
  <2>3. QED
    BY <2>1, <2>2
<1>16. ASSUME NEW j \in DOMAIN stores', stores'[j].at = Bottom PROVE Covered(stores[j].val, j - 1)'
  <2>1. j + 1 \in DOMAIN stores /\ stores'[j] = stores[j + 1] /\ j \in Nat /\ j >= 1
    BY <1>1, <1>3
  <2> DEFINE m == j - 1
  <2>2. m \in Nat /\ (j + 1) - 1 = m + 1 /\ m + 1 <= n /\ j - 1 = m
    BY <1>1, <1>3, <2>1
  <2> HIDE DEF m
  <2>3. Covered(stores[j + 1].val, m + 1)
    BY <1>16, <2>1, <2>2 DEF ThiefSide, StolenAreGone
  <2>4. /\ stores'[j].val <= top + capacity
        /\ \A p \in top .. stores'[j].val - 1 :
             \/ Fresh(mem'[Place(p, capacity)])
             \/ \E h \in 1 .. m : stores'[h].at = Place(p, capacity)
    <3>1. stores[j + 1].val \in Nat
      BY <1>1, <1>16, <2>1
    <3>2. QED
      BY <1>15, <2>1, <2>2, <2>3, <3>1
  <2>5. QED
    BY <1>2, <2>2, <2>4 DEF Covered, Fresh
<1>17. Covered(bottom, 0)'
  <2>1. CASE x = Bottom
    <3>1. bottom' = v /\ Covered(v, 0)
      <4>1. bottom' = v
        BY <1>3, <2>1 DEF bottom
      <4>2. 1 \in DOMAIN stores /\ stores[1].at = Bottom /\ 1 - 1 = 0
        BY <1>3, <2>1 DEF x
      <4>3. Covered(stores[1].val, 1 - 1)
        BY <4>2 DEF ThiefSide, StolenAreGone
      <4>4. QED
        BY <4>1, <4>2, <4>3 DEF v
    <3>2. \A y \in Slots : Fresh(mem[y]) => Fresh(mem'[y])
      BY <1>12
    <3>3. v <= top + capacity /\ \A p \in top .. v - 1 : Fresh(mem[Place(p, capacity)])
      BY <3>1 DEF Covered
    <3>4. \A p \in top .. v - 1 : Fresh(mem'[Place(p, capacity)])
      BY <1>1, <1>13, <1>14, <2>1, <3>2, <3>3
    <3>5. QED
      BY <1>2, <3>1, <3>3, <3>4 DEF Covered, Fresh
  <2>2. CASE x # Bottom
    <3>1. bottom' = bottom /\ Covered(bottom, 0)
      BY <1>1, <1>3, <2>2 DEF bottom, ThiefSide, StolenAreGone
    <3>2. bottom <= top + capacity /\ \A p \in top .. bottom - 1 : Fresh(mem[Place(p, capacity)])
      BY <3>1 DEF Covered
    <3>3. \A p \in top .. bottom - 1 : Fresh(mem'[Place(p, capacity)])
      BY <1>1, <1>12, <1>13, <1>14, <3>2
    <3>4. QED
      BY <1>2, <3>1, <3>2, <3>3 DEF Covered, Fresh
  <2>3. QED
    BY <2>1, <2>2
<1>18. \A s \in Thief : sPc[s] = "read" /\ st[s] = top => Fresh(mem'[Place(top, capacity)])
  BY <1>1, <1>12, <1>13 DEF ThiefSide, StolenAreGone
<1>19. StolenAreGone'
  BY <1>2, <1>16, <1>17, <1>18 DEF ThiefSide, StolenAreGone, Fresh
<1>20. QED
  BY <1>8, <1>9, <1>10, <1>11, <1>19 DEF ThiefSide

(* No item is stolen twice, whatever the fence does.                        *)
LEMMA StepKeepsThiefSide ==
  ASSUME CoreInv, CoreInv', OwnerSide, ThiefSide, [Next]_vars
  PROVE  ThiefSide'
<1>1. /\ top \in Nat /\ b \in Nat /\ t \in Nat /\ capacity \in Nat /\ bottom \in Nat
      /\ st \in [Thief -> Nat] /\ Torn \in Content
      /\ sPc \in [Thief -> {"idle", "empty", "reload", "read", "race"}]
      /\ sVal \in [Thief -> Content]
      /\ DOMAIN stores = 1 .. Len(stores) /\ Len(stores) \in Nat
      /\ \A s \in Thief : sPc[s] \in {"reload", "read", "race"} => capacity # 0
  BY CoreFacts DEF CoreInv, NothingBeforeInit
<1>2. Covered(View(stores, mem, Bottom), Len(stores))
  BY OwnerIsCovered DEF ThiefSide
<1>3. CASE \/ PushBegin \/ PushCheck \/ PopBegin \/ PopCheck
           \/ PopFence \/ PopReload \/ PopRead \/ PopRace \/ UNCHANGED vars
  <2>1. /\ UNCHANGED <<capacity, mem, stores, thiefVars, stolen, pushed>>
        /\ (top' = top \/ (top' = t + 1 /\ top = t))
        /\ (oPc' = "push_publish" => oPc = "push_publish")
        /\ (oPc = "push_publish" => oPc' = "push_publish" /\ b' = b)
    <3>1. CASE PushBegin \/ PushCheck
      BY <3>1 DEF PushBegin, PushCheck
    <3>2. CASE PopBegin \/ PopCheck \/ PopFence \/ PopReload
      BY <3>2 DEF PopBegin, PopCheck, PopFence, PopReload
    <3>3. CASE PopRead
      BY <3>3 DEF PopRead
    <3>4. CASE PopRace
      BY <3>4 DEF PopRace
    <3>5. CASE UNCHANGED vars
      BY <3>5 DEF vars, ownerVars
    <3>6. QED
      BY <1>3, <3>1, <3>2, <3>3, <3>4, <3>5
  <2>2. Made' = Made
    BY <2>1 DEF Made
  <2>3. top' \in Nat /\ top <= top'
    BY <1>1, <2>1
  <2>4. QED
    BY <2>1, <2>2, <2>3, NothingStolen
<1>4. CASE PushWriteBegins \/ PushWriteEnds
  <2>1. /\ oPc \in {"push_write", "push_written"}
        /\ UNCHANGED <<capacity, top, mem, b, thiefVars, stolen, pushed>>
    BY <1>4 DEF PushWriteBegins, PushWriteEnds
  <2>2. capacity # 0 /\ pushed + 1 \in Content /\ pushed + 1 \in Item
    BY <2>1, CoreOwner
  <2>3. Slot(b) \in Slots
    <3>1. Slot(b) = Place(b, capacity)
      BY <1>1, <2>2, CorePlaces
    <3>2. Place(b, capacity) \in 0 .. capacity - 1
      BY <1>1, <2>2, PlaceIsASlot
    <3>3. QED
      BY <3>1, <3>2 DEF Slots
  <2>4. Torn \notin Item
    BY ContentAssumption DEF Item
  <2>5. CASE PushWriteBegins
    BY <1>1, <2>1, <2>3, <2>4, <2>5, SlotStored DEF PushWriteBegins
  <2>6. CASE PushWriteEnds
    BY <2>1, <2>2, <2>3, <2>6, SlotStored DEF PushWriteEnds
  <2>7. QED
    BY <1>4, <2>5, <2>6
<1>5. CASE PushPublish
  <2>1. /\ oPc = "push_publish" /\ oPc' = "idle" /\ Store(Bottom, b + 1) /\ pushed' = pushed + 1
        /\ UNCHANGED <<capacity, top, mem, b, thiefVars, stolen>>
    BY <1>5 DEF PushPublish
  <2>2. View(stores, mem, Bottom) = b /\ b < top + capacity /\ capacity # 0
    BY <2>1, CoreOwner
  <2>3. View(stores, mem, Place(b, capacity)) = pushed + 1
    BY <2>1 DEF OwnerSide, At
  <2>4. top <= b => \/ Fresh(mem[Place(b, capacity)])
                    \/ \E h \in 1 .. Len(stores) : stores[h].at = Place(b, capacity)
    <3>1. stores \in Seq([at : Where, val : Content \cup Nat])
      BY DEF CoreInv, StoresAreRecords
    <3>2. CASE Pending(stores, Place(b, capacity)) = {}
      <4>1. mem[Place(b, capacity)] = pushed + 1
        BY <2>3, <3>1, <3>2, ViewIsYoungest
      <4>2. QED
        BY <2>1, <4>1 DEF ThiefSide, StolenAreGone
    <3>3. CASE Pending(stores, Place(b, capacity)) # {}
      BY <1>1, <3>3 DEF Pending
    <3>4. QED
      BY <3>2, <3>3
  <2>5. Covered(b + 1, Len(stores))
    <3>1. \A p \in top .. (b + 1) - 1 : p \in top .. b - 1 \/ (p = b /\ top <= b)
      BY <1>1
    <3>2. b + 1 <= top + capacity
      BY <1>1, <2>2
    <3>3. QED
      BY <1>2, <2>2, <2>4, <3>1, <3>2 DEF Covered
  <2>6. Made' = Made /\ b + 1 \in Nat
    BY <1>1, <2>1 DEF Made
  <2>7. QED
    BY <2>1, <2>5, <2>6, BottomStored
<1>6. CASE PopReserve
  <2>1. /\ oPc = "pop_reserve" /\ oPc' = "pop_fence" /\ Store(Bottom, b - 1)
        /\ UNCHANGED <<capacity, top, mem, b, thiefVars, stolen, pushed>>
    BY <1>6 DEF PopReserve
  <2>2. View(stores, mem, Bottom) = b /\ b - 1 \in Nat
    BY <2>1, CoreOwner
  <2>3. Covered(b - 1, Len(stores))
    <3>1. Covered(b, Len(stores))
      BY <1>2, <2>2
    <3>2. b <= top + capacity
      BY <3>1 DEF Covered
    <3>3. b - 1 <= top + capacity /\ \A p \in top .. (b - 1) - 1 : p \in top .. b - 1
      BY <1>1, <3>2
    <3>4. QED
      BY <3>1, <3>3 DEF Covered
  <2>4. Made' = Made
    BY <2>1 DEF Made
  <2>5. QED
    BY <2>1, <2>2, <2>3, <2>4, BottomStored
<1>7. CASE PopRestore
  <2>1. /\ oPc = "pop_restore" /\ oPc' = "idle" /\ Store(Bottom, b)
        /\ UNCHANGED <<capacity, top, mem, b, thiefVars, stolen, pushed>>
    BY <1>7 DEF PopRestore, Restore
  <2>2. b <= top
    BY <2>1, CoreOwner
  <2>3. b <= top + capacity /\ top .. b - 1 = {}
    BY <1>1, <2>2
  <2>4. Covered(b, Len(stores))
    BY <2>3 DEF Covered
  <2>5. Made' = Made
    BY <2>1 DEF Made
  <2>6. QED
    BY <1>1, <2>1, <2>4, <2>5, BottomStored
<1>8. ASSUME NEW c \in InitArgs, InitCall(c) PROVE ThiefSide'
  <2>1. /\ capacity = 0 /\ oPc = "idle" /\ capacity' = c /\ c \in Nat
        /\ UNCHANGED <<top, stores, oPc, b, sPc, st, sVal, pushed, stolen>>
        /\ bottom' = bottom /\ \A x \in 0 .. c - 1 : mem'[x] = Junk
    BY <1>8, InitArgsAssumption DEF InitCall, Accepts, ownerVars, thiefVars, bottom, Bottom
  <2>2. /\ stores = <<>> /\ top = 1 /\ bottom = 1
        /\ \A s \in Thief : sPc[s] \in {"idle", "empty"}
    BY <2>1 DEF CoreInv, NothingBeforeInit
  <2>3. Racing' = {} /\ SlotStores' = {} /\ Slots' = 0 .. c - 1 /\ Made' = Made
    BY <2>1, <2>2 DEF Racing, SlotStores, Slots, Made
  <2>4. Junk \notin Item
    BY ContentAssumption DEF Item
  <2>5. OneSlotEach' /\ PendingAreNew' /\ OnlyMade' /\ StolenOnce'
    BY <2>1, <2>3, <2>4 DEF ThiefSide, OneSlotEach, PendingAreNew, OnlyMade, StolenOnce, Fresh
  <2>6. Covered(bottom, 0)'
    <3>1. 1 <= 1 + c /\ 1 .. 1 - 1 = {}
      BY <2>1
    <3>2. QED
      BY <2>1, <2>2, <3>1 DEF Covered
  <2>7. StolenAreGone'
    BY <2>1, <2>2, <2>3, <2>6 DEF ThiefSide, StolenAreGone
  <2>8. QED
    BY <2>5, <2>7 DEF ThiefSide
<1>9. CASE Drain
  BY <1>9, DrainKeepsThiefSide
(* The steps of a thief that take nothing.                                  *)
<1>10. ASSUME NEW s \in Thief,
              \/ StealBegin(s) \/ StealCheck(s) \/ StealReload(s) \/ StealRead(s)
              \/ StealRace(s) /\ ~StillMine(s)
       PROVE  ThiefSide'
  <2>1. /\ UNCHANGED <<capacity, top, mem, stores, oPc, b, pushed, stolen>>
        /\ \A r \in Thief : r # s => sPc'[r] = sPc[r] /\ st'[r] = st[r] /\ sVal'[r] = sVal[r]
        /\ st'[s] = st[s] \/ st'[s] = top
    BY <1>1, <1>10 DEF StealBegin, StealCheck, StealReload, StealRead, StealRace, ownerVars
  <2>2. /\ Slots' = Slots /\ SlotStores' = SlotStores /\ Made' = Made /\ bottom' = bottom
        /\ \A x : Fresh(x)' <=> Fresh(x)
    BY <2>1 DEF Slots, SlotStores, Made, bottom, Fresh
(* A thief that is about to compete has just read its slot.                 *)
  <2>3. ASSUME s \in Racing'
        PROVE  /\ sPc[s] = "read" /\ sVal'[s] = mem[Place(st[s], capacity)] /\ st'[s] = st[s]
               /\ Place(st[s], capacity) \in Slots
    <3>1. StealRead(s)
      BY <1>1, <1>10, <2>3 DEF Racing, StealBegin, StealCheck, StealReload, StealRace
    <3>2. /\ sPc[s] = "read" /\ sVal'[s] = mem[Slot(st[s])] /\ st'[s] = st[s] /\ capacity # 0
          /\ st[s] \in Nat
      BY <1>1, <3>1 DEF StealRead
    <3>3. Slot(st[s]) = Place(st[s], capacity) /\ Place(st[s], capacity) \in Slots
      BY <1>1, <3>2, CorePlaces, PlaceIsASlot DEF Slots
    <3>4. QED
      BY <3>2, <3>3
  <2>4. \A r \in Racing' : r # s => r \in Racing
    BY <2>1 DEF Racing
(* And one that is about to read has just seen its position in use.         *)
  <2>5. ASSUME sPc'[s] = "read", st'[s] = top PROVE Fresh(mem[Place(top, capacity)])
    <3>1. StealReload(s) /\ st[s] < bottom /\ st[s] = top
      BY <1>1, <1>10, <2>5 DEF StealBegin, StealCheck, StealReload, StealRead, StealRace
    <3>2. Covered(bottom, 0) /\ top \in top .. bottom - 1 /\ 1 .. 0 = {}
      BY <1>1, <3>1 DEF ThiefSide, StolenAreGone
    <3>3. QED
      BY <3>2 DEF Covered
  <2>6. OneSlotEach'
    <3>1. \A r \in Racing', x \in Slots :
            mem[x] = sVal'[r] /\ mem[x] \in Item => x = Place(st'[r], capacity)
      <4>1. ASSUME NEW r \in Racing', r # s PROVE \A x \in Slots : mem[x] = sVal'[r] /\ mem[x] \in Item => x = Place(st'[r], capacity)
        BY <2>1, <2>2, <2>4, <4>1 DEF ThiefSide, OneSlotEach, Racing
      <4>2. s \in Racing' => \A x \in Slots : mem[x] = sVal'[s] /\ mem[x] \in Item => x = Place(st'[s], capacity)
        BY <2>2, <2>3 DEF ThiefSide, OneSlotEach
      <4>3. QED
        BY <4>1, <4>2
    <3>2. QED
      BY <2>1, <2>2, <3>1 DEF ThiefSide, OneSlotEach
  <2>7. PendingAreNew'
    <3>1. \A i \in SlotStores : stores[i].val \in Item =>
            \A r \in Racing' : sVal'[r] # stores[i].val
      <4>1. ASSUME NEW r \in Racing', r # s PROVE \A i \in SlotStores : stores[i].val \in Item => sVal'[r] # stores[i].val
        BY <2>1, <2>2, <2>4, <4>1 DEF ThiefSide, PendingAreNew, Racing
      <4>2. s \in Racing' => \A i \in SlotStores : stores[i].val \in Item => sVal'[s] # stores[i].val
        BY <2>2, <2>3 DEF ThiefSide, PendingAreNew
      <4>3. QED
        BY <4>1, <4>2
    <3>2. QED
      BY <2>1, <2>2, <3>1 DEF ThiefSide, PendingAreNew
  <2>8. OnlyMade'
    <3>1. \A r \in Racing' : sVal'[r] \in Item => sVal'[r] <= Made
      <4>1. ASSUME NEW r \in Racing', r # s PROVE sVal'[r] \in Item => sVal'[r] <= Made
        BY <2>1, <2>2, <2>4, <4>1 DEF ThiefSide, OnlyMade, Racing
      <4>2. s \in Racing' => (sVal'[s] \in Item => sVal'[s] <= Made)
        BY <2>2, <2>3 DEF ThiefSide, OnlyMade
      <4>3. QED
        BY <4>1, <4>2
    <3>2. QED
      BY <2>1, <2>2, <3>1 DEF ThiefSide, OnlyMade
  <2>9. \A r \in Thief : st'[r] <= top'
    BY <1>1, <2>1 DEF ThiefSide, StolenAreGone
  <2>10. \A r \in Thief : sPc'[r] = "read" /\ st'[r] = top => Fresh(mem[Place(top, capacity)])
    BY <2>1, <2>5 DEF ThiefSide, StolenAreGone
  <2>11. \A r \in Racing' : st'[r] = top => Fresh(sVal'[r])
    <3>1. ASSUME NEW r \in Racing', r # s PROVE st'[r] = top => Fresh(sVal'[r])
      BY <2>1, <2>4, <3>1 DEF ThiefSide, StolenAreGone, Racing
    <3>2. s \in Racing' => (st'[s] = top => Fresh(sVal'[s]))
      BY <2>3 DEF ThiefSide, StolenAreGone
    <3>3. QED
      BY <3>1, <3>2
  <2>12. Covered(bottom, 0)' /\ (\A j \in DOMAIN stores : stores[j].at = Bottom => Covered(stores[j].val, j - 1))'
    BY <2>1, <2>2 DEF ThiefSide, StolenAreGone, Covered
  <2>13. StolenAreGone'
    BY <2>1, <2>2, <2>9, <2>10, <2>11, <2>12 DEF ThiefSide, StolenAreGone, Fresh
  <2>14. QED
    BY <2>1, <2>6, <2>7, <2>8, <2>13 DEF ThiefSide, StolenOnce
<1>11. ASSUME NEW s \in Thief, StealRace(s), StillMine(s) PROVE ThiefSide'
  BY <1>11, OneStolen
<1>12. QED
  BY <1>3, <1>4, <1>5, <1>6, <1>7, <1>8, <1>9, <1>10, <1>11 DEF Next, OwnerStep, ThiefStep

(* The code as it is written, acq_rel and all: thieves compete with each    *)
(* other on _top alone, and pop() never repeats itself, so that no item is  *)
(* stolen twice and none popped twice.  What goes out twice (run            *)
(* wsq_double_delivery) went once to each side.                             *)
THEOREM EachSideAlwaysTakesOnce == Spec => []EachSideTakesOnce
<1>1. Init => WeakInv
  <2>1. SUFFICES ASSUME Init PROVE WeakInv
    OBVIOUS
  <2>2. CoreInv
    BY <2>1, InitCore
  <2>3. /\ capacity = 0 /\ top = 1 /\ oPc = "idle" /\ pushed = 0 /\ stores = <<>> /\ mem[Bottom] = 1
        /\ popped = [i \in Content |-> 0] /\ stolen = [i \in Content |-> 0]
        /\ st = [s \in Thief |-> 1] /\ sPc = [s \in Thief |-> "idle"]
    BY <2>1 DEF Init
  <2>4. Last = 1 /\ Low = 1 /\ Low .. Last - 1 = {} /\ bottom = 1 /\ Slots = {}
    BY <2>3 DEF Last, Low, Reserving, View, Pending, bottom, Slots
  <2>5. \A i \in Item : popped[i] = 0 /\ stolen[i] = 0
    BY <2>3 DEF Content
  <2>6. OwnerSide
    BY <2>3, <2>4, <2>5 DEF OwnerSide, OwnItemsWait
  <2>7. SlotStores = {} /\ Racing = {} /\ \A x : Fresh(x)
    BY <2>3, <2>5 DEF SlotStores, Racing, Fresh
  <2>8. OneSlotEach /\ PendingAreNew /\ OnlyMade /\ StolenOnce
    BY <2>4, <2>5, <2>7 DEF OneSlotEach, PendingAreNew, OnlyMade, StolenOnce
  <2>9. StolenAreGone
    BY <2>3, <2>4, <2>7 DEF StolenAreGone, Covered
  <2>10. QED
    BY <2>2, <2>6, <2>8, <2>9 DEF WeakInv, ThiefSide
<1>2. WeakInv /\ [Next]_vars => WeakInv'
  BY StepKeepsCore, StepKeepsOwnerSide, StepKeepsThiefSide DEF WeakInv
<1>3. WeakInv => EachSideTakesOnce
  BY DEF WeakInv, OwnerSide, ThiefSide, StolenOnce, EachSideTakesOnce
<1>4. QED
  BY <1>1, <1>2, <1>3, PTL DEF Spec

-----------------------------------------------------------------------------
(* The items at n positions from one on, as one that sees stores and memory *)
(* reads them.                                                              *)
Line(s, m, c, from, n) == [i \in 1 .. n |-> View(s, m, Place(from + i - 1, c))]

(* A line is a sequence of its length.                                      *)
LEMMA LineIsSequence ==
  ASSUME NEW s, NEW m, NEW c, NEW from \in Nat, NEW n \in Nat
  PROVE  LET l == Line(s, m, c, from, n)
         IN  /\ \E S : l \in Seq(S)
             /\ Len(l) = n /\ DOMAIN l = 1 .. n
             /\ \A i \in 1 .. n : l[i] = View(s, m, Place(from + i - 1, c))
             /\ n = 0 => l = <<>>
             /\ n # 0 => l # <<>>
<1> DEFINE l == Line(s, m, c, from, n)
<1>1. DOMAIN l = 1 .. n /\ \A i \in 1 .. n : l[i] = View(s, m, Place(from + i - 1, c))
  BY DEF Line
<1>2. l = [i \in 1 .. n |-> l[i]]
  BY DEF Line
<1> HIDE DEF l
<1>3. ASSUME NEW S, \A i \in 1 .. n : l[i] \in S PROVE l \in Seq(S)
  BY <1>2, <1>3
<1>4. PICK S : l \in Seq(S)
  <2>1. \A i \in 1 .. n : l[i] \in {l[j] : j \in 1 .. n}
    OBVIOUS
  <2>2. QED
    BY <1>3, <2>1
<1>5. Len(l) = n
  BY <1>1, <1>4
<1>6. (n = 0 => l = <<>>) /\ (n # 0 => l # <<>>)
  BY <1>4, <1>5
<1>7. QED
  BY <1>1, <1>4, <1>5, <1>6 DEF l

(* The next position's item is appended.                                    *)
LEMMA LineGrows ==
  ASSUME NEW s, NEW m, NEW c, NEW from \in Nat, NEW n \in Nat
  PROVE  Line(s, m, c, from, n + 1) = Append(Line(s, m, c, from, n), View(s, m, Place(from + n, c)))
<1> DEFINE l == Line(s, m, c, from, n)
           k == Line(s, m, c, from, n + 1)
           e == View(s, m, Place(from + n, c))
           a == Append(l, e)
<1>1. /\ Len(l) = n /\ \E S : l \in Seq(S)
      /\ \A i \in 1 .. n : l[i] = View(s, m, Place(from + i - 1, c))
  BY LineIsSequence
<1>2. /\ DOMAIN k = 1 .. n + 1 /\ k = [i \in 1 .. n + 1 |-> k[i]]
      /\ \A i \in 1 .. n + 1 : k[i] = View(s, m, Place(from + i - 1, c))
  BY DEF Line
<1>3. k[n + 1] = e
  <2>1. from + (n + 1) - 1 = from + n /\ n + 1 \in 1 .. n + 1
    OBVIOUS
  <2> HIDE DEF k
  <2>2. QED
    BY <1>2, <2>1
<1> HIDE DEF l, k, e
<1>4. /\ DOMAIN a = 1 .. n + 1 /\ a[n + 1] = e /\ \A i \in 1 .. n : a[i] = l[i]
      /\ a = [i \in 1 .. n + 1 |-> a[i]]
  <2>1. PICK S : l \in Seq(S)
    BY <1>1
  <2>2. l \in Seq(S \cup {e}) /\ e \in S \cup {e}
    BY <2>1
  <2>3. a \in Seq(S \cup {e}) /\ Len(a) = n + 1
    BY <1>1, <2>2
  <2>4. a = [i \in 1 .. n + 1 |-> a[i]]
    <3> HIDE DEF a
    <3>1. a \in [1 .. n + 1 -> S \cup {e}]
      BY <2>3
    <3>2. QED
      BY <3>1
  <2>5. a[n + 1] = e /\ \A i \in 1 .. n : a[i] = l[i]
    BY <1>1, <2>2
  <2>6. QED
    BY <2>3, <2>4, <2>5
<1> HIDE DEF a
<1>5. \A i \in 1 .. n + 1 : a[i] = k[i]
  <2>1. \A i \in 1 .. n + 1 : i \in 1 .. n \/ i = n + 1
    OBVIOUS
  <2>2. \A i \in 1 .. n : i \in 1 .. n + 1
    OBVIOUS
  <2>3. \A i \in 1 .. n : a[i] = k[i]
    BY <1>1, <1>2, <1>4, <2>2
  <2>4. QED
    BY <1>3, <1>4, <2>1, <2>3
<1>6. a = k
  BY <1>2, <1>4, <1>5
<1>7. QED
  BY <1>6 DEF a, e, l, k

(* Without its newest item a line is one shorter.                           *)
LEMMA LineShrinks ==
  ASSUME NEW s, NEW m, NEW c, NEW from \in Nat, NEW n \in Nat, n # 0
  PROVE  /\ SubSeq(Line(s, m, c, from, n), 1, Len(Line(s, m, c, from, n)) - 1)
              = Line(s, m, c, from, n - 1)
         /\ Line(s, m, c, from, n) # <<>>
         /\ Line(s, m, c, from, n)[Len(Line(s, m, c, from, n))]
              = View(s, m, Place(from + n - 1, c))
<1> DEFINE l == Line(s, m, c, from, n)
           k == Line(s, m, c, from, n - 1)
<1>1. /\ Len(l) = n /\ l # <<>> /\ \E S : l \in Seq(S)
      /\ \A i \in 1 .. n : l[i] = View(s, m, Place(from + i - 1, c))
  BY LineIsSequence
<1>2. n - 1 \in Nat /\ n \in 1 .. n
  OBVIOUS
<1>3. /\ k = [i \in 1 .. n - 1 |-> k[i]]
      /\ \A i \in 1 .. n - 1 : k[i] = View(s, m, Place(from + i - 1, c))
  BY DEF Line
<1> HIDE DEF l, k
<1>4. SubSeq(l, 1, n - 1) = [i \in 1 .. n - 1 |-> l[i]]
  BY <1>1, <1>2
<1>5. \A i \in 1 .. n - 1 : l[i] = k[i]
  BY <1>1, <1>2, <1>3
<1>6. SubSeq(l, 1, n - 1) = k
  BY <1>3, <1>4, <1>5
<1>7. QED
  BY <1>1, <1>2, <1>6 DEF l, k

(* Without its oldest item a line begins at the next position.              *)
LEMMA LineMoves ==
  ASSUME NEW s, NEW m, NEW c, NEW from \in Nat, NEW n \in Nat, n # 0
  PROVE  /\ Tail(Line(s, m, c, from, n)) = Line(s, m, c, from + 1, n - 1)
         /\ Line(s, m, c, from, n) # <<>>
         /\ Line(s, m, c, from, n)[1] = View(s, m, Place(from, c))
<1> DEFINE l == Line(s, m, c, from, n)
           k == Line(s, m, c, from + 1, n - 1)
<1>1. /\ Len(l) = n /\ l # <<>> /\ \E S : l \in Seq(S)
      /\ \A i \in 1 .. n : l[i] = View(s, m, Place(from + i - 1, c))
  BY LineIsSequence
<1>2. n - 1 \in Nat /\ 1 \in 1 .. n /\ from + 1 - 1 = from
  OBVIOUS
<1>3. /\ k = [i \in 1 .. n - 1 |-> k[i]]
      /\ \A i \in 1 .. n - 1 : k[i] = View(s, m, Place(from + 1 + i - 1, c))
  BY DEF Line
<1> HIDE DEF l, k
<1>4. Tail(l) = [i \in 1 .. n - 1 |-> l[i + 1]]
  <2>1. PICK S : l \in Seq(S)
    BY <1>1
  <2>2. /\ Tail(l) \in Seq(S) /\ Len(Tail(l)) = n - 1
        /\ \A i \in 1 .. n - 1 : Tail(l)[i] = l[i + 1]
    BY <1>1, <2>1
  <2> DEFINE d == Tail(l)
  <2> HIDE DEF d
  <2>3. d \in [1 .. n - 1 -> S] /\ \A i \in 1 .. n - 1 : d[i] = l[i + 1]
    <3>1. d \in Seq(S) /\ Len(d) = n - 1 /\ \A i \in 1 .. n - 1 : d[i] = l[i + 1]
      BY <2>2 DEF d
    <3>2. d \in [1 .. n - 1 -> S]
      BY <3>1
    <3>3. QED
      BY <3>1, <3>2
  <2>4. d = [i \in 1 .. n - 1 |-> l[i + 1]]
    BY <2>3
  <2>5. QED
    BY <2>4 DEF d
<1>5. ASSUME NEW i \in 1 .. n - 1 PROVE l[i + 1] = k[i]
  <2>1. i + 1 \in 1 .. n /\ from + (i + 1) - 1 = from + 1 + i - 1
    OBVIOUS
  <2>2. QED
    BY <1>1, <1>3, <2>1
<1>6. Tail(l) = k
  BY <1>3, <1>4, <1>5
<1>7. l[1] = View(s, m, Place(from, c))
  BY <1>1, <1>2
<1>8. QED
  BY <1>1, <1>6, <1>7 DEF l, k

(* The waiting items are the line from _top to _bottom.                     *)
LEMMA WaitingIsLine ==
  /\ Waiting = Line(stores, mem, capacity, top, Last - top)
  /\ Waiting' = Line(stores', mem', capacity', top', Last' - top')
<1>1. \A x : Owner(x) = View(stores, mem, x) /\ Owner(x)' = View(stores', mem', x)
  BY DEF Owner, View, Pending
<1>2. LogicalBottom = Last /\ LogicalBottom' = Last'
  BY <1>1 DEF LogicalBottom, Last, Reserving
<1>3. Waiting = Line(stores, mem, capacity, top, Last - top)
  BY <1>1, <1>2 DEF Waiting, Line, Slot, Place
<1>4. Waiting' = Line(stores', mem', capacity', top', Last' - top')
  BY <1>1, <1>2 DEF Waiting, Line, Slot, Place
<1>5. QED
  BY <1>3, <1>4

(* The waiting items stay, and in place, when nothing is taken or added.    *)
LEMMA SameLine ==
  ASSUME RingInv, RingInv', capacity' = capacity, top' = top, Last' = Last,
         \A i \in top .. Last - 1 :
           View(stores', mem', Place(i, capacity)) = View(stores, mem, Place(i, capacity))
  PROVE  Waiting' = Waiting
<1>1. /\ Waiting = Line(stores, mem, capacity, top, Last - top)
      /\ Waiting' = Line(stores', mem', capacity, top, Last - top)
  BY WaitingIsLine
<1>2. top \in Nat /\ Last \in Nat
  BY RingFacts
<1>3. \A i \in 1 .. Last - top : top + i - 1 \in top .. Last - 1
  BY <1>2
<1>4. QED
  BY <1>1, <1>3 DEF Line

(* Every step of the queue is a step of the deque, or none.                 *)
LEMMA StepImplementsDeque ==
  ASSUME RingInv, RingInv', Delivered, [Next]_vars
  PROVE  [Abstract!DequeNext]_(Abstract!dequeVars)
<1>1. /\ TypeOK /\ StoresAreRecords /\ WithinRing /\ NothingBeforeInit /\ Readers /\ ReservedIsMine
  BY DEF RingInv, CoreInv
<1>2. /\ top \in Nat /\ b \in Nat /\ t \in Nat /\ capacity \in Nat /\ Last \in Nat
      /\ Bottom \in Where /\ Torn \in Content /\ top <= Last
      /\ oPc \notin Reserving => Last = View(stores, mem, Bottom)
      /\ \A x : Owner(x) = View(stores, mem, x)
  BY <1>1, RingFacts DEF WithinRing
<1>3. \A i \in top .. Last - 1 : i \in Nat /\ capacity # 0
  <2>1. capacity = 0 => top = Last
    BY <1>1, <1>2 DEF WithinRing
  <2>2. QED
    BY <1>2, <2>1
<1>4. /\ Waiting = Line(stores, mem, capacity, top, Last - top)
      /\ Waiting' = Line(stores', mem', capacity', top', Last' - top')
  BY WaitingIsLine
<1>5. ASSUME UNCHANGED <<capacity, popped, stolen, top>>, Last' = Last,
             \A i \in top .. Last - 1 :
               View(stores', mem', Place(i, capacity)) = View(stores, mem, Place(i, capacity))
      PROVE  UNCHANGED Abstract!dequeVars
  BY <1>5, SameLine DEF Abstract!dequeVars
<1>6. ASSUME NEW s \in Thief, StealBegin(s) \/ StealCheck(s) \/ StealReload(s) \/ StealRead(s)
      PROVE  UNCHANGED Abstract!dequeVars
  <2>1. UNCHANGED <<capacity, popped, stolen, top, mem, stores, oPc, b>>
    BY <1>6 DEF StealBegin, StealCheck, StealReload, StealRead, ownerVars
  <2>2. QED
    BY <1>5, <2>1 DEF Last
<1>7. ASSUME NEW s \in Thief, StealRace(s) PROVE [Abstract!DequeNext]_(Abstract!dequeVars)
  <2>1. UNCHANGED <<capacity, popped, mem, stores, oPc, b>> /\ sPc[s] = "race"
    BY <1>7 DEF StealRace, ownerVars
  <2>2. Last' = Last
    BY <2>1 DEF Last
  <2>3. CASE ~StillMine(s)
    BY <1>5, <1>7, <2>1, <2>2, <2>3 DEF StealRace
  <2>4. CASE StillMine(s)
    <3>1. top' = top + 1 /\ stolen' = [stolen EXCEPT ![sVal[s]] = @ + 1] /\ top = st[s]
      BY <1>7, <2>4 DEF StealRace, StillMine
    <3>2. top < Last /\ sVal[s] = View(stores, mem, Place(top, capacity))
      BY <1>1, <2>1, <3>1 DEF Readers, Reader, At
    <3> DEFINE n == Last - top
    <3>3. n \in Nat /\ n # 0 /\ Last' - top' = n - 1
      BY <1>2, <2>2, <3>1, <3>2
    <3> HIDE DEF n
    <3>4. /\ Tail(Line(stores, mem, capacity, top, n)) = Line(stores, mem, capacity, top + 1, n - 1)
          /\ Line(stores, mem, capacity, top, n) # <<>>
          /\ Line(stores, mem, capacity, top, n)[1] = View(stores, mem, Place(top, capacity))
      BY <1>2, <3>3, LineMoves, SMTT(30)
    <3>5. Waiting # <<>> /\ Waiting[1] = sVal[s] /\ Waiting' = Tail(Waiting)
      BY <1>4, <2>1, <3>1, <3>2, <3>3, <3>4 DEF n
    <3>6. Abstract!TakeOldest
      BY <2>1, <3>1, <3>5 DEF Abstract!TakeOldest
    <3>7. QED
      BY <3>6 DEF Abstract!DequeNext
  <2>5. QED
    BY <2>3, <2>4
<1>8. ASSUME NEW c \in InitArgs, InitCall(c) PROVE UNCHANGED Abstract!dequeVars
  <2>1. /\ capacity = 0 /\ oPc = "idle" /\ UNCHANGED <<top, stores, oPc, b, popped, stolen>>
        /\ mem'[Bottom] = mem[Bottom]
    BY <1>8 DEF InitCall, Accepts, ownerVars, bottom
  <2>2. stores = <<>> /\ top = 1 /\ bottom = 1
    BY <1>1, <2>1 DEF NothingBeforeInit
  <2>3. View(stores, mem, Bottom) = 1 /\ View(stores', mem', Bottom) = 1
    BY <2>1, <2>2 DEF View, Pending, bottom
  <2>4. Last - top = 0 /\ Last' - top' = 0
    BY <2>1, <2>2, <2>3 DEF Last, Reserving
  <2>5. Waiting = <<>> /\ Waiting' = <<>>
    BY <1>2, <1>4, <2>1, <2>4, LineIsSequence
  <2>6. QED
    BY <2>1, <2>5 DEF Abstract!dequeVars
<1>9. CASE Drain
  <2>1. /\ UNCHANGED <<top, capacity, oPc, b, popped, stolen>>
        /\ \A y \in Where : View(stores', mem', y) = View(stores, mem, y)
    BY <1>1, <1>9, DrainStep DEF Drain, ownerVars
  <2>2. Last' = Last
    BY <1>2, <2>1 DEF Last
  <2>3. \A i \in top .. Last - 1 : Place(i, capacity) \in Where
    BY <1>3, PlaceFacts
  <2>4. QED
    BY <1>5, <2>1, <2>2, <2>3
<1>10. CASE PushBegin \/ PushCheck \/ PopBegin \/ PopCheck
  <2>1. /\ UNCHANGED <<capacity, popped, stolen, top, mem, stores>>
        /\ oPc \notin Reserving /\ oPc' \notin Reserving
    BY <1>10 DEF PushBegin, PushCheck, PopBegin, PopCheck, Reserving
  <2>2. QED
    BY <1>2, <1>5, <2>1 DEF Last
<1>11. CASE PopFence \/ PopReload \/ (PopRead /\ oPc' = "pop_race")
  <2>1. /\ UNCHANGED <<capacity, popped, stolen, top, mem, stores, b>>
        /\ oPc \in Reserving /\ oPc' \in Reserving
    BY <1>11 DEF PopFence, PopReload, PopRead, Reserving
  <2>2. QED
    BY <1>2, <1>5, <2>1 DEF Last
<1>12. CASE PushWriteBegins \/ PushWriteEnds
  <2>1. /\ oPc \in {"push_write", "push_written"} /\ oPc' \in {"push_written", "push_publish"}
        /\ UNCHANGED <<capacity, popped, stolen, top, mem, b>>
    BY <1>12 DEF PushWriteBegins, PushWriteEnds
  <2>2. capacity # 0 /\ pushed + 1 \in Content /\ Last = b /\ b < top + capacity
    BY <2>1, OwnerFacts
  <2>3. Slot(b) \in Where /\ Slot(b) # Bottom /\ Slot(b) = Place(b, capacity)
    BY <1>2, <2>2, PlaceFacts
  <2>4. \A y : Slot(b) # y => View(stores', mem', y) = View(stores, mem, y)
    <3>1. CASE PushWriteBegins
      BY <1>1, <1>2, <2>1, <2>3, <3>1, StoreStep DEF PushWriteBegins
    <3>2. CASE PushWriteEnds
      BY <1>1, <1>2, <2>1, <2>2, <2>3, <3>2, StoreStep DEF PushWriteEnds
    <3>3. QED
      BY <1>12, <3>1, <3>2
  <2>5. Last' = Last
    BY <2>1, <2>2, <2>3, <2>4, <1>2 DEF Last, Reserving
  <2>6. \A i \in top .. Last - 1 : Place(i, capacity) # Place(b, capacity)
    BY <1>2, <2>2, PlaceFacts
  <2>7. QED
    BY <1>5, <2>1, <2>3, <2>4, <2>5, <2>6
<1>13. CASE PushPublish
  <2> DEFINE v == b + 1
             n == Last - top
  <2>1. /\ oPc = "push_publish" /\ oPc' = "idle" /\ Store(Bottom, v) /\ mem' = mem
        /\ UNCHANGED <<capacity, top, popped, stolen>>
    BY <1>13 DEF PushPublish
  <2>2. v \in Nat /\ Last = b /\ capacity # 0 /\ top <= b /\ pushed + 1 \in Content
    BY <1>2, <2>1, OwnerFacts
  <2>3. n \in Nat /\ top + n = b /\ v - top = n + 1
    BY <1>2, <2>2
  <2> HIDE DEF v, n
  <2>4. \A y : View(stores', mem', y) = IF Bottom = y THEN v ELSE View(stores, mem, y)
    BY <1>1, <1>2, <2>1, <2>2, StoreStep
  <2>5. Last' = v
    BY <2>1, <2>4 DEF Last, Reserving
  <2>6. View(stores, mem, Place(b, capacity)) = pushed + 1
    BY <2>1 DEF Delivered, ItemsWait, At
  <2>7. \A i \in 1 .. n + 1 : View(stores', mem', Place(top + i - 1, capacity))
                              = View(stores, mem, Place(top + i - 1, capacity))
    <3>1. \A i \in 1 .. n + 1 : top + i - 1 \in Nat
      BY <1>2, <2>3
    <3>2. \A i \in 1 .. n + 1 : Place(top + i - 1, capacity) # Bottom
      BY <2>2, <3>1, PlaceFacts
    <3>3. QED
      BY <2>4, <3>2
  <2>8. Line(stores', mem', capacity, top, n + 1) = Line(stores, mem, capacity, top, n + 1)
    BY <2>7 DEF Line
  <2>9. Line(stores, mem, capacity, top, n + 1)
          = Append(Line(stores, mem, capacity, top, n), View(stores, mem, Place(top + n, capacity)))
    BY <1>2, <2>3, LineGrows
  <2>10. Waiting' = Append(Waiting, pushed + 1)
    BY <1>4, <2>1, <2>3, <2>5, <2>6, <2>8, <2>9 DEF n
  <2>11. Abstract!Add(pushed + 1)
    BY <2>1, <2>10 DEF Abstract!Add
  <2>12. QED
    BY <2>2, <2>11 DEF Abstract!DequeNext
<1>14. CASE PopReserve
  <2> DEFINE v == b - 1
  <2>1. /\ oPc = "pop_reserve" /\ oPc' = "pop_fence" /\ Store(Bottom, v) /\ mem' = mem
        /\ UNCHANGED <<capacity, top, b, popped, stolen>>
    BY <1>14 DEF PopReserve
  <2>2. v \in Nat
    BY <2>1, OwnerFacts
  <2>3. Last = b /\ Last' = b
    BY <2>1, OwnerFacts DEF Last, Reserving
  <2> HIDE DEF v
  <2>4. \A y : View(stores', mem', y) = IF Bottom = y THEN v ELSE View(stores, mem, y)
    BY <1>1, <1>2, <2>1, <2>2, StoreStep
  <2>5. \A i \in top .. Last - 1 : Place(i, capacity) # Bottom
    BY <1>3, PlaceFacts
  <2>6. QED
    BY <1>5, <2>1, <2>3, <2>4, <2>5
(* pop() takes the newest item, with a race or without.                     *)
<1>15. ASSUME UNCHANGED <<capacity, mem, stores, stolen>>, top' \in Nat, top < Last,
              Last' - top' = Last - top - 1, top' = top \/ Last' = top',
              NEW v, v = View(stores, mem, Place(Last - 1, capacity)),
              popped' = [popped EXCEPT ![v] = @ + 1]
       PROVE  [Abstract!DequeNext]_(Abstract!dequeVars)
  <2> DEFINE n == Last - top
             l == Line(stores, mem, capacity, top, n)
  <2>1. n \in Nat /\ n # 0 /\ Last' - top' = n - 1 /\ top + n - 1 = Last - 1 /\ n - 1 \in Nat
    BY <1>2, <1>15
  <2> HIDE DEF n
  <2>2. /\ SubSeq(l, 1, Len(l) - 1) = Line(stores, mem, capacity, top, n - 1)
        /\ l # <<>> /\ l[Len(l)] = View(stores, mem, Place(top + n - 1, capacity))
    BY <1>2, <2>1, LineShrinks
  <2>3. l[Len(l)] = v
    BY <1>15, <2>1, <2>2
  <2>4. Line(stores, mem, capacity, top', n - 1) = Line(stores, mem, capacity, top, n - 1)
    <3>1. CASE top' = top
      BY <3>1
    <3>2. CASE Last' = top'
      <4>1. n - 1 = 0
        <5>1. \A x \in Nat : x - x = 0
          OBVIOUS
        <5>2. top' - top' = 0
          BY <1>15, <5>1
        <5>3. QED
          BY <2>1, <3>2, <5>2
      <4>2. QED
        BY <1>2, <1>15, <4>1, LineIsSequence
    <3>3. QED
      BY <1>15, <3>1, <3>2
  <2>5. Waiting = l /\ Waiting' = SubSeq(l, 1, Len(l) - 1)
    BY <1>4, <1>15, <2>1, <2>2, <2>4 DEF n
  <2>6. Abstract!TakeNewest
    BY <1>15, <2>2, <2>3, <2>5 DEF Abstract!TakeNewest, Abstract!Front
  <2>7. QED
    BY <2>6 DEF Abstract!DequeNext
<1>16. CASE PopRead /\ oPc' # "pop_race"
  <2>1. /\ oPc = "pop_read" /\ oPc' = "idle" /\ t # b - 1
        /\ popped' = [popped EXCEPT ![Owner(Slot(b - 1))] = @ + 1]
        /\ UNCHANGED <<capacity, top, stores, mem, stolen>>
    BY <1>16 DEF PopRead, LastItem
  <2>2. /\ t < b - 1 /\ b - 1 \in Nat /\ View(stores, mem, Bottom) = b - 1 /\ Last = b
        /\ capacity # 0
    BY <1>2, <2>1, OwnerFacts
  <2>3. top <= b - 1
    BY <1>1, <2>1, <2>2 DEF ReservedIsMine
  <2>4. Last' = b - 1
    BY <2>1, <2>2 DEF Last, Reserving
  <2>5. Owner(Slot(b - 1)) = View(stores, mem, Place(Last - 1, capacity))
    BY <1>2, <2>2, PlaceFacts
  <2>6. top < Last /\ Last' - top' = Last - top - 1
    BY <1>2, <2>1, <2>2, <2>3, <2>4
  <2>7. QED
    BY <1>2, <1>15, <2>1, <2>5, <2>6
<1>17. CASE PopRace
  <2>1. /\ oPc = "pop_race" /\ oPc' = "pop_restore" /\ UNCHANGED <<capacity, b, stores, mem, stolen>>
        /\ IF top = t THEN top' = t + 1 /\ popped' = [popped EXCEPT ![val] = @ + 1]
                      ELSE UNCHANGED <<top, popped>>
    BY <1>17 DEF PopRace
  <2>2. /\ Last = b /\ Last' = b /\ t = b - 1 /\ b - 1 \in Nat
        /\ val = View(stores, mem, Place(b - 1, capacity))
    BY <2>1, OwnerFacts DEF Last, Reserving
  <2>3. CASE top = t
    <3>1. top' = b /\ top < Last /\ Last' - top' = Last - top - 1
      BY <1>2, <2>1, <2>2, <2>3
    <3>2. QED
      BY <1>2, <1>15, <2>1, <2>2, <2>3, <3>1
  <2>4. CASE top # t
    BY <1>5, <2>1, <2>2, <2>4
  <2>5. QED
    BY <2>3, <2>4
<1>18. CASE PopRestore
  <2>1. /\ oPc = "pop_restore" /\ oPc' = "idle" /\ Store(Bottom, b) /\ mem' = mem
        /\ UNCHANGED <<capacity, top, b, popped, stolen>>
    BY <1>18 DEF PopRestore, Restore
  <2>2. \A y : View(stores', mem', y) = IF Bottom = y THEN b ELSE View(stores, mem, y)
    BY <1>1, <1>2, <2>1, StoreStep
  <2>3. Last = b /\ Last' = b
    BY <2>1, <2>2, OwnerFacts DEF Last, Reserving
  <2>4. \A i \in top .. Last - 1 : Place(i, capacity) # Bottom
    BY <1>3, PlaceFacts
  <2>5. QED
    BY <1>5, <2>1, <2>2, <2>3, <2>4
<1>19. CASE UNCHANGED vars
  BY <1>5, <1>19 DEF vars, ownerVars, thiefVars, Last
<1>20. QED
  BY <1>6, <1>7, <1>8, <1>9, <1>10, <1>11, <1>12, <1>13, <1>14, <1>16, <1>17, <1>18, <1>19
  DEF Next, OwnerStep, ThiefStep

(* As long as no load of _top has overtaken, the queue is a deque: push()   *)
(* and pop() work at its new end, steal() at its old end.                   *)
THEOREM QueueImplementsDeque == Spec /\ [][~Overtakes]_vars => ImplementsDeque
<1>2. Init => Abstract!DequeInit
  <2>1. SUFFICES ASSUME Init PROVE Abstract!DequeInit
    OBVIOUS
  <2>2. top = 1 /\ oPc = "idle" /\ stores = <<>> /\ mem[Bottom] = 1
    BY <2>1 DEF Init
  <2>3. Last = 1 /\ Last - top = 0
    BY <2>2 DEF Last, Reserving, View, Pending
  <2>4. Waiting = <<>>
    BY <2>1, <2>2, <2>3, InitRing, WaitingIsLine, LineIsSequence
  <2>5. QED
    BY <2>1, <2>4 DEF Init, Abstract!DequeInit
<1>3. RingInv /\ RingInv' /\ Delivered /\ [Next]_vars => [Abstract!DequeNext]_(Abstract!dequeVars)
  BY StepImplementsDeque
<1>4. QED
  BY <1>2, <1>3, DeliveredAlways, PTL DEF Spec, ImplementsDeque, Abstract!DequeSpec
=============================================================================
