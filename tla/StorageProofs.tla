--------------------------- MODULE StorageProofs ---------------------------
(***************************************************************************)
(* Proofs about Storage, for all values of its constants: that bytes and   *)
(* elements are found where they were put, and that memory and descriptors *)
(* have one owner; and about SpscQueue, the ring that two threads share:   *)
(* it is FIFO, holds at most N - 1 elements, races on no slot, fails a     *)
(* call only when it must, and its memory behaves as BoundedFifo.  The     *)
(* parts share no state, so each has an inductive invariant of its own.    *)
(***************************************************************************)
EXTENDS Storage, SpscQueue, FiniteSetTheorems, SequenceTheorems, WellFoundedInduction, TLAPS

(* A step of the whole is a step of one part, and the others stay.          *)
LEMMA StorageParts ==
  [StorageNext]_storageVars =>
    /\ [PieceNext \/ AllocatorNext]_poolVars /\ [ArrayNext]_arrayVars
    /\ [RingNext]_ringVars /\ [FdNext]_fdVars
BY DEF StorageNext, StepOf, storageVars

-----------------------------------------------------------------------------
(* fd_guard: what the guards, the program and nobody hold are different     *)
(* descriptors, and together they are the open ones.                        *)
FdsPart ==
  /\ clients \subseteq DOMAIN opened /\ forgotten \subseteq DOMAIN opened
  /\ clients \cap forgotten = {}
  /\ \A g \in Guard : fdOf[g] \in Fd =>
       fdOf[g] \in DOMAIN opened /\ fdOf[g] \notin clients \cup forgotten
  /\ \A g, h \in Guard : fdOf[g] = fdOf[h] /\ fdOf[g] \in Fd => g = h
  /\ \A fd \in DOMAIN opened : fd \in clients \cup forgotten \/ \E g \in Guard : fdOf[g] = fd
FdInv ==
  /\ fdOf \in [Guard -> {NoGuard, -1} \cup Fd] /\ DOMAIN opened \subseteq Fd
  /\ closedTwice = FALSE /\ FdsPart

(* No descriptor is open in the beginning.                                  *)
LEMMA FdInvHolds == FdInit => FdInv
<1>1. SUFFICES ASSUME FdInit PROVE FdInv
  OBVIOUS
<1>2. NoGuard \notin Fd /\ -1 \notin Fd
  BY FdAssumption DEF NoGuard, Fd
<1>3. DOMAIN opened = {} /\ clients = {} /\ forgotten = {} /\ \A g \in Guard : fdOf[g] = NoGuard
  BY <1>1 DEF FdInit
<1>4. fdOf \in [Guard -> {NoGuard, -1} \cup Fd] /\ closedTwice = FALSE
  BY <1>1 DEF FdInit
<1>5. QED
  BY <1>2, <1>3, <1>4 DEF FdInv, FdsPart

(* A descriptor is closed, moved or handed over by whoever has it.          *)
LEMMA StepKeepsFdInv == FdInv /\ [FdNext]_fdVars => FdInv'
<1> DEFINE D == DOMAIN opened
<1>1. SUFFICES ASSUME FdInv, [FdNext]_fdVars PROVE FdInv'
  OBVIOUS
<1>2. /\ fdOf \in [Guard -> {NoGuard, -1} \cup Fd] /\ D \subseteq Fd
      /\ closedTwice = FALSE /\ FdsPart
  BY <1>1 DEF FdInv
<1>3. NoGuard \notin Fd /\ -1 \notin Fd /\ NoGuard # -1 /\ \A fd \in Fd : fd >= 0
  BY FdAssumption DEF NoGuard, Fd
<1>4. ASSUME NEW g \in Guard, CloseHeld(g)
      PROVE  DOMAIN opened' = D \ {fdOf[g]} /\ closedTwice' = FALSE
  <2>1. DOMAIN opened' = D \ {fdOf[g]}
    BY <1>4 DEF CloseHeld
  <2>2. ~(fdOf[g] >= 0 /\ fdOf[g] \notin D)
    BY <1>2, <1>3 DEF FdsPart, NoGuard
  <2>3. QED
    BY <1>2, <1>4, <2>1, <2>2 DEF CloseHeld
<1>5. CASE OpenFd
  <2>1. PICK fd \in Fd : /\ fd \notin D /\ DOMAIN opened' = D \cup {fd}
                         /\ clients' = clients \cup {fd}
                         /\ UNCHANGED <<fdOf, forgotten, closedTwice>>
    BY <1>5 DEF OpenFd
  <2>2. QED
    BY <1>2, <2>1 DEF FdInv, FdsPart
<1>6. ASSUME NEW g \in Guard, BuildGuard(g) PROVE FdInv'
  <2>1. fdOf[g] = NoGuard /\ UNCHANGED <<opened, clients, forgotten, closedTwice>>
    BY <1>6 DEF BuildGuard, Built
  <2>2. fdOf' \in [Guard -> {NoGuard, -1} \cup Fd]
        /\ \A h \in Guard : fdOf'[h] = IF h = g THEN -1 ELSE fdOf[h]
    BY <1>2, <1>6 DEF BuildGuard
  <2>3. QED
    BY <1>2, <1>3, <2>1, <2>2 DEF FdInv, FdsPart
<1>7. ASSUME NEW g \in Guard, DestroyGuard(g) PROVE FdInv'
  <2>1. UNCHANGED <<clients, forgotten>> /\ CloseHeld(g)
    BY <1>7 DEF DestroyGuard
  <2>2. fdOf' \in [Guard -> {NoGuard, -1} \cup Fd]
        /\ \A h \in Guard : fdOf'[h] = IF h = g THEN NoGuard ELSE fdOf[h]
    BY <1>2, <1>7 DEF DestroyGuard
  <2>3. DOMAIN opened' = D \ {fdOf[g]} /\ closedTwice' = FALSE
    BY <1>4, <2>1
  <2>4. \A fd \in D \ {fdOf[g]} :
          fd \in clients' \cup forgotten' \/ \E h \in Guard : fdOf'[h] = fd
    BY <1>2, <2>1, <2>2 DEF FdsPart
  <2>5. clients' \subseteq DOMAIN opened' /\ forgotten' \subseteq DOMAIN opened'
    BY <1>2, <2>1, <2>3 DEF FdsPart
  <2>6. \A h \in Guard : fdOf'[h] \in Fd => h # g /\ fdOf'[h] = fdOf[h]
    BY <1>3, <2>2
  <2>7. FdsPart'
    BY <1>2, <2>1, <2>3, <2>4, <2>5, <2>6 DEF FdsPart
  <2>8. QED
    BY <1>2, <2>2, <2>3, <2>7 DEF FdInv
<1>8. ASSUME NEW g \in Guard, NEW other \in Guard, g # other, fdOf' = TakeOver(g, other)
      PROVE  /\ fdOf' \in [Guard -> {NoGuard, -1} \cup Fd]
             /\ \A h \in Guard :
                  fdOf'[h] = IF h = other THEN -1 ELSE IF h = g THEN fdOf[other] ELSE fdOf[h]
  BY <1>2, <1>8 DEF TakeOver
<1>9. ASSUME NEW g \in Guard, NEW other \in Guard, MoveConstructGuard(g, other) PROVE FdInv'
  <2>1. /\ fdOf[g] = NoGuard /\ g # other /\ fdOf' = TakeOver(g, other)
        /\ UNCHANGED <<opened, clients, forgotten, closedTwice>>
    BY <1>9 DEF MoveConstructGuard, Built
  <2>2. QED
    BY <1>2, <1>3, <1>8, <2>1 DEF FdInv, FdsPart
<1>10. ASSUME NEW g \in Guard, NEW other \in Guard, MoveAssignGuard(g, other) PROVE FdInv'
  <2>1. /\ g # other /\ fdOf' = TakeOver(g, other)
        /\ forgotten' = forgotten \cup ({fdOf[g]} \cap Fd)
        /\ UNCHANGED <<opened, clients, closedTwice>>
    BY <1>10 DEF MoveAssignGuard, Built
  <2>2. QED
    BY <1>2, <1>3, <1>8, <2>1 DEF FdInv, FdsPart
<1>11. ASSUME NEW g \in Guard, ResetGuard(g) PROVE FdInv'
  <2>1. PICK fd \in clients \cup {-1} :
          CloseHeld(g) /\ fdOf' = [fdOf EXCEPT ![g] = fd] /\ clients' = clients \ {fd}
    BY <1>11 DEF ResetGuard
  <2>2. forgotten' = forgotten /\ fd \in {NoGuard, -1} \cup Fd /\ (fd \in clients \/ fd = -1)
    BY <1>2, <1>11 DEF ResetGuard, FdsPart
  <2>3. fdOf' \in [Guard -> {NoGuard, -1} \cup Fd]
        /\ \A h \in Guard : fdOf'[h] = IF h = g THEN fd ELSE fdOf[h]
    BY <1>2, <2>1, <2>2
  <2>4. DOMAIN opened' = D \ {fdOf[g]} /\ closedTwice' = FALSE
    BY <1>4, <2>1
  <2>5. \A f \in D \ {fdOf[g]} :
          f \in clients' \cup forgotten' \/ \E h \in Guard : fdOf'[h] = f
    BY <1>2, <2>1, <2>2, <2>3 DEF FdsPart
  <2>6. fdOf[g] \notin clients \cup forgotten
    BY <1>2, <1>3 DEF FdsPart
  <2>7. clients' \subseteq DOMAIN opened' /\ forgotten' \subseteq DOMAIN opened'
        /\ clients' \cap forgotten' = {}
    BY <1>2, <2>1, <2>2, <2>4, <2>6 DEF FdsPart
  <2>8. \A h \in Guard : fdOf'[h] \in Fd => fdOf'[h] \in DOMAIN opened'
    BY <1>2, <1>3, <2>2, <2>3, <2>4, <2>6 DEF FdsPart
  <2>9. \A h \in Guard : fdOf'[h] \in Fd => fdOf'[h] \notin clients' \cup forgotten'
    BY <1>2, <1>3, <2>1, <2>2, <2>3 DEF FdsPart
  <2>10. \A h, k \in Guard : fdOf'[h] = fdOf'[k] /\ fdOf'[h] \in Fd => h = k
    BY <1>2, <1>3, <2>2, <2>3 DEF FdsPart
  <2>11. FdsPart'
    BY <2>4, <2>5, <2>7, <2>8, <2>9, <2>10 DEF FdsPart
  <2>12. QED
    BY <1>2, <2>3, <2>4, <2>11 DEF FdInv
<1>12. ASSUME NEW g \in Guard, ReleaseGuard(g) PROVE FdInv'
  <2>1. /\ clients' = clients \cup ({fdOf[g]} \cap Fd)
        /\ UNCHANGED <<opened, forgotten, closedTwice>>
    BY <1>12 DEF ReleaseGuard
  <2>2. fdOf' \in [Guard -> {NoGuard, -1} \cup Fd]
        /\ \A h \in Guard : fdOf'[h] = IF h = g THEN -1 ELSE fdOf[h]
    BY <1>2, <1>12 DEF ReleaseGuard
  <2>3. \A h \in Guard : fdOf'[h] \in Fd => h # g /\ fdOf'[h] = fdOf[h]
    BY <1>3, <2>2
  <2>4. \A fd \in D : fd \in clients' \cup forgotten' \/ \E h \in Guard : fdOf'[h] = fd
    BY <1>2, <2>1, <2>2 DEF FdsPart
  <2>5. clients' \subseteq D /\ clients' \cap forgotten = {}
    BY <1>2, <2>1 DEF FdsPart
  <2>6. \A h \in Guard : fdOf'[h] \in Fd => fdOf'[h] \notin clients' \cup forgotten'
    BY <1>2, <2>1, <2>3 DEF FdsPart
  <2>7. FdsPart'
    BY <1>2, <2>1, <2>3, <2>4, <2>5, <2>6 DEF FdsPart
  <2>8. QED
    BY <1>2, <2>1, <2>2, <2>7 DEF FdInv
<1>13. ASSUME NEW fd, MakeNonBlocking(fd) \/ MakeBlocking(fd) \/ MakeCloseOnExec(fd) PROVE FdInv'
  <2>1. DOMAIN opened' = D /\ UNCHANGED <<fdOf, clients, forgotten, closedTwice>>
    BY <1>13 DEF MakeNonBlocking, MakeBlocking, MakeCloseOnExec
  <2>2. QED
    BY <1>2, <2>1 DEF FdInv, FdsPart
<1>14. CASE UNCHANGED fdVars
  BY <1>2, <1>14 DEF FdInv, FdsPart, fdVars
<1>15. QED
  BY <1>1, <1>5, <1>6, <1>7, <1>9, <1>10, <1>11, <1>12, <1>13, <1>14 DEF FdNext

(* So each descriptor that is open is counted once, and no other.           *)
LEMMA FdInvMeans == FdInv => FdsHaveOneOwner
<1> DEFINE holders(fd) == {g \in Built : fdOf[g] = fd}
<1>1. SUFFICES ASSUME FdInv, NEW fd \in Fd
               PROVE  Cardinality(holders(fd)) + Cardinality({fd} \cap clients)
                        + Cardinality({fd} \cap forgotten)
                        = IF fd \in DOMAIN opened THEN 1 ELSE 0
  BY DEF FdInv, FdsHaveOneOwner
<1>2. FdsPart
  BY <1>1 DEF FdInv
<1>3. NoGuard \notin Fd
  BY FdAssumption DEF NoGuard, Fd
<1>4. holders(fd) = {g \in Guard : fdOf[g] = fd}
  BY <1>3 DEF Built
<1> HIDE DEF holders
<1>5. /\ Cardinality({}) = 0
      /\ \A x : Cardinality({x}) = 1
  BY FS_EmptySet, FS_Singleton
<1>6. fd \in clients \/ {fd} \cap clients = {}
  OBVIOUS
<1>7. fd \in forgotten \/ {fd} \cap forgotten = {}
  OBVIOUS
<1>8. CASE fd \in clients
  <2>1. holders(fd) = {} /\ {fd} \cap clients = {fd} /\ {fd} \cap forgotten = {}
        /\ fd \in DOMAIN opened
    BY <1>2, <1>4, <1>8 DEF FdsPart
  <2>2. QED
    BY <1>5, <2>1
<1>9. CASE fd \in forgotten
  <2>1. holders(fd) = {} /\ {fd} \cap clients = {} /\ {fd} \cap forgotten = {fd}
        /\ fd \in DOMAIN opened
    BY <1>2, <1>4, <1>9 DEF FdsPart
  <2>2. /\ Cardinality(holders(fd)) = 0 /\ Cardinality({fd} \cap clients) = 0
        /\ Cardinality({fd} \cap forgotten) = 1
    BY <1>5, <2>1
  <2>3. QED
    BY <2>1, <2>2
<1>10. CASE fd \notin clients \cup forgotten /\ fd \in DOMAIN opened
  <2>1. PICK g \in Guard : fdOf[g] = fd
    BY <1>2, <1>10 DEF FdsPart
  <2>2. holders(fd) = {g} /\ {fd} \cap clients = {} /\ {fd} \cap forgotten = {}
    BY <1>2, <1>4, <1>10, <2>1 DEF FdsPart
  <2>3. /\ Cardinality(holders(fd)) = 1 /\ Cardinality({fd} \cap clients) = 0
        /\ Cardinality({fd} \cap forgotten) = 0
    BY <1>5, <2>2
  <2>4. QED
    BY <1>10, <2>3
<1>11. CASE fd \notin DOMAIN opened
  <2>1. holders(fd) = {} /\ {fd} \cap clients = {} /\ {fd} \cap forgotten = {}
    BY <1>2, <1>4, <1>11 DEF FdsPart
  <2>2. QED
    BY <1>5, <1>11, <2>1
<1>12. QED
  BY <1>8, <1>9, <1>10, <1>11

-----------------------------------------------------------------------------
(* Different multiples of d are at least d apart.                           *)
LEMMA Multiples ==
  ASSUME NEW d \in Nat, NEW a \in Nat, NEW b \in Nat, a < b
  PROVE  d * a + d <= d * b /\ d * a \in Nat /\ d * b \in Nat
<1>1. PICK k \in Nat : b = a + 1 + k
  <2>1. b - a - 1 \in Nat /\ b = a + 1 + (b - a - 1)
    OBVIOUS
  <2>2. QED
    BY <2>1
<1>2. d * b = d * a + d + d * k
  BY <1>1
<1>3. d * k \in Nat /\ d * a \in Nat /\ d * b \in Nat
  OBVIOUS
<1>4. QED
  BY <1>2, <1>3

(* A number is d times its quotient plus its remainder, in one way only.    *)
LEMMA Division ==
  ASSUME NEW d \in Nat \ {0}, NEW q \in Nat, NEW rem \in 0 .. d - 1
  PROVE  (d * q + rem) \div d = q /\ (d * q + rem) % d = rem
<1> DEFINE x == d * q + rem
           p == x \div d
           s == x % d
<1>1. x \in Nat
  OBVIOUS
<1> HIDE DEF x
<1>2. x = d * p + s /\ p \in Nat /\ s \in 0 .. d - 1
  BY <1>1
<1> HIDE DEF p, s
<1>3. d * q + rem = d * p + s
  BY <1>2 DEF x
<1>5. /\ q < p => d * q + d <= d * p
      /\ p < q => d * p + d <= d * q
  BY <1>2, Multiples
<1>6. d * q \in Nat /\ d * p \in Nat
  BY <1>2
<1>7. ~(q < p) /\ ~(p < q)
  BY <1>2, <1>3, <1>5, <1>6
<1>8. p = q
  BY <1>2, <1>7
<1>9. s = rem
  BY <1>2, <1>3, <1>8
<1>10. QED
  BY <1>8, <1>9 DEF p, s, x

-----------------------------------------------------------------------------
(* A set of naturals that is not empty has a least one.                     *)
LEMMA LeastNatural ==
  ASSUME NEW S \in SUBSET Nat, S # {}
  PROVE  \E k \in S : \A j \in S : k <= j
<1> DEFINE Less == OpToRel(<, Nat)
<1>1. PICK k \in S : \A j \in S : ~(<<j, k>> \in Less)
  <2>1. IsWellFoundedOn(Less, Nat)
    BY NatLessThanWellFounded
  <2> HIDE DEF Less
  <2>2. QED
    BY <2>1, WFMin
<1>2. ASSUME NEW j \in S, j < k PROVE FALSE
  <2>1. <<j, k>> \in Less
    BY <1>2 DEF OpToRel
  <2>2. QED
    BY <1>1, <2>1
<1>3. QED
  BY <1>2

(* The ring: the k-th element that waits is k places behind the reader,     *)
(* around the end of the buffer.                                            *)
Around(p, k, n) == IF p + k < n THEN p + k ELSE p + k - n
Behind(rb, k) == Around(rb.reader, k, RingCapacity(rb))
RingTypeOK ==
  /\ \E n \in Capacity .. MaxCapacity :
       /\ DOMAIN ring.buffer = 0 .. n - 1
       /\ ring.reader \in 0 .. n - 1 /\ ring.writer \in 0 .. n - 1
       /\ Len(line) < n
  /\ ring = [reader |-> ring.reader, writer |-> ring.writer, buffer |-> ring.buffer]
  /\ ring.buffer = [i \in DOMAIN ring.buffer |-> ring.buffer[i]]
  /\ line \in Seq(Nat) /\ pushed \in Nat
LineIsThere ==
  /\ ring.writer = Behind(ring, Len(line))
  /\ \A i \in 1 .. Len(line) : ring.buffer[Behind(ring, i - 1)] = line[i]
RingInv == wild \in BOOLEAN /\ (~wild => RingTypeOK /\ LineIsThere)

(* The indices of a buffer of n elements.                                   *)
LEMMA CapacityIs ==
  ASSUME NEW rb, NEW n \in Nat \ {0}, DOMAIN rb.buffer = 0 .. n - 1
  PROVE  /\ RingCapacity(rb) = n
         /\ \A i \in 0 .. n - 1 : NextIndex(rb, i) = IF i + 1 = n THEN 0 ELSE i + 1
         /\ \A i \in 0 .. n - 1 : PrevIndex(rb, i) = IF i = 0 THEN n - 1 ELSE i - 1
<1>1. RingCapacity(rb) = n
  <2>1. Cardinality(0 .. n - 1) = n
    BY FS_Interval
  <2>2. QED
    BY <2>1 DEF RingCapacity
<1>2. ASSUME NEW i \in 0 .. n - 1 PROVE NextIndex(rb, i) = IF i + 1 = n THEN 0 ELSE i + 1
  BY <1>1 DEF NextIndex
<1>3. ASSUME NEW i \in 0 .. n - 1 PROVE PrevIndex(rb, i) = IF i = 0 THEN n - 1 ELSE i - 1
  BY <1>1 DEF PrevIndex
<1>4. QED
  BY <1>1, <1>2, <1>3

(* Going around from p: the places are different, and one follows another. *)
LEMMA AroundFacts ==
  ASSUME NEW n \in Nat \ {0}, NEW p \in 0 .. n - 1
  PROVE  /\ Around(p, 0, n) = p
         /\ \A k \in 0 .. n - 1 : Around(p, k, n) \in 0 .. n - 1
         /\ \A j, k \in 0 .. n - 1 : Around(p, j, n) = Around(p, k, n) => j = k
         /\ \A k \in 0 .. n - 2 :
              Around(p, k + 1, n) = IF Around(p, k, n) + 1 = n THEN 0 ELSE Around(p, k, n) + 1
         /\ IF Around(p, n - 1, n) + 1 = n THEN p = 0 ELSE p = Around(p, n - 1, n) + 1
         /\ \A k \in 1 .. n - 1 :
              Around(p, k - 1, n) = IF Around(p, k, n) = 0 THEN n - 1 ELSE Around(p, k, n) - 1
         /\ \A q \in 0 .. n - 1 : q = Around(p, 1, n) =>
              \A k \in 0 .. n - 2 : Around(q, k, n) = Around(p, k + 1, n)
<1>1. p \in Nat /\ n \in Nat /\ p < n
  OBVIOUS
<1>2. Around(p, 0, n) = p
  BY <1>1 DEF Around
<1>3. ASSUME NEW k \in 0 .. n - 1 PROVE Around(p, k, n) \in 0 .. n - 1
  BY <1>1, <1>3 DEF Around
<1>4. ASSUME NEW j \in 0 .. n - 1, NEW k \in 0 .. n - 1, Around(p, j, n) = Around(p, k, n)
      PROVE  j = k
  BY <1>1, <1>4 DEF Around
<1>5. ASSUME NEW k \in 0 .. n - 2
      PROVE  Around(p, k + 1, n) = IF Around(p, k, n) + 1 = n THEN 0 ELSE Around(p, k, n) + 1
  BY <1>1, <1>5 DEF Around
<1>6. IF Around(p, n - 1, n) + 1 = n THEN p = 0 ELSE p = Around(p, n - 1, n) + 1
  BY <1>1 DEF Around
<1>7. ASSUME NEW k \in 1 .. n - 1
      PROVE  Around(p, k - 1, n) = IF Around(p, k, n) = 0 THEN n - 1 ELSE Around(p, k, n) - 1
  BY <1>1, <1>7 DEF Around
<1>8. ASSUME NEW q \in 0 .. n - 1, q = Around(p, 1, n), NEW k \in 0 .. n - 2
      PROVE  Around(q, k, n) = Around(p, k + 1, n)
  BY <1>1, <1>8 DEF Around
<1>9. QED
  BY <1>2, <1>3, <1>4, <1>5, <1>6, <1>7, <1>8

(* The same of the places behind the reader of a buffer of n elements.      *)
LEMMA BehindFacts ==
  ASSUME NEW rb, NEW n \in Nat \ {0}, DOMAIN rb.buffer = 0 .. n - 1, rb.reader \in 0 .. n - 1
  PROVE  /\ Behind(rb, 0) = rb.reader
         /\ \A k \in 0 .. n - 1 : Behind(rb, k) \in 0 .. n - 1
         /\ \A j, k \in 0 .. n - 1 : Behind(rb, j) = Behind(rb, k) => j = k
         /\ \A k \in 0 .. n - 1 :
              NextIndex(rb, Behind(rb, k)) = IF k = n - 1 THEN rb.reader ELSE Behind(rb, k + 1)
         /\ \A k \in 1 .. n - 1 : PrevIndex(rb, Behind(rb, k)) = Behind(rb, k - 1)
<1> DEFINE p == rb.reader
<1>1. \A k : Behind(rb, k) = Around(p, k, n)
  BY CapacityIs DEF Behind
<1>2. p \in 0 .. n - 1
  OBVIOUS
<1>3. /\ \A i \in 0 .. n - 1 : NextIndex(rb, i) = IF i + 1 = n THEN 0 ELSE i + 1
      /\ \A i \in 0 .. n - 1 : PrevIndex(rb, i) = IF i = 0 THEN n - 1 ELSE i - 1
  BY CapacityIs
<1> HIDE DEF p
<1>4. \A k \in 0 .. n - 1 : Around(p, k, n) \in 0 .. n - 1
  BY <1>2, AroundFacts
<1>5. ASSUME NEW k \in 0 .. n - 1
      PROVE  NextIndex(rb, Around(p, k, n)) = IF k = n - 1 THEN p ELSE Around(p, k + 1, n)
  <2>1. NextIndex(rb, Around(p, k, n))
          = IF Around(p, k, n) + 1 = n THEN 0 ELSE Around(p, k, n) + 1
    BY <1>3, <1>4
  <2>2. CASE k = n - 1
    <3>1. IF Around(p, n - 1, n) + 1 = n THEN p = 0 ELSE p = Around(p, n - 1, n) + 1
      BY <1>2, AroundFacts
    <3>2. QED
      BY <2>1, <2>2, <3>1
  <2>3. CASE k # n - 1
    <3>1. k \in 0 .. n - 2
      BY <2>3
    <3>2. Around(p, k + 1, n) = IF Around(p, k, n) + 1 = n THEN 0 ELSE Around(p, k, n) + 1
      BY <1>2, <3>1, AroundFacts
    <3>3. QED
      BY <2>1, <2>3, <3>2
  <2>4. QED
    BY <2>2, <2>3
<1>6. ASSUME NEW k \in 1 .. n - 1 PROVE PrevIndex(rb, Around(p, k, n)) = Around(p, k - 1, n)
  <2>1. Around(p, k, n) \in 0 .. n - 1
    BY <1>4
  <2>2. PrevIndex(rb, Around(p, k, n))
          = IF Around(p, k, n) = 0 THEN n - 1 ELSE Around(p, k, n) - 1
    BY <1>3, <2>1
  <2>3. Around(p, k - 1, n) = IF Around(p, k, n) = 0 THEN n - 1 ELSE Around(p, k, n) - 1
    BY <1>2, AroundFacts
  <2>4. QED
    BY <2>2, <2>3
<1>7. Around(p, 0, n) = p /\ \A j, k \in 0 .. n - 1 : Around(p, j, n) = Around(p, k, n) => j = k
  BY <1>2, AroundFacts
<1>8. QED
  BY <1>1, <1>4, <1>5, <1>6, <1>7 DEF p

(* The buffer starts empty.                                                 *)
LEMMA RingInvHolds == RingInit => RingInv
<1>1. SUFFICES ASSUME RingInit PROVE RingInv
  OBVIOUS
<1>2. Capacity \in Capacity .. MaxCapacity /\ Capacity \in Nat \ {0}
  BY CapacityAssumption
<1>3. /\ DOMAIN ring.buffer = 0 .. Capacity - 1 /\ ring.reader = 0 /\ ring.writer = 0
      /\ line = <<>> /\ Len(line) = 0 /\ pushed = 0 /\ wild = FALSE
  BY <1>1 DEF RingInit
<1>4. RingTypeOK
  <2>1. ring = [reader |-> ring.reader, writer |-> ring.writer, buffer |-> ring.buffer]
        /\ ring.buffer = [i \in DOMAIN ring.buffer |-> ring.buffer[i]]
    BY <1>1 DEF RingInit
  <2>2. 0 \in 0 .. Capacity - 1
    BY <1>2
  <2>3. QED
    BY <1>2, <1>3, <2>1, <2>2 DEF RingTypeOK
<1>5. LineIsThere
  <2>1. Behind(ring, 0) = ring.reader
    <3>1. RingCapacity(ring) = Capacity
      BY <1>2, <1>3, CapacityIs
    <3>2. QED
      BY <1>2, <1>3, <3>1 DEF Behind, Around
  <2>2. QED
    BY <1>3, <2>1 DEF LineIsThere
<1>6. QED
  BY <1>3, <1>4, <1>5 DEF RingInv

(* Pushing adds behind the last element unless the ring is full, pushing by *)
(* force drops the first one if it is, and resizing that stays inside the   *)
(* buffers finds the ring empty.                                            *)
LEMMA StepKeepsRingInv == RingInv /\ [RingNext]_ringVars => RingInv'
<1>1. SUFFICES ASSUME RingInv, [RingNext]_ringVars PROVE RingInv'
  OBVIOUS
<1>2. CASE UNCHANGED ringVars
  BY <1>1, <1>2 DEF ringVars, RingInv, RingTypeOK, LineIsThere, Behind, RingCapacity
<1>3. SUFFICES ASSUME RingNext, ~wild, ~wild' PROVE RingTypeOK' /\ LineIsThere'
  <2>1. PushBack \/ ForcePush => ~wild /\ wild' = wild
    BY DEF PushBack, ForcePush
  <2>2. ASSUME NEW m, Resize(m) PROVE ~wild /\ wild' \in BOOLEAN
    <3>1. ~wild /\ wild' = LeavesBuffer(ring)
      BY <2>2 DEF Resize
    <3>2. LeavesBuffer(ring) \in BOOLEAN
      <4>1. PICK n \in Capacity .. MaxCapacity :
              ring.reader \in 0 .. n - 1 /\ ring.writer \in 0 .. n - 1
        BY <1>1, <3>1 DEF RingInv, RingTypeOK
      <4>2. ring.reader \in Int /\ ring.writer \in Int
        BY <4>1, CapacityAssumption
      <4>3. (ring.writer > 0) \in BOOLEAN
        BY <4>2
      <4>4. CASE ring.writer >= ring.reader
        BY <4>3, <4>4 DEF LeavesBuffer
      <4>5. CASE ~(ring.writer >= ring.reader)
        BY <4>5 DEF LeavesBuffer
      <4>6. QED
        BY <4>4, <4>5
    <3>3. QED
      BY <3>1, <3>2
  <2>3. wild \in BOOLEAN
    BY <1>1 DEF RingInv
  <2>4. RingNext => ~wild /\ wild' \in BOOLEAN
    BY <2>1, <2>2, <2>3 DEF RingNext
  <2>5. QED
    BY <1>1, <1>2, <2>4 DEF RingInv
<1>4. RingTypeOK /\ LineIsThere
  BY <1>1, <1>3 DEF RingInv
<1> DEFINE L == Len(line)
<1>5. PICK n \in Capacity .. MaxCapacity :
        /\ DOMAIN ring.buffer = 0 .. n - 1 /\ L < n
        /\ ring.reader \in 0 .. n - 1 /\ ring.writer \in 0 .. n - 1
  BY <1>4 DEF RingTypeOK
<1>6. /\ n \in Nat \ {0} /\ L \in Nat /\ L \in 0 .. n - 1 /\ pushed \in Nat /\ line \in Seq(Nat)
      /\ ring = [reader |-> ring.reader, writer |-> ring.writer, buffer |-> ring.buffer]
      /\ ring.buffer = [i \in DOMAIN ring.buffer |-> ring.buffer[i]]
      /\ ring.writer = Behind(ring, L)
      /\ \A i \in 1 .. L : ring.buffer[Behind(ring, i - 1)] = line[i]
  BY <1>4, <1>5, CapacityAssumption DEF RingTypeOK, LineIsThere
<1>7. /\ Behind(ring, 0) = ring.reader
      /\ \A k \in 0 .. n - 1 : Behind(ring, k) \in 0 .. n - 1
      /\ \A j, k \in 0 .. n - 1 : Behind(ring, j) = Behind(ring, k) => j = k
      /\ \A k \in 0 .. n - 1 :
           NextIndex(ring, Behind(ring, k)) = IF k = n - 1 THEN ring.reader
                                              ELSE Behind(ring, k + 1)
  BY <1>5, <1>6, BehindFacts
<1>8. RingFull(ring) <=> L = n - 1
  <2>1. L # n - 1 => Behind(ring, L + 1) # Behind(ring, 0)
    <3>1. L # n - 1 => L + 1 \in 0 .. n - 1 /\ 0 \in 0 .. n - 1 /\ L + 1 # 0
      BY <1>5, <1>6
    <3>2. QED
      BY <1>7, <3>1
  <2>2. QED
    BY <1>6, <1>7, <2>1 DEF RingFull
(* What is written behind the last element leaves the others alone.         *)
<1>9. ASSUME NEW e
      PROVE  LET b == [ring.buffer EXCEPT ![ring.writer] = e]
             IN  /\ DOMAIN b = 0 .. n - 1 /\ b = [i \in DOMAIN b |-> b[i]]
                 /\ b[ring.writer] = e
                 /\ \A i \in 1 .. L : b[Behind(ring, i - 1)] = line[i]
  <2> DEFINE b == [ring.buffer EXCEPT ![ring.writer] = e]
  <2>1. /\ DOMAIN b = 0 .. n - 1 /\ b[ring.writer] = e
        /\ \A i \in 0 .. n - 1 : i # ring.writer => b[i] = ring.buffer[i]
    BY <1>5, <1>6
  <2>2. b = [i \in DOMAIN b |-> b[i]]
    BY <1>5, <1>6
  <2> HIDE DEF b
  <2>3. ASSUME NEW i \in 1 .. L PROVE b[Behind(ring, i - 1)] = line[i]
    <3>1. i - 1 \in 0 .. n - 1 /\ i - 1 # L
      BY <1>5, <1>6
    <3>2. Behind(ring, i - 1) # ring.writer /\ Behind(ring, i - 1) \in 0 .. n - 1
      BY <1>6, <1>7, <3>1
    <3>3. QED
      BY <1>6, <2>1, <3>2
  <2>4. QED
    BY <2>1, <2>2, <2>3 DEF b
<1>10. CASE PushBack
  <2> DEFINE b == [ring.buffer EXCEPT ![ring.writer] = pushed']
  <2>1. pushed' = pushed + 1 /\ pushed' \in Nat
    BY <1>6, <1>10 DEF PushBack
  <2>2. CASE RingFull(ring)
    <3>1. UNCHANGED <<ring, line>>
      BY <1>10, <2>2 DEF PushBack
    <3>2. QED
      BY <1>4, <2>1, <3>1 DEF RingTypeOK, LineIsThere, Behind, RingCapacity
  <2>3. CASE ~RingFull(ring)
    <3>1. /\ ring' = [ring EXCEPT !.buffer[ring.writer] = pushed', !.writer = NextIndex(ring, @)]
          /\ line' = Append(line, pushed')
      BY <1>10, <2>3 DEF PushBack
    <3>2. ring' = [reader |-> ring.reader, writer |-> NextIndex(ring, ring.writer), buffer |-> b]
      BY <1>6, <3>1
    <3>3. /\ line' \in Seq(Nat) /\ Len(line') = L + 1 /\ line'[L + 1] = pushed'
          /\ \A i \in 1 .. L : line'[i] = line[i]
      BY <1>6, <2>1, <3>1
    <3>4. /\ DOMAIN b = 0 .. n - 1 /\ b = [i \in DOMAIN b |-> b[i]] /\ b[ring.writer] = pushed'
          /\ \A i \in 1 .. L : b[Behind(ring, i - 1)] = line[i]
      BY <1>9
    <3> HIDE DEF b
    <3>5. /\ ring'.reader = ring.reader /\ ring'.buffer = b
          /\ ring'.writer = NextIndex(ring, ring.writer)
      BY <3>2
    <3>6. L + 1 < n /\ L # n - 1
      BY <1>5, <1>6, <1>8, <2>3
    <3>7. ring'.writer = Behind(ring, L + 1) /\ L + 1 \in 0 .. n - 1
      <4>1. L + 1 \in 0 .. n - 1
        BY <1>6, <3>6
      <4>2. NextIndex(ring, Behind(ring, L)) = Behind(ring, L + 1)
        BY <1>6, <1>7, <3>6
      <4>3. QED
        BY <1>6, <3>5, <4>1, <4>2
    <3>8. \A k : Behind(ring', k) = Behind(ring, k)
      BY <1>5, <3>4, <3>5 DEF Behind, RingCapacity
    <3>9. RingTypeOK'
      <4>1. ring'.writer \in 0 .. n - 1
        BY <1>7, <3>7
      <4>2. ring' = [reader |-> ring'.reader, writer |-> ring'.writer, buffer |-> ring'.buffer]
        BY <3>2
      <4>3. QED
        BY <1>5, <2>1, <3>3, <3>4, <3>5, <3>6, <4>1, <4>2 DEF RingTypeOK
    <3>10. ASSUME NEW i \in 1 .. L + 1 PROVE ring'.buffer[Behind(ring', i - 1)] = line'[i]
      <4>1. CASE i = L + 1
        <5>1. i - 1 = L
          BY <1>6, <4>1
        <5>2. QED
          BY <1>6, <3>3, <3>4, <3>5, <3>8, <4>1, <5>1
      <4>2. CASE i # L + 1
        <5>1. i \in 1 .. L
          BY <1>6, <4>2
        <5>2. QED
          BY <3>3, <3>4, <3>5, <3>8, <5>1
      <4>3. QED
        BY <4>1, <4>2
    <3>11. QED
      BY <3>3, <3>7, <3>8, <3>9, <3>10 DEF LineIsThere
  <2>4. QED
    BY <2>2, <2>3
<1>11. CASE ForcePush
  <2> DEFINE b == [ring.buffer EXCEPT ![ring.writer] = pushed']
             reader == IF RingFull(ring) THEN NextIndex(ring, ring.reader) ELSE ring.reader
  <2>1. /\ pushed' = pushed + 1 /\ pushed' \in Nat
        /\ ring' = [ring EXCEPT !.reader = IF RingFull(ring) THEN NextIndex(ring, @) ELSE @,
                                !.buffer[ring.writer] = pushed']
        /\ line' = IF RingFull(ring) /\ line # <<>> THEN Tail(line) ELSE line
    BY <1>6, <1>11 DEF ForcePush
  <2>2. ring' = [reader |-> reader, writer |-> ring.writer, buffer |-> b]
    BY <1>6, <2>1
  <2>3. /\ DOMAIN b = 0 .. n - 1 /\ b = [i \in DOMAIN b |-> b[i]]
        /\ \A i \in 1 .. L : b[Behind(ring, i - 1)] = line[i]
    BY <1>9
  <2> HIDE DEF b, reader
  <2>4. /\ ring'.reader = reader /\ ring'.buffer = b /\ ring'.writer = ring.writer
        /\ ring' = [reader |-> ring'.reader, writer |-> ring'.writer, buffer |-> ring'.buffer]
    BY <2>2
  <2>5. CASE RingFull(ring) /\ line # <<>>
    <3>1. L = n - 1 /\ L # 0 /\ L - 1 \in Nat
      BY <1>6, <1>8, <2>5
    <3>2. /\ line' \in Seq(Nat) /\ Len(line') = L - 1
          /\ \A i \in 1 .. L - 1 : line'[i] = line[i + 1]
      BY <1>6, <2>1, <2>5
    <3>3. reader = Behind(ring, 1)
      <4>1. 0 \in 0 .. n - 1 /\ 0 # n - 1
        BY <1>6, <3>1
      <4>2. QED
        BY <1>7, <2>5, <4>1 DEF reader
    <3>4. reader \in 0 .. n - 1
      BY <1>6, <1>7, <3>1, <3>3, SMTT(20)
    <3>5. \A k \in 0 .. n - 2 : Behind(ring', k) = Behind(ring, k + 1)
      <4>1. RingCapacity(ring) = n /\ RingCapacity(ring') = n
        BY <1>5, <1>6, <2>3, <2>4, CapacityIs
      <4>2. reader = Around(ring.reader, 1, n)
        BY <3>3, <4>1 DEF Behind
      <4>3. \A k \in 0 .. n - 2 : Around(reader, k, n) = Around(ring.reader, k + 1, n)
        BY <1>5, <1>6, <3>4, <4>2, AroundFacts
      <4>4. QED
        BY <2>4, <4>1, <4>3 DEF Behind
    <3>6. RingTypeOK'
      <4>1. /\ DOMAIN ring'.buffer = 0 .. n - 1
            /\ ring'.reader \in 0 .. n - 1 /\ ring'.writer \in 0 .. n - 1
        BY <1>5, <2>3, <2>4, <3>4
      <4>2. Len(line') < n
        BY <1>5, <1>6, <3>1, <3>2
      <4>3. ring'.buffer = [i \in DOMAIN ring'.buffer |-> ring'.buffer[i]]
        BY <2>3, <2>4
      <4>4. QED
        BY <1>5, <2>1, <2>4, <3>2, <4>1, <4>2, <4>3 DEF RingTypeOK
    <3>7. ring'.writer = Behind(ring', Len(line'))
      <4>1. L - 1 \in 0 .. n - 2 /\ (L - 1) + 1 = L
        BY <3>1, <1>6
      <4>2. QED
        BY <1>6, <2>4, <3>2, <3>5, <4>1
    <3>8. ASSUME NEW i \in 1 .. L - 1 PROVE ring'.buffer[Behind(ring', i - 1)] = line'[i]
      <4>1. i - 1 \in 0 .. n - 2 /\ (i - 1) + 1 = i /\ i + 1 \in 1 .. L /\ (i + 1) - 1 = i
        BY <1>6, <3>1, SMTT(20)
      <4>2. Behind(ring', i - 1) = Behind(ring, i)
        BY <3>5, <4>1
      <4>3. b[Behind(ring, i)] = line[i + 1]
        BY <2>3, <4>1
      <4>4. QED
        BY <2>4, <3>2, <4>2, <4>3
    <3>9. QED
      BY <3>2, <3>6, <3>7, <3>8 DEF LineIsThere
  <2>6. CASE ~RingFull(ring) \/ line = <<>>
    <3>1. line' = line
      BY <2>1, <2>6
    <3>2. reader = ring.reader
      <4>1. CASE line = <<>> /\ RingFull(ring)
        <5>1. L = 0 /\ n - 1 = 0 /\ 0 \in 0 .. n - 1
          BY <1>6, <1>8, <4>1
        <5>2. QED
          BY <1>7, <4>1, <5>1 DEF reader
      <4>2. QED
        BY <2>6, <4>1 DEF reader
    <3>3. \A k : Behind(ring', k) = Behind(ring, k)
      BY <1>5, <2>3, <2>4, <3>2 DEF Behind, RingCapacity
    <3>4. RingTypeOK'
      <4>1. /\ DOMAIN ring'.buffer = 0 .. n - 1 /\ Len(line') < n
            /\ ring'.reader \in 0 .. n - 1 /\ ring'.writer \in 0 .. n - 1
        BY <1>5, <2>3, <2>4, <3>1, <3>2
      <4>2. ring'.buffer = [i \in DOMAIN ring'.buffer |-> ring'.buffer[i]]
        BY <2>3, <2>4
      <4>3. QED
        BY <1>5, <1>6, <2>1, <2>4, <3>1, <4>1, <4>2 DEF RingTypeOK
    <3>5. LineIsThere'
      BY <1>6, <2>3, <2>4, <3>1, <3>3 DEF LineIsThere
    <3>6. QED
      BY <3>4, <3>5
  <2>7. QED
    BY <2>5, <2>6
<1>12. ASSUME NEW m \in Capacity .. MaxCapacity, Resize(m) PROVE RingTypeOK' /\ LineIsThere'
  <2> DEFINE b == [i \in 0 .. m - 1 |-> IF i \in DOMAIN ring.buffer THEN ring.buffer[i] ELSE 0]
  <2>1. /\ m >= n /\ m \in Nat \ {0} /\ ~LeavesBuffer(ring) /\ UNCHANGED <<line, pushed>>
        /\ ring' = [reader |-> 0, writer |-> ring.writer - ring.reader, buffer |-> b]
    <3>1. RingCapacity(ring) = n
      BY <1>5, <1>6, CapacityIs
    <3>2. m \in Nat /\ m >= n
      BY <1>12, <3>1, CapacityAssumption DEF Resize
    <3>3. UNCHANGED <<line, pushed>> /\ ~LeavesBuffer(ring)
      BY <1>3, <1>12 DEF Resize
    <3>4. ring' = [reader |-> 0, writer |-> ring.writer - ring.reader, buffer |-> b]
      BY <1>3, <1>12 DEF Resize
    <3>5. QED
      BY <1>6, <3>2, <3>3, <3>4
  <2>2. ring.writer = 0 /\ ring.reader = 0
    BY <1>5, <1>6, <2>1 DEF LeavesBuffer
  <2>3. L = 0
    <3>1. Behind(ring, L) = Behind(ring, 0) /\ 0 \in 0 .. n - 1
      BY <1>6, <1>7, <2>2
    <3>2. QED
      BY <1>6, <1>7, <3>1
  <2>4. DOMAIN b = 0 .. m - 1 /\ b = [i \in DOMAIN b |-> b[i]]
    OBVIOUS
  <2> HIDE DEF b
  <2>5. /\ ring'.reader = 0 /\ ring'.writer = 0 /\ ring'.buffer = b /\ Len(line') = 0
        /\ ring' = [reader |-> ring'.reader, writer |-> ring'.writer, buffer |-> ring'.buffer]
    BY <2>1, <2>2, <2>3
  <2>6. RingTypeOK'
    <3>1. 0 \in 0 .. m - 1 /\ 0 < m
      BY <2>1
    <3>2. QED
      BY <1>6, <2>1, <2>4, <2>5, <3>1 DEF RingTypeOK
  <2>7. Behind(ring', 0) = 0
    <3>1. 0 \in 0 .. m - 1
      BY <2>1
    <3>2. QED
      BY <2>1, <2>4, <2>5, <3>1, BehindFacts
  <2>8. QED
    BY <2>5, <2>6, <2>7 DEF LineIsThere
<1>13. QED
  BY <1>3, <1>10, <1>11, <1>12 DEF RingNext

(* The walk of RingKeepsLine, from the reader with NextIndex(), is defined. *)
WalkFrom(rb, g) == [i \in Nat |-> IF i = 0 THEN rb.reader ELSE NextIndex(rb, g[i - 1])]
(* Such a walk is the one that counts modulo the number of elements.        *)
LEMMA WalkExists ==
  ASSUME NEW rb, NEW n \in Nat \ {0}, DOMAIN rb.buffer = 0 .. n - 1, rb.reader \in 0 .. n - 1
  PROVE  \E g : g = WalkFrom(rb, g)
<1> DEFINE p == rb.reader
           h == [i \in Nat |-> (p + i) % n]
<1>1. p \in 0 .. n - 1 /\ RingCapacity(rb) = n
  BY CapacityIs
<1>2. \A x : NextIndex(rb, x) = (x + 1) % n
  BY <1>1 DEF NextIndex
<1> HIDE DEF p
<1>3. ASSUME NEW i \in Nat \ {0} PROVE h[i] = NextIndex(rb, h[i - 1])
  <2> DEFINE x == p + i - 1
             q == x \div n
             m == x % n
  <2>1. x \in Nat /\ x + 1 = p + i /\ i - 1 \in Nat /\ p + (i - 1) = x
    BY <1>1
  <2> HIDE DEF x
  <2>2. x = n * q + m /\ q \in Nat /\ m \in 0 .. n - 1
    BY <2>1
  <2>3. h[i] = (x + 1) % n /\ h[i - 1] = m
    BY <2>1
  <2> HIDE DEF q, m, h
  <2>4. (x + 1) % n = (m + 1) % n
    <3>1. CASE m + 1 = n
      <4>1. x + 1 = n * (q + 1) + 0 /\ q + 1 \in Nat /\ 0 \in 0 .. n - 1
        BY <2>1, <2>2, <3>1
      <4>2. (n * (q + 1) + 0) % n = 0
        BY <4>1, Division
      <4>3. (n * 1 + 0) % n = 0 /\ n * 1 + 0 = n
        BY <4>1, Division
      <4>4. QED
        BY <3>1, <4>1, <4>2, <4>3
    <3>2. CASE m + 1 # n
      <4>1. x + 1 = n * q + (m + 1) /\ m + 1 \in 0 .. n - 1
        BY <2>1, <2>2, <3>2
      <4>2. (n * q + (m + 1)) % n = m + 1
        BY <2>2, <4>1, Division
      <4>3. (n * 0 + (m + 1)) % n = m + 1 /\ n * 0 + (m + 1) = m + 1
        BY <4>1, Division
      <4>4. QED
        BY <4>1, <4>2, <4>3
    <3>3. QED
      BY <3>1, <3>2
  <2>5. QED
    BY <1>2, <2>3, <2>4
<1>4. h = WalkFrom(rb, h)
  <2>1. h[0] = p
    BY <1>1
  <2>2. h = [i \in Nat |-> h[i]]
    OBVIOUS
  <2> HIDE DEF h
  <2>3. \A i \in Nat : h[i] = IF i = 0 THEN p ELSE NextIndex(rb, h[i - 1])
    BY <1>3, <2>1
  <2>4. QED
    BY <2>2, <2>3 DEF p, WalkFrom
<1>5. QED
  BY <1>4

(* It leads through the places behind the reader.                           *)
LEMMA WalkIsBehind ==
  ASSUME NEW rb, NEW n \in Nat \ {0}, DOMAIN rb.buffer = 0 .. n - 1, rb.reader \in 0 .. n - 1,
         NEW At, At = WalkFrom(rb, At)
  PROVE  \A k \in 0 .. n - 1 : At[k] = Behind(rb, k)
<1>1. At[0] = rb.reader /\ \A i \in Nat \ {0} : At[i] = NextIndex(rb, At[i - 1])
  BY DEF WalkFrom
<1> DEFINE Wrong == {k \in 0 .. n - 1 : At[k] # Behind(rb, k)}
<1>2. SUFFICES ASSUME Wrong # {} PROVE FALSE
  OBVIOUS
<1>3. PICK k \in Wrong : \A j \in Wrong : k <= j
  <2>1. Wrong \subseteq Nat
    OBVIOUS
  <2> HIDE DEF Wrong
  <2>2. QED
    BY <1>2, <2>1, LeastNatural
<1>4. k # 0
  BY <1>1, BehindFacts
<1>5. k - 1 \in 0 .. n - 1 /\ k - 1 < k /\ k - 1 # n - 1 /\ k \in Nat \ {0}
  BY <1>4
<1>6. k - 1 \notin Wrong
  BY <1>3, <1>5
<1>7. At[k] = NextIndex(rb, Behind(rb, k - 1))
  BY <1>1, <1>5, <1>6
<1>8. NextIndex(rb, Behind(rb, k - 1)) = Behind(rb, k)
  <2>1. NextIndex(rb, Behind(rb, k - 1)) = Behind(rb, (k - 1) + 1)
    BY <1>5, BehindFacts
  <2>2. (k - 1) + 1 = k
    BY <1>5
  <2>3. QED
    BY <2>1, <2>2
<1>9. QED
  BY <1>7, <1>8

(* So what push_back() took and force_push() did not drop is read back in   *)
(* its order.                                                               *)
LEMMA RingInvMeans == RingInv => RingKeepsLine
<1>1. SUFFICES ASSUME RingInv, ~wild PROVE RingKeepsLine
  BY DEF RingKeepsLine
<1> DEFINE L == Len(line)
<1>2. RingTypeOK /\ LineIsThere
  BY <1>1 DEF RingInv
<1>3. PICK n \in Capacity .. MaxCapacity :
        /\ DOMAIN ring.buffer = 0 .. n - 1 /\ L < n
        /\ ring.reader \in 0 .. n - 1 /\ ring.writer \in 0 .. n - 1
  BY <1>2 DEF RingTypeOK
<1>4. /\ n \in Nat \ {0} /\ n <= MaxCapacity /\ L \in Nat /\ L \in 0 .. n - 1
      /\ line \in Seq(Nat) /\ ring.writer = Behind(ring, L) /\ RingCapacity(ring) = n
      /\ \A i \in 1 .. L : ring.buffer[Behind(ring, i - 1)] = line[i]
  BY <1>2, <1>3, CapacityAssumption, CapacityIs DEF RingTypeOK, LineIsThere
<1>5. /\ Behind(ring, 0) = ring.reader
      /\ \A j, k \in 0 .. n - 1 : Behind(ring, j) = Behind(ring, k) => j = k
      /\ \A k \in 1 .. n - 1 : PrevIndex(ring, Behind(ring, k)) = Behind(ring, k - 1)
  BY <1>3, <1>4, BehindFacts
<1>6. RingEmpty(ring) <=> line = <<>>
  <2>1. RingEmpty(ring) <=> L = 0
    <3>1. 0 \in 0 .. n - 1
      BY <1>4
    <3>2. QED
      BY <1>4, <1>5, <3>1 DEF RingEmpty
  <2>2. QED
    BY <1>4, <2>1
<1>7. line # <<>> => RingFront(ring) = Head(line) /\ RingBack(ring) = line[L]
  <2>1. SUFFICES ASSUME line # <<>> PROVE RingFront(ring) = Head(line) /\ RingBack(ring) = line[L]
    OBVIOUS
  <2>2. L \in 1 .. n - 1 /\ 1 \in 1 .. L /\ L \in 1 .. L /\ Head(line) = line[1]
    BY <1>4, <2>1
  <2>3. ring.buffer[Behind(ring, 0)] = line[1] /\ ring.buffer[Behind(ring, L - 1)] = line[L]
    <3>1. ring.buffer[Behind(ring, 1 - 1)] = line[1] /\ 1 - 1 = 0
      BY <1>4, <2>2
    <3>2. QED
      BY <1>4, <2>2, <3>1
  <2>4. PrevIndex(ring, ring.writer) = Behind(ring, L - 1)
    BY <1>4, <1>5, <2>2
  <2>5. QED
    BY <1>5, <2>2, <2>3, <2>4 DEF RingFront, RingBack
<1>8. ring.writer >= ring.reader => RingSize(ring) = L
  <2> DEFINE wr == ring.writer
             p == ring.reader
  <2>1. SUFFICES ASSUME wr >= p PROVE (wr - p) % SizeMod = L
    BY DEF RingSize
  <2>2. wr = IF p + L < n THEN p + L ELSE p + L - n
    BY <1>4 DEF Behind, Around
  <2>3. wr \in 0 .. n - 1 /\ p \in 0 .. n - 1
    BY <1>3
  <2> HIDE DEF wr, p
  <2>4. wr - p = L
    BY <1>4, <2>1, <2>2, <2>3
  <2>5. L < SizeMod /\ SizeMod \in Nat
    BY <1>4, CapacityAssumption
  <2>6. L % SizeMod = L
    <3>1. SizeMod \in Nat \ {0} /\ L \in 0 .. SizeMod - 1 /\ SizeMod * 0 + L = L
      BY <1>4, <2>5
    <3>2. QED
      BY <3>1, Division
  <2>7. QED
    BY <2>4, <2>6
<1>9. ASSUME NEW i \in DOMAIN ring.buffer
      PROVE  IteratorPrev(ring, IteratorNext(ring, i)) =
               (IF i = RingCapacity(ring) - 1 THEN RingCapacity(ring) ELSE i)
  BY <1>3, <1>4 DEF IteratorPrev, IteratorNext
<1> DEFINE At[i \in Nat] == IF i = 0 THEN ring.reader ELSE NextIndex(ring, At[i - 1])
<1>10. At = WalkFrom(ring, At)
  <2>1. At = CHOOSE g : g = WalkFrom(ring, g)
    BY DEF WalkFrom
  <2> HIDE DEF At
  <2>2. QED
    BY <1>3, <1>4, <2>1, WalkExists
<1> HIDE DEF At
<1>11. \A k \in 0 .. n - 1 : At[k] = Behind(ring, k)
  BY <1>3, <1>4, <1>10, WalkIsBehind
<1>12. \A i \in 1 .. L : ring.buffer[At[i - 1]] = line[i]
  BY <1>3, <1>4, <1>11
<1>13. At[L] = ring.writer
  BY <1>4, <1>11
<1>14. QED
  BY <1>3, <1>4, <1>6, <1>7, <1>8, <1>9, <1>12, <1>13 DEF RingKeepsLine, At

-----------------------------------------------------------------------------
(* The chain of nodes: a position is in its row, which is a node.           *)
PlaceOf(pos) == <<pos \div BaseSize + 1, pos % BaseSize>>

(* Rows of BaseSize places.                                                 *)
LEMMA Rows ==
  ASSUME NEW x \in Nat
  PROVE  /\ x \div BaseSize \in Nat /\ x % BaseSize \in 0 .. BaseSize - 1
         /\ x = BaseSize * (x \div BaseSize) + (x % BaseSize)
         /\ x < BaseSize => x \div BaseSize = 0 /\ x % BaseSize = x
         /\ (x + BaseSize) \div BaseSize = x \div BaseSize + 1
         /\ (x + BaseSize) % BaseSize = x % BaseSize
         /\ \A k \in Nat : BaseSize * k \in Nat /\ (x < BaseSize * k <=> x \div BaseSize < k)
<1> DEFINE B == BaseSize
           q == x \div B
           m == x % B
<1>1. B \in Nat \ {0}
  BY BaseSizeAssumption
<1> HIDE DEF B
<1>2. q \in Nat /\ m \in 0 .. B - 1 /\ x = B * q + m
  BY <1>1
<1>3. x < B => q = 0 /\ m = x
  <2>1. ASSUME x < B PROVE (B * 0 + x) \div B = 0 /\ (B * 0 + x) % B = x /\ B * 0 + x = x
    BY <1>1, <2>1, Division
  <2>2. QED
    BY <2>1
<1> HIDE DEF q, m
<1>4. (x + B) \div B = q + 1 /\ (x + B) % B = m
  <2>1. x + B = B * (q + 1) + m /\ q + 1 \in Nat
    BY <1>1, <1>2
  <2>2. QED
    BY <1>1, <1>2, <2>1, Division
<1>5. ASSUME NEW k \in Nat PROVE B * k \in Nat /\ (x < B * k <=> q < k)
  <2>1. B * k \in Nat /\ B * q \in Nat
    BY <1>1, <1>2
  <2>2. q < k => B * q + B <= B * k
    BY <1>1, <1>2, Multiples
  <2>3. k < q => B * k + B <= B * q
    BY <1>1, <1>2, Multiples
  <2>4. CASE q < k
    BY <1>1, <1>2, <2>1, <2>2, <2>4
  <2>5. CASE k < q
    BY <1>1, <1>2, <2>1, <2>3, <2>5
  <2>6. CASE k = q
    BY <1>1, <1>2, <2>1, <2>6
  <2>7. QED
    BY <1>2, <2>4, <2>5, <2>6
<1>6. QED
  BY <1>2, <1>3, <1>4, <1>5 DEF B, q, m

(* Different positions are different places.                                *)
LEMMA PlacesOfPositions ==
  ASSUME NEW x \in Nat, NEW y \in Nat, PlaceOf(x) = PlaceOf(y)
  PROVE  x = y
<1>1. x \div BaseSize + 1 = y \div BaseSize + 1 /\ x % BaseSize = y % BaseSize
  BY DEF PlaceOf
<1>2. x \div BaseSize \in Nat /\ y \div BaseSize \in Nat
  BY Rows
<1>3. x \div BaseSize = y \div BaseSize
  BY <1>1, <1>2
<1>4. QED
  BY <1>1, <1>3, Rows

(* The places of n positions from s are a sequence, which may be split.     *)
PlacesFrom(s, n) == [k \in 1 .. n |-> PlaceOf(s + k - 1)]
(* They are a sequence of pairs, one for each position.                     *)
LEMMA PlacesAreSequence ==
  ASSUME NEW s \in Nat, NEW n \in Nat
  PROVE  /\ PlacesFrom(s, n) \in Seq(Nat \X Nat) /\ Len(PlacesFrom(s, n)) = n
         /\ n = 0 => PlacesFrom(s, n) = <<>>
<1>1. ASSUME NEW k \in 1 .. n PROVE PlaceOf(s + k - 1) \in Nat \X Nat
  <2> DEFINE x == s + k - 1
  <2>1. x \in Nat
    OBVIOUS
  <2> HIDE DEF x
  <2>2. x \div BaseSize \in Nat /\ x % BaseSize \in Nat
    BY <2>1, Rows, BaseSizeAssumption
  <2>3. PlaceOf(x) \in Nat \X Nat
    BY <2>2 DEF PlaceOf
  <2>4. QED
    BY <2>3 DEF x
<1>2. PlacesFrom(s, n) \in [1 .. n -> Nat \X Nat]
  BY <1>1 DEF PlacesFrom
<1> DEFINE f == PlacesFrom(s, n)
<1> HIDE DEF f
<1>3. f \in Seq(Nat \X Nat) /\ Len(f) = n
  BY <1>2 DEF f
<1>4. n = 0 => f = <<>>
  BY <1>3
<1>5. QED
  BY <1>3, <1>4 DEF f

(* The places of m positions and of the n after them are those of m + n.    *)
LEMMA PlacesAreJoined ==
  ASSUME NEW s \in Nat, NEW m \in Nat, NEW n \in Nat
  PROVE  PlacesFrom(s, m) \o PlacesFrom(s + m, n) = PlacesFrom(s, m + n)
<1> DEFINE f == PlacesFrom(s, m)
           g == PlacesFrom(s + m, n)
           h == PlacesFrom(s, m + n)
           P == Nat \X Nat
<1>1. s + m \in Nat /\ m + n \in Nat
  OBVIOUS
<1>2. /\ f \in Seq(P) /\ Len(f) = m /\ g \in Seq(P) /\ Len(g) = n
      /\ h \in Seq(P) /\ Len(h) = m + n
  BY <1>1, PlacesAreSequence
<1>3. /\ \A k \in 1 .. m : f[k] = PlaceOf(s + k - 1)
      /\ \A k \in 1 .. n : g[k] = PlaceOf(s + m + k - 1)
      /\ \A k \in 1 .. m + n : h[k] = PlaceOf(s + k - 1)
  BY DEF PlacesFrom
<1> HIDE DEF f, g, h, P
<1>4. /\ f \o g \in Seq(P) /\ Len(f \o g) = m + n
      /\ \A i \in 1 .. m + n : (f \o g)[i] = IF i <= m THEN f[i] ELSE g[i - m]
  BY <1>2, ConcatProperties
<1>5. ASSUME NEW i \in 1 .. m + n PROVE (f \o g)[i] = h[i]
  <2>1. CASE i <= m
    BY <1>3, <1>4, <2>1
  <2>2. CASE ~(i <= m)
    <3>1. i - m \in 1 .. n /\ s + m + (i - m) - 1 = s + i - 1
      BY <2>2
    <3>2. g[i - m] = PlaceOf(s + m + (i - m) - 1)
      BY <1>3, <3>1
    <3>3. (f \o g)[i] = g[i - m] /\ ~(i <= m)
      BY <1>4, <2>2
    <3>4. h[i] = PlaceOf(s + i - 1) /\ PlaceOf(s + m + (i - m) - 1) = PlaceOf(s + i - 1)
      BY <1>3, <3>1
    <3>5. QED
      BY <3>2, <3>3, <3>4
  <2>3. QED
    BY <2>1, <2>2
<1>6. QED
  <2> DEFINE fg == f \o g
  <2> HIDE DEF fg
  <2>1. fg \in Seq(P) /\ Len(fg) = m + n /\ \A i \in 1 .. m + n : fg[i] = h[i]
    BY <1>4, <1>5 DEF fg
  <2>2. fg = h
    BY <1>2, <2>1
  <2>3. QED
    BY <2>2 DEF f, g, h, fg

(* The loop of write() and read(), one node at a time: what is left after a *)
(* node, and what the node adds.                                            *)
AfterNode(a, at) ==
  [node |-> NodeAfter(a, at.node), npos |-> 0, left |-> at.left - (BaseSize - at.npos)]
Fitting(at, n) == [k \in 1 .. n |-> <<at.node, at.npos + k - 1>>]
WalkStep(a, at, rest) ==
  IF at.node = 0 THEN [places |-> <<>>, cur |-> 0, fault |-> TRUE]
  ELSE IF at.left = 0 THEN [places |-> <<>>, cur |-> at.node, fault |-> FALSE]
  ELSE IF BaseSize - at.npos >= at.left
  THEN [places |-> Fitting(at, at.left), fault |-> FALSE,
        cur |-> IF at.npos + at.left = BaseSize THEN NodeAfter(a, at.node) ELSE at.node]
  ELSE [rest EXCEPT !.places = Fitting(at, BaseSize - at.npos) \o @]
WalkBody(a, g) == [at \in Loop |-> WalkStep(a, at, g[AfterNode(a, at)])]

(* Where it leads: over the positions up to the end of the chain.           *)
Start(at) == BaseSize * (at.node - 1) + at.npos
Ending(a, at) == BaseSize * (IF at.node <= a.nodes THEN a.nodes ELSE at.node)
Led(s, togo, end) ==
  [places |-> PlacesFrom(s, IF togo <= end - s THEN togo ELSE end - s),
   cur |-> IF s + togo < end THEN (s + togo) \div BaseSize + 1 ELSE 0, fault |-> s + togo > end]
WalkResult(a, at) ==
  IF at.node = 0 THEN [places |-> <<>>, cur |-> 0, fault |-> TRUE]
  ELSE Led(Start(at), at.left, Ending(a, at))

(* The positions of a node.                                                 *)
LEMMA NodeFacts ==
  ASSUME NEW node \in Nat \ {0}, NEW npos \in 0 .. BaseSize - 1
  PROVE  /\ BaseSize * (node - 1) + npos \in Nat /\ BaseSize * node \in Nat
         /\ BaseSize * (node - 1) + BaseSize = BaseSize * node
         /\ BaseSize - npos \in Nat \ {0} /\ BaseSize \in Nat \ {0}
         /\ PlaceOf(BaseSize * (node - 1) + npos) = <<node, npos>>
         /\ (BaseSize * (node - 1) + npos) \div BaseSize + 1 = node
         /\ \A n \in Nat : node <= n => BaseSize * node <= BaseSize * n /\ BaseSize * n \in Nat
         /\ \A n \in Nat : node < n => BaseSize * node < BaseSize * n
<1> DEFINE B == BaseSize
<1>1. B \in Nat \ {0} /\ npos \in 0 .. B - 1 /\ node - 1 \in Nat
  BY BaseSizeAssumption
<1> HIDE DEF B
<1>2. B * (node - 1) + npos \in Nat /\ B * node \in Nat /\ B * (node - 1) + B = B * node
  BY <1>1
<1>3. (B * (node - 1) + npos) \div B = node - 1 /\ (B * (node - 1) + npos) % B = npos
  BY <1>1, Division
<1>4. ASSUME NEW n \in Nat
      PROVE  /\ node <= n => B * node <= B * n /\ B * n \in Nat
             /\ node < n => B * node < B * n
  <2>1. B * n \in Nat
    BY <1>1
  <2>2. node < n => B * node + B <= B * n
    BY <1>1, Multiples
  <2>3. QED
    BY <1>1, <1>2, <2>1, <2>2
<1>5. (node - 1) + 1 = node
  OBVIOUS
<1> DEFINE x == B * (node - 1) + npos
<1>6. x \div B + 1 = node /\ <<x \div B + 1, x % B>> = <<node, npos>>
  BY <1>3, <1>5
<1>7. B - npos \in Nat \ {0}
  BY <1>1
<1>8. QED
  BY <1>1, <1>2, <1>4, <1>6, <1>7 DEF PlaceOf, B

(* The bound on the nodes.                                                  *)
LEMMA MaxNodesIs ==
  /\ MaxNodes \in Nat \ {0} /\ MaxWritten < BaseSize * (MaxNodes - 1)
  /\ BaseSize * (MaxNodes - 1) \in Nat /\ BaseSize * MaxNodes \in Nat
<1> DEFINE q == MaxWritten \div BaseSize
<1>1. q \in Nat /\ MaxWritten \in Nat
  BY Rows, BaseSizeAssumption
<1>2. MaxNodes = q + 2
  BY DEF MaxNodes
<1>3. \A k \in Nat : BaseSize * k \in Nat /\ (MaxWritten < BaseSize * k <=> q < k)
  BY <1>1, Rows
<1> HIDE DEF q
<1>4. MaxNodes \in Nat \ {0} /\ MaxNodes - 1 \in Nat /\ q < MaxNodes - 1
  BY <1>1, <1>2
<1>5. QED
  BY <1>3, <1>4

(* The loop does lead there, node after node.                               *)
LEMMA StepLeadsThere ==
  ASSUME NEW a, a.nodes \in 1 .. MaxNodes, NEW at \in Loop
  PROVE  WalkResult(a, at) = WalkStep(a, at, WalkResult(a, AfterNode(a, at)))
<1> DEFINE B == BaseSize
           node == at.node
           npos == at.npos
           n == at.left
           nodes == a.nodes
           s == Start(at)
           e == Ending(a, at)
           room == B - npos
<1>1. /\ node \in 0 .. MaxNodes /\ npos \in 0 .. B - 1 /\ n \in 0 .. MaxCall
      /\ nodes \in Nat \ {0} /\ node \in Nat /\ n \in Nat
  BY MaxNodesIs, BaseSizeAssumption DEF Loop
<1>2. SUFFICES ASSUME node # 0
               PROVE  WalkResult(a, at) = WalkStep(a, at, WalkResult(a, AfterNode(a, at)))
  BY DEF WalkResult, WalkStep
<1>3. /\ s \in Nat /\ B * node \in Nat /\ s + room = B * node /\ room \in Nat \ {0} /\ B \in Nat \ {0}
      /\ PlaceOf(s) = <<node, npos>> /\ s \div B + 1 = node
      /\ node < nodes => B * node < B * nodes
      /\ e = B * (IF node <= nodes THEN nodes ELSE node) /\ e \in Nat /\ B * node <= e
  <2>1. /\ s \in Nat /\ B * node \in Nat /\ B * (node - 1) + B = B * node
        /\ room \in Nat \ {0} /\ B \in Nat \ {0}
        /\ PlaceOf(s) = <<node, npos>> /\ s \div B + 1 = node
        /\ node < nodes => B * node < B * nodes
        /\ node <= nodes => B * node <= B * nodes /\ B * nodes \in Nat
    BY <1>1, <1>2, NodeFacts DEF Start
  <2>2. e = B * (IF node <= nodes THEN nodes ELSE node)
    BY DEF Ending
  <2>3. s + room = B * node
    BY <1>1, <2>1 DEF Start
  <2>4. e \in Nat /\ B * node <= e
    BY <2>1, <2>2
  <2>5. QED
    BY <2>1, <2>2, <2>3, <2>4
<1>4. WalkResult(a, at) = Led(s, n, e)
  BY <1>2 DEF WalkResult
<1>5. ASSUME NEW k \in Nat, k <= room PROVE Fitting(at, k) = PlacesFrom(s, k)
  <2>1. ASSUME NEW i \in 1 .. k PROVE <<node, npos + i - 1>> = PlaceOf(s + i - 1)
    <3>1. npos + i - 1 \in 0 .. B - 1 /\ node \in Nat \ {0}
      BY <1>1, <1>2, <1>3, <1>5, BaseSizeAssumption
    <3>2. PlaceOf(B * (node - 1) + (npos + i - 1)) = <<node, npos + i - 1>>
      BY <3>1, NodeFacts
    <3>3. B * (node - 1) + (npos + i - 1) = s + i - 1
      BY <1>1, <1>3, BaseSizeAssumption DEF Start
    <3>4. QED
      BY <3>2, <3>3
  <2>2. QED
    BY <2>1 DEF Fitting, PlacesFrom
<1> HIDE DEF s, e, room, nodes, node, npos, n
<1>6. CASE n = 0
  <2>1. s + n = s /\ s < e /\ ~(s > e) /\ n <= e - s
    BY <1>3, <1>6
  <2>2. PlacesFrom(s, 0) = <<>>
    BY <1>3, PlacesAreSequence
  <2>3. Led(s, n, e) = [places |-> <<>>, cur |-> node, fault |-> FALSE]
    <3>1. /\ (IF n <= e - s THEN n ELSE e - s) = 0 /\ (s + n > e) = FALSE
          /\ (IF s + n < e THEN (s + n) \div B + 1 ELSE 0) = node
      BY <1>3, <1>6, <2>1
    <3>2. QED
      BY <2>2, <3>1 DEF Led
  <2>4. QED
    BY <1>2, <1>4, <1>6, <2>3 DEF WalkStep, n, node
<1>7. CASE n # 0 /\ room >= n
  <2>1. n <= e - s /\ ~(s + n > e)
    BY <1>1, <1>3, <1>7
  <2>2. PlacesFrom(s, n) = Fitting(at, n)
    BY <1>1, <1>5, <1>7
  <2> DEFINE c == IF npos + n = B THEN NodeAfter(a, node) ELSE node
  <2>3. (IF s + n < e THEN (s + n) \div B + 1 ELSE 0) = c
    <3>1. CASE n = room
      <4>1. npos + n = B /\ s + n = B * node
        BY <1>1, <1>3, <3>1 DEF room
      <4>2. CASE node < nodes
        <5>1. s + n < e
          BY <1>1, <1>3, <4>1, <4>2
        <5>2. (B * node + 0) \div B = node /\ B * node + 0 = B * node
          BY <1>1, <1>3, Division
        <5>3. QED
          BY <4>1, <4>2, <5>1, <5>2 DEF NodeAfter, nodes
      <4>3. CASE ~(node < nodes)
        <5>1. e = B * node
          BY <1>1, <1>3, <4>3
        <5>2. QED
          BY <1>3, <4>1, <4>3, <5>1 DEF NodeAfter, nodes
      <4>4. QED
        BY <4>2, <4>3
    <3>2. CASE n # room
      <4>1. npos + n \in 0 .. B - 1 /\ npos + n # B /\ s + n < e
        BY <1>1, <1>3, <1>7, <3>2 DEF room
      <4>2. (B * (node - 1) + (npos + n)) \div B + 1 = node
        BY <1>1, <1>2, <4>1, NodeFacts
      <4>3. B * (node - 1) + (npos + n) = s + n
        BY <1>1, <1>3 DEF s, Start, node, npos
      <4>4. QED
        BY <4>1, <4>2, <4>3
    <3>3. QED
      BY <3>1, <3>2
  <2> HIDE DEF c
  <2>4. Led(s, n, e) = [places |-> Fitting(at, n), cur |-> c, fault |-> FALSE]
    <3>1. (IF n <= e - s THEN n ELSE e - s) = n /\ (s + n > e) = FALSE
      BY <2>1
    <3>2. QED
      BY <2>2, <2>3, <3>1 DEF Led
  <2>5. WalkStep(a, at, WalkResult(a, AfterNode(a, at))) =
          [places |-> Fitting(at, n), fault |-> FALSE, cur |-> c]
    BY <1>2, <1>7 DEF WalkStep, c, n, room, npos, node
  <2>6. QED
    BY <1>4, <2>4, <2>5
<1>8. CASE n # 0 /\ ~(room >= n)
  <2> DEFINE after == AfterNode(a, at)
             rest == WalkResult(a, after)
             next == NodeAfter(a, node)
             m == n - room
  <2>1. WalkStep(a, at, rest) = [rest EXCEPT !.places = Fitting(at, room) \o @]
    BY <1>2, <1>8 DEF WalkStep, n, room, npos, node
  <2>2. Fitting(at, room) = PlacesFrom(s, room) /\ room <= room
    BY <1>3, <1>5
  <2>3. after = [node |-> next, npos |-> 0, left |-> m] /\ m \in Nat /\ m + room = n
    BY <1>1, <1>3, <1>8 DEF AfterNode, m, n, room, npos, node
  <2> HIDE DEF after, m, next
  <2>4. CASE node < nodes
    <3>1. next = node + 1 /\ next # 0 /\ next <= nodes
      BY <1>1, <2>4 DEF next, NodeAfter, nodes
    <3>2. Start(after) = B * node /\ Ending(a, after) = e
      <4>1. Start(after) = B * (next - 1) + 0 /\ Ending(a, after) = B * nodes
        BY <2>3, <3>1 DEF Start, Ending, nodes
      <4>2. next - 1 = node
        BY <1>1, <3>1
      <4>3. e = B * nodes
        BY <1>1, <1>3, <2>4
      <4>4. QED
        BY <1>3, <4>1, <4>2, <4>3
    <3>3. rest = Led(B * node, m, e)
      BY <2>3, <3>1, <3>2 DEF WalkResult
    <3> DEFINE t == IF m <= e - (s + room) THEN m ELSE e - (s + room)
               u == IF n <= e - s THEN n ELSE e - s
    <3>4. t \in Nat /\ room + t = u /\ s + room + m = s + n
      BY <1>1, <1>3, <2>3
    <3>5. /\ rest.places = PlacesFrom(s + room, t) /\ rest.fault = (s + n > e)
          /\ rest = [places |-> rest.places, cur |-> rest.cur, fault |-> rest.fault]
          /\ rest.cur = IF s + n < e THEN (s + n) \div B + 1 ELSE 0
      BY <1>3, <3>3, <3>4 DEF Led
    <3> HIDE DEF t, u, rest
    <3>6. PlacesFrom(s, room) \o PlacesFrom(s + room, t) = PlacesFrom(s, u)
      <4>1. PlacesFrom(s, room) \o PlacesFrom(s + room, t) = PlacesFrom(s, room + t)
        <5>1. s \in Nat /\ room \in Nat /\ t \in Nat
          BY <1>3, <3>4
        <5>2. QED
          BY <5>1, PlacesAreJoined
      <4>2. QED
        BY <3>4, <4>1
    <3>7. WalkStep(a, at, rest) =
            [places |-> PlacesFrom(s, u), cur |-> rest.cur, fault |-> rest.fault]
      BY <2>1, <2>2, <3>5, <3>6
    <3>8. QED
      BY <1>4, <3>5, <3>7 DEF Led, u, rest, after
  <2>5. CASE ~(node < nodes)
    <3>1. next = 0
      BY <2>5 DEF next, NodeAfter, nodes
    <3>2. rest = [places |-> <<>>, cur |-> 0, fault |-> TRUE]
      BY <2>3, <3>1 DEF WalkResult
    <3>3. e = B * node /\ e - s = room /\ ~(n <= e - s) /\ ~(s + n < e) /\ s + n > e
      BY <1>1, <1>3, <1>8, <2>5
    <3> HIDE DEF rest
    <3>4. PlacesFrom(s, room) \o <<>> = PlacesFrom(s, room)
      BY <1>3, PlacesAreSequence, ConcatEmptySeq
    <3>5. WalkStep(a, at, rest) = [places |-> PlacesFrom(s, room), cur |-> 0, fault |-> TRUE]
      BY <2>1, <2>2, <3>2, <3>4
    <3>6. Led(s, n, e) = [places |-> PlacesFrom(s, room), cur |-> 0, fault |-> TRUE]
      BY <3>3 DEF Led
    <3>7. QED
      BY <1>4, <3>5, <3>6 DEF rest, after
  <2>6. QED
    BY <2>4, <2>5
<1>9. QED
  BY <1>6, <1>7, <1>8

(* So this is what the loop computes: it is one solution of its equation,   *)
LEMMA LoopIsDefined ==
  ASSUME NEW a, a.nodes \in 1 .. MaxNodes
  PROVE  \E g : g = WalkBody(a, g)
<1> DEFINE h == [at \in Loop |-> WalkResult(a, at)]
<1>1. ASSUME NEW at \in Loop PROVE WalkResult(a, at) = WalkStep(a, at, h[AfterNode(a, at)])
  <2>1. WalkResult(a, at) = WalkStep(a, at, WalkResult(a, AfterNode(a, at)))
    BY StepLeadsThere
  <2>2. CASE AfterNode(a, at) \in Loop
    BY <2>1, <2>2
  <2>3. CASE AfterNode(a, at) \notin Loop
    <3>1. at.node = 0 \/ at.left = 0 \/ BaseSize - at.npos >= at.left
      <4>1. SUFFICES ASSUME at.node # 0, at.left # 0, ~(BaseSize - at.npos >= at.left)
                     PROVE  AfterNode(a, at) \in Loop
        BY <2>3
      <4>2. /\ at.node \in 0 .. MaxNodes /\ at.npos \in 0 .. BaseSize - 1
            /\ at.left \in 0 .. MaxCall
        BY DEF Loop
      <4>3. /\ NodeAfter(a, at.node) \in 0 .. MaxNodes /\ 0 \in 0 .. BaseSize - 1
            /\ at.left - (BaseSize - at.npos) \in 0 .. MaxCall
        BY <4>1, <4>2, MaxNodesIs, BaseSizeAssumption DEF NodeAfter
      <4>4. QED
        BY <4>3 DEF AfterNode, Loop
    <3>2. \A rest : WalkStep(a, at, WalkResult(a, AfterNode(a, at))) = WalkStep(a, at, rest)
      BY <3>1 DEF WalkStep
    <3>3. QED
      BY <2>1, <3>2
  <2>4. QED
    BY <2>2, <2>3
<1> HIDE DEF h
<1>2. h = WalkBody(a, h)
  BY <1>1 DEF h, WalkBody
<1>3. QED
  BY <1>2

(* and the only one, since every node leaves less to do.                    *)
LEMMA LoopLeadsThere ==
  ASSUME NEW a, a.nodes \in 1 .. MaxNodes, NEW g, g = WalkBody(a, g), NEW at \in Loop
  PROVE  g[at] = WalkResult(a, at)
<1> DEFINE Wrong == {n \in 0 .. MaxCall : \E x \in Loop : x.left = n /\ g[x] # WalkResult(a, x)}
<1>1. \A x \in Loop : g[x] = WalkStep(a, x, g[AfterNode(a, x)])
  BY DEF WalkBody
<1>2. \A x \in Loop : x.left \in 0 .. MaxCall
  BY DEF Loop
<1>3. SUFFICES ASSUME Wrong # {} PROVE FALSE
  BY <1>2
<1>4. PICK n \in Wrong : \A m \in Wrong : n <= m
  <2>1. Wrong \subseteq Nat
    OBVIOUS
  <2> HIDE DEF Wrong
  <2>2. QED
    BY <1>3, <2>1, LeastNatural
<1>5. PICK x \in Loop : x.left = n /\ g[x] # WalkResult(a, x)
  OBVIOUS
<1>6. WalkResult(a, x) = WalkStep(a, x, WalkResult(a, AfterNode(a, x)))
  BY StepLeadsThere
<1>7. g[AfterNode(a, x)] # WalkResult(a, AfterNode(a, x))
  BY <1>1, <1>5, <1>6
<1>8. x.node # 0 /\ x.left # 0 /\ ~(BaseSize - x.npos >= x.left)
  BY <1>1, <1>5, <1>6 DEF WalkStep
<1>9. /\ x.node \in 0 .. MaxNodes /\ x.npos \in 0 .. BaseSize - 1
      /\ x.left \in 0 .. MaxCall
  BY DEF Loop
<1>10. /\ NodeAfter(a, x.node) \in 0 .. MaxNodes /\ 0 \in 0 .. BaseSize - 1
       /\ x.left - (BaseSize - x.npos) \in 0 .. MaxCall
       /\ x.left - (BaseSize - x.npos) < x.left
  BY <1>8, <1>9, MaxNodesIs, BaseSizeAssumption DEF NodeAfter
<1> DEFINE y == AfterNode(a, x)
<1>11. y \in Loop /\ y.left = x.left - (BaseSize - x.npos)
  BY <1>10 DEF AfterNode, Loop
<1> HIDE DEF y
<1>12. y.left \in Wrong
  BY <1>7, <1>10, <1>11 DEF y
<1>13. n <= y.left /\ n \in 0 .. MaxCall
  BY <1>4, <1>12
<1>14. QED
  BY <1>5, <1>10, <1>11, <1>13

(* Walk() is the loop from the cursor.                                      *)
LEMMA WalkIs ==
  ASSUME NEW a, a.nodes \in 1 .. MaxNodes, a.cur \in 0 .. MaxNodes, a.position \in Nat,
         NEW size \in 0 .. MaxCall
  PROVE  Walk(a, size) =
           WalkResult(a, [node |-> a.cur, npos |-> a.position % BaseSize, left |-> size])
<1> DEFINE at == [node |-> a.cur, npos |-> a.position % BaseSize, left |-> size]
           Places(x, n) == [k \in 1 .. n |-> <<x.node, x.npos + k - 1>>]
           Go[x \in Loop] ==
             LET ncap == BaseSize - x.npos
             IN  IF x.node = 0 THEN [places |-> <<>>, cur |-> 0, fault |-> TRUE]
                 ELSE IF x.left = 0 THEN [places |-> <<>>, cur |-> x.node, fault |-> FALSE]
                 ELSE IF ncap >= x.left
                 THEN [places |-> Places(x, x.left), fault |-> FALSE,
                       cur |-> IF x.npos + x.left = BaseSize THEN NodeAfter(a, x.node)
                                                             ELSE x.node]
                 ELSE LET rest == Go[[node |-> NodeAfter(a, x.node), npos |-> 0,
                                      left |-> x.left - ncap]]
                      IN  [rest EXCEPT !.places = Places(x, ncap) \o @]
<1>1. Walk(a, size) = Go[at]
  BY DEF Walk
<1>2. Go = CHOOSE g : g = WalkBody(a, g)
  BY DEF WalkBody, WalkStep, AfterNode, Fitting
<1> HIDE DEF Go
<1>3. Go = WalkBody(a, Go)
  BY <1>2, LoopIsDefined
<1>4. at \in Loop
  BY Rows DEF Loop
<1> HIDE DEF at
<1>5. Go[at] = WalkResult(a, at)
  BY <1>3, <1>4, LoopLeadsThere
<1>6. QED
  BY <1>1, <1>5 DEF at

-----------------------------------------------------------------------------
(* ByteArray: the chain is as long as its capacity, and the cursor is the   *)
(* node of the position.                                                    *)
CursorOf(a) == IF a.position = BaseSize * a.nodes THEN 0 ELSE a.position \div BaseSize + 1
ArrayShape(a) ==
  /\ a \in [position : Nat, capacity : Nat, size : Nat, nodes : 1 .. MaxNodes, cur : Nat]
  /\ a.capacity = BaseSize * a.nodes /\ a.position <= a.capacity /\ a.cur = CursorOf(a)
ArrayInv ==
  /\ ArrayShape(array) /\ fault \in BOOLEAN /\ written \in Nat
  /\ contents \in [Place -> Nat] /\ expected \in [0 .. MaxNodes * BaseSize - 1 -> Nat]
  /\ BytesStayInPlace /\ FaultsAreKnown

(* From the cursor the loop goes over the positions that follow, unless     *)
(* there is no node.                                                        *)
LEMMA WalkFromCursor ==
  ASSUME NEW a, ArrayShape(a), NEW size \in 0 .. MaxCall
  PROVE  /\ a.position = a.capacity => Walk(a, size).fault = TRUE
         /\ a.position < a.capacity => Walk(a, size) = Led(a.position, size, a.capacity)
<1> DEFINE p == a.position
           nodes == a.nodes
           at == [node |-> a.cur, npos |-> p % BaseSize, left |-> size]
<1>1. /\ p \in Nat /\ nodes \in 1 .. MaxNodes /\ nodes \in Nat /\ a.cur \in Nat
      /\ a.capacity = BaseSize * nodes /\ p <= a.capacity
      /\ a.cur = IF p = BaseSize * nodes THEN 0 ELSE p \div BaseSize + 1
  BY MaxNodesIs DEF ArrayShape, CursorOf
<1>2. /\ p \div BaseSize \in Nat /\ p % BaseSize \in 0 .. BaseSize - 1
      /\ p = BaseSize * (p \div BaseSize) + (p % BaseSize)
      /\ p < BaseSize * nodes <=> p \div BaseSize < nodes
      /\ BaseSize * nodes \in Nat
  BY <1>1, Rows
<1>3. a.cur \in 0 .. MaxNodes
  BY <1>1, <1>2, MaxNodesIs
<1>4. Walk(a, size) = WalkResult(a, at)
  BY <1>1, <1>3, WalkIs
<1>5. p = a.capacity => Walk(a, size).fault = TRUE
  BY <1>1, <1>4 DEF WalkResult
<1>6. ASSUME p < a.capacity PROVE Walk(a, size) = Led(p, size, a.capacity)
  <2>1. a.cur = p \div BaseSize + 1 /\ a.cur <= nodes /\ a.cur # 0 /\ a.cur - 1 = p \div BaseSize
    BY <1>1, <1>2, <1>6
  <2>2. Start(at) = p
    BY <1>2, <2>1 DEF Start
  <2>3. Ending(a, at) = a.capacity
    BY <1>1, <2>1 DEF Ending
  <2>4. QED
    BY <1>4, <2>1, <2>2, <2>3 DEF WalkResult
<1>7. QED
  BY <1>5, <1>6

(* addCapacity() makes room for size bytes, within the bound on nodes.      *)
LEMMA RoomIsMade ==
  ASSUME NEW a, ArrayShape(a), NEW size \in Nat \ {0}, a.position + size <= MaxWritten
  PROVE  /\ ArrayShape(AddCapacity(a, size))
         /\ AddCapacity(a, size).position = a.position /\ AddCapacity(a, size).size = a.size
         /\ a.position + size <= AddCapacity(a, size).capacity
<1> DEFINE B == BaseSize
           p == a.position
           nodes == a.nodes
           room == a.capacity - p
           x == size - room + B - 1
           q == x \div B
           b == AddCapacity(a, size)
<1>1. /\ p \in Nat /\ nodes \in 1 .. MaxNodes /\ nodes \in Nat /\ nodes >= 1 /\ a.cur \in Nat /\ a.size \in Nat
      /\ a.capacity = B * nodes /\ p <= a.capacity /\ B * nodes \in Nat
      /\ a.cur = IF p = B * nodes THEN 0 ELSE p \div B + 1
      /\ a = [position |-> p, capacity |-> a.capacity, size |-> a.size, nodes |-> nodes, cur |-> a.cur]
  BY MaxNodesIs DEF ArrayShape, CursorOf
<1>2. room \in Nat /\ B \in Nat \ {0} /\ MaxWritten \in Nat
  BY <1>1, BaseSizeAssumption
<1>3. CASE room >= size
  <2>1. b = a
    BY <1>3 DEF AddCapacity
  <2>2. QED
    BY <1>1, <1>3, <2>1
<1>4. CASE ~(room >= size)
  <2>1. x \in Nat
    BY <1>2, <1>4
  <2>2. q \in Nat /\ x % B \in 0 .. B - 1 /\ x = B * q + (x % B)
    BY <2>1, Rows
  <2>3. b = [position |-> p, capacity |-> a.capacity + q * B, size |-> a.size, nodes |-> nodes + q,
             cur |-> IF room = 0 THEN nodes + 1 ELSE a.cur]
    BY <1>1, <1>4 DEF AddCapacity
  <2> DEFINE m == x % B
  <2>4. /\ size - room + B - 1 = B * q + m /\ q \in Nat /\ m \in 0 .. B - 1 /\ B * q \in Nat
    BY <1>2, <2>2
  <2> HIDE DEF q, m, x, room, b, B, nodes
  <2>5. room = B * nodes - p
    BY <1>1 DEF room
  <2>6. B * q >= size - room /\ B * q <= size - room + B - 1
    BY <1>2, <2>4
  <2>7. B * (nodes + q) = B * nodes + B * q /\ q * B = B * q /\ nodes + q \in Nat
    BY <1>1, <1>2, <2>4
  <2>8. p + size <= B * (nodes + q) /\ p < B * (nodes + q) /\ B * (nodes + q) \in Nat
    <3> DEFINE c == B * nodes
               d == B * q
    <3>1. /\ c \in Nat /\ d \in Nat /\ B * (nodes + q) = c + d /\ d >= size - room
          /\ room = c - p /\ p \in Nat
      BY <1>1, <2>4, <2>5, <2>6, <2>7
    <3> HIDE DEF c, d
    <3>2. p + size <= c + d /\ p < c + d /\ c + d \in Nat
      BY <1>2, <3>1
    <3>3. QED
      BY <3>1, <3>2
  <2>9. nodes + q <= MaxNodes
    <3>1. B * (nodes + q) <= p + size + B - 1
      BY <1>1, <1>2, <2>4, <2>5, <2>6, <2>7
    <3>2. MaxWritten < B * (MaxNodes - 1) /\ B * MaxNodes = B * (MaxNodes - 1) + B
      BY <1>2, MaxNodesIs DEF B
    <3>3. B * (nodes + q) < B * MaxNodes
      BY <1>1, <1>2, <2>8, <3>1, <3>2, MaxNodesIs DEF B
    <3>4. MaxNodes < nodes + q => B * MaxNodes + B <= B * (nodes + q)
      BY <1>2, <2>7, MaxNodesIs, Multiples
    <3>5. QED
      BY <1>2, <2>7, <2>8, <3>3, <3>4, MaxNodesIs DEF B
  <2>10. nodes + q \in 1 .. MaxNodes
    BY <1>1, <2>4, <2>9, MaxNodesIs
  <2>11. (IF room = 0 THEN nodes + 1 ELSE a.cur) = p \div B + 1 /\ p \div B \in Nat
    <3>1. p \div B \in Nat
      BY <1>1, Rows DEF B
    <3>2. CASE room = 0
      <4>1. p = B * nodes + 0
        <5> DEFINE c == B * nodes
        <5>1. c \in Nat /\ p \in Nat /\ 0 = c - p
          BY <1>1, <2>5, <3>2
        <5> HIDE DEF c
        <5>2. p = c + 0
          BY <5>1
        <5>3. QED
          BY <5>2 DEF c
      <4>2. (B * nodes + 0) \div B = nodes
        BY <1>1, <1>2, Division
      <4>3. QED
        BY <3>1, <3>2, <4>1, <4>2
    <3>3. CASE room # 0
      BY <1>1, <2>5, <3>1, <3>3
    <3>4. QED
      BY <3>2, <3>3
  <2>12. /\ b.position = p /\ b.capacity = B * (nodes + q) /\ b.size = a.size /\ b.nodes = nodes + q
         /\ b.cur = p \div B + 1
    BY <1>1, <2>3, <2>7, <2>11
  <2>13. b \in [position : Nat, capacity : Nat, size : Nat, nodes : 1 .. MaxNodes, cur : Nat]
    <3>1. /\ p \in Nat /\ a.capacity + q * B \in Nat /\ a.size \in Nat
          /\ (IF room = 0 THEN nodes + 1 ELSE a.cur) \in Nat
      BY <1>1, <1>2, <2>4, <2>7, <2>11
    <3>2. QED
      BY <2>3, <2>10, <3>1
  <2>14. ArrayShape(b)
    <3>1. ~(p = B * (nodes + q)) /\ p <= B * (nodes + q)
      BY <1>1, <2>8
    <3>2. CursorOf(b) = p \div B + 1
      BY <2>12, <3>1 DEF CursorOf, B
    <3>3. b.position <= b.capacity /\ b.capacity = BaseSize * b.nodes
      BY <2>12, <3>1 DEF B
    <3>4. QED
      BY <2>12, <2>13, <3>2, <3>3 DEF ArrayShape
  <2>15. QED
    BY <2>8, <2>12, <2>14 DEF b
<1>5. QED
  BY <1>3, <1>4

(* Every position of the longest chain has a place.                         *)
LEMMA PositionsHavePlaces ==
  \A pos \in 0 .. MaxNodes * BaseSize - 1 : pos \in Nat /\ PlaceOf(pos) \in Place
<1>1. SUFFICES ASSUME NEW pos \in 0 .. MaxNodes * BaseSize - 1
               PROVE  pos \in Nat /\ PlaceOf(pos) \in Place
  OBVIOUS
<1>2. pos \in Nat /\ pos < BaseSize * MaxNodes
  BY <1>1, MaxNodesIs, BaseSizeAssumption
<1>3. /\ pos \div BaseSize \in Nat /\ pos % BaseSize \in 0 .. BaseSize - 1
      /\ pos \div BaseSize < MaxNodes
  BY <1>2, MaxNodesIs, Rows
<1>4. pos \div BaseSize + 1 \in 1 .. MaxNodes
  BY <1>3, MaxNodesIs
<1>5. QED
  BY <1>2, <1>3, <1>4 DEF PlaceOf, Place

(* There is one empty node in the beginning.                                *)
LEMMA ArrayInvHolds == ArrayInit => ArrayInv
<1>1. SUFFICES ASSUME ArrayInit PROVE ArrayInv
  OBVIOUS
<1>2. BaseSize \in Nat \ {0} /\ 1 \in 1 .. MaxNodes
  BY BaseSizeAssumption, MaxNodesIs
<1>3. ArrayShape(array)
  <2>1. /\ array.position = 0 /\ array.capacity = BaseSize /\ array.nodes = 1 /\ array.cur = 1
        /\ array \in [position : Nat, capacity : Nat, size : Nat, nodes : 1 .. MaxNodes, cur : Nat]
    BY <1>1, <1>2 DEF ArrayInit
  <2>2. CursorOf(array) = 1
    <3>1. 0 \div BaseSize = 0
      BY <1>2, Rows
    <3>2. ~(0 = BaseSize * 1)
      BY <1>2
    <3>3. QED
      BY <2>1, <3>1, <3>2 DEF CursorOf
  <2>3. array.capacity = BaseSize * array.nodes /\ array.position <= array.capacity
    BY <1>2, <2>1
  <2>4. QED
    BY <2>1, <2>2, <2>3 DEF ArrayShape
<1>4. /\ fault = FALSE /\ written = 0 /\ contents = [p \in Place |-> 0]
      /\ expected = [pos \in 0 .. MaxNodes * BaseSize - 1 |-> 0]
  BY <1>1 DEF ArrayInit
<1>5. BytesStayInPlace
  <2>1. \A pos \in 0 .. MaxNodes * BaseSize - 1 : expected[pos] = 0 /\ contents[PlaceOf(pos)] = 0
    BY <1>4, PositionsHavePlaces
  <2>2. QED
    BY <1>4, <2>1 DEF BytesStayInPlace, PlaceOf
<1>6. QED
  BY <1>3, <1>4, <1>5 DEF ArrayInv, FaultsAreKnown

(* write() fills the positions from the cursor on, and moves it behind them. *)
LEMMA WriteKeepsArrayInv ==
  ASSUME ArrayInv, NEW size \in 0 .. MaxCall, Write(size)
  PROVE  ArrayInv'
<1> DEFINE grown == AddCapacity(array, size)
           walk == Walk(grown, size)
           p == array.position
           c == grown.capacity
           P == 0 .. MaxNodes * BaseSize - 1
<1>1. /\ ArrayShape(array) /\ written \in Nat /\ p \in Nat /\ array.size \in Nat
      /\ contents \in [Place -> Nat] /\ expected \in [P -> Nat] /\ BytesStayInPlace
  BY DEF ArrayInv, ArrayShape
<1>2. size \in Nat \ {0} /\ p + size <= MaxWritten /\ fault = FALSE
  BY <1>1 DEF Write, ArrayInv
<1>3. ArrayShape(grown) /\ grown.position = p /\ grown.size = array.size /\ p + size <= c
  BY <1>1, <1>2, RoomIsMade
<1>4. c \in Nat /\ p < c
  BY <1>1, <1>2, <1>3 DEF ArrayShape
<1>5. walk = Led(p, size, c)
  BY <1>3, <1>4, WalkFromCursor
<1>6. /\ walk.fault = FALSE /\ walk.places = PlacesFrom(p, size)
      /\ walk.cur = IF p + size < c THEN (p + size) \div BaseSize + 1 ELSE 0
  <2>1. (IF size <= c - p THEN size ELSE c - p) = size /\ (p + size > c) = FALSE
    BY <1>1, <1>2, <1>3, <1>4
  <2> HIDE DEF walk, c
  <2>2. /\ walk.fault = (p + size > c)
        /\ walk.cur = IF p + size < c THEN (p + size) \div BaseSize + 1 ELSE 0
    BY <1>5 DEF Led
  <2>3. walk.places = PlacesFrom(p, IF size <= c - p THEN size ELSE c - p)
    BY <1>5 DEF Led
  <2>4. QED
    BY <2>1, <2>2, <2>3
<1>7. /\ array' = [grown EXCEPT !.position = p + size, !.cur = walk.cur,
                                !.size = IF p + size > @ THEN p + size ELSE @]
      /\ contents' = [x \in Place |->
           IF \E k \in 1 .. Len(walk.places) : walk.places[k] = x
           THEN written + CHOOSE k \in 1 .. Len(walk.places) : walk.places[k] = x
           ELSE contents[x]]
      /\ expected' = [pos \in P |->
           IF pos \in p .. (p + size) - 1 THEN written + pos - p + 1 ELSE expected[pos]]
      /\ fault' = walk.fault /\ written' = written + size
  <2>1. DOMAIN expected = P
    BY <1>1
  <2>2. array' = [grown EXCEPT !.position = p + size, !.cur = walk.cur,
                                !.size = IF p + size > @ THEN p + size ELSE @]
    BY DEF Write
  <2>3. contents' = [x \in Place |->
           IF \E k \in 1 .. Len(walk.places) : walk.places[k] = x
           THEN written + CHOOSE k \in 1 .. Len(walk.places) : walk.places[k] = x
           ELSE contents[x]]
    BY DEF Write
  <2>4. fault' = walk.fault /\ written' = written + size
    BY DEF Write
  <2>5. expected' = [pos \in P |->
           IF pos \in p .. (p + size) - 1 THEN written + pos - p + 1 ELSE expected[pos]]
    <3>1. expected' = [pos \in DOMAIN expected |->
           IF pos \in p .. (p + size) - 1 THEN written + pos - p + 1 ELSE expected[pos]]
      BY DEF Write
    <3>2. QED
      BY <2>1, <3>1
  <2>6. QED
    BY <2>2, <2>3, <2>4, <2>5
<1>8. Len(walk.places) = size /\ \A k \in 1 .. size : walk.places[k] = PlaceOf(p + k - 1)
  BY <1>1, <1>2, <1>6, PlacesAreSequence DEF PlacesFrom
<1> HIDE DEF walk
<1>9. ArrayShape(array')
  <2>1. /\ grown \in [position : Nat, capacity : Nat, size : Nat, nodes : 1 .. MaxNodes, cur : Nat]
        /\ c = BaseSize * grown.nodes
    BY <1>3 DEF ArrayShape
  <2> HIDE DEF grown
  <2>2. /\ array'.position = p + size /\ array'.capacity = c /\ array'.nodes = grown.nodes
        /\ array'.cur = walk.cur
    BY <1>7, <2>1
  <2>3. p + size \in Nat /\ (p + size) \div BaseSize \in Nat
    <3>1. p + size \in Nat
      BY <1>1, <1>2
    <3>2. QED
      BY <3>1, Rows
  <2>4. walk.cur = IF p + size = c THEN 0 ELSE (p + size) \div BaseSize + 1
    BY <1>3, <1>4, <1>6, <2>3
  <2>5. walk.cur \in Nat
    BY <2>3, <2>4
  <2>6. array' \in [position : Nat, capacity : Nat, size : Nat, nodes : 1 .. MaxNodes, cur : Nat]
    <3>1. (IF p + size > grown.size THEN p + size ELSE grown.size) \in Nat
      BY <1>1, <1>3, <2>3
    <3>2. QED
      BY <1>7, <2>1, <2>3, <2>5, <3>1
  <2>7. CursorOf(array') = walk.cur
    BY <2>1, <2>2, <2>4 DEF CursorOf
  <2>8. QED
    BY <1>3, <2>1, <2>2, <2>6, <2>7 DEF ArrayShape
<1>10. contents' \in [Place -> Nat] /\ expected' \in [P -> Nat] /\ written' \in Nat
  <2>1. ASSUME NEW x \in Place PROVE contents'[x] \in Nat
    <3>1. CASE \E k \in 1 .. Len(walk.places) : walk.places[k] = x
      <4> DEFINE k == CHOOSE k \in 1 .. Len(walk.places) : walk.places[k] = x
      <4>1. k \in 1 .. size
        BY <1>8, <3>1
      <4>2. contents'[x] = written + k
        BY <1>7, <3>1
      <4> HIDE DEF k
      <4>3. QED
        BY <1>1, <4>1, <4>2
    <3>2. CASE ~(\E k \in 1 .. Len(walk.places) : walk.places[k] = x)
      BY <1>1, <1>7, <3>2
    <3>3. QED
      BY <3>1, <3>2
  <2>2. \A pos \in P : expected'[pos] \in Nat
    BY <1>1, <1>7
  <2>3. contents' = [x \in Place |-> contents'[x]] /\ expected' = [pos \in P |-> expected'[pos]]
    BY <1>7
  <2>4. QED
    BY <1>1, <1>2, <1>7, <2>1, <2>2, <2>3
<1>11. BytesStayInPlace'
  <2>1. SUFFICES ASSUME NEW pos \in P PROVE expected'[pos] = contents'[PlaceOf(pos)]
    BY <1>10 DEF BytesStayInPlace, PlaceOf
  <2>2. pos \in Nat /\ PlaceOf(pos) \in Place
    BY PositionsHavePlaces
  <2>3. expected[pos] = contents[PlaceOf(pos)]
    BY <1>1 DEF BytesStayInPlace, PlaceOf
  <2> DEFINE x == PlaceOf(pos)
             There(k) == k \in 1 .. size /\ walk.places[k] = x
  <2>4. \A k : There(k) => pos = p + k - 1
    <3>1. SUFFICES ASSUME NEW k, There(k) PROVE pos = p + k - 1
      OBVIOUS
    <3>2. p + k - 1 \in Nat /\ PlaceOf(p + k - 1) = PlaceOf(pos)
      BY <1>1, <1>8, <3>1
    <3>3. QED
      BY <2>2, <3>2, PlacesOfPositions
  <2>5. CASE pos \in p .. (p + size) - 1
    <3> DEFINE k == CHOOSE k \in 1 .. Len(walk.places) : walk.places[k] = x
               j == pos - p + 1
    <3>1. j \in 1 .. size /\ p + j - 1 = pos
      BY <1>1, <1>2, <2>2, <2>5
    <3>2. There(j)
      BY <1>8, <3>1
    <3>3. There(k)
      BY <1>8, <3>2
    <3>4. contents'[x] = written + k
      BY <1>7, <1>8, <2>2, <3>2
    <3>5. k = j
      <4>1. pos = p + k - 1 /\ k \in 1 .. size
        BY <2>4, <3>3
      <4> HIDE DEF k
      <4>2. QED
        BY <1>1, <2>2, <4>1
    <3>6. expected'[pos] = written + pos - p + 1
      BY <1>7, <2>5
    <3> HIDE DEF k
    <3>7. QED
      BY <1>1, <2>2, <3>4, <3>5, <3>6
  <2>6. CASE pos \notin p .. (p + size) - 1
    <3>1. \A k : ~There(k)
      BY <1>1, <1>2, <2>4, <2>6
    <3>2. contents'[x] = contents[x]
      BY <1>7, <1>8, <2>2, <3>1
    <3>3. expected'[pos] = expected[pos]
      BY <1>7, <2>6
    <3>4. QED
      BY <2>3, <3>2, <3>3
  <2>7. QED
    BY <2>5, <2>6
<1>12. fault' = FALSE
  BY <1>6, <1>7
<1>13. QED
  BY <1>9, <1>10, <1>11, <1>12 DEF ArrayInv, FaultsAreKnown

(* read() moves the cursor behind what it has read, unless it meets the     *)
(* null pointer.                                                            *)
LEMMA ReadKeepsArrayInv ==
  ASSUME ArrayInv, NEW size \in 0 .. MaxCall, Read(size)
  PROVE  ArrayInv'
<1> DEFINE walk == Walk(array, size)
           p == array.position
           c == array.capacity
<1>1. /\ ArrayShape(array) /\ written \in Nat /\ p \in Nat /\ c \in Nat /\ p <= c
      /\ array.size \in Nat /\ size \in Nat
      /\ contents \in [Place -> Nat] /\ expected \in [0 .. MaxNodes * BaseSize - 1 -> Nat]
      /\ BytesStayInPlace
  BY DEF ArrayInv, ArrayShape
<1>2. size <= array.size - p
  BY DEF Read, Readable
<1>3. /\ fault' = walk.fault /\ contents' = contents /\ written' = written
      /\ expected' = expected
  BY DEF Read
<1>4. array' = IF walk.fault THEN array ELSE [array EXCEPT !.position = @ + size, !.cur = walk.cur]
  BY DEF Read
<1>5. /\ p = c => walk.fault = TRUE
      /\ p < c => walk = Led(p, size, c)
  BY <1>1, WalkFromCursor
<1> HIDE DEF walk
<1>6. BytesStayInPlace'
  BY <1>1, <1>3 DEF BytesStayInPlace
<1>7. CASE p = c
  <2>1. array' = array /\ fault' = TRUE
    BY <1>3, <1>4, <1>5, <1>7
  <2>2. QED
    BY <1>1, <1>3, <1>6, <1>7, <2>1 DEF ArrayInv, FaultsAreKnown, ArrayShape, CursorOf
<1>8. CASE p < c
  <2>1. /\ walk.fault = (p + size > c)
        /\ walk.cur = IF p + size < c THEN (p + size) \div BaseSize + 1 ELSE 0
    BY <1>5, <1>8 DEF Led
  <2>2. CASE p + size > c
    <3>1. array' = array /\ fault' = TRUE
      BY <1>3, <1>4, <2>1, <2>2
    <3>2. array.size > array.capacity
      BY <1>1, <1>2, <2>2
    <3>3. QED
      BY <1>1, <1>3, <1>6, <3>1, <3>2 DEF ArrayInv, FaultsAreKnown, ArrayShape, CursorOf
  <2>3. CASE ~(p + size > c)
    <3>1. array' = [array EXCEPT !.position = p + size, !.cur = walk.cur] /\ fault' = FALSE
      <4>1. walk.fault = FALSE
        <5>1. (p + size > c) = FALSE
          BY <2>3
        <5>2. QED
          BY <2>1, <5>1
      <4>2. QED
        BY <1>3, <1>4, <4>1
    <3>2. /\ array \in [position : Nat, capacity : Nat, size : Nat, nodes : 1 .. MaxNodes,
                       cur : Nat]
          /\ c = BaseSize * array.nodes
      BY <1>1 DEF ArrayShape
    <3>3. p + size \in Nat /\ p + size <= c
      BY <1>1, <2>3
    <3>4. (p + size) \div BaseSize \in Nat
      BY <3>3, Rows
    <3>5. walk.cur = IF p + size = c THEN 0 ELSE (p + size) \div BaseSize + 1
      BY <1>1, <2>1, <3>3, <3>4
    <3>6. walk.cur \in Nat
      BY <3>4, <3>5
    <3>7. /\ array'.position = p + size /\ array'.capacity = c /\ array'.nodes = array.nodes
          /\ array'.cur = walk.cur
      BY <3>1, <3>2
    <3>8. array' \in [position : Nat, capacity : Nat, size : Nat, nodes : 1 .. MaxNodes, cur : Nat]
      BY <3>1, <3>2, <3>3, <3>6
    <3>9. CursorOf(array') = walk.cur
      BY <3>2, <3>5, <3>7 DEF CursorOf
    <3>10. ArrayShape(array')
      BY <3>2, <3>3, <3>7, <3>8, <3>9 DEF ArrayShape
    <3>11. QED
      BY <1>1, <1>3, <1>6, <3>1, <3>10 DEF ArrayInv, FaultsAreKnown
  <2>4. QED
    BY <2>2, <2>3
<1>9. QED
  BY <1>1, <1>7, <1>8

(* clear() keeps what the first node holds.                                 *)
LEMMA ClearKeepsArrayInv == ArrayInv /\ Clear => ArrayInv'
<1> DEFINE P == 0 .. MaxNodes * BaseSize - 1
<1>1. SUFFICES ASSUME ArrayInv, Clear PROVE ArrayInv'
  OBVIOUS
<1>2. /\ ArrayShape(array) /\ written \in Nat /\ fault = FALSE
      /\ contents \in [Place -> Nat] /\ expected \in [P -> Nat] /\ BytesStayInPlace
  BY <1>1 DEF ArrayInv, Clear
<1>3. /\ array' = [array EXCEPT !.position = 0, !.capacity = BaseSize, !.nodes = 1, !.cur = 1,
                                !.size = array.size]
      /\ contents' = [x \in Place |-> IF x[1] = 1 THEN contents[x] ELSE 0]
      /\ expected' = [pos \in P |-> IF pos < BaseSize THEN expected[pos] ELSE 0]
      /\ written' = written /\ fault' = FALSE
  BY <1>1, <1>2 DEF Clear, ClearedSize
<1>4. BaseSize \in Nat \ {0} /\ 1 \in 1 .. MaxNodes /\ 0 \div BaseSize = 0
  BY BaseSizeAssumption, MaxNodesIs, Rows
<1>5. ArrayShape(array')
  <2>1. array \in [position : Nat, capacity : Nat, size : Nat, nodes : 1 .. MaxNodes, cur : Nat]
    BY <1>2 DEF ArrayShape
  <2>2. /\ array'.position = 0 /\ array'.capacity = BaseSize /\ array'.nodes = 1
        /\ array'.cur = 1
        /\ array' \in [position : Nat, capacity : Nat, size : Nat, nodes : 1 .. MaxNodes, cur : Nat]
    BY <1>3, <1>4, <2>1
  <2>3. CursorOf(array') = 1
    <3>1. ~(0 = BaseSize * 1)
      BY <1>4
    <3>2. QED
      BY <1>4, <2>2, <3>1 DEF CursorOf
  <2>4. array'.capacity = BaseSize * array'.nodes /\ array'.position <= array'.capacity
    BY <1>4, <2>2
  <2>5. QED
    BY <2>2, <2>3, <2>4 DEF ArrayShape
<1>6. BytesStayInPlace'
  <2>1. SUFFICES ASSUME NEW pos \in P PROVE expected'[pos] = contents'[PlaceOf(pos)]
    BY <1>3 DEF BytesStayInPlace, PlaceOf
  <2>2. pos \in Nat /\ PlaceOf(pos) \in Place
    BY PositionsHavePlaces
  <2>3. expected[pos] = contents[PlaceOf(pos)]
    BY <1>2 DEF BytesStayInPlace, PlaceOf
  <2>4. pos < BaseSize <=> PlaceOf(pos)[1] = 1
    <3>1. pos \div BaseSize \in Nat /\ (pos < BaseSize * 1 <=> pos \div BaseSize < 1)
      BY <2>2, Rows
    <3>2. pos \div BaseSize + 1 = 1 <=> pos \div BaseSize < 1
      BY <3>1
    <3>3. BaseSize * 1 = BaseSize
      BY <1>4
    <3>4. PlaceOf(pos)[1] = pos \div BaseSize + 1
      BY DEF PlaceOf
    <3>5. QED
      BY <3>1, <3>2, <3>3, <3>4
  <2>5. QED
    BY <1>3, <2>2, <2>3, <2>4
<1>7. contents' \in [Place -> Nat] /\ expected' \in [P -> Nat]
  BY <1>2, <1>3
<1>8. QED
  BY <1>2, <1>3, <1>5, <1>6, <1>7 DEF ArrayInv, FaultsAreKnown

(* Every call of ByteArray keeps the invariant.                             *)
LEMMA StepKeepsArrayInv == ArrayInv /\ [ArrayNext]_arrayVars => ArrayInv'
<1>1. SUFFICES ASSUME ArrayInv, [ArrayNext]_arrayVars PROVE ArrayInv'
  OBVIOUS
<1>2. CASE UNCHANGED arrayVars
  BY <1>1, <1>2
     DEF arrayVars, ArrayInv, ArrayShape, CursorOf, BytesStayInPlace, FaultsAreKnown
<1>3. QED
  BY <1>1, <1>2, WriteKeepsArrayInv, ReadKeepsArrayInv, ClearKeepsArrayInv DEF ArrayNext

(* The invariant is stronger than the three properties of a ByteArray.      *)
LEMMA ArrayInvMeans == ArrayInv => CursorIsAtPosition /\ BytesStayInPlace /\ FaultsAreKnown
<1>1. SUFFICES ASSUME ArrayInv PROVE CursorIsAtPosition /\ BytesStayInPlace /\ FaultsAreKnown
  OBVIOUS
<1>2. /\ array.capacity = BaseSize * array.nodes /\ array.position <= array.capacity
      /\ array.cur = CursorOf(array) /\ array.nodes \in Nat /\ BaseSize \in Nat
  BY <1>1, MaxNodesIs, BaseSizeAssumption DEF ArrayInv, ArrayShape
<1>3. BaseSize * array.nodes = array.nodes * BaseSize
  BY <1>2
<1>4. CursorIsAtPosition
  BY <1>2, <1>3 DEF CursorIsAtPosition, CursorOf
<1>5. QED
  BY <1>1, <1>4 DEF ArrayInv

-----------------------------------------------------------------------------
(* utils/bytearray.cc, ds/ring_buffer.h: in every run of the storage classes *)
(* a byte is found where it was written, over all ends of nodes, and an      *)
(* element in its turn, over all wraps of the ring.  Of resize() this covers *)
(* the calls with the writer at 0 and the ring empty; after any other, which *)
(* copies from behind the buffer (ring_buffer.h:73), the ring is wild and    *)
(* nothing is said of it.                                                    *)
THEOREM BuffersAlwaysKeepOrder == StorageSpec => []BuffersKeepOrder
<1>1. StorageInit => ArrayInv /\ RingInv
  BY ArrayInvHolds, RingInvHolds DEF StorageInit
<1>2. ArrayInv /\ RingInv /\ [StorageNext]_storageVars => ArrayInv' /\ RingInv'
  BY StorageParts, StepKeepsArrayInv, StepKeepsRingInv
<1>3. ArrayInv /\ RingInv => BuffersKeepOrder
  BY ArrayInvMeans, RingInvMeans DEF BuffersKeepOrder
<1>4. QED
  BY <1>1, <1>2, <1>3, PTL DEF StorageSpec

-----------------------------------------------------------------------------
(* MemoryPoolLiteImpl: pieces are cut from the front of the rest, and what  *)
(* is left of a block is behind all its pieces.                             *)
PiecesInv ==
  /\ blocks \in Seq(Nat) /\ left \in Nat
  /\ ptr = Null => left = 0
  /\ ptr # Null => /\ ptr \in Nat \X Nat /\ ptr[1] \in 1 .. Len(blocks)
                   /\ \A p \in pieces : p.at[1] = ptr[1] => p.at[2] + p.size <= ptr[2]
  /\ \A p \in pieces : p.at \in (1 .. Len(blocks)) \X Nat /\ p.size \in Nat
  /\ PiecesAreDisjoint

(* No piece is out in the beginning.                                        *)
LEMMA PiecesInvHolds == PoolInit => PiecesInv
BY DEF PoolInit, PiecesInv, PiecesAreDisjoint

(* A new piece begins where the rest did, or begins a new block.            *)
LEMMA NewKeepsPieces ==
  ASSUME PiecesInv, NEW size \in Sizes, New(size)
  PROVE  PiecesInv'
<1> DEFINE L == Len(blocks)
           new == [at |-> Returned(size), size |-> size, no |-> Cardinality(pieces)]
<1>1. /\ blocks \in Seq(Nat) /\ left \in Nat /\ L \in Nat /\ size \in Nat
      /\ ptr = Null => left = 0
      /\ ptr # Null => /\ ptr \in Nat \X Nat /\ ptr[1] \in 1 .. L
                       /\ \A p \in pieces : p.at[1] = ptr[1] => p.at[2] + p.size <= ptr[2]
      /\ \A p \in pieces : p.at \in (1 .. L) \X Nat /\ p.size \in Nat
  BY SizesAssumption DEF PiecesInv
<1>2. /\ \A p \in pieces : p.at[2] + p.size <= blocks[p.at[1]]
      /\ \A p, q \in pieces : p # q /\ p.at[1] = q.at[1] =>
           p.at[2] + p.size <= q.at[2] \/ q.at[2] + q.size <= p.at[2]
      /\ ptr # Null => ptr[2] + left <= blocks[ptr[1]]
  BY DEF PiecesInv, PiecesAreDisjoint
<1>3. pieces' = pieces \cup {new} /\ new.at = Returned(size) /\ new.size = size
  BY DEF New
<1> HIDE DEF new
<1>4. CASE Fits(size) /\ ptr # Null
  <2>1. /\ left' = left - size /\ ptr' = <<ptr[1], ptr[2] + size>> /\ blocks' = blocks
        /\ new.at = ptr /\ size <= left
    BY <1>1, <1>3, <1>4 DEF New, Fits, Returned
  <2>2. /\ left' \in Nat /\ ptr' \in Nat \X Nat /\ ptr'[1] = ptr[1] /\ ptr'[2] = ptr[2] + size
        /\ ptr' # Null /\ ptr[2] \in Nat /\ ptr[1] \in Nat
    BY <1>1, <1>4, <2>1 DEF Null
  <2>3. \A p \in pieces' : p.at \in (1 .. L) \X Nat /\ p.size \in Nat
    BY <1>1, <1>3, <1>4, <2>1
  <2>4. \A p \in pieces' : p.at[1] = ptr[1] => p.at[2] + p.size <= ptr[2] + size
    <3>1. \A p \in pieces : p.at[2] \in Nat /\ p.size \in Nat
      BY <1>1
    <3>2. \A p \in pieces : p.at[1] = ptr[1] => p.at[2] + p.size <= ptr[2]
      BY <1>1, <1>4
    <3>3. ASSUME NEW p \in pieces, p.at[1] = ptr[1] PROVE p.at[2] + p.size <= ptr[2] + size
      BY <1>1, <2>2, <3>1, <3>2, <3>3
    <3>4. new.at[2] + new.size <= ptr[2] + size
      BY <1>1, <1>3, <2>1, <2>2
    <3>5. QED
      BY <1>3, <3>3, <3>4
  <2>5. blocks[ptr[1]] \in Nat
    BY <1>1, <1>4
  <2>6. \A p \in pieces' : p.at[2] + p.size <= blocks[p.at[1]]
    <3>1. new.at[2] + new.size <= blocks[new.at[1]]
      BY <1>1, <1>2, <1>3, <1>4, <2>1, <2>2, <2>5
    <3>2. QED
      BY <1>2, <1>3, <3>1
  <2>7. \A p, q \in pieces' : p # q /\ p.at[1] = q.at[1] =>
           p.at[2] + p.size <= q.at[2] \/ q.at[2] + q.size <= p.at[2]
    BY <1>1, <1>2, <1>3, <1>4, <2>1
  <2>8. ptr'[2] + left' <= blocks[ptr[1]]
    BY <1>1, <1>2, <1>4, <2>1, <2>2, <2>5
  <2>9. QED
    BY <1>1, <1>4, <2>1, <2>2, <2>3, <2>4, <2>6, <2>7, <2>8 DEF PiecesInv, PiecesAreDisjoint
<1>5. ASSUME NewBlock(size), new.at = <<L + 1, 0>> PROVE PiecesInv'
  <2> DEFINE allocated == IF size > DefaultBlockSize THEN size ELSE DefaultBlockSize
  <2>1. /\ blocks' = Append(blocks, allocated)
        /\ IF allocated > size THEN ptr' = <<L + 1, size>> /\ left' = allocated - size
                               ELSE ptr' = ptr /\ left' = left
    BY <1>5 DEF NewBlock
  <2>2. allocated \in Nat /\ size <= allocated
    BY <1>1, SizesAssumption
  <2> HIDE DEF allocated
  <2>3. /\ blocks' \in Seq(Nat) /\ Len(blocks') = L + 1 /\ blocks'[L + 1] = allocated
        /\ \A i \in 1 .. L : blocks'[i] = blocks[i]
    BY <1>1, <2>1, <2>2
  <2>4. \A p \in pieces : p.at[1] \in 1 .. L /\ p.at[2] \in Nat /\ p.at[1] # L + 1
    BY <1>1
  <2>5. new.at[1] = L + 1 /\ new.at[2] = 0 /\ new.at \in (1 .. L + 1) \X Nat /\ new.size = size
    BY <1>1, <1>3, <1>5
  <2>6. \A p \in pieces' : p.at \in (1 .. L + 1) \X Nat /\ p.size \in Nat
    <3>1. \A p \in pieces : p.at \in (1 .. L + 1) \X Nat
      BY <1>1
    <3>2. QED
      BY <1>1, <1>3, <2>5, <3>1
  <2>7. \A p \in pieces' : p.at[2] + p.size <= blocks'[p.at[1]]
    <3>1. \A p \in pieces : p.at[2] + p.size <= blocks'[p.at[1]]
      BY <1>2, <2>3, <2>4
    <3>2. new.at[2] + new.size <= blocks'[new.at[1]]
      BY <1>1, <2>2, <2>3, <2>5
    <3>3. QED
      BY <1>3, <3>1, <3>2
  <2>8. \A p, q \in pieces' : p # q /\ p.at[1] = q.at[1] =>
           p.at[2] + p.size <= q.at[2] \/ q.at[2] + q.size <= p.at[2]
    BY <1>2, <1>3, <2>4, <2>5
  <2>9. CASE allocated > size
    <3>1. /\ ptr' = <<L + 1, size>> /\ left' = allocated - size /\ left' \in Nat
          /\ ptr' # Null /\ ptr'[1] = L + 1 /\ ptr'[2] = size /\ ptr' \in Nat \X Nat
          /\ ptr'[1] \in 1 .. L + 1
      BY <1>1, <2>1, <2>2, <2>9 DEF Null
    <3>2. \A p \in pieces' : p.at[1] = L + 1 => p.at[2] + p.size <= size
      BY <1>1, <1>3, <2>4, <2>5
    <3>3. ptr'[2] + left' <= blocks'[ptr'[1]]
      BY <1>1, <2>2, <2>3, <3>1
    <3>4. QED
      BY <2>3, <2>6, <2>7, <2>8, <3>1, <3>2, <3>3 DEF PiecesInv, PiecesAreDisjoint
  <2>10. CASE ~(allocated > size)
    <3>1. ptr' = ptr /\ left' = left
      BY <2>1, <2>10
    <3>2. ptr # Null => /\ ptr \in Nat \X Nat /\ ptr[1] \in 1 .. L + 1
                        /\ \A p \in pieces' : p.at[1] = ptr[1] => p.at[2] + p.size <= ptr[2]
                        /\ ptr[2] + left <= blocks'[ptr[1]]
      BY <1>1, <1>2, <1>3, <2>3, <2>5, SMTT(20)
    <3>3. QED
      BY <1>1, <2>3, <2>6, <2>7, <2>8, <3>1, <3>2 DEF PiecesInv, PiecesAreDisjoint
  <2>11. QED
    BY <2>9, <2>10
<1>6. CASE Fits(size) /\ ptr = Null
  <2>1. NewBlock(0) /\ size = 0 /\ new.at = <<L + 1, 0>>
    BY <1>1, <1>3, <1>6 DEF New, Fits, Returned
  <2>2. QED
    BY <1>5, <2>1
<1>7. CASE ~Fits(size)
  <2>1. NewBlock(size) /\ new.at = <<L + 1, 0>>
    BY <1>3, <1>7 DEF New, Returned
  <2>2. QED
    BY <1>5, <2>1
<1>8. QED
  BY <1>4, <1>6, <1>7

(* The allocators leave the pieces alone, and New() keeps them apart.       *)
LEMMA StepKeepsPieces == PiecesInv /\ [PieceNext \/ AllocatorNext]_poolVars => PiecesInv'
<1>1. SUFFICES ASSUME PiecesInv, [PieceNext \/ AllocatorNext]_poolVars PROVE PiecesInv'
  OBVIOUS
<1>2. CASE PieceNext
  BY <1>1, <1>2, NewKeepsPieces DEF PieceNext
<1>3. CASE UNCHANGED implVars
  BY <1>1, <1>3 DEF implVars, PiecesInv, PiecesAreDisjoint
<1>4. AllocatorNext => UNCHANGED implVars
  BY DEF AllocatorNext, Create, Destroy, Allocate, Deallocate, MoveConstruct, MoveAssign
<1>5. QED
  BY <1>1, <1>2, <1>3, <1>4 DEF poolVars

-----------------------------------------------------------------------------
(* MemoryPoolLiteAllocator: the blocks behind a block, by the pointers that *)
(* p holds, are the smallest set with the block that the pointers stay in.  *)
BackLinks(p) == p \in Seq(Nat) /\ \A b \in 1 .. Len(p) : p[b] \in 0 .. b - 1
ClosedBehind(b, p, S) == (b = 0 \/ b \in S) /\ \A x \in S : p[x] = 0 \/ p[x] \in S
ChainFrom(b, p) ==
  {c \in 1 .. Len(p) : \A S \in SUBSET (1 .. Len(p)) : ClosedBehind(b, p, S) => c \in S}

(* A pointer leads to an earlier block or to none.                          *)
LEMMA LinksLeadBack ==
  ASSUME NEW p, BackLinks(p), NEW b \in 1 .. Len(p)
  PROVE  /\ p[b] \in 0 .. Len(p) /\ p[b] < b /\ p[b] \in Nat /\ b \in Nat
         /\ p[b] # 0 => p[b] \in 1 .. Len(p)
<1> DEFINE v == p[b]
           L == Len(p)
<1>1. v \in 0 .. b - 1 /\ L \in Nat /\ b \in 1 .. L
  BY DEF BackLinks
<1> HIDE DEF v, L
<1>2. v \in 0 .. L /\ v < b /\ v \in Nat /\ b \in Nat /\ (v # 0 => v \in 1 .. L)
  BY <1>1
<1>3. QED
  BY <1>2 DEF v, L

(* That is the block, and what is behind the one it points to.              *)
LEMMA ChainFacts ==
  ASSUME NEW p, BackLinks(p)
  PROVE  /\ ChainFrom(0, p) = {}
         /\ \A b \in 1 .. Len(p) : ChainFrom(b, p) = {b} \cup ChainFrom(p[b], p)
<1> DEFINE All == 1 .. Len(p)
           C(b) == ChainFrom(b, p)
<1>1. ChainFrom(0, p) = {}
  <2>1. ClosedBehind(0, p, {}) /\ {} \in SUBSET All
    BY DEF ClosedBehind
  <2>2. QED
    BY <2>1 DEF ChainFrom
<1>2. ASSUME NEW b \in All PROVE C(b) = {b} \cup C(p[b])
  <2>1. b # 0 /\ (p[b] = 0 \/ p[b] \in All) /\ b \in Nat
    BY DEF BackLinks
  <2>2. \A S \in SUBSET All : ClosedBehind(b, p, S) => ClosedBehind(p[b], p, S)
    BY <2>1 DEF ClosedBehind
  <2>3. {b} \cup C(p[b]) \subseteq C(b)
    BY <2>1, <2>2 DEF ChainFrom, ClosedBehind
  <2>4. ClosedBehind(b, p, {b} \cup C(p[b]))
    <3>1. p[b] = 0 \/ p[b] \in C(p[b])
      BY <2>1 DEF ChainFrom, ClosedBehind
    <3>2. ASSUME NEW x \in C(p[b]), p[x] # 0 PROVE p[x] \in C(p[b])
      <4>1. x \in All /\ p[x] \in All
        BY <3>2 DEF ChainFrom, BackLinks
      <4>2. ASSUME NEW S \in SUBSET All, ClosedBehind(p[b], p, S) PROVE p[x] \in S
        <5>1. x \in S
          BY <4>2 DEF ChainFrom
        <5>2. QED
          BY <3>2, <4>2, <5>1 DEF ClosedBehind
      <4>3. QED
        BY <4>1, <4>2 DEF ChainFrom
    <3>3. QED
      BY <3>1, <3>2 DEF ClosedBehind
  <2>5. {b} \cup C(p[b]) \in SUBSET All
    BY DEF ChainFrom
  <2>6. C(b) \subseteq {b} \cup C(p[b])
    BY <2>4, <2>5 DEF ChainFrom
  <2>7. QED
    BY <2>3, <2>6
<1>3. QED
  BY <1>1, <1>2

(* A new block changes no chain that it is not put in front of.             *)
LEMMA ChainGrows ==
  ASSUME NEW p, BackLinks(p), NEW x \in 0 .. Len(p)
  PROVE  /\ BackLinks(Append(p, x)) /\ Len(Append(p, x)) = Len(p) + 1
         /\ \A b \in 0 .. Len(p) : ChainFrom(b, Append(p, x)) = ChainFrom(b, p)
         /\ ChainFrom(Len(p) + 1, Append(p, x)) = {Len(p) + 1} \cup ChainFrom(x, p)
<1> DEFINE L == Len(p)
           q == Append(p, x)
<1>1. /\ p \in Seq(Nat) /\ L \in Nat /\ q \in Seq(Nat) /\ Len(q) = L + 1 /\ q[L + 1] = x
      /\ \A b \in 1 .. L : q[b] = p[b] /\ p[b] \in 0 .. b - 1
  BY DEF BackLinks
<1>2. BackLinks(q)
  BY <1>1 DEF BackLinks
<1> HIDE DEF q
<1>3. ASSUME NEW b \in 0 .. L PROVE ChainFrom(b, q) = ChainFrom(b, p)
  <2> DEFINE C == ChainFrom(b, p)
  <2>1. ClosedBehind(b, q, C) /\ C \in SUBSET (1 .. L + 1)
    <3>1. b = 0 \/ b \in C
      BY <1>1 DEF ChainFrom, ClosedBehind
    <3>2. ASSUME NEW y \in C PROVE q[y] = 0 \/ q[y] \in C
      <4>1. y \in 1 .. L /\ p[y] \in 0 .. y - 1 /\ q[y] = p[y]
        BY <1>1 DEF ChainFrom
      <4>2. CASE p[y] # 0
        <5>1. p[y] \in 1 .. L
          BY <4>1, <4>2, LinksLeadBack
        <5>2. \A S \in SUBSET (1 .. L) : ClosedBehind(b, p, S) => y \in S
          BY DEF ChainFrom
        <5>3. \A S \in SUBSET (1 .. L) : ClosedBehind(b, p, S) => p[y] \in S
          BY <4>2, <5>2 DEF ClosedBehind
        <5>4. QED
          BY <4>1, <5>1, <5>3 DEF ChainFrom
      <4>3. QED
        BY <4>1, <4>2
    <3>3. C \in SUBSET (1 .. L + 1)
      BY <1>1 DEF ChainFrom
    <3>4. QED
      BY <3>1, <3>2, <3>3 DEF ClosedBehind
  <2>2. ChainFrom(b, q) \subseteq C
    BY <1>1, <2>1 DEF ChainFrom
  <2>3. ASSUME NEW c \in C PROVE c \in ChainFrom(b, q)
    <3>1. c \in 1 .. L /\ c \in 1 .. L + 1
      BY <1>1 DEF ChainFrom
    <3>2. ASSUME NEW S \in SUBSET (1 .. L + 1), ClosedBehind(b, q, S) PROVE c \in S
      <4> DEFINE T == S \cap (1 .. L)
      <4>1. b = 0 \/ b \in T
        BY <1>1, <3>2 DEF ClosedBehind
      <4>2. ASSUME NEW y \in T PROVE p[y] = 0 \/ p[y] \in T
        <5>1. y \in 1 .. L /\ p[y] \in 0 .. y - 1 /\ q[y] = p[y] /\ y \in S
          BY <1>1
        <5>2. q[y] = 0 \/ q[y] \in S
          BY <3>2, <5>1 DEF ClosedBehind
        <5>3. p[y] # 0 => p[y] \in 1 .. L
          BY <5>1, LinksLeadBack
        <5>4. QED
          BY <5>1, <5>2, <5>3
      <4>3. ClosedBehind(b, p, T) /\ T \in SUBSET (1 .. L)
        BY <4>1, <4>2 DEF ClosedBehind
      <4>4. c \in T
        BY <4>3 DEF ChainFrom
      <4>5. QED
        BY <4>4
    <3>3. QED
      BY <1>1, <3>1, <3>2 DEF ChainFrom
  <2>4. QED
    BY <2>2, <2>3
<1>4. ChainFrom(L + 1, q) = {L + 1} \cup ChainFrom(x, p)
  <2>1. L + 1 \in 1 .. Len(q)
    BY <1>1
  <2>2. ChainFrom(L + 1, q) = {L + 1} \cup ChainFrom(q[L + 1], q)
    BY <1>2, <2>1, ChainFacts
  <2>3. QED
    BY <1>1, <1>3, <2>2
<1>5. QED
  BY <1>1, <1>2, <1>3, <1>4 DEF q

(* Chain() follows the pointers to the same blocks.                         *)
FromBody(p, g) == [b \in 0 .. Len(p) |-> IF b = 0 THEN {} ELSE {b} \cup g[p[b]]]
(* Chain() is defined, and it is that set.                                  *)
LEMMA ChainIs ==
  ASSUME BackLinks(prevBlock), NEW a, currentBlock[a] \in 0 .. Len(prevBlock)
  PROVE  Chain(a) = ChainFrom(currentBlock[a], prevBlock)
<1> DEFINE p == prevBlock
           L == Len(p)
           h == [b \in 0 .. L |-> ChainFrom(b, p)]
           From[b \in 0 .. Len(prevBlock)] == IF b = 0 THEN {} ELSE {b} \cup From[prevBlock[b]]
<1>1. L \in Nat /\ \A b \in 1 .. L : p[b] \in 0 .. b - 1 /\ p[b] \in 0 .. L
  <2>1. L \in Nat
    BY DEF BackLinks
  <2>2. QED
    BY <2>1 DEF BackLinks
<1>2. \A b \in 0 .. L : h[b] = IF b = 0 THEN {} ELSE {b} \cup h[p[b]]
  <2>1. \A b \in 0 .. L : b = 0 \/ b \in 1 .. L
    BY <1>1
  <2>2. QED
    BY <1>1, <2>1, ChainFacts
<1> HIDE DEF h
<1>3. h = FromBody(p, h)
  BY <1>2 DEF h, FromBody
<1>4. Chain(a) = From[currentBlock[a]]
  BY DEF Chain
<1>5. From = CHOOSE g : g = FromBody(p, g)
  BY DEF FromBody
<1> HIDE DEF From
<1>6. From = FromBody(p, From)
  BY <1>3, <1>5
<1>7. \A b \in 0 .. L : From[b] = IF b = 0 THEN {} ELSE {b} \cup From[p[b]]
  BY <1>6 DEF FromBody
<1> DEFINE Wrong == {b \in 0 .. L : From[b] # h[b]}
<1>8. Wrong = {}
  <2>1. SUFFICES ASSUME Wrong # {} PROVE FALSE
    OBVIOUS
  <2>2. PICK b \in Wrong : \A c \in Wrong : b <= c
    <3>1. Wrong \subseteq Nat
      OBVIOUS
    <3> HIDE DEF Wrong
    <3>2. QED
      BY <2>1, <3>1, LeastNatural
  <2>3. b # 0 /\ b \in 1 .. L
    <3>1. b \in 0 .. L /\ From[b] # h[b]
      BY <2>2
    <3>2. b # 0
      BY <1>2, <1>7, <3>1
    <3>3. QED
      BY <1>1, <3>1, <3>2
  <2>4. p[b] \in 0 .. L /\ ~(b <= p[b])
    BY <1>1, <2>3
  <2>5. From[p[b]] = h[p[b]]
    BY <2>2, <2>4
  <2>6. QED
    BY <1>2, <1>7, <2>3, <2>5
<1>9. QED
  BY <1>4, <1>8 DEF h

(* What an allocator needs of its blocks M, its block and slot pointers, the *)
(* head of its list, what clients hold, and the pointers in the slots: slots *)
(* from the slot pointer on were never given out, and the list leads in one  *)
(* line through the slots that came back, which nobody holds.                *)
Unused(block, slot, s) == s[1] = block /\ s[2] >= slot[2]
Spent(M, block, slot, h) == {s \in Slot : s[1] \in M /\ h[s] = 0 /\ ~Unused(block, slot, s)}
OneLine(X, head, next) ==
  /\ head \in X \cup {Null}
  /\ \A s \in X : next[s] \in X \cup {Null} /\ (next[s] # Null => next[s] # head)
  /\ \A s, t \in X : next[s] = next[t] /\ next[s] # Null => s = t
Sound(M, block, slot, head, h, next) ==
  /\ \/ block = 0 /\ slot = Null /\ M = {}
     \/ block \in M /\ slot[1] = block /\ slot[2] \in 1 .. Slots + 1 /\ slot = <<slot[1], slot[2]>>
  /\ \A s \in Slot : h[s] = 1 => s[1] \in M /\ ~Unused(block, slot, s)
  /\ OneLine(Spent(M, block, slot, h), head, next)
Held == [Slot -> 0 .. 1]
NextSlots == [Slot -> Slot \cup {Null, Data}]

(* A slot is a pair, and neither a null pointer nor a client's data.        *)
LEMMA SlotFacts ==
  /\ Null \notin Slot /\ Data \notin Slot /\ Null # Data /\ Slots \in Nat \ {0} /\ MaxBlocks \in Nat
  /\ \A s \in Slot : s = <<s[1], s[2]>> /\ s[1] \in 1 .. MaxBlocks /\ s[2] \in 1 .. Slots
BY SlotsAssumption DEF Null, Data, Slot

(* Pointers in slots of other blocks do not matter.                         *)
LEMMA SoundElsewhere ==
  ASSUME NEW M, NEW block, NEW slot, NEW head, NEW h, NEW next, NEW other,
         Sound(M, block, slot, head, h, next),
         \A s \in Slot : s[1] \in M => other[s] = next[s]
  PROVE  Sound(M, block, slot, head, h, other)
<1> DEFINE X == Spent(M, block, slot, h)
<1>1. \A s \in X : other[s] = next[s]
  BY DEF Spent
<1> HIDE DEF X
<1>2. OneLine(X, head, next)
  BY DEF Sound, X
<1>3. OneLine(X, head, other)
  BY <1>1, <1>2 DEF OneLine
<1>4. QED
  BY <1>3 DEF Sound, X

(* allocate() from the list.                                                *)
LEMMA SoundPop ==
  ASSUME NEW M, NEW block, NEW slot, NEW head \in Slot, NEW h \in Held, NEW next \in NextSlots,
         Sound(M, block, slot, head, h, next)
  PROVE  /\ h[head] = 0 /\ head[1] \in M /\ next[head] \in Slot \cup {Null}
         /\ Sound(M, block, slot, next[head], [h EXCEPT ![head] = @ + 1],
                  [next EXCEPT ![head] = Data])
<1> DEFINE X == Spent(M, block, slot, h)
           g == [h EXCEPT ![head] = @ + 1]
           other == [next EXCEPT ![head] = Data]
<1>1. OneLine(X, head, next) /\ X \subseteq Slot /\ head \in X
  BY SlotFacts DEF Sound, Spent, OneLine
<1>2. head[1] \in M /\ h[head] = 0 /\ ~Unused(block, slot, head)
  BY <1>1 DEF Spent
<1>3. g[head] = 1 /\ \A s \in Slot \ {head} : g[s] = h[s]
  BY <1>2 DEF Held
<1>4. \A s \in Slot \ {head} : other[s] = next[s]
  BY DEF NextSlots
<1> HIDE DEF g, other
<1>5. Spent(M, block, slot, g) = X \ {head}
  BY <1>3 DEF Spent
<1>6. OneLine(X \ {head}, next[head], other)
  BY <1>1, <1>4 DEF OneLine
<1>7. \A s \in Slot : g[s] = 1 => s[1] \in M /\ ~Unused(block, slot, s)
  BY <1>2, <1>3 DEF Sound
<1>8. next[head] \in Slot \cup {Null}
  BY <1>1 DEF OneLine
<1>9. QED
  BY <1>2, <1>5, <1>6, <1>7, <1>8 DEF Sound, g, other

(* allocate() from the current block.                                       *)
LEMMA SoundTake ==
  ASSUME NEW M, M \subseteq 1 .. MaxBlocks, NEW block, NEW slot, NEW h \in Held, NEW next \in NextSlots,
         Sound(M, block, slot, Null, h, next), slot # Null, ~(slot[2] > Slots)
  PROVE  /\ slot \in Slot /\ h[slot] = 0 /\ slot[1] \in M
         /\ Sound(M, block, [slot EXCEPT ![2] = @ + 1], Null, [h EXCEPT ![slot] = @ + 1],
                  [next EXCEPT ![slot] = Data])
<1> DEFINE X == Spent(M, block, slot, h)
           g == [h EXCEPT ![slot] = @ + 1]
           other == [next EXCEPT ![slot] = Data]
           after == [slot EXCEPT ![2] = @ + 1]
           k == slot[2]
<1>1. /\ block \in M /\ slot[1] = block /\ k \in 1 .. Slots + 1 /\ slot = <<block, k>>
      /\ OneLine(X, Null, next) /\ Slots \in Nat \ {0}
      /\ \A s \in Slot : h[s] = 1 => s[1] \in M /\ ~Unused(block, slot, s)
  BY SlotFacts DEF Sound
<1>2. k \in 1 .. Slots /\ slot \in Slot /\ k \in Nat
  <2>1. k \in 1 .. Slots /\ k \in Nat
    BY <1>1
  <2>2. QED
    BY <1>1, <2>1 DEF Slot
<1>3. h[slot] = 0
  <2>1. Unused(block, slot, slot)
    BY <1>1, <1>2 DEF Unused
  <2>2. QED
    BY <1>1, <1>2, <2>1 DEF Held
<1>4. after[1] = block /\ after[2] = k + 1 /\ after = <<block, k + 1>>
  BY <1>1
<1>5. g[slot] = 1 /\ \A s \in Slot \ {slot} : g[s] = h[s]
  BY <1>2, <1>3 DEF Held
<1>6. \A s \in Slot \ {slot} : other[s] = next[s]
  BY DEF NextSlots
<1>7. \A s \in Slot : Unused(block, slot, s) <=> Unused(block, after, s) \/ s = slot
  <2>1. ASSUME NEW s \in Slot
        PROVE  Unused(block, slot, s) <=> Unused(block, after, s) \/ s = slot
    <3>1. s = <<s[1], s[2]>> /\ s[2] \in Nat
      BY SlotFacts
    <3>2. s[2] >= k <=> s[2] >= k + 1 \/ s[2] = k
      BY <1>2, <3>1
    <3>3. s = slot <=> s[1] = block /\ s[2] = k
      BY <1>1, <3>1
    <3> HIDE DEF k, after
    <3>4. Unused(block, slot, s) <=> s[1] = block /\ s[2] >= k
      BY DEF Unused, k
    <3>5. Unused(block, after, s) <=> s[1] = block /\ s[2] >= k + 1
      BY <1>4 DEF Unused
    <3>6. QED
      BY <3>2, <3>3, <3>4, <3>5
  <2>2. QED
    BY <2>1
<1>8. ~Unused(block, after, slot)
  BY <1>1, <1>2, <1>4 DEF Unused
<1> HIDE DEF g, other, after
<1>9. Spent(M, block, after, g) = X
  BY <1>5, <1>7 DEF Spent
<1>10. OneLine(X, Null, other)
  <2>1. \A s \in X : s \in Slot \ {slot}
    BY <1>7 DEF Spent
  <2> HIDE DEF X
  <2>2. QED
    BY <1>1, <1>6, <2>1 DEF OneLine
<1>11. \A s \in Slot : g[s] = 1 => s[1] \in M /\ ~Unused(block, after, s)
  BY <1>1, <1>5, <1>7, <1>8
<1>12. after[2] \in 1 .. Slots + 1
  BY <1>1, <1>2, <1>4
<1>13. Sound(M, block, after, Null, g, other)
  BY <1>1, <1>4, <1>9, <1>10, <1>11, <1>12 DEF Sound
<1>14. QED
  BY <1>1, <1>2, <1>3, <1>13 DEF g, other, after

(* allocate() from a new block.                                             *)
LEMMA SoundBlock ==
  ASSUME NEW M, NEW block, NEW slot, NEW h \in Held, NEW next \in NextSlots,
         Sound(M, block, slot, Null, h, next), slot = Null \/ slot[2] > Slots,
         NEW n \in 1 .. MaxBlocks, n \notin M
  PROVE  /\ <<n, 1>> \in Slot /\ h[<<n, 1>>] = 0
         /\ Sound({n} \cup M, n, <<n, 2>>, Null, [h EXCEPT ![<<n, 1>>] = @ + 1], next)
<1> DEFINE X == Spent(M, block, slot, h)
           first == <<n, 1>>
           g == [h EXCEPT ![first] = @ + 1]
<1>1. /\ OneLine(X, Null, next) /\ Slots \in Nat \ {0} /\ MaxBlocks \in Nat
      /\ \A s \in Slot : h[s] = 1 => s[1] \in M
  BY SlotFacts DEF Sound
<1>2. first \in Slot /\ first[1] = n
  BY <1>1 DEF Slot
<1>3. h[first] = 0
  BY <1>1, <1>2 DEF Held
<1>4. g[first] = 1 /\ \A s \in Slot \ {first} : g[s] = h[s]
  BY <1>2, <1>3 DEF Held
<1>5. \A s \in Slot : s[1] \in M => ~Unused(block, slot, s)
  <2>1. ASSUME NEW s \in Slot, s[1] \in M PROVE ~Unused(block, slot, s)
    <3>1. s[2] \in 1 .. Slots /\ slot[2] > Slots /\ slot[2] \in 1 .. Slots + 1
      <4>1. slot[2] \in 1 .. Slots + 1
        BY <2>1 DEF Sound
      <4>2. slot # Null
        BY <4>1 DEF Null
      <4>3. QED
        BY <4>1, <4>2, SlotFacts
    <3>2. ~(s[2] >= slot[2])
      BY <1>1, <3>1
    <3>3. QED
      BY <3>2 DEF Unused
  <2>2. QED
    BY <2>1
<1>6. \A s \in Slot : s[1] = n => (Unused(n, <<n, 2>>, s) <=> s # first)
  <2>1. ASSUME NEW s \in Slot, s[1] = n PROVE Unused(n, <<n, 2>>, s) <=> s # first
    <3>1. s = <<n, s[2]>> /\ s[2] \in Nat /\ s[2] >= 1
      BY <1>1, <2>1, SlotFacts
    <3>2. s[2] >= 2 <=> s[2] # 1
      BY <3>1
    <3>3. QED
      BY <2>1, <3>1, <3>2 DEF Unused
  <2>2. QED
    BY <2>1
<1>7. \A s \in Slot : s[1] # n => ~Unused(n, <<n, 2>>, s)
  BY DEF Unused
<1> HIDE DEF g
<1>8. Spent({n} \cup M, n, <<n, 2>>, g) = X
  <2> DEFINE Y == Spent({n} \cup M, n, <<n, 2>>, g)
  <2>1. ASSUME NEW s \in Slot PROVE s \in Y <=> s \in X
    <3>1. CASE s[1] = n
      BY <1>4, <1>6, <3>1 DEF Spent
    <3>2. CASE s[1] # n
      BY <1>2, <1>4, <1>5, <1>7, <3>2 DEF Spent
    <3>3. QED
      BY <3>1, <3>2
  <2>2. X \subseteq Slot /\ Y \subseteq Slot
    BY DEF Spent
  <2> HIDE DEF X, Y
  <2>3. X = Y
    BY <2>1, <2>2
  <2>4. QED
    BY <2>3 DEF Y
<1>9. \A s \in Slot : g[s] = 1 => s[1] \in {n} \cup M /\ ~Unused(n, <<n, 2>>, s)
  BY <1>1, <1>2, <1>4, <1>6, <1>7
<1>10. <<n, 2>>[1] = n /\ <<n, 2>>[2] = 2 /\ 2 \in 1 .. Slots + 1
  BY <1>1
<1>11. Sound({n} \cup M, n, <<n, 2>>, Null, g, next)
  BY <1>1, <1>8, <1>9, <1>10 DEF Sound
<1>12. QED
  BY <1>2, <1>3, <1>11 DEF g

(* deallocate().                                                            *)
LEMMA SoundPush ==
  ASSUME NEW M, NEW block, NEW slot, NEW head, NEW h \in Held, NEW next \in NextSlots,
         Sound(M, block, slot, head, h, next), NEW s \in Slot, h[s] = 1
  PROVE  /\ s[1] \in M /\ head \in Slot \cup {Null}
         /\ Sound(M, block, slot, s, [h EXCEPT ![s] = @ - 1], [next EXCEPT ![s] = head])
<1> DEFINE X == Spent(M, block, slot, h)
           g == [h EXCEPT ![s] = @ - 1]
           other == [next EXCEPT ![s] = head]
<1>1. OneLine(X, head, next) /\ s[1] \in M /\ ~Unused(block, slot, s)
  BY DEF Sound
<1>2. s \notin X /\ X \subseteq Slot /\ Null \notin Slot
  BY SlotFacts DEF Spent
<1>3. g[s] = 0 /\ \A t \in Slot \ {s} : g[t] = h[t]
  BY DEF Held
<1>4. other[s] = head /\ \A t \in Slot \ {s} : other[t] = next[t]
  BY DEF NextSlots
<1> HIDE DEF g, other
<1>5. Spent(M, block, slot, g) = X \cup {s}
  BY <1>1, <1>3 DEF Spent
<1>6. OneLine(X \cup {s}, s, other)
  <2> HIDE DEF X
  <2>1. head \in X \cup {Null}
    BY <1>1 DEF OneLine
  <2>2. \A t \in X : other[t] = next[t] /\ t # s
    BY <1>2, <1>4
  <2>3. \A t \in X : next[t] \in X \cup {Null} /\ (next[t] # Null => next[t] # head)
    BY <1>1 DEF OneLine
  <2>4. \A t \in X \cup {s} : other[t] \in X \cup {Null}
    BY <1>4, <2>1, <2>2, <2>3
  <2>5. \A t, u \in X \cup {s} : other[t] = other[u] /\ other[t] # Null => t = u
    <3>1. \A t, u \in X : next[t] = next[u] /\ next[t] # Null => t = u
      BY <1>1 DEF OneLine
    <3>2. QED
      BY <1>4, <2>2, <2>3, <3>1
  <2>6. QED
    BY <1>2, <2>4, <2>5 DEF OneLine
<1>7. \A t \in Slot : g[t] = 1 => t[1] \in M /\ ~Unused(block, slot, t)
  BY <1>1 DEF Sound, g, Held
<1>8. head \in Slot \cup {Null}
  BY <1>1, <1>2 DEF OneLine
<1>9. Sound(M, block, slot, s, g, other)
  BY <1>5, <1>6, <1>7 DEF Sound
<1>10. QED
  BY <1>1, <1>8, <1>9 DEF g, other

(* The allocators: every block is on the chain of one that lives, or was    *)
(* freed once; clients hold slots of those that have not been moved from.   *)
AllocTypes ==
  /\ BackLinks(prevBlock) /\ Len(prevBlock) <= MaxBlocks
  /\ currentBlock \in [Allocator -> 0 .. Len(prevBlock)]
  /\ currentSlot \in [Allocator -> Nat \X Nat] /\ freeSlots \in [Allocator -> Slot \cup {Null}]
  /\ nextSlot \in NextSlots /\ freed \in [1 .. MaxBlocks -> Nat] /\ held \in [Allocator -> Held]
  /\ alive \subseteq Allocator /\ movedFrom \subseteq alive
Mine(a) == ChainFrom(currentBlock[a], prevBlock)
OwnersPart ==
  /\ \A a, c \in alive : a # c => Mine(a) \cap Mine(c) = {}
  /\ \A b \in 1 .. MaxBlocks :
       freed[b] = IF b <= Len(prevBlock) /\ \A a \in alive : b \notin Mine(a) THEN 1 ELSE 0
Keeps(a) ==
  Sound(Mine(a), currentBlock[a], currentSlot[a], freeSlots[a], held[a], nextSlot)
KeepersPart ==
  /\ \A a \in alive \ movedFrom : Keeps(a)
  /\ \A a \in Allocator \ (alive \ movedFrom) : \A s \in Slot : held[a][s] = 0
AllocInv == AllocTypes /\ OwnersPart /\ KeepersPart

(* The blocks that an allocator owns are among those that were allocated.   *)
LEMMA MineFacts ==
  ASSUME AllocTypes
  PROVE  /\ Len(prevBlock) \in Nat /\ 0 \in 0 .. Len(prevBlock) /\ ChainFrom(0, prevBlock) = {}
         /\ \A b : ChainFrom(b, prevBlock) \subseteq 1 .. Len(prevBlock)
         /\ 1 .. Len(prevBlock) \subseteq 1 .. MaxBlocks
         /\ \A a \in Allocator : Chain(a) = Mine(a) /\ Mine(a) \subseteq 1 .. Len(prevBlock)
<1>1. /\ BackLinks(prevBlock) /\ Len(prevBlock) <= MaxBlocks /\ Len(prevBlock) \in Nat
      /\ currentBlock \in [Allocator -> 0 .. Len(prevBlock)]
  BY DEF AllocTypes, BackLinks
<1>2. ChainFrom(0, prevBlock) = {} /\ 0 \in 0 .. Len(prevBlock)
  BY <1>1, ChainFacts
<1>3. \A b : ChainFrom(b, prevBlock) \subseteq 1 .. Len(prevBlock)
  BY DEF ChainFrom
<1>4. \A a \in Allocator : Chain(a) = Mine(a)
  BY <1>1, ChainIs DEF Mine
<1>5. 1 .. Len(prevBlock) \subseteq 1 .. MaxBlocks
  BY <1>1, SlotsAssumption
<1>6. QED
  BY <1>1, <1>2, <1>3, <1>4, <1>5 DEF Mine

(* There are no blocks in the beginning.                                    *)
LEMMA AllocInvHolds == PoolInit => AllocInv
<1>1. SUFFICES ASSUME PoolInit PROVE AllocInv
  OBVIOUS
<1>2. Slots \in Nat \ {0} /\ MaxBlocks \in Nat
  BY SlotFacts
<1>3. AllocTypes
  <2>1. BackLinks(prevBlock) /\ Len(prevBlock) = 0
    BY <1>1 DEF PoolInit, BackLinks
  <2>2. \A s \in Slot : 0 \in 0 .. 1
    OBVIOUS
  <2>3. QED
    BY <1>1, <1>2, <2>1 DEF PoolInit, AllocTypes, Null, Held, NextSlots
<1>4. OwnersPart
  <2>1. Len(prevBlock) = 0 /\ alive = {}
    BY <1>1 DEF PoolInit
  <2>2. \A b \in 1 .. MaxBlocks : freed[b] = 0 /\ ~(b <= 0)
    BY <1>1 DEF PoolInit
  <2>3. QED
    BY <2>1, <2>2 DEF OwnersPart
<1>5. KeepersPart
  BY <1>1 DEF PoolInit, KeepersPart
<1>6. QED
  BY <1>3, <1>4, <1>5 DEF AllocInv

(* Without blocks there is nothing to hold and no list.                     *)
LEMMA SoundEmpty ==
  ASSUME NEW h \in Held, \A s \in Slot : h[s] = 0, NEW next
  PROVE  Sound({}, 0, Null, Null, h, next)
<1>1. Spent({}, 0, Null, h) = {}
  BY DEF Spent
<1>2. OneLine({}, Null, next)
  BY DEF OneLine
<1>3. \A s \in Slot : h[s] # 1
  OBVIOUS
<1>4. QED
  BY <1>1, <1>2, <1>3 DEF Sound

(* A new allocator has neither blocks nor slots.                            *)
LEMMA CreateKeepsAlloc ==
  ASSUME AllocInv, NEW a \in Allocator, Create(a)
  PROVE  AllocInv'
<1> DEFINE M(c) == ChainFrom(currentBlock'[c], prevBlock')
<1>1. AllocTypes /\ OwnersPart /\ KeepersPart
  BY DEF AllocInv
<1>2. /\ a \notin alive /\ alive' = alive \cup {a} /\ movedFrom' = movedFrom
      /\ currentBlock' = [currentBlock EXCEPT ![a] = 0]
      /\ currentSlot' = [currentSlot EXCEPT ![a] = Null]
      /\ freeSlots' = [freeSlots EXCEPT ![a] = Null]
      /\ prevBlock' = prevBlock /\ nextSlot' = nextSlot /\ freed' = freed /\ held' = held
  BY DEF Create
<1>3. /\ currentBlock \in [Allocator -> 0 .. Len(prevBlock)]
      /\ currentSlot \in [Allocator -> Nat \X Nat] /\ freeSlots \in [Allocator -> Slot \cup {Null}]
      /\ alive \subseteq Allocator /\ movedFrom \subseteq alive
      /\ held \in [Allocator -> Held]
  BY <1>1 DEF AllocTypes
<1>4. /\ 0 \in 0 .. Len(prevBlock) /\ ChainFrom(0, prevBlock) = {} /\ Null \in Nat \X Nat
  BY <1>1, MineFacts DEF Null
<1>5. AllocTypes'
  BY <1>1, <1>2, <1>3, <1>4 DEF AllocTypes
<1>6. M(a) = {} /\ \A c \in Allocator \ {a} : M(c) = Mine(c)
  BY <1>2, <1>3, <1>4 DEF Mine
<1>7. OwnersPart'
  BY <1>1, <1>2, <1>3, <1>6 DEF OwnersPart, Mine
<1>8. KeepersPart'
  <2>1. \A s \in Slot : held[a][s] = 0
    BY <1>1, <1>2, <1>3 DEF KeepersPart
  <2>2. Keeps(a)'
    <3>1. Sound({}, 0, Null, Null, held[a], nextSlot)
      BY <1>3, <2>1, SoundEmpty
    <3>2. currentBlock'[a] = 0 /\ currentSlot'[a] = Null /\ freeSlots'[a] = Null
      BY <1>2, <1>3
    <3>3. QED
      BY <1>2, <1>6, <3>1, <3>2 DEF Keeps, Mine
  <2>3. ASSUME NEW c \in alive \ movedFrom PROVE Keeps(c)'
    <3>1. c \in Allocator \ {a} /\ Keeps(c)
      BY <1>1, <1>2, <1>3 DEF KeepersPart
    <3>2. /\ currentBlock'[c] = currentBlock[c] /\ currentSlot'[c] = currentSlot[c]
          /\ freeSlots'[c] = freeSlots[c]
      BY <1>2, <1>3, <3>1
    <3>3. QED
      BY <1>2, <1>6, <3>1, <3>2 DEF Keeps, Mine
  <2>4. QED
    BY <1>1, <1>2, <1>3, <2>2, <2>3 DEF KeepersPart
<1>9. QED
  BY <1>5, <1>7, <1>8 DEF AllocInv

(* Both moves: the target, which clients hold nothing of, takes the blocks  *)
(* of the source with what clients hold, and leaves it its own if it has any. *)
LEMMA HandoverKeepsAlloc ==
  ASSUME AllocInv, NEW a \in Allocator, NEW other \in Allocator, Usable(other), a # other,
         Handover(a, other), \A s \in Slot : held[a][s] = 0,
         NEW z, (z = 0 /\ a \notin alive) \/ (z = currentBlock[a] /\ a \in alive),
         currentBlock' = [currentBlock EXCEPT ![a] = currentBlock[other], ![other] = z],
         alive' = alive \cup {a},
         prevBlock' = prevBlock, nextSlot' = nextSlot, freed' = freed
  PROVE  AllocInv'
<1> DEFINE M(c) == ChainFrom(currentBlock'[c], prevBlock')
<1>1. AllocTypes /\ OwnersPart /\ KeepersPart
  BY DEF AllocInv
<1>2. /\ currentSlot' = [currentSlot EXCEPT ![a] = currentSlot[other]]
      /\ freeSlots' = [freeSlots EXCEPT ![a] = freeSlots[other]]
      /\ held' = [held EXCEPT ![a] = held[other], ![other] = held[a]]
      /\ movedFrom' = (movedFrom \ {a}) \cup {other}
  BY DEF Handover
<1>3. /\ currentBlock \in [Allocator -> 0 .. Len(prevBlock)]
      /\ currentSlot \in [Allocator -> Nat \X Nat] /\ freeSlots \in [Allocator -> Slot \cup {Null}]
      /\ alive \subseteq Allocator /\ movedFrom \subseteq alive
      /\ held \in [Allocator -> Held] /\ other \in alive \ movedFrom
  BY <1>1 DEF AllocTypes, Usable
<1>4. 0 \in 0 .. Len(prevBlock) /\ ChainFrom(0, prevBlock) = {} /\ z \in 0 .. Len(prevBlock)
  BY <1>1, <1>3, MineFacts
<1>5. AllocTypes'
  <2>1. held' \in [Allocator -> Held]
    BY <1>2, <1>3
  <2>2. currentBlock' \in [Allocator -> 0 .. Len(prevBlock)]
    BY <1>3, <1>4
  <2>3. currentSlot' \in [Allocator -> Nat \X Nat] /\ freeSlots' \in [Allocator -> Slot \cup {Null}]
    BY <1>2, <1>3
  <2>4. alive' \subseteq Allocator /\ movedFrom' \subseteq alive'
    BY <1>2, <1>3
  <2>5. QED
    BY <1>1, <2>1, <2>2, <2>3, <2>4 DEF AllocTypes
<1>6. /\ M(a) = Mine(other) /\ M(other) = IF a \in alive THEN Mine(a) ELSE {}
      /\ \A c \in Allocator \ {a, other} : M(c) = Mine(c)
  BY <1>3, <1>4 DEF Mine
<1> HIDE DEF M
<1>7. \A c, d \in alive' : c # d => M(c) \cap M(d) = {}
  <2>1. \A c, d \in alive : c # d => Mine(c) \cap Mine(d) = {}
    BY <1>1 DEF OwnersPart
  <2> DEFINE Was(c) == IF c = a THEN other ELSE IF c = other THEN a ELSE c
  <2>2. ASSUME NEW c \in alive', M(c) # {} PROVE M(c) = Mine(Was(c)) /\ Was(c) \in alive
    BY <1>3, <1>6, <2>2
  <2>3. \A c, d : Was(c) = Was(d) => c = d
    OBVIOUS
  <2> HIDE DEF Was
  <2>4. ASSUME NEW c \in alive', NEW d \in alive', c # d, M(c) # {}, M(d) # {}
        PROVE  M(c) \cap M(d) = {}
    <3>1. /\ M(c) = Mine(Was(c)) /\ Was(c) \in alive /\ M(d) = Mine(Was(d)) /\ Was(d) \in alive
          /\ Was(c) # Was(d)
      BY <2>2, <2>3, <2>4
    <3>2. QED
      BY <2>1, <3>1
  <2>5. QED
    BY <2>4
<1>8. \A b : (\A c \in alive' : b \notin M(c)) <=> (\A c \in alive : b \notin Mine(c))
  <2>1. CASE a \in alive
    BY <1>3, <1>6, <2>1
  <2>2. CASE a \notin alive
    BY <1>3, <1>6, <2>2
  <2>3. QED
    BY <2>1, <2>2
<1>9. OwnersPart'
  BY <1>1, <1>7, <1>8 DEF OwnersPart, Mine, M
<1>10. KeepersPart'
  <2>1. \A s \in Slot : held'[other][s] = 0
    BY <1>2, <1>3
  <2>2. Keeps(a)'
    <3>1. Keeps(other)
      BY <1>1, <1>3 DEF KeepersPart
    <3>2. /\ currentBlock'[a] = currentBlock[other] /\ currentSlot'[a] = currentSlot[other]
          /\ freeSlots'[a] = freeSlots[other] /\ held'[a] = held[other]
      BY <1>2, <1>3
    <3>3. QED
      BY <1>6, <3>1, <3>2 DEF Keeps, Mine, M
  <2>3. \A c \in Allocator \ {a, other} :
          /\ currentBlock'[c] = currentBlock[c] /\ currentSlot'[c] = currentSlot[c]
          /\ freeSlots'[c] = freeSlots[c] /\ held'[c] = held[c]
    BY <1>2, <1>3
  <2>4. ASSUME NEW c \in (alive \ movedFrom) \ {a, other} PROVE Keeps(c)'
    <3>1. c \in Allocator \ {a, other} /\ Keeps(c)
      BY <1>1, <1>3 DEF KeepersPart
    <3>2. QED
      BY <1>6, <2>3, <3>1 DEF Keeps, Mine, M
  <2>5. /\ (alive' \ movedFrom') \subseteq ((alive \ movedFrom) \ {a, other}) \cup {a}
        /\ Allocator \ (alive' \ movedFrom') \subseteq
             ((Allocator \ (alive \ movedFrom)) \ {a, other}) \cup {other}
    BY <1>2, <1>3
  <2>6. ASSUME NEW c \in (Allocator \ (alive \ movedFrom)) \ {a, other}, NEW s \in Slot
        PROVE  held'[c][s] = 0
    BY <1>1, <2>3 DEF KeepersPart
  <2>7. QED
    BY <2>1, <2>2, <2>4, <2>5, <2>6 DEF KeepersPart
<1>11. QED
  BY <1>5, <1>9, <1>10 DEF AllocInv

(* A move hands over blocks, free list and slots together.                  *)
LEMMA MoveKeepsAlloc ==
  ASSUME AllocInv, NEW a \in Allocator, NEW other \in Allocator,
         MoveConstruct(a, other) \/ MoveAssign(a, other)
  PROVE  AllocInv'
<1>1. KeepersPart /\ held \in [Allocator -> Held]
  BY DEF AllocInv, AllocTypes
<1>2. CASE MoveConstruct(a, other)
  <2>1. /\ a \notin alive /\ Usable(other) /\ a # other /\ Handover(a, other)
        /\ currentBlock' = [currentBlock EXCEPT ![a] = currentBlock[other], ![other] = 0]
        /\ alive' = alive \cup {a} /\ prevBlock' = prevBlock /\ nextSlot' = nextSlot
        /\ freed' = freed
    BY <1>2 DEF MoveConstruct, TakenBlock, Usable
  <2>2. \A s \in Slot : held[a][s] = 0
    BY <1>1, <2>1 DEF KeepersPart
  <2>3. PICK z : z = 0
    OBVIOUS
  <2>4. /\ (z = 0 /\ a \notin alive) \/ (z = currentBlock[a] /\ a \in alive)
        /\ currentBlock' = [currentBlock EXCEPT ![a] = currentBlock[other], ![other] = z]
    BY <2>1, <2>3
  <2>5. QED
    BY <2>1, <2>2, <2>4, HandoverKeepsAlloc
<1>3. CASE MoveAssign(a, other)
  <2>1. /\ a \in alive /\ Usable(other) /\ a # other /\ Handover(a, other)
        /\ currentBlock' =
             [currentBlock EXCEPT ![a] = currentBlock[other], ![other] = currentBlock[a]]
        /\ alive' = alive /\ prevBlock' = prevBlock /\ nextSlot' = nextSlot /\ freed' = freed
        /\ \A s \in Slot : ~Holds(a, s)
    BY <1>3 DEF MoveAssign, SwappedBlocks
  <2>2. \A s \in Slot : held[a][s] = 0
    BY <1>1, <2>1 DEF Holds, Held
  <2>3. alive' = alive \cup {a}
    BY <2>1
  <2>4. QED
    BY <2>1, <2>2, <2>3, HandoverKeepsAlloc
<1>4. QED
  BY <1>2, <1>3

(* The destructor frees a chain that was nobody else's.                     *)
LEMMA DestroyKeepsAlloc ==
  ASSUME AllocInv, NEW a \in Allocator, Destroy(a)
  PROVE  AllocInv'
<1> DEFINE M(c) == ChainFrom(currentBlock'[c], prevBlock')
           L == Len(prevBlock)
<1>1. AllocTypes /\ OwnersPart /\ KeepersPart
  BY DEF AllocInv
<1>2. /\ Chain(a) = Mine(a) /\ 0 \in 0 .. L /\ ChainFrom(0, prevBlock) = {} /\ L \in Nat
      /\ Mine(a) \subseteq 1 .. L /\ 1 .. L \subseteq 1 .. MaxBlocks
  BY <1>1, MineFacts
<1>3. /\ a \in alive /\ alive' = alive \ {a} /\ movedFrom' = movedFrom \ {a}
      /\ freed' = [b \in 1 .. MaxBlocks |-> IF b \in Mine(a) THEN freed[b] + 1 ELSE freed[b]]
      /\ nextSlot' = [s \in Slot |-> IF s[1] \in Mine(a) THEN Data ELSE nextSlot[s]]
      /\ currentBlock' = [currentBlock EXCEPT ![a] = 0]
      /\ currentSlot' = [currentSlot EXCEPT ![a] = Null]
      /\ freeSlots' = [freeSlots EXCEPT ![a] = Null]
      /\ held' = [held EXCEPT ![a] = [s \in Slot |-> 0]] /\ prevBlock' = prevBlock
  <2>1. /\ a \in alive /\ alive' = alive \ {a} /\ movedFrom' = movedFrom \ {a}
        /\ prevBlock' = prevBlock
    BY DEF Destroy
  <2>2. freed' = [b \in 1 .. MaxBlocks |-> IF b \in Chain(a) THEN freed[b] + 1 ELSE freed[b]]
    BY DEF Destroy
  <2>3. nextSlot' = [s \in Slot |-> IF s[1] \in Chain(a) THEN Data ELSE nextSlot[s]]
    BY DEF Destroy
  <2>4. /\ currentBlock' = [currentBlock EXCEPT ![a] = 0]
        /\ currentSlot' = [currentSlot EXCEPT ![a] = Null]
        /\ freeSlots' = [freeSlots EXCEPT ![a] = Null]
        /\ held' = [held EXCEPT ![a] = [s \in Slot |-> 0]]
    BY DEF Destroy
  <2>5. QED
    BY <1>2, <2>1, <2>2, <2>3, <2>4
<1>4. /\ currentBlock \in [Allocator -> 0 .. L] /\ nextSlot \in NextSlots
      /\ currentSlot \in [Allocator -> Nat \X Nat] /\ freeSlots \in [Allocator -> Slot \cup {Null}]
      /\ alive \subseteq Allocator /\ movedFrom \subseteq alive
      /\ held \in [Allocator -> Held] /\ freed \in [1 .. MaxBlocks -> Nat]
  BY <1>1 DEF AllocTypes
<1>5. AllocTypes'
  <2>1. nextSlot' \in NextSlots
    BY <1>3, <1>4 DEF NextSlots
  <2>2. freed' \in [1 .. MaxBlocks -> Nat]
    BY <1>3, <1>4
  <2>3. held' \in [Allocator -> Held]
    BY <1>3, <1>4 DEF Held
  <2>4. Null \in Nat \X Nat
    BY DEF Null
  <2>5. QED
    BY <1>1, <1>2, <1>3, <1>4, <2>1, <2>2, <2>3, <2>4 DEF AllocTypes
<1>6. \A c \in Allocator \ {a} : M(c) = Mine(c)
  BY <1>3, <1>4 DEF Mine
<1> HIDE DEF M
<1>7. OwnersPart'
  <2>1. /\ \A c, d \in alive : c # d => Mine(c) \cap Mine(d) = {}
        /\ \A b \in 1 .. MaxBlocks :
             freed[b] = IF b <= L /\ \A c \in alive : b \notin Mine(c) THEN 1 ELSE 0
    BY <1>1 DEF OwnersPart
  <2>2. \A c, d \in alive' : c # d => M(c) \cap M(d) = {}
    BY <1>3, <1>4, <1>6, <2>1
  <2>3. ASSUME NEW b \in 1 .. MaxBlocks
        PROVE  freed'[b] = IF b <= L /\ \A c \in alive' : b \notin M(c) THEN 1 ELSE 0
    <3>1. CASE b \in Mine(a)
      <4>1. freed[b] = 0
        BY <1>3, <2>1, <3>1
      <4>2. b <= L
        BY <1>2, <3>1
      <4>3. \A c \in alive' : b \notin M(c)
        BY <1>3, <1>4, <1>6, <2>1, <3>1
      <4>4. freed'[b] = 1
        BY <1>3, <3>1, <4>1
      <4>5. QED
        BY <4>2, <4>3, <4>4
    <3>2. CASE b \notin Mine(a)
      <4>1. (\A c \in alive' : b \notin M(c)) <=> (\A c \in alive : b \notin Mine(c))
        BY <1>3, <1>4, <1>6, <3>2
      <4>2. QED
        BY <1>3, <2>1, <3>2, <4>1
    <3>3. QED
      BY <3>1, <3>2
  <2>4. QED
    BY <1>3, <2>2, <2>3 DEF OwnersPart, Mine, M
<1>8. KeepersPart'
  <2>1. ASSUME NEW c \in (alive \ movedFrom) \ {a} PROVE Keeps(c)'
    <3>1. c \in Allocator \ {a} /\ Keeps(c) /\ Mine(c) \cap Mine(a) = {}
      BY <1>1, <1>3, <1>4 DEF KeepersPart, OwnersPart
    <3>2. \A s \in Slot : s[1] \in Mine(c) => nextSlot'[s] = nextSlot[s]
      BY <1>3, <3>1
    <3>3. Sound(Mine(c), currentBlock[c], currentSlot[c], freeSlots[c], held[c], nextSlot')
      BY <3>1, <3>2, SoundElsewhere DEF Keeps
    <3>4. /\ currentBlock'[c] = currentBlock[c] /\ currentSlot'[c] = currentSlot[c]
          /\ freeSlots'[c] = freeSlots[c] /\ held'[c] = held[c]
      BY <1>3, <1>4, <3>1
    <3>5. QED
      BY <1>6, <3>1, <3>3, <3>4 DEF Keeps, Mine, M
  <2>2. \A s \in Slot : held'[a][s] = 0
    BY <1>3, <1>4
  <2>3. ASSUME NEW c \in (Allocator \ (alive \ movedFrom)) \ {a}, NEW s \in Slot
        PROVE  held'[c][s] = 0
    BY <1>1, <1>3, <1>4 DEF KeepersPart
  <2>4. /\ alive' \ movedFrom' \subseteq (alive \ movedFrom) \ {a}
        /\ Allocator \ (alive' \ movedFrom') \subseteq ((Allocator \ (alive \ movedFrom)) \ {a}) \cup {a}
    BY <1>3, <1>4
  <2>5. QED
    BY <2>1, <2>2, <2>3, <2>4 DEF KeepersPart
<1>9. QED
  BY <1>5, <1>7, <1>8 DEF AllocInv

(* allocate() and deallocate() touch slots of one allocator only; with what *)
(* they leave of it sound, so is the whole.                                 *)
LEMMA OneAllocatorMoves ==
  ASSUME AllocTypes, OwnersPart, KeepersPart, AllocTypes', OwnersPart',
         NEW a \in alive \ movedFrom, Keeps(a)',
         alive' = alive, movedFrom' = movedFrom,
         \A c \in Allocator \ {a} :
           /\ ChainFrom(currentBlock'[c], prevBlock') = Mine(c)
           /\ currentBlock'[c] = currentBlock[c] /\ currentSlot'[c] = currentSlot[c]
           /\ freeSlots'[c] = freeSlots[c] /\ held'[c] = held[c],
         \A s \in Slot : s[1] \notin Mine(a) => nextSlot'[s] = nextSlot[s]
  PROVE  AllocInv'
<1>1. alive \subseteq Allocator
  BY DEF AllocTypes
<1>2. ASSUME NEW c \in (alive \ movedFrom) \ {a} PROVE Keeps(c)'
  <2>1. c \in Allocator \ {a} /\ Keeps(c) /\ Mine(c) \cap Mine(a) = {}
    BY <1>1 DEF KeepersPart, OwnersPart
  <2>2. \A s \in Slot : s[1] \in Mine(c) => nextSlot'[s] = nextSlot[s]
    BY <2>1
  <2>3. Sound(Mine(c), currentBlock[c], currentSlot[c], freeSlots[c], held[c], nextSlot')
    BY <2>1, <2>2, SoundElsewhere DEF Keeps
  <2>4. QED
    BY <2>1, <2>3 DEF Keeps, Mine
<1>3. ASSUME NEW c \in Allocator \ (alive \ movedFrom), NEW s \in Slot PROVE held'[c][s] = 0
  BY <1>3 DEF KeepersPart
<1>4. KeepersPart'
  BY <1>2, <1>3 DEF KeepersPart
<1>5. QED
  BY <1>4 DEF AllocInv

(* Without a new block the owners stay.                                     *)
LEMMA OwnersStay ==
  ASSUME OwnersPart, currentBlock' = currentBlock, prevBlock' = prevBlock, freed' = freed,
         alive' = alive
  PROVE  OwnersPart'
BY DEF OwnersPart, Mine

(* A slot given back becomes the head of the line of spent ones.            *)
LEMMA DeallocateKeepsAlloc ==
  ASSUME AllocInv, NEW a \in Allocator, Deallocate(a)
  PROVE  AllocInv'
<1>1. AllocTypes /\ OwnersPart /\ KeepersPart
  BY DEF AllocInv
<1>2. PICK s \in Slot :
        /\ Holds(a, s) /\ held' = [held EXCEPT ![a][s] = @ - 1]
        /\ nextSlot' = ToList(a, s) /\ freeSlots' = [freeSlots EXCEPT ![a] = s]
  BY DEF Deallocate
<1>3. /\ a \in alive \ movedFrom /\ currentBlock' = currentBlock /\ currentSlot' = currentSlot
      /\ prevBlock' = prevBlock /\ alive' = alive /\ freed' = freed /\ movedFrom' = movedFrom
  BY DEF Deallocate, Usable
<1>4. /\ nextSlot \in NextSlots /\ freeSlots \in [Allocator -> Slot \cup {Null}]
      /\ held \in [Allocator -> Held]
  BY <1>1 DEF AllocTypes
<1> DEFINE M == Mine(a)
           h == held[a]
<1>5. Sound(M, currentBlock[a], currentSlot[a], freeSlots[a], h, nextSlot) /\ h \in Held
  BY <1>1, <1>3, <1>4 DEF KeepersPart, Keeps
<1>6. h[s] = 1
  BY <1>2, <1>5 DEF Holds, Held
<1>7. /\ s[1] \in M /\ freeSlots[a] \in Slot \cup {Null}
      /\ Sound(M, currentBlock[a], currentSlot[a], s, [h EXCEPT ![s] = @ - 1],
               [nextSlot EXCEPT ![s] = freeSlots[a]])
  BY <1>4, <1>5, <1>6, SoundPush
<1>8. /\ nextSlot' = [nextSlot EXCEPT ![s] = freeSlots[a]]
      /\ freeSlots'[a] = s /\ \A c \in Allocator \ {a} : freeSlots'[c] = freeSlots[c]
      /\ held'[a] = [h EXCEPT ![s] = @ - 1] /\ \A c \in Allocator \ {a} : held'[c] = held[c]
  BY <1>2, <1>4 DEF ToList
<1>9. AllocTypes'
  <2>1. [h EXCEPT ![s] = @ - 1] \in Held
    BY <1>5, <1>6 DEF Held
  <2>2. held' \in [Allocator -> Held]
    <3>1. held' = [held EXCEPT ![a] = [h EXCEPT ![s] = @ - 1]]
      BY <1>2, <1>4
    <3>2. QED
      BY <1>4, <2>1, <3>1
  <2>3. nextSlot' \in NextSlots
    BY <1>4, <1>7, <1>8 DEF NextSlots
  <2>4. freeSlots' \in [Allocator -> Slot \cup {Null}]
    BY <1>2, <1>4
  <2>5. QED
    BY <1>1, <1>3, <2>2, <2>3, <2>4 DEF AllocTypes
<1>10. OwnersPart'
  BY <1>1, <1>3, OwnersStay
<1>11. Keeps(a)'
  BY <1>3, <1>7, <1>8 DEF Keeps, Mine
<1>12. \A t \in Slot : t[1] \notin M => nextSlot'[t] = nextSlot[t]
  BY <1>4, <1>7, <1>8 DEF NextSlots
<1>13. \A c \in Allocator \ {a} : ChainFrom(currentBlock'[c], prevBlock') = Mine(c)
  BY <1>3 DEF Mine
<1>14. QED
  BY <1>1, <1>3, <1>8, <1>9, <1>10, <1>11, <1>12, <1>13, OneAllocatorMoves

(* A slot handed out was spent, at the head of the line, or never used.     *)
LEMMA AllocateKeepsAlloc ==
  ASSUME AllocInv, NEW a \in Allocator, Allocate(a)
  PROVE  AllocInv'
<1>1. AllocTypes /\ OwnersPart /\ KeepersPart
  BY DEF AllocInv
<1>2. a \in alive \ movedFrom /\ alive' = alive /\ freed' = freed /\ movedFrom' = movedFrom
  BY DEF Allocate, Usable
<1> DEFINE M == Mine(a)
           h == held[a]
           L == Len(prevBlock)
<1>3. /\ nextSlot \in NextSlots /\ freeSlots \in [Allocator -> Slot \cup {Null}]
      /\ held \in [Allocator -> Held] /\ currentBlock \in [Allocator -> 0 .. L]
      /\ currentSlot \in [Allocator -> Nat \X Nat] /\ h \in Held
      /\ freed \in [1 .. MaxBlocks -> Nat] /\ BackLinks(prevBlock) /\ alive \subseteq Allocator
  BY <1>1 DEF AllocTypes
<1>4. Sound(M, currentBlock[a], currentSlot[a], freeSlots[a], h, nextSlot)
  BY <1>1, <1>2, <1>3 DEF KeepersPart, Keeps
<1>5. /\ L \in Nat /\ M \subseteq 1 .. MaxBlocks /\ M \subseteq 1 .. L
      /\ \A c \in Allocator : Mine(c) \subseteq 1 .. L
  BY <1>1, MineFacts
<1>6. ASSUME NEW s \in Slot, h[s] = 0, Give(a, s)
      PROVE  /\ held' \in [Allocator -> Held] /\ held'[a] = [h EXCEPT ![s] = @ + 1]
             /\ \A c \in Allocator \ {a} : held'[c] = held[c]
  <2>1. held' = [held EXCEPT ![a] = [h EXCEPT ![s] = @ + 1]]
    BY <1>3, <1>6 DEF Give
  <2>2. [h EXCEPT ![s] = @ + 1] \in Held
    BY <1>3, <1>6 DEF Held
  <2>3. QED
    BY <1>3, <2>1, <2>2
<1> HIDE DEF h, M, L
<1>7. CASE /\ freeSlots[a] \in Slot
           /\ Give(a, freeSlots[a])
           /\ freeSlots' = [freeSlots EXCEPT ![a] = nextSlot[freeSlots[a]]]
           /\ nextSlot' = [nextSlot EXCEPT ![freeSlots[a]] = Data]
           /\ UNCHANGED <<currentBlock, currentSlot, prevBlock>>
  <2> DEFINE s == freeSlots[a]
  <2>1. /\ h[s] = 0 /\ s[1] \in M /\ nextSlot[s] \in Slot \cup {Null}
        /\ Sound(M, currentBlock[a], currentSlot[a], nextSlot[s], [h EXCEPT ![s] = @ + 1],
                 [nextSlot EXCEPT ![s] = Data])
    BY <1>3, <1>4, <1>7, SoundPop
  <2>2. /\ held' \in [Allocator -> Held] /\ held'[a] = [h EXCEPT ![s] = @ + 1]
        /\ \A c \in Allocator \ {a} : held'[c] = held[c]
    BY <1>6, <1>7, <2>1
  <2>3. /\ nextSlot' \in NextSlots /\ freeSlots' \in [Allocator -> Slot \cup {Null}]
        /\ freeSlots'[a] = nextSlot[s] /\ \A c \in Allocator \ {a} : freeSlots'[c] = freeSlots[c]
        /\ \A t \in Slot : t[1] \notin M => nextSlot'[t] = nextSlot[t]
    BY <1>3, <1>7, <2>1 DEF NextSlots
  <2>4. AllocTypes'
    BY <1>1, <1>2, <1>7, <2>2, <2>3 DEF AllocTypes
  <2>5. OwnersPart'
    BY <1>1, <1>2, <1>7, OwnersStay
  <2>6. Keeps(a)'
    BY <1>7, <2>1, <2>2, <2>3 DEF Keeps, Mine, M
  <2>7. \A c \in Allocator \ {a} : ChainFrom(currentBlock'[c], prevBlock') = Mine(c)
    BY <1>7 DEF Mine
  <2>8. QED
    BY <1>1, <1>2, <1>7, <2>2, <2>3, <2>4, <2>5, <2>6, <2>7, OneAllocatorMoves DEF M
<1>8. CASE /\ freeSlots[a] = Null /\ ~Exhausted(a)
           /\ Give(a, currentSlot[a])
           /\ currentSlot' = [currentSlot EXCEPT ![a][2] = @ + 1]
           /\ nextSlot' = [nextSlot EXCEPT ![currentSlot[a]] = Data]
           /\ UNCHANGED <<currentBlock, freeSlots, prevBlock>>
  <2> DEFINE s == currentSlot[a]
  <2>1. /\ s \in Slot /\ h[s] = 0 /\ s[1] \in M
        /\ Sound(M, currentBlock[a], [s EXCEPT ![2] = @ + 1], Null, [h EXCEPT ![s] = @ + 1],
                 [nextSlot EXCEPT ![s] = Data])
    BY <1>3, <1>4, <1>5, <1>8, SoundTake DEF Exhausted
  <2>2. /\ held' \in [Allocator -> Held] /\ held'[a] = [h EXCEPT ![s] = @ + 1]
        /\ \A c \in Allocator \ {a} : held'[c] = held[c]
    BY <1>6, <1>8, <2>1
  <2>3. /\ currentSlot' \in [Allocator -> Nat \X Nat] /\ currentSlot'[a] = [s EXCEPT ![2] = @ + 1]
        /\ \A c \in Allocator \ {a} : currentSlot'[c] = currentSlot[c]
    <3>1. currentSlot' = [currentSlot EXCEPT ![a] = [s EXCEPT ![2] = @ + 1]]
      BY <1>3, <1>8
    <3>2. [s EXCEPT ![2] = @ + 1] \in Nat \X Nat
      <4>1. s \in Nat \X Nat
        BY <1>3
      <4>2. QED
        BY <4>1
    <3>3. QED
      BY <1>3, <3>1, <3>2
  <2>4. /\ nextSlot' \in NextSlots
        /\ \A t \in Slot : t[1] \notin M => nextSlot'[t] = nextSlot[t]
    BY <1>3, <1>8, <2>1 DEF NextSlots
  <2>5. AllocTypes'
    BY <1>1, <1>2, <1>8, <2>2, <2>3, <2>4 DEF AllocTypes
  <2>6. OwnersPart'
    BY <1>1, <1>2, <1>8, OwnersStay
  <2>7. Keeps(a)'
    BY <1>8, <2>1, <2>2, <2>3 DEF Keeps, Mine, M
  <2>8. \A c \in Allocator \ {a} : ChainFrom(currentBlock'[c], prevBlock') = Mine(c)
    BY <1>8 DEF Mine
  <2>9. QED
    BY <1>1, <1>2, <1>8, <2>2, <2>3, <2>4, <2>5, <2>6, <2>7, <2>8, OneAllocatorMoves DEF M
<1>9. CASE /\ freeSlots[a] = Null /\ Exhausted(a) /\ Len(prevBlock) < MaxBlocks
           /\ prevBlock' = Append(prevBlock, currentBlock[a])
           /\ currentBlock' = [currentBlock EXCEPT ![a] = Len(prevBlock) + 1]
           /\ Give(a, <<Len(prevBlock) + 1, 1>>)
           /\ currentSlot' = [currentSlot EXCEPT ![a] = <<Len(prevBlock) + 1, 2>>]
           /\ UNCHANGED <<freeSlots, nextSlot>>
  <2> DEFINE n == L + 1
             s == <<n, 1>>
  <2>1. n \in 1 .. MaxBlocks /\ n \notin 1 .. L /\ MaxBlocks \in Nat
    BY <1>5, <1>9, SlotFacts DEF L
  <2>2. /\ s \in Slot /\ h[s] = 0
        /\ Sound({n} \cup M, n, <<n, 2>>, Null, [h EXCEPT ![s] = @ + 1], nextSlot)
    BY <1>3, <1>4, <1>5, <1>9, <2>1, SoundBlock DEF Exhausted
  <2>3. /\ held' \in [Allocator -> Held] /\ held'[a] = [h EXCEPT ![s] = @ + 1]
        /\ \A c \in Allocator \ {a} : held'[c] = held[c]
    BY <1>6, <1>9, <2>2 DEF L
  <2>4. /\ BackLinks(prevBlock') /\ Len(prevBlock') = n
        /\ \A b \in 0 .. L : ChainFrom(b, prevBlock') = ChainFrom(b, prevBlock)
        /\ ChainFrom(n, prevBlock') = {n} \cup M
    <3>1. currentBlock[a] \in 0 .. Len(prevBlock)
      BY <1>3 DEF L
    <3>2. QED
      BY <1>3, <1>9, <3>1, ChainGrows DEF L, M, Mine
  <2>5. /\ currentBlock'[a] = n /\ currentSlot'[a] = <<n, 2>>
        /\ \A c \in Allocator \ {a} :
             currentBlock'[c] = currentBlock[c] /\ currentSlot'[c] = currentSlot[c]
    BY <1>3, <1>9 DEF L
  <2>6. \A c \in Allocator \ {a} : ChainFrom(currentBlock'[c], prevBlock') = Mine(c)
    BY <1>3, <2>4, <2>5 DEF Mine
  <2>7. AllocTypes'
    <3>1. /\ \A c \in Allocator : currentBlock[c] \in 0 .. n
          /\ n \in 0 .. n /\ n <= MaxBlocks /\ n \in Nat
      BY <1>3, <1>5, <2>1
    <3>2. currentBlock' \in [Allocator -> 0 .. n]
      BY <1>3, <1>9, <3>1 DEF L
    <3>3. currentSlot' \in [Allocator -> Nat \X Nat]
      BY <1>3, <1>9, <3>1 DEF L
    <3>4. Len(prevBlock') <= MaxBlocks /\ currentBlock' \in [Allocator -> 0 .. Len(prevBlock')]
      BY <2>4, <3>1, <3>2
    <3>5. QED
      BY <1>1, <1>2, <1>9, <2>3, <2>4, <3>3, <3>4 DEF AllocTypes
  <2>8. OwnersPart'
    <3> DEFINE After(c) == ChainFrom(currentBlock'[c], prevBlock')
    <3>1. After(a) = {n} \cup M /\ \A c \in Allocator \ {a} : After(c) = Mine(c)
      BY <2>4, <2>5, <2>6
    <3> HIDE DEF After
    <3>2. /\ \A c, d \in alive : c # d => Mine(c) \cap Mine(d) = {}
          /\ \A b \in 1 .. MaxBlocks :
               freed[b] = IF b <= L /\ \A c \in alive : b \notin Mine(c) THEN 1 ELSE 0
      BY <1>1 DEF OwnersPart, L
    <3>3. \A c \in Allocator : n \notin Mine(c)
      BY <1>5, <2>1
    <3>4. \A c, d \in alive : c # d => After(c) \cap After(d) = {}
      <4>1. ASSUME NEW c \in alive, NEW d \in alive, c # d PROVE After(c) \cap After(d) = {}
        <5>1. Mine(c) \cap Mine(d) = {} /\ n \notin Mine(c) /\ n \notin Mine(d)
          BY <1>3, <3>2, <3>3, <4>1
        <5>2. /\ After(c) = Mine(c) \/ (c = a /\ After(c) = {n} \cup Mine(c))
              /\ After(d) = Mine(d) \/ (d = a /\ After(d) = {n} \cup Mine(d))
          BY <1>3, <3>1 DEF M
        <5>3. QED
          BY <4>1, <5>1, <5>2
      <4>2. QED
        BY <4>1
    <3>5. ASSUME NEW b \in 1 .. MaxBlocks
          PROVE  freed[b] = IF b <= n /\ \A c \in alive : b \notin After(c) THEN 1 ELSE 0
      <4>1. CASE b = n
        <5>1. ~(b <= L) /\ b \in After(a)
          BY <1>5, <3>1, <4>1
        <5>2. QED
          BY <1>2, <3>2, <5>1
      <4>2. CASE b # n
        <5>1. b <= n <=> b <= L
          BY <1>5, <4>2
        <5>2. (\A c \in alive : b \notin After(c)) <=> (\A c \in alive : b \notin Mine(c))
          BY <1>2, <1>3, <3>1, <4>2 DEF M
        <5>3. QED
          BY <3>2, <5>1, <5>2
      <4>3. QED
        BY <4>1, <4>2
    <3>6. QED
      BY <1>2, <2>4, <3>4, <3>5 DEF OwnersPart, Mine, After
  <2>9. Keeps(a)'
    BY <1>9, <2>2, <2>3, <2>4, <2>5 DEF Keeps, Mine
  <2>10. \A t \in Slot : t[1] \notin M => nextSlot'[t] = nextSlot[t]
    BY <1>9
  <2>11. \A c \in Allocator \ {a} : freeSlots'[c] = freeSlots[c]
    BY <1>9
  <2>12. QED
    BY <1>1, <1>2, <2>3, <2>5, <2>6, <2>7, <2>8, <2>9, <2>10, <2>11, OneAllocatorMoves DEF M
<1>10. QED
  BY <1>7, <1>8, <1>9 DEF Allocate

(* Every call of an allocator keeps the invariant, and New() is none.       *)
LEMMA StepKeepsAlloc == AllocInv /\ [PieceNext \/ AllocatorNext]_poolVars => AllocInv'
<1>1. SUFFICES ASSUME AllocInv, [PieceNext \/ AllocatorNext]_poolVars PROVE AllocInv'
  OBVIOUS
<1>2. CASE UNCHANGED allocVars
  BY <1>1, <1>2
     DEF allocVars, AllocInv, AllocTypes, OwnersPart, KeepersPart, Keeps, Mine
<1>3. PieceNext => UNCHANGED allocVars
  BY DEF PieceNext, New
<1>4. CASE AllocatorNext
  BY <1>1, <1>4, CreateKeepsAlloc, DestroyKeepsAlloc, AllocateKeepsAlloc, DeallocateKeepsAlloc,
     MoveKeepsAlloc DEF AllocatorNext
<1>5. QED
  BY <1>1, <1>2, <1>3, <1>4 DEF poolVars

(* The invariant is stronger than both properties of the allocators.        *)
LEMMA AllocInvMeans == AllocInv => SlotsHaveOneOwner /\ BlocksAreFreedOnce
<1>1. SUFFICES ASSUME AllocInv PROVE SlotsHaveOneOwner /\ BlocksAreFreedOnce
  OBVIOUS
<1>2. AllocTypes /\ OwnersPart /\ KeepersPart
  BY <1>1 DEF AllocInv
<1>3. /\ alive \subseteq Allocator /\ movedFrom \subseteq alive /\ held \in [Allocator -> Held]
      /\ \A a \in Allocator : Chain(a) = Mine(a) /\ Mine(a) \subseteq 1 .. Len(prevBlock)
      /\ 1 .. Len(prevBlock) \subseteq 1 .. MaxBlocks
  BY <1>2, MineFacts DEF AllocTypes
<1>4. ASSUME NEW a \in alive, NEW s \in Slot, Holds(a, s)
      PROVE  held[a][s] = 1 /\ s[1] \in Chain(a)
  <2>1. held[a][s] = 1
    BY <1>3, <1>4 DEF Holds, Held
  <2>2. a \in alive \ movedFrom
    BY <1>2, <1>3, <2>1 DEF KeepersPart
  <2>3. Keeps(a)
    BY <1>2, <2>2 DEF KeepersPart
  <2>4. s[1] \in Mine(a)
    BY <2>1, <2>3 DEF Keeps, Sound
  <2>5. QED
    BY <1>3, <2>1, <2>4
<1>5. ASSUME NEW a \in alive, NEW b \in alive, NEW s \in Slot, Holds(a, s)
      PROVE  a = b \/ ~Holds(b, s)
  BY <1>2, <1>3, <1>4, <1>5 DEF OwnersPart
<1>6. ASSUME NEW a \in alive \ movedFrom, NEW s \in Listed(a)
      PROVE  ~Holds(a, s) /\ s[1] \in Chain(a)
  <2> DEFINE X == Spent(Mine(a), currentBlock[a], currentSlot[a], held[a])
  <2>1. X \in SUBSET Slot
    BY DEF Spent
  <2>2. OneLine(X, freeSlots[a], nextSlot)
    BY <1>2 DEF KeepersPart, Keeps, Sound
  <2>3. LeadsOn(a, X)
    BY <2>2, SlotFacts DEF LeadsOn, OneLine
  <2>4. s \in X
    BY <2>1, <2>3 DEF Listed
  <2>5. s[1] \in Mine(a) /\ held[a][s] = 0
    BY <2>4 DEF Spent
  <2>6. QED
    BY <1>3, <2>5 DEF Holds
<1>7. ASSUME NEW b \in 1 .. Len(prevBlock)
      PROVE  Cardinality({a \in alive : b \in Chain(a)}) + freed[b] = 1
  <2> DEFINE O == {a \in alive : b \in Chain(a)}
  <2>1. freed[b] = IF \A a \in alive : b \notin Mine(a) THEN 1 ELSE 0
    BY <1>2, <1>3, <1>7 DEF OwnersPart
  <2>2. CASE O = {}
    <3>1. freed[b] = 1
      BY <1>3, <2>1, <2>2
    <3>2. Cardinality(O) = 0
      BY <2>2, FS_EmptySet
    <3>3. QED
      BY <3>1, <3>2
  <2>3. CASE O # {}
    <3>1. PICK a : a \in O
      BY <2>3
    <3>2. freed[b] = 0
      BY <1>3, <2>1, <3>1
    <3>3. O = {a}
      BY <1>2, <1>3, <3>1 DEF OwnersPart
    <3>4. Cardinality(O) = 1
      BY <3>3, FS_Singleton
    <3>5. QED
      BY <3>2, <3>4
  <2>4. QED
    BY <2>2, <2>3
<1>8. SlotsHaveOneOwner
  BY <1>4, <1>5, <1>6 DEF SlotsHaveOneOwner
<1>9. BlocksAreFreedOnce
  BY <1>4, <1>7 DEF BlocksAreFreedOnce
<1>10. QED
  BY <1>8, <1>9

-----------------------------------------------------------------------------
(* utils/memory_pool_lite.*, fd_utils.h: in every run of the storage classes, *)
(* through copies, moves and returns, memory and descriptors have one owner  *)
(* and are given back once.                                                  *)
THEOREM MemoryAlwaysHasOneOwner == StorageSpec => []MemoryHasOneOwner
<1>1. StorageInit => PiecesInv /\ AllocInv /\ FdInv
  BY PiecesInvHolds, AllocInvHolds, FdInvHolds DEF StorageInit
<1>2. PiecesInv /\ AllocInv /\ FdInv /\ [StorageNext]_storageVars
      => PiecesInv' /\ AllocInv' /\ FdInv'
  BY StorageParts, StepKeepsPieces, StepKeepsAlloc, StepKeepsFdInv
<1>3. PiecesInv /\ AllocInv /\ FdInv => MemoryHasOneOwner
  BY AllocInvMeans, FdInvMeans DEF MemoryHasOneOwner, PiecesInv
<1>4. QED
  BY <1>1, <1>2, <1>3, PTL DEF StorageSpec

-----------------------------------------------------------------------------
(* SpscQueue.  Its indices are taken modulo N, and only their last values  *)
(* are in memory.  The invariant relates them to counts: the k-th value of *)
(* w_ is also the k-th value of r_, and two values less than N apart in    *)
(* the order differ by that distance modulo N.  All arithmetic stays       *)
(* linear.  First, how far each thread's view may lag.                     *)
Counts == /\ Len(w_) = Len(sent) + 1 /\ Len(r_) = Len(got) + 1
          /\ 1 <= pSeen /\ pSeen <= Len(r_)
          /\ Len(r_) <= cSeen /\ cSeen <= Len(w_)
          /\ Len(w_) - pSeen <= N - 1

(* The j-th value is (j - i) slots after the i-th, around the ring. *)
Apart(i, j) == \/ w_[j] = w_[i] + (j - i)
               \/ w_[j] = w_[i] + (j - i) - N

Ring == /\ \A k \in 1 .. Len(r_) : r_[k] = w_[k]
        /\ \A i, j \in 1 .. Len(w_) : (i <= j /\ j - i < N) => Apart(i, j)

Producing == /\ pPc # "idle" => /\ w = w_[Len(w_)] /\ wNext = Wrap(w + 1)
                                /\ pElem \in Elem
             /\ pPc \in {"write", "publish"} => Len(w_) - pSeen < N - 1
             /\ pPc = "publish" => data_[w] = pElem

Consuming == /\ cPc # "idle" => r = r_[Len(r_)]
             /\ cPc \in {"read", "release"} => Len(r_) < cSeen
             /\ cPc = "release" => element = sent[Len(r_)]

(* Every element that was pushed and not yet popped is still in its slot. *)
Stored == \A k \in Len(r_) .. Len(sent) : data_[w_[k]] = sent[k]

IInv == TypeOK /\ Counts /\ Ring /\ Producing /\ Consuming /\ Stored /\ Fifo

-----------------------------------------------------------------------------
(* The queue starts in the invariant: both indices are 0, nothing is sent. *)
LEMMA InitIInv == Init => IInv
<1>1. SUFFICES ASSUME Init PROVE IInv
  OBVIOUS
<1>2. TypeOK
  BY NAssumption, <1>1 DEF Init, TypeOK, Index
<1>3. Len(w_) = 1 /\ Len(r_) = 1 /\ Len(sent) = 0 /\ Len(got) = 0 /\ w_[1] = 0 /\ r_[1] = 0
  BY <1>1 DEF Init
<1>4. Counts /\ Ring /\ Stored /\ Fifo
  BY NAssumption, <1>1, <1>3 DEF Init, Counts, Ring, Apart, Stored, Fifo
<1>5. Producing /\ Consuming
  BY <1>1 DEF Init, Producing, Consuming
<1>6. QED
  BY <1>2, <1>4, <1>5 DEF IInv

(* What the type invariant says of the two histories of indices. *)
LEMMA IndexFacts ==
  ASSUME IInv
  PROVE  /\ Len(w_) \in Nat /\ Len(r_) \in Nat /\ Len(sent) \in Nat /\ Len(got) \in Nat
         /\ pSeen \in Nat /\ cSeen \in Nat
         /\ 1 <= Len(r_) /\ Len(r_) <= Len(w_) /\ Len(w_) - Len(r_) <= N - 1
         /\ \A k \in 1 .. Len(w_) : w_[k] \in Nat /\ w_[k] < N
         /\ \A k \in 1 .. Len(r_) : r_[k] = w_[k]
<1>1. w_ \in Seq(Index) /\ r_ \in Seq(Index) /\ sent \in Seq(Elem)
      /\ got \in Seq(Elem \cup {Junk}) /\ pSeen \in Nat /\ cSeen \in Nat
  BY DEF IInv, TypeOK
<1>2. /\ Len(w_) \in Nat /\ Len(r_) \in Nat /\ Len(sent) \in Nat /\ Len(got) \in Nat
      /\ \A k \in 1 .. Len(w_) : w_[k] \in Index
  BY <1>1
<1>3. \A k \in 1 .. Len(w_) : w_[k] \in Nat /\ w_[k] < N
  BY <1>2, NAssumption DEF Index
<1>4. 1 <= Len(r_) /\ Len(r_) <= Len(w_) /\ Len(w_) - Len(r_) <= N - 1
  BY <1>1, <1>2, NAssumption DEF IInv, Counts
<1>5. QED
  BY <1>1, <1>2, <1>3, <1>4 DEF IInv, Ring

(* The index after b is a exactly when b is N - 1 slots after a. *)
LEMMA WrapArithmetic ==
  ASSUME NEW a \in Nat, NEW b \in Nat, NEW d \in Nat, a < N, b < N, d <= N - 1,
         b = a + d \/ b = a + d - N
  PROVE  Wrap(b + 1) = a <=> d = N - 1
<1>1. CASE b + 1 = N
  BY <1>1, NAssumption DEF Wrap
<1>2. CASE b + 1 # N
  BY <1>2, NAssumption DEF Wrap
<1>3. QED
  BY <1>1, <1>2

(* What the invariant says of the two comparisons: the producer's full test *)
(* and the consumer's empty test decide exactly by how far each has read.   *)
LEMMA FullTest ==
  ASSUME IInv, pPc = "check", NEW k \in pSeen .. Len(r_)
  PROVE  wNext = r_[k] <=> Len(w_) - k = N - 1
<1>1. k \in 1 .. Len(r_) /\ k \in 1 .. Len(w_) /\ Len(w_) \in 1 .. Len(w_)
  BY IndexFacts DEF IInv, Counts
<1>2. Len(w_) - k <= N - 1 /\ k <= Len(w_)
  BY <1>1, IndexFacts, NAssumption DEF IInv, Counts
<1>3. Apart(k, Len(w_))
  BY <1>1, <1>2, IndexFacts, NAssumption DEF IInv, Ring
<1>4. wNext = Wrap(w_[Len(w_)] + 1)
  BY DEF IInv, Producing
<1>5. r_[k] = w_[k] /\ w_[k] \in Nat /\ w_[k] < N
      /\ w_[Len(w_)] \in Nat /\ w_[Len(w_)] < N
  BY <1>1, IndexFacts
<1>6. Len(w_) - k \in Nat
  BY <1>1, IndexFacts
<1>7. QED
  BY <1>2, <1>3, <1>4, <1>5, <1>6, WrapArithmetic DEF Apart

(* The consumer sees an empty queue exactly when it reads the index it      *)
(* stored.                                                                  *)
LEMMA EmptyTest ==
  ASSUME IInv, cPc = "check", NEW k \in cSeen .. Len(w_)
  PROVE  r = w_[k] <=> k = Len(r_)
<1>1. k \in 1 .. Len(w_) /\ Len(r_) \in 1 .. Len(w_) /\ Len(r_) \in 1 .. Len(r_)
  BY IndexFacts DEF IInv, Counts
<1>2. Len(r_) <= k /\ k - Len(r_) < N
  BY <1>1, IndexFacts, NAssumption DEF IInv, Counts
<1>3. Apart(Len(r_), k)
  BY <1>1, <1>2 DEF IInv, Ring
<1>4. r = w_[Len(r_)] /\ r \in Nat /\ w_[k] \in Nat
  BY <1>1, IndexFacts DEF IInv, Consuming
<1>5. r < N /\ w_[k] < N
  BY <1>1, <1>4, IndexFacts
<1>6. QED
  BY <1>1, <1>2, <1>3, <1>4, <1>5, IndexFacts, NAssumption DEF Apart

(* The slot about to be written holds no element that is still in the queue. *)
LEMMA FreshSlot ==
  ASSUME IInv, pPc = "write", NEW k \in Len(r_) .. Len(sent)
  PROVE  w # w_[k]
<1>1. k \in 1 .. Len(w_) /\ Len(w_) \in 1 .. Len(w_) /\ k < Len(w_)
  BY IndexFacts DEF IInv, Counts
<1>2. Len(w_) - k < N
  BY <1>1, IndexFacts, NAssumption DEF IInv, Counts
<1>3. Apart(k, Len(w_))
  BY <1>1, <1>2 DEF IInv, Ring
<1>4. w = w_[Len(w_)] /\ w_[Len(w_)] \in Nat /\ w_[k] \in Nat
  BY <1>1, IndexFacts DEF IInv, Producing
<1>5. QED
  BY <1>1, <1>2, <1>3, <1>4, IndexFacts, NAssumption DEF Apart

-----------------------------------------------------------------------------
(* Each step of push() and of pop() keeps the invariant. *)

(* push() loads its own index and computes the next one.                    *)
LEMMA PushBeginKeeps ==
  ASSUME IInv, NEW e \in Elem, PushBegin(e)
  PROVE  IInv'
<1>1. UNCHANGED <<data_, w_, r_, pSeen, cSeen, cPc, r, element, sent, got>>
      /\ pPc = "idle" /\ pPc' = "check" /\ pElem' = e
      /\ w' = Last(w_) /\ wNext' = Wrap(Last(w_) + 1)
  BY DEF PushBegin, consumerVars
<1>2. Last(w_) \in Nat /\ Last(w_) < N /\ Last(w_) = w_[Len(w_)]
  BY IndexFacts DEF Last
<1>3. w' \in Index /\ wNext' \in Index
  BY <1>1, <1>2, NAssumption DEF Index, Wrap
<1>4. TypeOK'
  BY <1>1, <1>3 DEF IInv, TypeOK
<1>5. Producing'
  BY <1>1, <1>2 DEF Producing
<1>6. Counts' /\ Ring' /\ Consuming' /\ Stored' /\ Fifo'
  BY <1>1 DEF IInv, Counts, Ring, Apart, Consuming, Stored, Fifo
<1>7. QED
  BY <1>4, <1>5, <1>6 DEF IInv

(* The load of r_ may be stale; it only makes the queue look fuller.        *)
LEMMA PushCheckKeeps ==
  ASSUME IInv, NEW k \in pSeen .. Len(r_), PushCheck(k)
  PROVE  IInv'
<1>1. UNCHANGED <<data_, w_, r_, pElem, w, wNext, cSeen, cPc, r, element, sent, got>>
      /\ pPc = "check" /\ pSeen' = k
      /\ pPc' = IF wNext = r_[k] THEN "idle" ELSE "write"
  BY DEF PushCheck, LooksFull, consumerVars
<1>2. k \in Nat /\ pSeen <= k /\ k <= Len(r_)
  BY IndexFacts
<1>3. TypeOK'
  BY <1>1, <1>2 DEF IInv, TypeOK
<1>4. Counts'
  BY <1>1, <1>2, IndexFacts, NAssumption DEF IInv, Counts
<1>5. pPc' = "write" => Len(w_) - k < N - 1
  <2>1. pPc' = "write" => wNext # r_[k]
    BY <1>1
  <2>2. pPc' = "write" => Len(w_) - k # N - 1
    BY <1>1, <2>1, FullTest
  <2>3. Len(w_) - k <= N - 1
    BY <1>1, <1>4 DEF Counts
  <2>4. Len(w_) - k \in Int /\ N - 1 \in Int
    BY <1>2, IndexFacts, NAssumption
  <2>5. QED
    BY <2>2, <2>3, <2>4
<1>6. Producing'
  BY <1>1, <1>5 DEF IInv, Producing
<1>7. Ring' /\ Consuming' /\ Stored' /\ Fifo'
  BY <1>1 DEF IInv, Ring, Apart, Consuming, Stored, Fifo
<1>8. QED
  BY <1>3, <1>4, <1>6, <1>7 DEF IInv

(* The plain write changes a slot that holds no waiting element.            *)
LEMMA PushWriteKeeps ==
  ASSUME IInv, PushWrite
  PROVE  IInv'
<1>1. UNCHANGED <<w_, r_, pSeen, pElem, w, wNext, cSeen, cPc, r, element, sent, got>>
      /\ pPc = "write" /\ pPc' = "publish"
      /\ data_' = [data_ EXCEPT ![w] = pElem]
  BY DEF PushWrite, consumerVars
<1>2. w \in Index /\ data_ \in [Index -> Elem \cup {Junk}] /\ pElem \in Elem
  BY <1>1 DEF IInv, TypeOK, Producing
<1>3. TypeOK'
  BY <1>1, <1>2 DEF IInv, TypeOK
<1>4. Stored'
  <2>1. ASSUME NEW k \in Len(r_) .. Len(sent) PROVE data_'[w_[k]] = sent[k]
    <3>1. w # w_[k]
      BY <1>1, FreshSlot
    <3>2. k \in 1 .. Len(w_)
      BY IndexFacts DEF IInv, Counts
    <3>3. w_[k] \in Index
      BY <3>2, IndexFacts, NAssumption DEF Index
    <3>4. data_[w_[k]] = sent[k]
      BY DEF IInv, Stored
    <3>5. QED
      BY <1>1, <1>2, <3>1, <3>3, <3>4
  <2>2. QED
    BY <1>1, <2>1 DEF Stored
<1>5. Producing'
  BY <1>1, <1>2 DEF IInv, Producing
<1>6. Counts' /\ Ring' /\ Consuming' /\ Fifo'
  BY <1>1 DEF IInv, Counts, Ring, Apart, Consuming, Fifo
<1>7. QED
  BY <1>3, <1>4, <1>5, <1>6 DEF IInv

(* Appending wNext keeps every pair of indices less than N apart at its     *)
(* distance.                                                                *)
LEMMA PublishedApart ==
  ASSUME NEW a \in Nat, NEW b \in Nat, NEW d \in Nat, a < N, b < N, d < N - 1,
         b = a + d \/ b = a + d - N
  PROVE  Wrap(b + 1) = a + (d + 1) \/ Wrap(b + 1) = a + (d + 1) - N
<1>1. CASE b + 1 = N
  BY <1>1, NAssumption DEF Wrap
<1>2. CASE b + 1 # N
  BY <1>2, NAssumption DEF Wrap
<1>3. QED
  BY <1>1, <1>2

(* The store to w_ adds an index to its order and an element to the queue.  *)
LEMMA PushPublishKeeps ==
  ASSUME IInv, PushPublish
  PROVE  IInv'
<1> DEFINE L == Len(w_)
<1>1. UNCHANGED <<data_, r_, pSeen, pElem, w, wNext, cSeen, cPc, r, element, got>>
      /\ pPc = "publish" /\ pPc' = "idle"
      /\ w_' = Append(w_, wNext) /\ sent' = Append(sent, pElem)
  BY DEF PushPublish, consumerVars
<1>2. wNext \in Index /\ pElem \in Elem /\ w_ \in Seq(Index) /\ sent \in Seq(Elem)
  BY <1>1 DEF IInv, TypeOK, Producing
<1>3. /\ Len(w_') = L + 1 /\ Len(sent') = Len(sent) + 1
      /\ \A k \in 1 .. L : w_'[k] = w_[k]
      /\ w_'[L + 1] = wNext
      /\ \A k \in 1 .. Len(sent) : sent'[k] = sent[k]
      /\ sent'[Len(sent) + 1] = pElem
      /\ w_' \in Seq(Index) /\ sent' \in Seq(Elem)
  BY <1>1, <1>2
<1>4. L = Len(sent) + 1 /\ L \in Nat /\ L - pSeen < N - 1
  BY <1>1, IndexFacts DEF IInv, Counts, Producing
<1>5. TypeOK'
  BY <1>1, <1>3 DEF IInv, TypeOK
<1>6. Counts'
  BY <1>1, <1>3, <1>4, IndexFacts, NAssumption DEF IInv, Counts
<1>7. Ring'
  <2>1. \A k \in 1 .. Len(r_) : r_[k] = w_'[k]
    BY <1>3, IndexFacts
  <2>2. ASSUME NEW i \in 1 .. L + 1, NEW j \in 1 .. L + 1, i <= j, j - i < N
        PROVE  Apart(i, j)'
    <3>1. CASE j <= L
      <4>1. i \in 1 .. L /\ j \in 1 .. L
        BY <1>4, <2>2, <3>1
      <4>2. Apart(i, j)
        BY <2>2, <4>1 DEF IInv, Ring
      <4>3. QED
        BY <1>3, <4>1, <4>2 DEF Apart
    <3>2. CASE j = L + 1 /\ i = L + 1
      BY <1>2, <1>3, <3>2, NAssumption DEF Apart, Index
    <3>3. CASE j = L + 1 /\ i <= L
      <4>1. i \in 1 .. L /\ L \in 1 .. L /\ L - i < N - 1 /\ L - i \in Nat
        BY <1>4, <2>2, <3>3, NAssumption
      <4>2. Apart(i, L)
        BY <4>1, NAssumption DEF IInv, Ring
      <4>3. wNext = Wrap(w_[L] + 1)
        BY <1>1 DEF IInv, Producing
      <4>4. w_[i] \in Nat /\ w_[L] \in Nat /\ w_[i] < N /\ w_[L] < N
        BY <4>1, IndexFacts
      <4>5. wNext = w_[i] + ((L - i) + 1) \/ wNext = w_[i] + ((L - i) + 1) - N
        BY <4>1, <4>2, <4>3, <4>4, PublishedApart DEF Apart
      <4>6. w_'[i] = w_[i] /\ w_'[j] = wNext /\ (L - i) + 1 = j - i
        BY <1>3, <1>4, <3>3, <4>1
      <4>7. QED
        BY <4>5, <4>6 DEF Apart
    <3>4. QED
      BY <1>4, <2>2, <3>1, <3>2, <3>3
  <2>3. QED
    BY <1>1, <1>3, <2>1, <2>2 DEF Ring
<1>8. Stored'
  <2>1. ASSUME NEW k \in Len(r_) .. Len(sent) + 1 PROVE data_[w_'[k]] = sent'[k]
    <3>1. CASE k = L
      <4>1. w_'[k] = w /\ sent'[k] = pElem
        BY <1>1, <1>3, <1>4, <3>1, IndexFacts DEF IInv, Producing
      <4>2. data_[w] = pElem
        BY <1>1 DEF IInv, Producing
      <4>3. QED
        BY <4>1, <4>2
    <3>2. CASE k # L
      <4>1. k \in Len(r_) .. Len(sent) /\ k \in 1 .. L /\ k \in 1 .. Len(sent)
        BY <1>4, <2>1, <3>2, IndexFacts
      <4>2. QED
        BY <1>3, <4>1 DEF IInv, Stored
    <3>3. QED
      BY <3>1, <3>2
  <2>2. QED
    BY <1>1, <1>3, <2>1 DEF Stored
<1>9. Consuming'
  <2>1. cPc = "release" => Len(r_) \in 1 .. Len(sent)
    BY <1>4, IndexFacts DEF IInv, Consuming, Counts
  <2>2. QED
    BY <1>1, <1>3, <2>1 DEF IInv, Consuming
<1>10. Fifo'
  BY <1>1, <1>3, <1>4, IndexFacts DEF IInv, Fifo
<1>11. Producing'
  BY <1>1 DEF Producing
<1>12. QED
  BY <1>5, <1>6, <1>7, <1>8, <1>9, <1>10, <1>11 DEF IInv

(* pop() loads its own index.                                               *)
LEMMA PopBeginKeeps ==
  ASSUME IInv, PopBegin
  PROVE  IInv'
<1>1. UNCHANGED <<data_, w_, r_, cSeen, element, pPc, pElem, w, wNext, pSeen, sent, got>>
      /\ cPc' = "check" /\ r' = r_[Len(r_)]
  BY DEF PopBegin, producerVars, Last
<1>2. r' \in Index
  <2>1. Len(r_) \in 1 .. Len(r_) /\ r_ \in Seq(Index)
    BY IndexFacts DEF IInv, TypeOK
  <2>2. QED
    BY <1>1, <2>1
<1>3. TypeOK'
  BY <1>1, <1>2 DEF IInv, TypeOK
<1>4. Consuming'
  BY <1>1 DEF Consuming
<1>5. Counts' /\ Ring' /\ Producing' /\ Stored' /\ Fifo'
  BY <1>1 DEF IInv, Counts, Ring, Apart, Producing, Stored, Fifo
<1>6. QED
  BY <1>3, <1>4, <1>5 DEF IInv

(* The load of w_ may be stale; it only makes the queue look emptier.       *)
LEMMA PopCheckKeeps ==
  ASSUME IInv, NEW k \in cSeen .. Len(w_), PopCheck(k)
  PROVE  IInv'
<1>1. UNCHANGED <<data_, w_, r_, r, element, pPc, pElem, w, wNext, pSeen, sent, got>>
      /\ cPc = "check" /\ cSeen' = k
      /\ cPc' = IF r = w_[k] THEN "idle" ELSE "read"
  BY DEF PopCheck, LooksEmpty, producerVars
<1>2. k \in Nat /\ cSeen <= k /\ k <= Len(w_) /\ Len(r_) <= k
  BY IndexFacts DEF IInv, Counts
<1>3. TypeOK'
  BY <1>1, <1>2 DEF IInv, TypeOK
<1>4. Counts'
  BY <1>1, <1>2 DEF IInv, Counts
<1>5. cPc' = "read" => Len(r_) < k
  <2>1. cPc' = "read" => k # Len(r_)
    BY <1>1, EmptyTest
  <2>2. QED
    BY <1>2, <2>1, IndexFacts
<1>6. Consuming'
  BY <1>1, <1>5 DEF IInv, Consuming
<1>7. Ring' /\ Producing' /\ Stored' /\ Fifo'
  BY <1>1 DEF IInv, Ring, Apart, Producing, Stored, Fifo
<1>8. QED
  BY <1>3, <1>4, <1>6, <1>7 DEF IInv

(* The plain read finds the oldest waiting element.                         *)
LEMMA PopReadKeeps ==
  ASSUME IInv, PopRead
  PROVE  IInv'
<1>1. UNCHANGED <<data_, w_, r_, r, cSeen, pPc, pElem, w, wNext, pSeen, sent, got>>
      /\ cPc = "read" /\ cPc' = "release" /\ element' = data_[r]
  BY DEF PopRead, producerVars
<1>2. TypeOK'
  BY <1>1 DEF IInv, TypeOK
<1>3. element' = sent[Len(r_)]
  <2>1. Len(r_) \in Len(r_) .. Len(sent) /\ Len(r_) \in 1 .. Len(r_)
    BY <1>1, IndexFacts DEF IInv, Counts, Consuming
  <2>2. r = w_[Len(r_)]
    BY <1>1, <2>1, IndexFacts DEF IInv, Consuming
  <2>3. QED
    BY <1>1, <2>1, <2>2 DEF IInv, Stored
<1>4. Consuming'
  BY <1>1, <1>3 DEF IInv, Consuming
<1>5. Counts' /\ Ring' /\ Producing' /\ Stored' /\ Fifo'
  BY <1>1 DEF IInv, Counts, Ring, Apart, Producing, Stored, Fifo
<1>6. QED
  BY <1>2, <1>4, <1>5 DEF IInv

(* The store to r_ gives the slot back and hands the element out.           *)
LEMMA PopReleaseKeeps ==
  ASSUME IInv, PopRelease
  PROVE  IInv'
<1> DEFINE R == Len(r_)
<1>1. UNCHANGED <<data_, w_, cSeen, element, pPc, pElem, w, wNext, pSeen, sent>>
      /\ cPc = "release" /\ cPc' = "idle" /\ r' = Wrap(r + 1)
      /\ r_' = Append(r_, Wrap(r + 1)) /\ got' = Append(got, element)
  BY DEF PopRelease, producerVars
<1>2. R \in 1 .. R /\ R + 1 \in 1 .. Len(w_) /\ R \in 1 .. Len(w_) /\ R + 1 <= cSeen
      /\ R = Len(got) + 1 /\ R \in 1 .. Len(sent)
  BY <1>1, IndexFacts DEF IInv, Counts, Consuming
<1>3. r = w_[R] /\ r \in Nat /\ r < N /\ w_[R + 1] \in Nat /\ w_[R + 1] < N
  BY <1>1, <1>2, IndexFacts DEF IInv, Consuming
<1>4. Wrap(r + 1) = w_[R + 1]
  <2>1. Apart(R, R + 1)
    BY <1>2, NAssumption, IndexFacts DEF IInv, Ring
  <2>2. w_[R + 1] = r + 1 \/ w_[R + 1] = r + 1 - N
    BY <1>2, <1>3, <2>1, NAssumption, IndexFacts DEF Apart
  <2>3. QED
    BY <1>3, <2>2, NAssumption DEF Wrap
<1>5. Wrap(r + 1) \in Index /\ r_ \in Seq(Index) /\ got \in Seq(Elem \cup {Junk})
      /\ element \in Elem \cup {Junk}
  BY <1>3, <1>4, NAssumption DEF IInv, TypeOK, Index
<1>6. /\ Len(r_') = R + 1 /\ Len(got') = Len(got) + 1
      /\ \A k \in 1 .. R : r_'[k] = r_[k]
      /\ r_'[R + 1] = w_[R + 1]
      /\ \A k \in 1 .. Len(got) : got'[k] = got[k]
      /\ got'[Len(got) + 1] = element
      /\ r_' \in Seq(Index) /\ got' \in Seq(Elem \cup {Junk})
  BY <1>1, <1>4, <1>5
<1>7. TypeOK'
  BY <1>1, <1>5, <1>6 DEF IInv, TypeOK
<1>8. Counts'
  <2>1. Len(w_') = Len(sent') + 1 /\ Len(w_') - pSeen' <= N - 1 /\ cSeen' <= Len(w_')
    BY <1>1 DEF IInv, Counts
  <2>2. Len(r_') = Len(got') + 1 /\ Len(r_') <= cSeen'
    BY <1>1, <1>2, <1>6
  <2>3. 1 <= pSeen' /\ pSeen' <= Len(r_')
    BY <1>1, <1>6, IndexFacts DEF IInv, Counts
  <2>4. QED
    BY <2>1, <2>2, <2>3 DEF Counts
<1>9. Ring'
  <2>1. ASSUME NEW k \in 1 .. R + 1 PROVE r_'[k] = w_[k]
    <3>1. CASE k = R + 1
      BY <1>6, <3>1
    <3>2. CASE k # R + 1
      <4>1. k \in 1 .. R
        BY <1>2, <3>2
      <4>2. QED
        BY <1>6, <4>1, IndexFacts
    <3>3. QED
      BY <3>1, <3>2
  <2>2. QED
    BY <1>1, <1>6, <2>1 DEF IInv, Ring, Apart
<1>10. Fifo'
  BY <1>1, <1>2, <1>6, IndexFacts DEF IInv, Fifo, Consuming
<1>11. Stored'
  BY <1>1, <1>2, <1>6, IndexFacts DEF IInv, Stored
<1>12. Producing' /\ Consuming'
  BY <1>1 DEF IInv, Producing, Consuming
<1>13. QED
  BY <1>7, <1>8, <1>9, <1>10, <1>11, <1>12 DEF IInv

(* So every step keeps the invariant.                                       *)
LEMMA StepKeepsIInv == IInv /\ [Next]_vars => IInv'
<1>1. SUFFICES ASSUME IInv, [Next]_vars PROVE IInv'
  OBVIOUS
<1>2. CASE \E e \in Elem : PushBegin(e)
  BY <1>1, <1>2, PushBeginKeeps
<1>3. CASE ProducerStep
  BY <1>1, <1>3, PushCheckKeeps, PushWriteKeeps, PushPublishKeeps DEF ProducerStep
<1>4. CASE ConsumerStep
  BY <1>1, <1>4, PopBeginKeeps, PopCheckKeeps, PopReadKeeps, PopReleaseKeeps
  DEF ConsumerStep
<1>5. CASE UNCHANGED vars
  BY <1>1, <1>5 DEF vars, producerVars, consumerVars, IInv, TypeOK, Counts, Ring, Apart,
     Producing, Consuming, Stored, Fifo
<1>6. QED
  BY <1>1, <1>2, <1>3, <1>4, <1>5 DEF Next

(* The invariant holds throughout: the lemma the theorems below rest on. *)
LEMMA Invariance == Spec => []IInv
BY InitIInv, StepKeepsIInv, PTL DEF Spec

-----------------------------------------------------------------------------
(* Every variable of push() and pop() keeps its type; in particular w_ and  *)
(* r_ never leave 0 .. N - 1, so data_ is never indexed out of bounds.      *)
THEOREM TypeCorrect == Spec => []TypeOK
<1>1. IInv => TypeOK
  BY DEF IInv
<1>2. QED
  BY <1>1, Invariance, PTL

(* pop() delivers exactly what push() accepted, in its order. *)
THEOREM QueueIsFifo == Spec => []Fifo
<1>1. IInv => Fifo
  BY DEF IInv
<1>2. QED
  BY <1>1, Invariance, PTL

(* The plain accesses to data_ in push() and pop() never race. *)
THEOREM QueueIsRaceFree == Spec => []NoDataRace
<1>1. IInv => NoDataRace
  <2>1. SUFFICES ASSUME IInv, pPc = "write", cPc = "read" PROVE w # r
    BY DEF NoDataRace
  <2>2. Len(r_) \in Len(r_) .. Len(sent) /\ Len(r_) \in 1 .. Len(r_)
    BY <2>1, IndexFacts DEF IInv, Counts, Consuming
  <2>3. r = w_[Len(r_)]
    BY <2>1, <2>2, IndexFacts DEF IInv, Consuming
  <2>4. QED
    BY <2>1, <2>2, <2>3, FreshSlot
<1>2. QED
  BY <1>1, Invariance, PTL

(* The queue holds at most N - 1 elements, and a call that passes its check *)
(* has a slot to fill or an element to read.                                *)
THEOREM QueueIsBounded == Spec => []Bounded
<1>1. IInv => Bounded
  <2>1. SUFFICES ASSUME IInv PROVE Bounded
    OBVIOUS
  <2>2. Len(w_) = Len(sent) + 1 /\ Len(r_) = Len(got) + 1
    BY <2>1 DEF IInv, Counts
  <2>3. Len(sent) - Len(got) <= N - 1
    BY <2>1, <2>2, IndexFacts, NAssumption
  <2>4. pPc \in {"write", "publish"} => Len(sent) - Len(got) < N - 1
    BY <2>1, <2>2, IndexFacts, NAssumption DEF IInv, Counts, Producing
  <2>5. cPc \in {"read", "release"} => Len(sent) > Len(got)
    BY <2>1, <2>2, IndexFacts DEF IInv, Counts, Consuming
  <2>6. QED
    BY <2>3, <2>4, <2>5 DEF Bounded
<1>2. QED
  BY <1>1, Invariance, PTL

(* push() returns false only when full and pop() only when empty, as far as *)
(* the caller can know.                                                     *)
THEOREM QueueFailsOnlyWhenItMust == Spec => FailsOnlyWhenItMust
<1> DEFINE Failing == /\ (pPc = "check" /\ pPc' = "idle") => Len(w_) - pSeen' = N - 1
                      /\ (cPc = "check" /\ cPc' = "idle") => cSeen' = Len(r_)
<1>1. IInv /\ [Next]_vars => [Failing]_vars
  <2>1. SUFFICES ASSUME IInv, Next PROVE Failing
    OBVIOUS
  <2>2. CASE \E e \in Elem : PushBegin(e)
    BY <2>2 DEF PushBegin, consumerVars
  <2>3. ASSUME NEW k \in pSeen .. Len(r_), PushCheck(k) PROVE Failing
    <3>1. pPc = "check" /\ pSeen' = k /\ UNCHANGED <<w_, cPc>>
          /\ pPc' = IF wNext = r_[k] THEN "idle" ELSE "write"
      BY <2>3 DEF PushCheck, LooksFull, consumerVars
    <3>2. pPc' = "idle" => Len(w_) - k = N - 1
      BY <2>1, <2>3, <3>1, FullTest
    <3>3. QED
      BY <3>1, <3>2
  <2>4. CASE PushWrite \/ PushPublish
    BY <2>4 DEF PushWrite, PushPublish, consumerVars
  <2>5. ASSUME NEW k \in cSeen .. Len(w_), PopCheck(k) PROVE Failing
    <3>1. cPc = "check" /\ cSeen' = k /\ UNCHANGED <<r_, pPc>>
          /\ cPc' = IF r = w_[k] THEN "idle" ELSE "read"
      BY <2>5 DEF PopCheck, LooksEmpty, producerVars
    <3>2. cPc' = "idle" => k = Len(r_)
      BY <2>1, <2>5, <3>1, EmptyTest
    <3>3. QED
      BY <3>1, <3>2
  <2>6. CASE PopBegin \/ PopRead \/ PopRelease
    BY <2>6 DEF PopBegin, PopRead, PopRelease, producerVars
  <2>7. QED
    BY <2>1, <2>2, <2>3, <2>4, <2>5, <2>6 DEF Next, ProducerStep, ConsumerStep
<1>2. QED
  BY <1>1, Invariance, PTL DEF Spec, FailsOnlyWhenItMust

-----------------------------------------------------------------------------
(* The elements pushed and not yet popped, oldest first: what memory holds  *)
(* from the read index up to the write index.                               *)
Rest(s, g) == [i \in 1 .. Len(s) - g |-> s[g + i]]

(* The elements after the g-th are themselves a sequence.                   *)
LEMMA RestIsSequence ==
  ASSUME NEW S, NEW s \in Seq(S), NEW g \in Nat, g <= Len(s)
  PROVE  Rest(s, g) \in Seq(S) /\ Len(Rest(s, g)) = Len(s) - g
<1>1. Len(s) - g \in Nat /\ \A i \in 1 .. Len(s) - g : s[g + i] \in S
  OBVIOUS
<1>2. QED
  BY <1>1 DEF Rest

(* Pushing adds at the end of what waits.                                   *)
LEMMA RestGrows ==
  ASSUME NEW S, NEW s \in Seq(S), NEW g \in Nat, g <= Len(s), NEW e \in S
  PROVE  Rest(Append(s, e), g) = Append(Rest(s, g), e)
<1> DEFINE n == Len(s) - g
           t == Append(s, e)
           a == Append(Rest(s, g), e)
<1>1. /\ n \in Nat /\ Len(s) \in Nat
      /\ Rest(s, g) \in Seq(S) /\ Len(Rest(s, g)) = n
      /\ \A i \in 1 .. n : Rest(s, g)[i] = s[g + i]
  BY RestIsSequence DEF Rest
<1>2. a \in Seq(S) /\ Len(a) = n + 1 /\ a[n + 1] = e /\ \A i \in 1 .. n : a[i] = s[g + i]
  BY <1>1
<1>3. /\ t \in Seq(S) /\ Len(t) = Len(s) + 1 /\ t[Len(s) + 1] = e
      /\ \A i \in 1 .. Len(s) : t[i] = s[i]
  OBVIOUS
<1> HIDE DEF t, a
<1>4. \A i \in 1 .. n + 1 : t[g + i] = a[i]
  <2>1. ASSUME NEW i \in 1 .. n + 1 PROVE t[g + i] = a[i]
    <3>1. CASE i = n + 1
      BY <1>2, <1>3, <3>1
    <3>2. CASE i # n + 1
      <4>1. i \in 1 .. n /\ g + i \in 1 .. Len(s)
        BY <1>1, <3>2
      <4>2. QED
        BY <1>2, <1>3, <4>1
    <3>3. QED
      BY <3>1, <3>2
  <2>2. QED
    BY <2>1
<1>5. a = [i \in 1 .. n + 1 |-> a[i]]
  BY <1>2
<1>6. Rest(t, g) = [i \in 1 .. n + 1 |-> t[g + i]]
  BY <1>1, <1>3 DEF Rest
<1>7. QED
  BY <1>4, <1>5, <1>6 DEF t, a

(* Popping takes the first of what waits.                                   *)
LEMMA RestShrinks ==
  ASSUME NEW S, NEW s \in Seq(S), NEW g \in Nat, g < Len(s)
  PROVE  /\ Rest(s, g) # <<>> /\ Head(Rest(s, g)) = s[g + 1]
         /\ Tail(Rest(s, g)) = Rest(s, g + 1)
<1> DEFINE n == Len(s) - g
           l == Rest(s, g)
           d == Tail(l)
<1>1. n \in Nat /\ n # 0 /\ l \in Seq(S) /\ Len(l) = n /\ \A i \in 1 .. n : l[i] = s[g + i]
  BY RestIsSequence DEF Rest
<1> HIDE DEF l
<1>2. l # <<>> /\ Head(l) = s[g + 1]
  BY <1>1
<1>3. d \in Seq(S) /\ Len(d) = n - 1 /\ \A i \in 1 .. n - 1 : d[i] = l[i + 1]
  BY <1>1, <1>2
<1> HIDE DEF d
<1>4. d = [i \in 1 .. n - 1 |-> d[i]]
  BY <1>1, <1>3
<1>5. \A i \in 1 .. n - 1 : d[i] = s[(g + 1) + i]
  BY <1>1, <1>3
<1>6. Rest(s, g + 1) = [i \in 1 .. n - 1 |-> s[(g + 1) + i]]
  BY DEF Rest
<1>7. QED
  BY <1>2, <1>4, <1>5, <1>6 DEF l, d

(* The distance from one index to another around the ring.                  *)
LEMMA RingDistance ==
  ASSUME NEW a \in Nat, NEW b \in Nat, NEW d \in Nat, a < N, b < N, d <= N - 1,
         b = a + d \/ b = a + d - N
  PROVE  (b + N - a) % N = d /\ (a + d) % N = b
<1>1. d % N = d /\ (d + N) % N = d
  BY NAssumption
<1>2. b % N = b /\ (b + N) % N = b
  BY NAssumption
<1>3. b + N - a = d \/ b + N - a = d + N
  BY NAssumption
<1>4. a + d = b \/ a + d = b + N
  BY NAssumption
<1>5. QED
  BY <1>1, <1>2, <1>3, <1>4

(* The slots from the read index up to the write index hold just that.      *)
LEMMA MemoryHoldsRest == IInv => InMemory = Rest(sent, Len(got))
<1> SUFFICES ASSUME IInv PROVE InMemory = Rest(sent, Len(got))
  OBVIOUS
<1> DEFINE L == Len(w_)
           R == Len(r_)
           d == L - R
<1>1. /\ L \in Nat /\ R \in Nat /\ 1 <= R /\ R <= L /\ d \in Nat /\ d <= N - 1
      /\ R \in 1 .. L /\ L \in 1 .. L /\ R \in 1 .. R
      /\ L = Len(sent) + 1 /\ R = Len(got) + 1 /\ d = Len(sent) - Len(got)
  BY IndexFacts DEF IInv, Counts
<1>2. Last(w_) = w_[L] /\ Last(r_) = w_[R] /\ w_[R] \in Nat /\ w_[R] < N
  BY <1>1, IndexFacts DEF Last
<1>3. ASSUME NEW k \in R .. L
      PROVE  /\ w_[k] \in Nat /\ w_[k] < N /\ k - R \in Nat /\ k - R <= N - 1
             /\ w_[k] = w_[R] + (k - R) \/ w_[k] = w_[R] + (k - R) - N
  <2>1. k \in 1 .. L /\ R <= k /\ k - R < N /\ k - R \in Nat
    BY <1>1, <1>3, NAssumption
  <2>2. Apart(R, k)
    BY <1>1, <2>1 DEF IInv, Ring
  <2>3. w_[k] \in Nat /\ w_[k] < N
    BY <2>1, IndexFacts
  <2>4. QED
    BY <2>1, <2>2, <2>3, NAssumption DEF Apart
<1>4. (Last(w_) + N - Last(r_)) % N = d
  <2>1. L \in R .. L
    BY <1>1
  <2>2. QED
    BY <1>2, <1>3, <2>1, RingDistance
<1>5. ASSUME NEW i \in 1 .. d
      PROVE  data_[(Last(r_) + i - 1) % N] = sent[Len(got) + i]
  <2>1. R + (i - 1) \in R .. L /\ R + (i - 1) \in R .. Len(sent)
        /\ (R + (i - 1)) - R = i - 1 /\ R + (i - 1) = Len(got) + i
    BY <1>1
  <2>2. (w_[R] + (i - 1)) % N = w_[R + (i - 1)]
    <3> DEFINE k == R + (i - 1)
    <3>1. /\ w_[k] \in Nat /\ w_[k] < N /\ k - R \in Nat /\ k - R <= N - 1
          /\ w_[k] = w_[R] + (k - R) \/ w_[k] = w_[R] + (k - R) - N
      BY <1>3, <2>1
    <3>2. k - R = i - 1
      BY <2>1
    <3> HIDE DEF k
    <3>3. (w_[R] + (k - R)) % N = w_[k]
      BY <1>2, <3>1, RingDistance
    <3>4. QED
      BY <3>2, <3>3 DEF k
  <2>3. data_[w_[R + (i - 1)]] = sent[R + (i - 1)]
    BY <2>1 DEF IInv, Stored
  <2>4. Last(r_) + i - 1 = w_[R] + (i - 1)
    BY <1>1, <1>2
  <2>5. QED
    BY <2>1, <2>2, <2>3, <2>4
<1>6. InMemory = [i \in 1 .. d |-> data_[(Last(r_) + i - 1) % N]]
  BY <1>4 DEF InMemory
<1>7. Rest(sent, Len(got)) = [i \in 1 .. d |-> sent[Len(got) + i]]
  BY <1>1 DEF Rest
<1>8. QED
  BY <1>5, <1>6, <1>7

(* Publishing puts the element at the end of what waits, releasing a slot   *)
(* takes the first, and no other step of push() or pop() changes either end.*)
LEMMA StepOfFifo ==
  ASSUME IInv, IInv', [Next]_vars,
         InMemory = Rest(sent, Len(got)), InMemory' = Rest(sent', Len(got'))
  PROVE  [Abstract!FifoNext]_(Abstract!fifoVars)
<1>1. sent \in Seq(Elem) /\ Len(got) \in Nat /\ Len(got) <= Len(sent) /\ Len(sent) \in Nat
  BY IndexFacts DEF IInv, TypeOK, Fifo
<1>2. CASE PushPublish
  <2>1. /\ sent' = Append(sent, pElem) /\ got' = got /\ pElem \in Elem
        /\ Len(w_) - pSeen < N - 1 /\ pPc = "publish"
    BY <1>2 DEF PushPublish, consumerVars, IInv, Producing
  <2>2. InMemory' = Append(InMemory, pElem)
    BY <1>1, <2>1, RestGrows
  <2>3. Len(InMemory) < N - 1
    <3>1. Len(InMemory) = Len(sent) - Len(got)
      BY <1>1, RestIsSequence
    <3>2. Len(sent) - Len(got) <= Len(w_) - pSeen
      BY IndexFacts DEF IInv, Counts
    <3>3. QED
      BY <1>1, <2>1, <3>1, <3>2, IndexFacts, NAssumption
  <2>4. QED
    BY <2>1, <2>2, <2>3 DEF Abstract!FifoNext, Abstract!Put
<1>3. CASE PopRelease
  <2>1. sent' = sent /\ got' = Append(got, element) /\ cPc = "release"
    BY <1>3 DEF PopRelease, producerVars
  <2>2. Len(got) < Len(sent) /\ element = sent[Len(got) + 1]
    BY <2>1, IndexFacts DEF IInv, Counts, Consuming
  <2>3. Len(got') = Len(got) + 1
    BY <2>1 DEF IInv, TypeOK
  <2>4. InMemory # <<>> /\ Head(InMemory) = element /\ InMemory' = Tail(InMemory)
    BY <1>1, <2>1, <2>2, <2>3, RestShrinks
  <2>5. QED
    BY <2>1, <2>4 DEF Abstract!FifoNext, Abstract!Take
<1>4. CASE sent' = sent /\ got' = got
  BY <1>4 DEF Abstract!fifoVars
<1>5. \/ PushPublish \/ PopRelease \/ (sent' = sent /\ got' = got)
  BY DEF Next, ProducerStep, ConsumerStep, PushBegin, PushCheck, PushWrite, PopBegin,
     PopCheck, PopRead, vars, producerVars, consumerVars
<1>6. QED
  BY <1>2, <1>3, <1>4, <1>5

(* The slots between the two indices behave as a bounded FIFO: push() puts  *)
(* when it publishes, pop() takes when it releases the slot, and between    *)
(* those steps neither the plain write nor a stale index shows.             *)
THEOREM QueueImplementsFifo == Spec => ImplementsFifo
<1>1. Init => Abstract!FifoInit
  <2>1. SUFFICES ASSUME Init PROVE Abstract!FifoInit
    OBVIOUS
  <2>2. InMemory = Rest(sent, Len(got)) /\ sent = <<>> /\ got = <<>>
    BY <2>1, InitIInv, MemoryHoldsRest DEF Init
  <2>3. InMemory = <<>>
    BY <2>2 DEF Rest
  <2>4. QED
    BY <2>2, <2>3 DEF Abstract!FifoInit
<1>2. (IInv => InMemory = Rest(sent, Len(got)))'
  BY MemoryHoldsRest, PTL
<1>3. IInv /\ IInv' /\ [Next]_vars => [Abstract!FifoNext]_(Abstract!fifoVars)
  BY <1>2, MemoryHoldsRest, StepOfFifo
<1>4. QED
  BY <1>1, <1>3, Invariance, PTL DEF Spec, ImplementsFifo, Abstract!FifoSpec
=============================================================================
