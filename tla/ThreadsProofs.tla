--------------------------- MODULE ThreadsProofs ---------------------------
(***************************************************************************)
(* Proofs about MCThreads: the locks, the semaphores, both kinds of thread *)
(* objects, the singletons and both kinds of coroutines, for all values of *)
(* their constants; and about FiberTimers, the timers that a scheduler of  *)
(* fibers polls.  The parts share no state, so each has an inductive       *)
(* invariant of its own.                                                   *)
(*                                                                         *)
(* The locks come first, with a specification of their own: for as long as *)
(* no try function has given a wrong answer, the word that says "taken"    *)
(* and the places of the threads say the same.  That is what LockInv adds  *)
(* to the types.                                                           *)
(***************************************************************************)
EXTENDS MCThreads, FiberTimers, FiniteSetTheorems, WellFoundedInduction, TLAPS

LockSpec == LockInit /\ [][LockNext]_lockVars

Inside == {"got", "in", "leaving"}

LockTypeOK ==
  /\ lockKind \in {"simple", "atomic", "posix", "mutex", "null"} \cup RwKinds
  /\ taken \in BOOLEAN /\ misled \in BOOLEAN /\ readers \in Int
  /\ owner \in Thread \cup {Nobody}
  /\ lockAt \in [Thread -> Inside \cup {"out", "trying", "spin", "reading", "shared"}]

(* Places that only some of the classes have.                               *)
PlacesFit ==
  \A th \in Thread :
    /\ lockAt[th] \in {"got", "leaving"} => lockKind = "posix"
    /\ lockAt[th] \in {"reading", "shared"} => lockKind \in RwKinds

(* The word is set for exactly one thread.                                  *)
TakenByOne ==
  /\ taken <=> \E th \in Thread : lockAt[th] \in Inside
  /\ \A th, other \in Thread : {lockAt[th], lockAt[other]} \subseteq Inside => th = other
  /\ taken => readers = 0

ReadersAreCounted == readers = Cardinality(ThreadsAt({"shared"}))
OwnerIsInside == owner # Nobody => lockKind = "posix" /\ lockAt[owner] = "in"

LockInv ==
  /\ LockTypeOK
  /\ Sound => PlacesFit /\ TakenByOne /\ ReadersAreCounted /\ OwnerIsInside

-----------------------------------------------------------------------------
(* A thread that goes to a place leaves the others where they are.          *)
LEMMA GoesFacts ==
  ASSUME LockTypeOK, NEW th \in Thread, NEW place, Goes(th, place)
  PROVE  /\ lockAt'[th] = place
         /\ \A other \in Thread : other # th => lockAt'[other] = lockAt[other]
BY DEF Goes, LockTypeOK

(* The places of the threads that hold the lock for reading are a finite    *)
(* set, which grows and shrinks by the thread that moves.                   *)
LEMMA SharedFacts ==
  ASSUME LockTypeOK, NEW th \in Thread, NEW place, Goes(th, place)
  PROVE  LET s == ThreadsAt({"shared"})
         IN  /\ Cardinality(s) \in Nat
             /\ lockAt[th] = "shared" => Cardinality(s) > 0
             /\ place = "shared" /\ lockAt[th] # "shared" => Cardinality(s') = Cardinality(s) + 1
             /\ place # "shared" /\ lockAt[th] = "shared" => Cardinality(s') = Cardinality(s) - 1
             /\ place # "shared" /\ lockAt[th] # "shared" => Cardinality(s') = Cardinality(s)
<1> DEFINE s == ThreadsAt({"shared"})
<1>1. s \subseteq Thread /\ (th \in s <=> lockAt[th] = "shared")
  BY DEF ThreadsAt
<1>2. \A other \in Thread : other \in s' <=> IF other = th THEN place = "shared" ELSE other \in s
  BY GoesFacts DEF ThreadsAt
<1>3. s' \subseteq Thread
  BY DEF ThreadsAt
<1>4. IsFiniteSet(s) /\ Cardinality(s) \in Nat
  BY <1>1, ThreadsAssumption, FS_Subset, FS_CardinalityType
<1> HIDE DEF s
<1>5. CASE place = "shared" /\ lockAt[th] # "shared"
  <2>1. s' = s \cup {th} /\ th \notin s
    BY <1>1, <1>2, <1>3, <1>5
  <2>2. Cardinality(s') = Cardinality(s) + 1
    BY <1>4, <2>1, FS_AddElement
  <2>3. QED
    BY <1>4, <1>5, <2>2 DEF s
<1>6. CASE place # "shared" /\ lockAt[th] = "shared"
  <2>1. s' = s \ {th} /\ th \in s
    BY <1>1, <1>2, <1>3, <1>6
  <2>2. Cardinality(s') = Cardinality(s) - 1
    BY <1>4, <2>1, FS_RemoveElement
  <2>3. Cardinality(s) > 0
    BY <1>4, <2>1, FS_EmptySet
  <2>4. QED
    BY <1>4, <1>6, <2>2, <2>3 DEF s
<1>7. CASE place # "shared" /\ lockAt[th] # "shared"
  <2>1. s' = s
    BY <1>1, <1>2, <1>3, <1>7
  <2>2. QED
    BY <1>4, <1>7, <2>1 DEF s
<1>8. CASE place = "shared" /\ lockAt[th] = "shared"
  <2>1. th \in s
    BY <1>1, <1>8
  <2>2. Cardinality(s) > 0
    BY <1>4, <2>1, FS_EmptySet
  <2>3. QED
    BY <1>4, <1>8, <2>2 DEF s
<1>9. QED
  BY <1>5, <1>6, <1>7, <1>8

(* Every step keeps the types.                                              *)
LEMMA StepKeepsLockTypes == LockTypeOK /\ [LockNext]_lockVars => LockTypeOK'
<1>1. SUFFICES ASSUME LockTypeOK, [LockNext]_lockVars PROVE LockTypeOK'
  OBVIOUS
<1>2. ASSUME NEW th \in Thread, LockStep(th) PROVE LockTypeOK'
  <2>1. CASE NullAcquire(th) \/ AcquireLock(th)
    BY <1>1, <2>1 DEF LockTypeOK, NullAcquire, AcquireLock, GetIn, Goes, Inside
  <2>2. CASE ExchangeFails(th) \/ SpinReads(th) \/ SetOwner(th)
    BY <1>1, <2>2 DEF LockTypeOK, ExchangeFails, SpinReads, SetOwner, Goes, Inside
  <2>3. CASE ClearOwner(th) \/ Unlock(th)
    BY <1>1, <2>3 DEF LockTypeOK, ClearOwner, Unlock, Goes, Inside
  <2>4. CASE AcquireShared(th) \/ UnlockShared(th)
    <3>1. lockAt' \in [Thread -> Inside \cup {"out", "trying", "spin", "reading", "shared"}]
      BY <1>1, <2>4 DEF LockTypeOK, AcquireShared, UnlockShared, Goes
    <3>2. readers' \in Int
      BY <1>1, <2>4 DEF LockTypeOK, AcquireShared, UnlockShared
    <3>3. taken' \in BOOLEAN /\ UNCHANGED <<lockKind, owner, misled>>
      BY <1>1, <2>4 DEF LockTypeOK, AcquireShared, UnlockShared
    <3>4. QED
      BY <1>1, <3>1, <3>2, <3>3 DEF LockTypeOK
  <2>5. QED
    BY <1>2, <2>1, <2>2, <2>3, <2>4 DEF LockStep
<1>3. ASSUME NEW th \in Thread, LockCall(th) \/ LockSharedCall(th) PROVE LockTypeOK'
  BY <1>1, <1>3 DEF LockTypeOK, LockCall, LockSharedCall, Goes, Inside
<1>4. ASSUME NEW th \in Thread, TryLock(th) PROVE LockTypeOK'
  BY <1>1, <1>4 DEF LockTypeOK, TryLock, GetIn, Goes, Inside
<1>5. ASSUME NEW th \in Thread, TryLockShared(th) PROVE LockTypeOK'
  BY <1>1, <1>5 DEF LockTypeOK, TryLockShared, Goes, Inside
<1>6. CASE UNCHANGED lockVars
  BY <1>1, <1>6 DEF LockTypeOK, lockVars
<1>7. QED
  BY <1>1, <1>2, <1>3, <1>4, <1>5, <1>6 DEF LockNext

(* Every step keeps the invariant.                                          *)
LEMMA StepKeepsLockInv == LockInv /\ [LockNext]_lockVars => LockInv'
<1>1. SUFFICES ASSUME LockInv, [LockNext]_lockVars, Sound'
               PROVE  (PlacesFit /\ TakenByOne /\ ReadersAreCounted /\ OwnerIsInside)'
  BY StepKeepsLockTypes DEF LockInv
<1>2. LockTypeOK /\ LockTypeOK'
  BY <1>1, StepKeepsLockTypes DEF LockInv
(* No step changes the class or takes a wrong answer back.                  *)
<1>3. Sound /\ lockKind' = lockKind /\ misled' = misled /\ lockKind # "null"
  <2>1. ASSUME NEW th \in Thread, LockStep(th) PROVE lockKind' = lockKind /\ misled' = misled
    BY <2>1 DEF LockStep, NullAcquire, AcquireLock, ExchangeFails, SpinReads, SetOwner, ClearOwner,
         Unlock, AcquireShared, UnlockShared
  <2>2. ASSUME NEW th \in Thread, LockCall(th) \/ LockSharedCall(th) \/ TryLock(th) \/ TryLockShared(th)
        PROVE  lockKind' = lockKind /\ (misled' = misled \/ misled' = TRUE)
    BY <2>2 DEF LockCall, LockSharedCall, TryLock, TryLockShared
  <2>3. lockKind' = lockKind /\ (misled' = misled \/ misled' = TRUE)
    BY <1>1, <2>1, <2>2 DEF LockNext, lockVars
  <2>4. QED
    BY <1>1, <2>3 DEF Sound
<1>4. PlacesFit /\ TakenByOne /\ ReadersAreCounted /\ OwnerIsInside
  BY <1>1, <1>3 DEF LockInv
<1>5. "shared" \notin Inside /\ {"out", "trying", "spin", "reading"} \cap Inside = {}
  BY DEF Inside
(* A move within the lock, or outside of it, that touches no word.          *)
<1>6. ASSUME NEW th \in Thread, NEW place, Goes(th, place), UNCHANGED <<taken, readers>>,
             place \in Inside <=> lockAt[th] \in Inside, place # "shared", lockAt[th] # "shared",
             place \in {"got", "leaving"} => lockKind = "posix",
             place = "reading" => lockKind \in RwKinds,
             \/ owner' = owner /\ lockAt[th] # "in"
             \/ owner' = th /\ place = "in" /\ lockKind = "posix"
             \/ owner' = Nobody
      PROVE  (PlacesFit /\ TakenByOne /\ ReadersAreCounted /\ OwnerIsInside)'
  <2>1. /\ lockAt'[th] = place
        /\ \A other \in Thread : other # th => lockAt'[other] = lockAt[other]
    BY <1>2, <1>6, GoesFacts
  <2>2. PlacesFit'
    BY <1>3, <1>4, <1>6, <2>1 DEF PlacesFit
  <2>3. TakenByOne'
    <3>1. \A other \in Thread : lockAt'[other] \in Inside <=> lockAt[other] \in Inside
      BY <1>6, <2>1
    <3>2. QED
      BY <1>4, <1>6, <3>1 DEF TakenByOne
  <2>4. ReadersAreCounted'
    BY <1>2, <1>4, <1>6, SharedFacts DEF ReadersAreCounted
  <2>5. OwnerIsInside'
    BY <1>2, <1>3, <1>4, <1>6, <2>1 DEF OwnerIsInside, LockTypeOK
  <2>6. QED
    BY <2>2, <2>3, <2>4, <2>5
(* A thread that finds the word free gets in.                               *)
<1>7. ASSUME NEW th \in Thread, lockAt[th] \in {"out", "trying"}, Free, GetIn(th),
             UNCHANGED <<readers, owner>>
      PROVE  (PlacesFit /\ TakenByOne /\ ReadersAreCounted /\ OwnerIsInside)'
  <2> DEFINE place == IF lockKind = "posix" THEN "got" ELSE "in"
  <2>1. taken' = TRUE /\ Goes(th, place)
    BY <1>7 DEF GetIn
  <2>2. place \in Inside /\ place # "shared" /\ place # "reading" /\ place # "leaving"
        /\ (place = "got" => lockKind = "posix")
    BY DEF Inside
  <2> HIDE DEF place
  <2>3. /\ lockAt'[th] = place
        /\ \A other \in Thread : other # th => lockAt'[other] = lockAt[other]
    BY <1>2, <2>1, GoesFacts
  <2>4. PlacesFit'
    BY <1>3, <1>4, <2>2, <2>3 DEF PlacesFit
  <2>5. TakenByOne'
    <3>1. \A other \in Thread : lockAt'[other] \in Inside => other = th
      BY <1>4, <1>7, <2>3 DEF TakenByOne, Free
    <3>2. readers = 0
      BY <1>7 DEF Free
    <3>3. QED
      BY <1>7, <2>1, <2>2, <2>3, <3>1, <3>2 DEF TakenByOne
  <2>6. ReadersAreCounted'
    BY <1>2, <1>4, <1>7, <2>1, <2>2, SharedFacts DEF ReadersAreCounted
  <2>7. OwnerIsInside'
    <3>1. owner = Nobody
      BY <1>2, <1>4, <1>7 DEF OwnerIsInside, TakenByOne, Free, Inside, LockTypeOK
    <3>2. QED
      BY <1>7, <3>1 DEF OwnerIsInside
  <2>8. QED
    BY <2>4, <2>5, <2>6, <2>7
<1>8. ASSUME NEW th \in Thread, LockStep(th)
      PROVE  (PlacesFit /\ TakenByOne /\ ReadersAreCounted /\ OwnerIsInside)'
  <2>1. CASE NullAcquire(th)
    BY <1>3, <2>1 DEF NullAcquire
  <2>2. CASE AcquireLock(th)
    BY <1>7, <2>2 DEF AcquireLock
  <2>3. CASE ExchangeFails(th)
    BY <1>5, <1>6, <2>3 DEF ExchangeFails
  <2>4. CASE SpinReads(th)
    BY <1>5, <1>6, <2>4 DEF SpinReads
  <2>5. CASE SetOwner(th)
    <3>1. lockKind = "posix"
      BY <1>4, <2>5 DEF PlacesFit, SetOwner
    <3>2. "in" \in Inside /\ "got" \in Inside
      BY DEF Inside
    <3>3. QED
      BY <1>6, <2>5, <3>1, <3>2 DEF SetOwner
  <2>6. CASE ClearOwner(th)
    <3>1. "in" \in Inside /\ "leaving" \in Inside
      BY DEF Inside
    <3>2. QED
      BY <1>6, <2>6, <3>1 DEF ClearOwner
  <2>7. CASE Unlock(th)
    <3>1. /\ lockAt[th] = UnlockPlace /\ UnlockPlace \in Inside /\ Goes(th, "out")
          /\ taken' = FALSE /\ UNCHANGED <<readers, owner>>
      BY <2>7 DEF Unlock, UnlockPlace, Inside
    <3>2. /\ lockAt'[th] = "out"
          /\ \A other \in Thread : other # th => lockAt'[other] = lockAt[other]
      BY <1>2, <3>1, GoesFacts
    <3>3. PlacesFit'
      BY <1>3, <1>4, <3>2 DEF PlacesFit
    <3>4. TakenByOne'
      <4>1. \A other \in Thread : lockAt'[other] \notin Inside
        BY <1>4, <1>5, <3>1, <3>2 DEF TakenByOne
      <4>2. QED
        BY <3>1, <4>1 DEF TakenByOne
    <3>5. ReadersAreCounted'
      BY <1>2, <1>4, <1>5, <3>1, SharedFacts DEF ReadersAreCounted
    <3>6. OwnerIsInside'
      <4>1. CASE lockKind = "posix"
        <5>1. lockAt[th] = "leaving"
          BY <3>1, <4>1 DEF UnlockPlace
        <5>2. owner = Nobody
          <6>1. SUFFICES ASSUME owner \in Thread PROVE FALSE
            BY <1>2 DEF LockTypeOK
          <6>2. lockAt[owner] = "in"
            BY <1>4, <6>1, NobodyAssumption DEF OwnerIsInside
          <6>3. QED
            BY <1>4, <5>1, <6>1, <6>2 DEF TakenByOne, Inside
        <5>3. QED
          BY <3>1, <5>2 DEF OwnerIsInside
      <4>2. CASE lockKind # "posix"
        BY <1>3, <1>4, <3>1, <4>2 DEF OwnerIsInside
      <4>3. QED
        BY <4>1, <4>2
    <3>7. QED
      BY <3>3, <3>4, <3>5, <3>6
  <2>8. CASE AcquireShared(th)
    <3>1. /\ lockAt[th] = "reading" /\ ~taken /\ Goes(th, "shared") /\ readers' = readers + 1
          /\ UNCHANGED <<taken, owner>>
      BY <2>8 DEF AcquireShared, OpenToReaders
    <3>2. /\ lockAt'[th] = "shared"
          /\ \A other \in Thread : other # th => lockAt'[other] = lockAt[other]
      BY <1>2, <3>1, GoesFacts
    <3>3. PlacesFit'
      BY <1>3, <1>4, <3>1, <3>2 DEF PlacesFit
    <3>4. TakenByOne'
      <4>1. \A other \in Thread : lockAt'[other] \in Inside => lockAt[other] \in Inside
        BY <1>5, <3>2
      <4>2. QED
        BY <1>4, <3>1, <4>1 DEF TakenByOne
    <3>5. ReadersAreCounted'
      BY <1>2, <1>4, <3>1, SharedFacts DEF ReadersAreCounted
    <3>6. OwnerIsInside'
      BY <1>2, <1>3, <1>4, <3>1, <3>2 DEF OwnerIsInside, LockTypeOK
    <3>7. QED
      BY <3>3, <3>4, <3>5, <3>6
  <2>9. CASE UnlockShared(th)
    <3>1. /\ lockAt[th] = "shared" /\ Goes(th, "out") /\ taken' = FALSE
          /\ readers' = (IF taken THEN readers ELSE readers - 1) /\ owner' = owner
      BY <2>9 DEF UnlockShared
    <3>2. /\ lockAt'[th] = "out"
          /\ \A other \in Thread : other # th => lockAt'[other] = lockAt[other]
      BY <1>2, <3>1, GoesFacts
    <3>3. readers > 0 /\ readers' = readers - 1 /\ ~taken
      BY <1>2, <1>4, <3>1, SharedFacts DEF ReadersAreCounted, TakenByOne
    <3>4. PlacesFit'
      BY <1>3, <1>4, <3>2 DEF PlacesFit
    <3>5. TakenByOne'
      <4>1. \A other \in Thread : lockAt'[other] \in Inside => lockAt[other] \in Inside
        BY <1>5, <3>2
      <4>2. QED
        BY <1>4, <3>1, <3>3, <4>1 DEF TakenByOne
    <3>6. ReadersAreCounted'
      BY <1>2, <1>4, <3>1, <3>3, SharedFacts DEF ReadersAreCounted
    <3>7. OwnerIsInside'
      BY <1>2, <1>3, <1>4, <3>1, <3>2 DEF OwnerIsInside, LockTypeOK
    <3>8. QED
      BY <3>4, <3>5, <3>6, <3>7
  <2>10. QED
    BY <1>8, <2>1, <2>2, <2>3, <2>4, <2>5, <2>6, <2>7, <2>8, <2>9 DEF LockStep
<1>9. ASSUME NEW th \in Thread, LockCall(th) \/ LockSharedCall(th)
      PROVE  (PlacesFit /\ TakenByOne /\ ReadersAreCounted /\ OwnerIsInside)'
  BY <1>5, <1>6, <1>9 DEF LockCall, LockSharedCall
<1>10. ASSUME NEW th \in Thread, TryLock(th)
       PROVE  (PlacesFit /\ TakenByOne /\ ReadersAreCounted /\ OwnerIsInside)'
  <2>1. lockKind # "posix"
    BY <1>1, <1>3, <1>10 DEF TryLock, Sound
  <2>2. lockAt[th] = "out" /\ Free /\ GetIn(th) /\ UNCHANGED <<readers, owner>>
    BY <1>3, <1>10, <2>1 DEF TryLock
  <2>3. QED
    BY <1>7, <2>2
<1>11. ASSUME NEW th \in Thread, TryLockShared(th) PROVE FALSE
  BY <1>1, <1>11 DEF TryLockShared, Sound
<1>12. CASE UNCHANGED lockVars
  BY <1>4, <1>12
  DEF PlacesFit, TakenByOne, ReadersAreCounted, OwnerIsInside, ThreadsAt, lockVars
<1>13. QED
  BY <1>1, <1>8, <1>9, <1>10, <1>11, <1>12 DEF LockNext

(* In the beginning nobody is anywhere.                                     *)
LEMMA InitLockInv == LockInit => LockInv
<1>1. SUFFICES ASSUME LockInit PROVE LockInv
  OBVIOUS
<1>2. \A th \in Thread : lockAt[th] = "out"
  BY <1>1 DEF LockInit
<1>3. LockTypeOK
  <2>1. lockAt \in [Thread -> Inside \cup {"out", "trying", "spin", "reading", "shared"}]
    BY <1>1 DEF LockInit
  <2>2. readers \in Int /\ owner \in Thread \cup {Nobody}
    BY <1>1 DEF LockInit
  <2>3. taken \in BOOLEAN /\ misled \in BOOLEAN
    BY <1>1 DEF LockInit
  <2>4. QED
    BY <1>1, <2>1, <2>2, <2>3 DEF LockInit, LockTypeOK
<1>4. ThreadsAt({"shared"}) = {}
  BY <1>2 DEF ThreadsAt
<1>5. PlacesFit /\ TakenByOne /\ OwnerIsInside
  BY <1>1, <1>2 DEF PlacesFit, TakenByOne, OwnerIsInside, LockInit, Inside
<1>6. ReadersAreCounted
  BY <1>1, <1>4, FS_EmptySet DEF ReadersAreCounted, LockInit
<1>7. QED
  BY <1>3, <1>5, <1>6 DEF LockInv

(* The invariant holds throughout.                                          *)
LEMMA LockInvAlways == LockSpec => []LockInv
BY InitLockInv, StepKeepsLockInv, PTL DEF LockSpec

(* What the invariant says of the set of those inside.                      *)
LEMMA InvCounts == LockInv => HoldersAreKnown
<1>1. SUFFICES ASSUME LockInv, Sound PROVE HoldersAreKnown
  BY DEF HoldersAreKnown
<1>2. LockTypeOK /\ TakenByOne /\ ReadersAreCounted /\ OwnerIsInside
  BY <1>1 DEF LockInv
<1> DEFINE s == ThreadsAt({"got", "in", "leaving"})
<1>3. s = {th \in Thread : lockAt[th] \in Inside}
  BY DEF ThreadsAt, Inside
<1>4. Cardinality(s) = IF taken THEN 1 ELSE 0
  <2>1. CASE taken
    <3>1. PICK th \in Thread : lockAt[th] \in Inside
      BY <1>2, <2>1 DEF TakenByOne
    <3>2. s = {th}
      BY <1>2, <1>3, <3>1 DEF TakenByOne
    <3>3. QED
      BY <2>1, <3>2, FS_Singleton
  <2>2. CASE ~taken
    <3>1. s = {}
      BY <1>2, <1>3, <2>2 DEF TakenByOne
    <3>2. QED
      BY <2>2, <3>1, FS_EmptySet
  <2>3. QED
    BY <2>1, <2>2
<1>5. ASSUME owner # Nobody PROVE ThreadsAt({"in"}) = {owner}
  <2>1. owner \in Thread /\ lockAt[owner] = "in"
    BY <1>2, <1>5 DEF LockTypeOK, OwnerIsInside
  <2>2. \A th \in Thread : lockAt[th] = "in" => th = owner
    BY <1>2, <2>1 DEF TakenByOne, Inside
  <2>3. QED
    BY <2>1, <2>2 DEF ThreadsAt
<1>6. QED
  BY <1>1, <1>2, <1>4, <1>5 DEF HoldersAreKnown, TakenByOne, ReadersAreCounted

(* Until a try function says the opposite of what it did, the readers and   *)
(* the writer exclude each other and are all counted, and an owner that is  *)
(* noted is the one inside.                                                 *)
THEOREM LockHoldersAreKnown == LockSpec => []HoldersAreKnown
BY LockInvAlways, InvCounts, PTL

-----------------------------------------------------------------------------
(* The holder is the thread inside, for as long as the lock is sound.       *)
HolderFits ==
  /\ ~Sound \/ ~taken => LockHolder = Nobody
  /\ Sound /\ taken => /\ LockHolder \in Thread /\ lockAt[LockHolder] \in Inside
                       /\ \A th \in Thread : lockAt[th] \in Inside => th = LockHolder

(* The invariant says just that: the word is set for one thread, which is   *)
(* inside.                                                                  *)
LEMMA HolderIsInside == LockInv => HolderFits
<1>1. SUFFICES ASSUME LockInv PROVE HolderFits
  OBVIOUS
<1>2. ~Sound \/ ~taken => LockHolder = Nobody
  BY DEF LockHolder
<1>3. ASSUME Sound, taken
      PROVE  /\ LockHolder \in Thread /\ lockAt[LockHolder] \in Inside
             /\ \A th \in Thread : lockAt[th] \in Inside => th = LockHolder
  <2> DEFINE h == CHOOSE th \in Thread : th \in ThreadsAt({"got", "in", "leaving"})
  <2>1. TakenByOne
    BY <1>1, <1>3 DEF LockInv
  <2>2. \E th \in Thread : th \in ThreadsAt({"got", "in", "leaving"})
    BY <1>3, <2>1 DEF TakenByOne, ThreadsAt, Inside
  <2>3. h \in Thread /\ h \in ThreadsAt({"got", "in", "leaving"})
    BY <2>2
  <2>4. LockHolder = h
    BY <1>3 DEF LockHolder
  <2> HIDE DEF h
  <2>5. h \in Thread /\ lockAt[h] \in Inside
    BY <2>3 DEF ThreadsAt, Inside
  <2>6. QED
    BY <2>1, <2>4, <2>5 DEF TakenByOne
<1>4. QED
  BY <1>2, <1>3 DEF HolderFits

(* Nobody leaves the lock but in unlock() and unlock_shared(), which clear  *)
(* the word.                                                                *)
LEMMA InsideUntilUnlock ==
  ASSUME LockTypeOK, [LockNext]_lockVars, taken', NEW h \in Thread, lockAt[h] \in Inside
  PROVE  lockAt'[h] \in Inside
<1>1. ASSUME NEW th \in Thread, NEW place, Goes(th, place),
             place \in Inside \/ lockAt[th] \notin Inside
      PROVE  lockAt'[h] \in Inside
  BY <1>1, GoesFacts
<1>2. {"out", "trying", "spin", "reading", "shared"} \cap Inside = {}
      /\ {"in", "got", "leaving"} \subseteq Inside
  BY DEF Inside
<1>3. ASSUME NEW th \in Thread, LockStep(th) PROVE lockAt'[h] \in Inside
  <2>1. CASE NullAcquire(th) \/ AcquireLock(th)
    BY <1>1, <1>2, <2>1 DEF NullAcquire, AcquireLock, GetIn
  <2>2. CASE ExchangeFails(th) \/ SpinReads(th) \/ SetOwner(th) \/ ClearOwner(th)
    BY <1>1, <1>2, <2>2 DEF ExchangeFails, SpinReads, SetOwner, ClearOwner
  <2>3. CASE Unlock(th) \/ UnlockShared(th)
    BY <2>3 DEF Unlock, UnlockShared
  <2>4. CASE AcquireShared(th)
    BY <1>1, <1>2, <2>4 DEF AcquireShared
  <2>5. QED
    BY <1>3, <2>1, <2>2, <2>3, <2>4 DEF LockStep
<1>4. ASSUME NEW th \in Thread, LockCall(th) \/ LockSharedCall(th) PROVE lockAt'[h] \in Inside
  BY <1>1, <1>2, <1>4 DEF LockCall, LockSharedCall
<1>5. ASSUME NEW th \in Thread, TryLock(th) PROVE lockAt'[h] \in Inside
  BY <1>1, <1>2, <1>5 DEF TryLock, GetIn
<1>6. ASSUME NEW th \in Thread, TryLockShared(th) PROVE lockAt'[h] \in Inside
  BY <1>1, <1>2, <1>6 DEF TryLockShared
<1>7. CASE UNCHANGED lockVars
  BY <1>7 DEF lockVars
<1>8. QED
  BY <1>3, <1>4, <1>5, <1>6, <1>7 DEF LockNext

(* A step takes the lock, gives it back, or leaves the holder who he is.  A *)
(* wrong answer of a try function is the end of the sound lock: its holder  *)
(* is let go.                                                               *)
LEMMA StepImplementsLock ==
  LockInv /\ LockInv' /\ [LockNext]_lockVars => [AbstractLock!LockNext]_LockHolder
<1>1. (LockInv => HolderFits)'
  BY HolderIsInside, PTL
<1>2. SUFFICES ASSUME LockInv, HolderFits, HolderFits', [LockNext]_lockVars
               PROVE  [AbstractLock!LockNext]_LockHolder
  BY <1>1, HolderIsInside
<1>3. CASE Sound /\ taken /\ Sound' /\ taken'
  <2>1. LockHolder \in Thread /\ lockAt[LockHolder] \in Inside
    BY <1>2, <1>3 DEF HolderFits
  <2>2. lockAt'[LockHolder] \in Inside
    BY <1>2, <1>3, <2>1, InsideUntilUnlock DEF LockInv
  <2>3. LockHolder' = LockHolder
    BY <1>2, <1>3, <2>1, <2>2 DEF HolderFits
  <2>4. QED
    BY <2>3
<1>4. CASE ~Sound \/ ~taken
  <2>1. LockHolder = Nobody
    BY <1>2, <1>4 DEF HolderFits
  <2>2. LockHolder' = Nobody \/ LockHolder' \in Thread
    BY <1>2 DEF HolderFits
  <2>3. QED
    BY <2>1, <2>2 DEF AbstractLock!LockNext, AbstractLock!Acquire
<1>5. CASE ~Sound' \/ ~taken'
  <2>1. LockHolder' = Nobody
    BY <1>2, <1>5 DEF HolderFits
  <2>2. LockHolder = Nobody \/ LockHolder \in Thread
    BY <1>2 DEF HolderFits
  <2>3. QED
    BY <2>1, <2>2 DEF AbstractLock!LockNext, AbstractLock!Release
<1>6. QED
  BY <1>3, <1>4, <1>5

(* Each class is a lock until a try function gives a wrong answer.          *)
THEOREM LockClassesImplementLock == LockSpec => ClassesImplementLock
<1>1. LockInit => AbstractLock!LockInit
  BY DEF LockInit, AbstractLock!LockInit, LockHolder
<1>2. QED
  BY <1>1, LockInvAlways, StepImplementsLock, PTL
  DEF LockSpec, ClassesImplementLock, AbstractLock!LockSpec

-----------------------------------------------------------------------------
(* A step of the whole is a step of one part, and the others stay.          *)
LEMMA PartsStep ==
  [ThreadsNext]_allVars =>
    /\ [LockNext]_lockVars /\ [SemNext]_semVars /\ [BaseNext]_baseVars
    /\ [FthreadNext]_fthreadVars /\ [SingletonNext]_singletonVars
    /\ [FiberNext]_fiberVars /\ [UthreadNext]_uthreadVars
BY DEF ThreadsNext, allVars

(* In the beginning each part is at its beginning.                          *)
LEMMA PartsInit ==
  ThreadsInit => /\ LockInit /\ SemInit /\ BaseInit /\ FthreadInit /\ SingletonInit
                 /\ FiberInit /\ UthreadInit
BY DEF ThreadsInit

-----------------------------------------------------------------------------
(* The semaphores: a thread that has a permit is one of those counted.      *)
HasPermit == {th \in SemUser : semAt[th] = "has"}
SemInv ==
  /\ semAt \in [SemUser -> {"out", "waiting", "timed", "has"}]
  /\ semValue \in Int /\ unpaid \in Int /\ semKind \in {"sem", "fiber"}
  /\ semValue + Cardinality(HasPermit) = Permits + unpaid
  /\ semKind = "fiber" => unpaid = 0

(* Nobody has a permit in the beginning.                                    *)
LEMMA SemInvHolds == ThreadsInit => SemInv
<1>1. SUFFICES ASSUME SemInit PROVE SemInv
  BY PartsInit
<1>2. HasPermit = {}
  BY <1>1 DEF SemInit, HasPermit
<1>3. Cardinality(HasPermit) = 0
  BY <1>2, FS_EmptySet
<1>4. QED
  BY <1>1, <1>3, SemAssumption DEF SemInit, SemInv

(* Who goes to another place gains a permit, gives one back, or neither.    *)
LEMMA PermitsMove ==
  ASSUME SemInv, NEW th \in SemUser, NEW place, SemGoes(th, place)
  PROVE  /\ Cardinality(HasPermit) \in Nat
         /\ place = "has" /\ semAt[th] # "has" => Cardinality(HasPermit') = Cardinality(HasPermit) + 1
         /\ place # "has" /\ semAt[th] = "has" => Cardinality(HasPermit') = Cardinality(HasPermit) - 1
         /\ place # "has" /\ semAt[th] # "has" => Cardinality(HasPermit') = Cardinality(HasPermit)
<1>1. HasPermit \subseteq SemUser /\ (th \in HasPermit <=> semAt[th] = "has")
  BY DEF HasPermit
<1>2. \A x \in SemUser : x \in HasPermit' <=> IF x = th THEN place = "has" ELSE x \in HasPermit
  BY DEF HasPermit, SemGoes, SemInv
<1>3. HasPermit' \subseteq SemUser
  BY DEF HasPermit
<1>4. IsFiniteSet(HasPermit) /\ Cardinality(HasPermit) \in Nat
  BY <1>1, SemUserAssumption, FS_Subset, FS_CardinalityType
<1>5. ASSUME place = "has", semAt[th] # "has"
      PROVE  Cardinality(HasPermit') = Cardinality(HasPermit) + 1
  <2>1. HasPermit' = HasPermit \cup {th} /\ th \notin HasPermit
    BY <1>1, <1>2, <1>3, <1>5
  <2>2. QED
    BY <1>4, <2>1, FS_AddElement
<1>6. ASSUME place # "has", semAt[th] = "has"
      PROVE  Cardinality(HasPermit') = Cardinality(HasPermit) - 1
  <2>1. HasPermit' = HasPermit \ {th} /\ th \in HasPermit
    BY <1>1, <1>2, <1>3, <1>6
  <2>2. QED
    BY <1>4, <2>1, FS_RemoveElement
<1>7. ASSUME place # "has", semAt[th] # "has" PROVE Cardinality(HasPermit') = Cardinality(HasPermit)
  <2>1. HasPermit' = HasPermit
    BY <1>1, <1>2, <1>3, <1>7
  <2>2. QED
    BY <2>1
<1>8. QED
  BY <1>4, <1>5, <1>6, <1>7

(* A wait that gets a permit takes it from the value or leaves it unpaid,   *)
(* release() gives one back, and a timeout takes nothing.                   *)
LEMMA StepKeepsSemInv == SemInv /\ [ThreadsNext]_allVars => SemInv'
<1>1. SUFFICES ASSUME SemInv, [SemNext]_semVars PROVE SemInv'
  BY PartsStep
<1>2. Cardinality(HasPermit) \in Int /\ Permits \in Int /\ SemInv
  <2>1. IsFiniteSet(HasPermit)
    BY SemUserAssumption, FS_Subset DEF HasPermit
  <2>2. QED
    BY <1>1, <2>1, SemAssumption, FS_CardinalityType
(* A move to place that changes the semaphore by value, and what it owes by *)
(* debt.                                                                    *)
<1>3. ASSUME NEW th \in SemUser, NEW place \in {"out", "waiting", "timed", "has"}, SemGoes(th, place),
             NEW value \in Int, NEW debt \in Int, semValue' = semValue + value, unpaid' = unpaid + debt,
             semKind' = semKind, semKind = "fiber" => debt = 0,
             value + (IF place = "has" THEN 1 ELSE 0) - (IF semAt[th] = "has" THEN 1 ELSE 0) = debt
      PROVE  SemInv'
  <2>1. Cardinality(HasPermit')
          = Cardinality(HasPermit) + (IF place = "has" THEN 1 ELSE 0) - (IF semAt[th] = "has" THEN 1 ELSE 0)
    <3>1. semAt[th] = "has" /\ place = "has" => HasPermit' = HasPermit
      BY <1>2, <1>3 DEF HasPermit, SemGoes, SemInv
    <3>2. QED
      BY <1>2, <1>3, <3>1, PermitsMove
  <2>2. semValue' + Cardinality(HasPermit') = Permits + unpaid'
    BY <1>2, <1>3, <2>1 DEF SemInv
  <2>3. semAt' \in [SemUser -> {"out", "waiting", "timed", "has"}]
    BY <1>2, <1>3 DEF SemInv, SemGoes
  <2>4. semValue' \in Int /\ unpaid' \in Int
    BY <1>2, <1>3 DEF SemInv
  <2>5. semKind' \in {"sem", "fiber"} /\ (semKind' = "fiber" => unpaid' = 0)
    BY <1>2, <1>3 DEF SemInv
  <2>6. QED
    BY <2>2, <2>3, <2>4, <2>5 DEF SemInv
<1>4. semValue \in Int /\ unpaid \in Int
  BY <1>2 DEF SemInv
<1>5. ASSUME NEW th \in SemUser, AcquireCall(th) PROVE SemInv'
  <2>1. /\ semAt[th] = "out" /\ SemGoes(th, "waiting") /\ semKind' = semKind
        /\ semValue' = semValue + 0 /\ unpaid' = unpaid + 0
    BY <1>4, <1>5 DEF AcquireCall
  <2>2. QED
    BY <1>3, <2>1
<1>6. ASSUME NEW th \in SemUser, Take(th), semAt[th] # "has", UNCHANGED <<semKind, unpaid>>
      PROVE  SemInv'
  <2>1. /\ SemGoes(th, "has") /\ semValue' = semValue + (-1) /\ unpaid' = unpaid + 0
        /\ semKind' = semKind
    BY <1>4, <1>6 DEF Take
  <2>2. QED
    BY <1>3, <1>6, <2>1
<1>7. ASSUME NEW th \in SemUser, WaitInterrupted(th) PROVE SemInv'
  <2>1. semAt[th] = "waiting" /\ semKind' = semKind /\ semValue' = semValue + 0
    BY <1>4, <1>7 DEF WaitInterrupted
  <2>2. CASE semKind = "sem"
    <3>1. SemGoes(th, "has") /\ unpaid' = unpaid + 1
      BY <1>7, <2>2 DEF WaitInterrupted, AfterInterrupt
    <3>2. QED
      BY <1>3, <2>1, <2>2, <3>1
  <2>3. CASE semKind = "fiber"
    <3>1. SemGoes(th, "out") /\ unpaid' = unpaid + 0
      BY <1>4, <1>7, <2>3 DEF WaitInterrupted, AfterInterrupt
    <3>2. QED
      BY <1>3, <2>1, <2>3, <3>1
  <2>4. QED
    BY <1>2, <2>2, <2>3 DEF SemInv
<1>8. ASSUME NEW th \in SemUser, TimedAcquireCall(th) PROVE SemInv'
  <2>1. semAt[th] = "out" /\ UNCHANGED <<semKind, unpaid>>
    BY <1>8 DEF TimedAcquireCall
  <2>2. Take(th) \/ (SemGoes(th, "timed") /\ semValue' = semValue + 0)
    BY <1>4, <1>8 DEF TimedAcquireCall
  <2>3. unpaid' = unpaid + 0
    BY <1>4, <2>1
  <2>4. QED
    BY <1>3, <1>6, <2>1, <2>2, <2>3
<1>9. ASSUME NEW th \in SemUser, TimedAcquireReturns(th) PROVE SemInv'
  <2>1. semAt[th] = "timed" /\ UNCHANGED <<semKind, unpaid>> /\ unpaid' = unpaid + 0
    BY <1>4, <1>9 DEF TimedAcquireReturns
  <2>2. Take(th) \/ (SemGoes(th, "out") /\ semValue' = semValue + 0)
    BY <1>4, <1>9 DEF TimedAcquireReturns
  <2>3. QED
    BY <1>3, <1>6, <2>1, <2>2
<1>10. ASSUME NEW th \in SemUser, SemRelease(th) PROVE SemInv'
  <2>1. /\ semAt[th] = "has" /\ SemGoes(th, "out") /\ semKind' = semKind
        /\ semValue' = semValue + 1 /\ unpaid' = unpaid + 0
    BY <1>4, <1>10 DEF SemRelease, ReleasedValue
  <2>2. QED
    BY <1>3, <2>1
<1>11. ASSUME NEW th \in SemUser, AcquireReturns(th) \/ TryAcquire(th) PROVE SemInv'
  BY <1>6, <1>11 DEF AcquireReturns, TryAcquire
<1>12. CASE UNCHANGED semVars
  BY <1>2, <1>12 DEF SemInv, HasPermit, semVars
<1>13. QED
  BY <1>1, <1>5, <1>7, <1>8, <1>9, <1>10, <1>11, <1>12 DEF SemNext

-----------------------------------------------------------------------------
(* BaseThread: the threads are numbered in the order of their start, and    *)
(* while none is abandoned only the one the object has may still run.       *)
BaseTypeOK ==
  /\ starts \in 0 .. MaxStarts /\ m_handle \in 0 .. starts
  /\ detachedAttr \in BOOLEAN /\ m_is_alive \in BOOLEAN /\ abandoned \in BOOLEAN
  /\ m_id \in Int
  /\ threadAt \in [1 .. MaxStarts -> {"none", "entry", "alive", "run", "cleanup", "gone"}]
  /\ \A k \in 1 .. MaxStarts : k > starts => threadAt[k] = "none"
BaseInv == BaseTypeOK /\ ObjectKnowsItsThread

(* No thread object has started anything in the beginning.                  *)
LEMMA BaseInvHolds == ThreadsInit => BaseInv
<1>1. SUFFICES ASSUME BaseInit PROVE BaseInv
  BY PartsInit
<1>2. BaseTypeOK
  <2>1. starts \in 0 .. MaxStarts /\ m_handle \in 0 .. starts /\ m_id \in Int
    BY <1>1, StartsAssumption DEF BaseInit
  <2>2. detachedAttr \in BOOLEAN /\ m_is_alive \in BOOLEAN /\ abandoned \in BOOLEAN
    BY <1>1 DEF BaseInit
  <2>3. \A k \in 1 .. MaxStarts : threadAt[k] = "none"
    BY <1>1 DEF BaseInit
  <2>4. threadAt \in [1 .. MaxStarts -> {"none", "entry", "alive", "run", "cleanup", "gone"}]
    BY <1>1 DEF BaseInit
  <2>5. QED
    BY <2>1, <2>2, <2>3, <2>4 DEF BaseTypeOK
<1>3. ObjectKnowsItsThread
  BY <1>1 DEF BaseInit, ObjectKnowsItsThread
<1>4. QED
  BY <1>2, <1>3 DEF BaseInv

(* Each call of a thread object, and each step of the thread it started,    *)
(* keeps what the object says of that thread.                               *)
LEMMA StepKeepsBaseInv == BaseInv /\ [ThreadsNext]_allVars => BaseInv'
<1>1. SUFFICES ASSUME BaseTypeOK, ObjectKnowsItsThread, [BaseNext]_baseVars PROVE BaseInv'
  BY PartsStep DEF BaseInv
<1>2. MaxStarts \in Nat
  BY StartsAssumption
<1>3. CASE DoStart
  <2>1. /\ m_handle = 0 /\ UNCHANGED <<detachedAttr, m_is_alive, clientAt, abandoned>>
        /\ ~abandoned => ~m_is_alive /\ \A k \in 1 .. starts : threadAt[k] = "gone"
    BY <1>1, <1>3 DEF DoStart, IsJoinable, ObjectKnowsItsThread, BaseTypeOK
  <2>2. CASE m_handle' = 0 /\ m_id' = -1 /\ UNCHANGED <<starts, threadAt>>
    BY <1>1, <1>2, <2>1, <2>2 DEF BaseInv, BaseTypeOK, ObjectKnowsItsThread, IsJoinable
  <2>3. CASE /\ starts < MaxStarts /\ starts' = starts + 1 /\ m_handle' = starts' /\ m_id' = 0
             /\ threadAt' = [threadAt EXCEPT ![starts'] = "entry"]
    <3>1. starts' \in 1 .. MaxStarts /\ m_handle' \in 1 .. starts'
      BY <1>1, <1>2, <2>3 DEF BaseTypeOK
    <3>2. /\ threadAt'[starts'] = "entry"
          /\ \A k \in 1 .. MaxStarts : k # starts' => threadAt'[k] = threadAt[k]
      BY <1>1, <2>3, <3>1 DEF BaseTypeOK
    <3>3. BaseTypeOK'
      <4>1. threadAt' \in [1 .. MaxStarts -> {"none", "entry", "alive", "run", "cleanup", "gone"}]
        BY <1>1, <2>3 DEF BaseTypeOK
      <4>2. \A k \in 1 .. MaxStarts : k > starts' => k > starts /\ k # starts'
        BY <1>1, <2>3 DEF BaseTypeOK
      <4>3. QED
        BY <1>1, <2>1, <2>3, <3>1, <3>2, <4>1, <4>2 DEF BaseTypeOK
    <3>4. ObjectKnowsItsThread'
      <4>1. \A k \in 1 .. starts' : k # m_handle' => k \in 1 .. starts /\ k \in 1 .. MaxStarts
        BY <1>1, <1>2, <2>3, <3>1 DEF BaseTypeOK
      <4>2. QED
        BY <2>1, <2>3, <3>1, <3>2, <4>1 DEF ObjectKnowsItsThread, IsJoinable
    <3>5. QED
      BY <3>3, <3>4 DEF BaseInv
  <2>4. QED
    BY <1>3, <2>2, <2>3 DEF DoStart
(* The object forgets a thread that is gone, or abandons one that is not.   *)
<1>4. ASSUME Forget, UNCHANGED <<detachedAttr, m_is_alive, starts, threadAt>>,
             abandoned' \in BOOLEAN, ~abandoned' => ~abandoned /\ threadAt[m_handle] = "gone"
      PROVE  BaseInv'
  <2>1. m_handle' = 0 /\ m_id' = -1
    BY <1>4 DEF Forget
  <2>2. BaseTypeOK'
    BY <1>1, <1>4, <2>1 DEF BaseTypeOK
  <2>3. ASSUME ~abandoned' PROVE ~m_is_alive /\ \A k \in 1 .. starts : threadAt[k] = "gone"
    BY <1>1, <1>4, <2>3 DEF ObjectKnowsItsThread
  <2>4. ObjectKnowsItsThread'
    BY <1>4, <2>1, <2>3 DEF ObjectKnowsItsThread
  <2>5. QED
    BY <2>2, <2>4 DEF BaseInv
<1>5. CASE DoDetach
  BY <1>1, <1>4, <1>5 DEF DoDetach, BaseTypeOK
<1>6. CASE JoinReturns
  BY <1>1, <1>4, <1>6 DEF JoinReturns, BaseTypeOK
<1>7. CASE JoinCall \/ GetIdCall \/ GetIdReturns \/ UNCHANGED baseVars
  <2>1. UNCHANGED <<detachedAttr, m_handle, m_id, m_is_alive, starts, threadAt, abandoned>>
    BY <1>7 DEF JoinCall, GetIdCall, GetIdReturns, baseVars
  <2>2. BaseTypeOK'
    BY <1>1, <2>1 DEF BaseTypeOK
  <2>3. ObjectKnowsItsThread'
    BY <1>1, <2>1 DEF ObjectKnowsItsThread, IsJoinable
  <2>4. QED
    BY <2>2, <2>3 DEF BaseInv
<1>8. ASSUME NEW k \in 1 .. MaxStarts, NewThreadStep(k) PROVE BaseInv'
  <2>1. PICK from, to :
          /\ ThreadGoes(k, from, to)
          /\ <<from, to>> \in {<<"entry", "alive">>, <<"alive", "run">>, <<"run", "cleanup">>, <<"cleanup", "gone">>}
          /\ UNCHANGED <<detachedAttr, m_handle, starts, clientAt, abandoned>>
          /\ m_id' = IF from = "alive" THEN ToldId(k) ELSE m_id
          /\ \/ m_is_alive' = m_is_alive /\ from # "cleanup"
             \/ m_is_alive' = FALSE
             \/ from = "entry" /\ m_is_alive' \in BOOLEAN
    <3>1. CASE TellAlive(k)
      BY <1>1, <3>1 DEF TellAlive, BaseTypeOK
    <3>2. CASE TellId(k)
      BY <3>2 DEF TellId
    <3>3. CASE EntryReturns(k)
      BY <3>3 DEF EntryReturns
    <3>4. CASE ThreadExits(k)
      BY <3>4 DEF ThreadExits
    <3>5. CASE Cleanup(k)
      BY <3>5 DEF Cleanup
    <3>6. QED
      BY <1>8, <3>1, <3>2, <3>3, <3>4, <3>5 DEF NewThreadStep
  <2>2. /\ threadAt[k] = from /\ threadAt'[k] = to
        /\ \A other \in 1 .. MaxStarts : other # k => threadAt'[other] = threadAt[other]
    BY <1>1, <2>1 DEF ThreadGoes, BaseTypeOK
  <2>3. /\ from \in {"entry", "alive", "run", "cleanup"}
        /\ to \in {"alive", "run", "cleanup", "gone"}
        /\ from = "entry" <=> to = "alive"
        /\ from = "alive" <=> to = "run"
        /\ from = "cleanup" <=> to = "gone"
    BY <2>1
  <2>4. k \in 1 .. starts
    BY <1>1, <2>2, <2>3 DEF BaseTypeOK
  <2>5. BaseTypeOK'
    <3>1. threadAt' \in [1 .. MaxStarts -> {"none", "entry", "alive", "run", "cleanup", "gone"}]
      BY <1>1, <2>1, <2>3 DEF BaseTypeOK, ThreadGoes
    <3>2. m_id' \in Int /\ m_is_alive' \in BOOLEAN
      <4>1. m_id' \in Int
        BY <1>1, <2>1 DEF BaseTypeOK, ToldId
      <4>2. m_is_alive' \in BOOLEAN
        BY <1>1, <2>1 DEF BaseTypeOK
      <4>3. QED
        BY <4>1, <4>2
    <3>3. \A other \in 1 .. MaxStarts : other > starts => threadAt'[other] = "none"
      BY <1>1, <2>2, <2>4 DEF BaseTypeOK
    <3>4. QED
      BY <1>1, <2>1, <3>1, <3>2, <3>3 DEF BaseTypeOK
  <2>6. ASSUME ~abandoned PROVE ObjectKnowsItsThread'
    <3>1. k = m_handle /\ IsJoinable
      BY <1>1, <2>2, <2>3, <2>4, <2>6 DEF ObjectKnowsItsThread, IsJoinable
    <3>2. \A other \in 1 .. starts : other # k => threadAt'[other] = "gone"
      BY <1>1, <1>2, <2>2, <2>6, <3>1 DEF ObjectKnowsItsThread, BaseTypeOK
    <3>3. m_id' > 0 => m_id' = m_handle'
      BY <1>1, <2>1, <2>6, <3>1 DEF ObjectKnowsItsThread, ToldId
    <3>4. m_id' = 0 => detachedAttr \/ to \in {"entry", "alive"}
      BY <1>1, <2>1, <2>2, <2>3, <2>4, <2>6, <3>1 DEF ObjectKnowsItsThread, ToldId
    <3>5. m_is_alive' => to \in {"alive", "run", "cleanup"}
      BY <1>1, <2>1, <2>3
    <3>6. QED
      BY <2>1, <2>2, <3>1, <3>2, <3>3, <3>4, <3>5 DEF ObjectKnowsItsThread, IsJoinable
  <2>7. QED
    BY <2>1, <2>5, <2>6 DEF BaseInv, ObjectKnowsItsThread
<1>9. QED
  BY <1>1, <1>3, <1>5, <1>6, <1>7, <1>8 DEF BaseNext, ClientStep

-----------------------------------------------------------------------------
(* FiberThread: run() posts the semaphore after it has taken all it needs,  *)
(* so whoever has been let out of the constructor, and not by a signal,     *)
(* finds run() at its callback or later.                                    *)
Late == {"callback", "done"}
FthreadInv ==
  /\ posted \in Int
  /\ posted > 0 => runAt \in Late
  /\ runAt \in {"known", "took"} \cup Late => idTold
  /\ runAt \in {"took"} \cup Late => cbTaken
  /\ runAt = "none" <=> makerAt = "none"
  /\ makerAt = "none" => pthreadOf = "none"
  /\ makerAt \notin {"none", "waiting"} /\ ~signalled => runAt \in Late
  /\ signalled => makerAt = "gone"
  /\ ~ctorName => makerAt \notin {"none", "waiting"}
  /\ pthreadOf \in {"none", "thread", "detached"}
  /\ pthreadOf = "none" /\ makerAt # "none" => runAt = "done"
  /\ pthreadOf = "detached" => makerAt = "gone"
  /\ makerAt = "gone" /\ ~signalled => pthreadOf # "thread"
  /\ ranCallback = IF runAt = "done" THEN 1 ELSE 0
  /\ "run" \in lateAccess \/ "name" \in lateAccess => signalled
  /\ "SetName" \in lateAccess => signalled \/ pthreadOf = "detached"

(* No FiberThread is built in the beginning.                                *)
LEMMA FthreadInvHolds == ThreadsInit => FthreadInv
BY PartsInit DEF FthreadInit, FthreadInv, Late

(* The constructor returns after the new thread has posted its semaphore,   *)
(* or throws when a signal interrupts the wait.                             *)
LEMMA StepKeepsFthreadInv == FthreadInv /\ [ThreadsNext]_allVars => FthreadInv'
<1>1. SUFFICES ASSUME FthreadInv, [FthreadNext]_fthreadVars PROVE FthreadInv'
  BY PartsStep
<1>2. CASE Construct
  BY <1>1, <1>2 DEF FthreadInv, Construct, Late
<1>3. CASE ConstructReturns
  BY <1>1, <1>3 DEF FthreadInv, ConstructReturns, CtorReady, Late
<1>4. CASE ConstructThrows
  BY <1>1, <1>4 DEF FthreadInv, ConstructThrows, Late
<1>5. CASE NameGoes
  BY <1>1, <1>5 DEF FthreadInv, NameGoes, Late
<1>6. CASE JoinThread
  BY <1>1, <1>6 DEF FthreadInv, JoinThread, Late
<1>7. CASE JoinThreadReturns
  BY <1>1, <1>7 DEF FthreadInv, JoinThreadReturns, Late
<1>8. CASE DestroyThread
  BY <1>1, <1>8 DEF FthreadInv, DestroyThread, Late
<1>9. CASE RunTellsId
  BY <1>1, <1>9 DEF FthreadInv, RunTellsId, Late
<1>10. CASE RunTakesCallback
  BY <1>1, <1>10 DEF FthreadInv, RunTakesCallback, Touch, Late
<1>11. CASE RunNotifies
  BY <1>1, <1>11 DEF FthreadInv, RunNotifies, Touch, Late
<1>12. CASE CallbackSetsName
  BY <1>1, <1>12 DEF FthreadInv, CallbackSetsName, Touch, Late
<1>13. CASE RunReturns
  BY <1>1, <1>13 DEF FthreadInv, RunReturns, Late
<1>14. CASE UNCHANGED fthreadVars
  BY <1>1, <1>14 DEF FthreadInv, fthreadVars, Late
<1>15. QED
  BY <1>1, <1>2, <1>3, <1>4, <1>5, <1>6, <1>7, <1>8, <1>9, <1>10, <1>11, <1>12, <1>13, <1>14
  DEF FthreadNext, RunStep

(* So a FiberThread that is built has its id, and its thread has its        *)
(* callback.                                                                *)
LEMMA FthreadInvMeans == FthreadInv => BuiltMeansStarted
BY DEF FthreadInv, BuiltMeansStarted, Late

-----------------------------------------------------------------------------
(* The singleton: one thread at a time is inside call_once, and nobody is   *)
(* once the holder is pointed to.                                           *)
Places == {"out", "once", "value", "point", "check"}
SingletonTypeOK ==
  /\ onceBy \in Caller \cup {NoCaller} /\ built \in Caller \cup {NoCaller}
  /\ getAt \in [Caller -> Places]
  /\ got \in [Caller -> Caller \cup {"nothing", "nullptr"}]
OnceExcludes ==
  /\ \A th \in Caller : getAt[th] \in {"value", "point"} <=> onceBy = th
  /\ built # NoCaller => onceBy = NoCaller
  /\ \A th \in Caller : getAt[th] = "check" => built # NoCaller
HolderLives ==
  /\ \A th \in Caller : getAt[th] = "point" => valueThere = "there" /\ isAlive = TRUE
  /\ built # NoCaller /\ isAlive = TRUE => valueThere = "there"
AnswersAgree ==
  \A th \in Caller : /\ got[th] \in Caller => got[th] = built
                     /\ got[th] = "nullptr" => built # NoCaller /\ isAlive # TRUE
SingletonInv ==
  SingletonTypeOK /\ isAlive \in BOOLEAN /\ OnceExcludes /\ HolderLives /\ AnswersAgree

(* No caller has an instance, and none is built, in the beginning.          *)
LEMMA SingletonInvHolds == ThreadsInit => SingletonInv
<1>1. SUFFICES ASSUME SingletonInit PROVE SingletonInv
  BY PartsInit
<1>2. SingletonTypeOK
  BY <1>1 DEF SingletonInit, SingletonTypeOK, Places
<1>3. isAlive \in BOOLEAN
  BY <1>1 DEF SingletonInit
<1>4. OnceExcludes /\ HolderLives
  BY <1>1, CallerAssumption DEF SingletonInit, OnceExcludes, HolderLives
<1>5. AnswersAgree
  BY <1>1, CallerAssumption DEF SingletonInit, AnswersAgree
<1>6. QED
  BY <1>2, <1>3, <1>4, <1>5 DEF SingletonInv

(* An instance is built once, inside the lock or the once-guard, and a      *)
(* caller returns with that one.                                            *)
LEMMA StepKeepsSingletonInv == SingletonInv /\ [ThreadsNext]_allVars => SingletonInv'
<1>1. SUFFICES ASSUME SingletonInv, [SingletonNext]_singletonVars PROVE SingletonInv'
  BY PartsStep
<1>2. SingletonTypeOK /\ isAlive \in BOOLEAN /\ OnceExcludes /\ HolderLives /\ AnswersAgree
  BY <1>1 DEF SingletonInv
<1>3. NoCaller \notin Caller /\ "nullptr" \notin Caller /\ "nothing" \notin Caller
  BY CallerAssumption
<1>4. ASSUME NEW th \in Caller, NEW place \in Places, GetGoes(th, place)
      PROVE  /\ getAt' \in [Caller -> Places] /\ getAt'[th] = place
             /\ \A other \in Caller : other # th => getAt'[other] = getAt[other]
  BY <1>2, <1>4 DEF GetGoes, SingletonTypeOK
<1>5. ASSUME NEW th \in Caller, GetInstance(th) \/ OnceOver(th) PROVE SingletonInv'
  <2>1. PICK place \in Places : GetGoes(th, place) /\ place \notin {"value", "point"}
                                /\ getAt[th] \notin {"value", "point"}
                                /\ (place = "check" => built # NoCaller)
                                /\ UNCHANGED <<onceBy, built, isAlive, valueThere, got>>
    BY <1>5 DEF GetInstance, OnceOver, Places
  <2>2. SingletonTypeOK' /\ isAlive' \in BOOLEAN
    BY <1>2, <1>4, <2>1 DEF SingletonTypeOK
  <2>3. OnceExcludes'
    BY <1>2, <1>4, <2>1 DEF OnceExcludes
  <2>4. HolderLives' /\ AnswersAgree'
    BY <1>2, <1>4, <2>1 DEF HolderLives, AnswersAgree
  <2>5. QED
    BY <2>2, <2>3, <2>4 DEF SingletonInv
<1>6. ASSUME NEW th \in Caller, OnceBegins(th) PROVE SingletonInv'
  <2>1. /\ getAt[th] = "once" /\ built = NoCaller /\ onceBy = NoCaller /\ onceBy' = th
        /\ GetGoes(th, "value") /\ "value" \in Places
        /\ UNCHANGED <<built, isAlive, valueThere, got>>
    BY <1>6 DEF OnceBegins, OnceFree, Places
  <2>2. SingletonTypeOK' /\ isAlive' \in BOOLEAN
    BY <1>2, <1>4, <2>1 DEF SingletonTypeOK
  <2>3. OnceExcludes'
    BY <1>2, <1>3, <1>4, <2>1 DEF OnceExcludes
  <2>4. HolderLives' /\ AnswersAgree'
    BY <1>2, <1>4, <2>1 DEF HolderLives, AnswersAgree
  <2>5. QED
    BY <2>2, <2>3, <2>4 DEF SingletonInv
<1>7. ASSUME NEW th \in Caller, BuildValue(th) PROVE SingletonInv'
  <2>1. /\ getAt[th] = "value" /\ valueThere' = "there" /\ isAlive' = TRUE
        /\ GetGoes(th, "point") /\ "point" \in Places /\ UNCHANGED <<onceBy, built, got>>
    BY <1>7 DEF BuildValue, Places
  <2>2. onceBy = th /\ built = NoCaller
    BY <1>2, <1>3, <2>1 DEF OnceExcludes
  <2>3. SingletonTypeOK' /\ isAlive' \in BOOLEAN
    BY <1>2, <1>4, <2>1 DEF SingletonTypeOK
  <2>4. OnceExcludes'
    BY <1>2, <1>4, <2>1, <2>2 DEF OnceExcludes
  <2>5. HolderLives' /\ AnswersAgree'
    BY <1>2, <2>1, <2>2 DEF HolderLives, AnswersAgree
  <2>6. QED
    BY <2>3, <2>4, <2>5 DEF SingletonInv
<1>8. ASSUME NEW th \in Caller, BuildThrows(th) PROVE SingletonInv'
  <2>1. /\ getAt[th] = "value" /\ onceBy' = NoCaller /\ GetGoes(th, "out") /\ "out" \in Places
        /\ UNCHANGED <<built, isAlive, valueThere, got>>
    BY <1>8 DEF BuildThrows, Places
  <2>2. onceBy = th
    BY <1>2, <2>1 DEF OnceExcludes
  <2>3. SingletonTypeOK' /\ isAlive' \in BOOLEAN
    BY <1>2, <1>4, <2>1 DEF SingletonTypeOK
  <2>4. OnceExcludes'
    BY <1>2, <1>3, <1>4, <2>1, <2>2 DEF OnceExcludes
  <2>5. HolderLives' /\ AnswersAgree'
    BY <1>2, <1>4, <2>1 DEF HolderLives, AnswersAgree
  <2>6. QED
    BY <2>3, <2>4, <2>5 DEF SingletonInv
<1>9. ASSUME NEW th \in Caller, BuildPoints(th) PROVE SingletonInv'
  <2>1. /\ getAt[th] = "point" /\ built' = th /\ onceBy' = NoCaller /\ GetGoes(th, "check")
        /\ "check" \in Places /\ UNCHANGED <<isAlive, valueThere, got>>
    BY <1>9 DEF BuildPoints, Places
  <2>2. onceBy = th /\ built = NoCaller
    BY <1>2, <1>3, <2>1 DEF OnceExcludes
  <2>3. SingletonTypeOK' /\ isAlive' \in BOOLEAN
    BY <1>2, <1>4, <2>1 DEF SingletonTypeOK
  <2>4. OnceExcludes'
    BY <1>2, <1>3, <1>4, <2>1, <2>2 DEF OnceExcludes
  <2>5. HolderLives'
    BY <1>2, <1>4, <2>1 DEF HolderLives
  <2>6. AnswersAgree'
    BY <1>2, <1>3, <2>1, <2>2 DEF AnswersAgree
  <2>7. QED
    BY <2>3, <2>4, <2>5, <2>6 DEF SingletonInv
<1>10. ASSUME NEW th \in Caller, GetReturns(th) PROVE SingletonInv'
  <2>1. /\ getAt[th] = "check" /\ GetGoes(th, "out") /\ "out" \in Places
        /\ got' = [got EXCEPT ![th] = IF isAlive THEN built ELSE "nullptr"]
        /\ UNCHANGED <<onceBy, built, isAlive, valueThere>>
    BY <1>10 DEF GetReturns, Places
  <2>2. built \in Caller
    BY <1>2, <2>1 DEF OnceExcludes, SingletonTypeOK
  <2>3. got' \in [Caller -> Caller \cup {"nothing", "nullptr"}]
    BY <1>2, <2>1, <2>2 DEF SingletonTypeOK
  <2>4. SingletonTypeOK' /\ isAlive' \in BOOLEAN
    BY <1>2, <1>4, <2>1, <2>3 DEF SingletonTypeOK
  <2>5. OnceExcludes' /\ HolderLives'
    BY <1>2, <1>4, <2>1 DEF OnceExcludes, HolderLives
  <2>6. AnswersAgree'
    <3>1. \A other \in Caller : got'[other] = IF other = th THEN IF isAlive THEN built ELSE "nullptr"
                                              ELSE got[other]
      BY <1>2, <2>1 DEF SingletonTypeOK
    <3>2. CASE isAlive
      BY <1>2, <1>3, <2>1, <2>2, <3>1, <3>2 DEF AnswersAgree
    <3>3. CASE ~isAlive
      BY <1>2, <1>3, <2>1, <2>2, <3>1, <3>3 DEF AnswersAgree
    <3>4. QED
      BY <3>2, <3>3
  <2>7. QED
    BY <2>4, <2>5, <2>6 DEF SingletonInv
<1>11. CASE HolderDies \/ ValueDies
  <2>1. /\ built # NoCaller /\ isAlive' = FALSE /\ UNCHANGED <<onceBy, built, getAt, got>>
    BY <1>2, <1>11 DEF HolderDies, ValueDies
  <2>2. SingletonTypeOK' /\ isAlive' \in BOOLEAN
    BY <1>2, <2>1 DEF SingletonTypeOK
  <2>3. OnceExcludes'
    BY <1>2, <2>1 DEF OnceExcludes
  <2>4. \A th \in Caller : getAt[th] # "point"
    BY <1>2, <1>3, <2>1 DEF OnceExcludes
  <2>5. HolderLives'
    BY <2>1, <2>4 DEF HolderLives
  <2>6. AnswersAgree'
    BY <1>2, <2>1 DEF AnswersAgree
  <2>7. QED
    BY <2>2, <2>3, <2>5, <2>6 DEF SingletonInv
<1>12. CASE UNCHANGED singletonVars
  BY <1>2, <1>12
  DEF SingletonInv, SingletonTypeOK, OnceExcludes, HolderLives, AnswersAgree, singletonVars
<1>13. QED
  BY <1>1, <1>5, <1>6, <1>7, <1>8, <1>9, <1>10, <1>11, <1>12 DEF SingletonNext, SingletonStep

(* So all callers that returned have the same instance.                     *)
LEMMA SingletonInvMeans == SingletonInv => OneInstanceForAll
<1>1. SUFFICES ASSUME SingletonInv PROVE OneInstanceForAll
  OBVIOUS
<1>2. \A th \in Caller : got[th] \in Caller => got[th] = built
  BY <1>1 DEF SingletonInv, AnswersAgree
<1>3. \A th, other \in Caller : {getAt[th], getAt[other]} \subseteq {"value", "point"} => th = other
  BY <1>1 DEF SingletonInv, OnceExcludes
<1>4. IsAlive => valueThere = "there"
  BY <1>1 DEF SingletonInv, HolderLives, IsAlive
<1>5. (\E th \in Caller : got[th] = "nullptr") => built # NoCaller /\ ~isAlive
  BY <1>1 DEF SingletonInv, AnswersAgree
<1>6. QED
  BY <1>2, <1>3, <1>4, <1>5 DEF OneInstanceForAll

-----------------------------------------------------------------------------
(* What the semaphores have and what is out add up, through interrupts and  *)
(* timeouts; an object that starts threads speaks of its own thread; a      *)
(* FiberThread that is built has started; there is one singleton.           *)
THEOREM HandoversStaySound == ThreadsSpec => []HandoversAreSound
<1> DEFINE Inv == SemInv /\ BaseInv /\ FthreadInv /\ SingletonInv
<1>1. ThreadsInit => Inv
  BY SemInvHolds, BaseInvHolds, FthreadInvHolds, SingletonInvHolds
<1>2. Inv /\ [ThreadsNext]_allVars => Inv'
  BY StepKeepsSemInv, StepKeepsBaseInv, StepKeepsFthreadInv, StepKeepsSingletonInv
<1>3. Inv => HandoversAreSound
  <2>1. SemInv => PermitsBalance
    BY DEF SemInv, HasPermit, PermitsBalance
  <2>2. BaseInv => ObjectKnowsItsThread
    BY DEF BaseInv
  <2>3. QED
    BY <2>1, <2>2, FthreadInvMeans, SingletonInvMeans DEF HandoversAreSound
<1> HIDE DEF Inv
<1>4. QED
  BY <1>1, <1>2, <1>3, PTL DEF ThreadsSpec

(* The lock classes of the whole behave as LockSpec says.                   *)
LEMMA LocksArePart == ThreadsSpec => LockSpec
<1>1. [ThreadsNext]_allVars => [LockNext]_lockVars
  BY PartsStep
<1>2. ThreadsInit => LockInit
  BY PartsInit
<1>3. QED
  BY <1>1, <1>2, PTL DEF ThreadsSpec, LockSpec

(* Readers and a writer exclude each other, and are counted, for as long as *)
(* the try functions say what they did.                                     *)
THEOREM HoldersStayKnown == ThreadsSpec => []HoldersAreKnown
BY LocksArePart, LockHoldersAreKnown

(* Each class derived from Lock is a lock for as long.                      *)
THEOREM ClassesAreLocks == ThreadsSpec => ClassesImplementLock
BY LocksArePart, LockClassesImplementLock

-----------------------------------------------------------------------------
(* Fiber: a fiber that has begun is in one of the states that no destructor *)
(* accepts only while its own stack refers to it, and one that has not      *)
(* begun is in INIT, which every destructor accepts.                        *)
Exists == {f \in Fiber : fstate[f] # "none"}
FiberTypeOK ==
  /\ fstate \in [Fiber \cup {Main} -> {"none", "INIT", "EXEC", "READY", "HOLD", "TERM", "EXCEPT"}]
  /\ begun \in [Fiber -> BOOLEAN] /\ refs \in [Fiber -> Int]
  /\ owned \subseteq Fiber
  /\ fiberCount \in Int /\ countAtMain \in Int
  /\ aborted \in {"no", "yield", "never reach", "reset", "thread exit"}
RunningIsCurrent ==
  /\ current = IF fstate[Main] = "none" THEN NoFiber ELSE context
  /\ context = Main \/ (context \in Fiber /\ fstate[Main] # "none")
  /\ context \in Fiber => fstate[context] # "none" /\ begun[context] = TRUE
StatesFit ==
  /\ \A f \in Fiber : fstate[f] = "INIT" => begun[f] # TRUE
  /\ \A f \in Fiber : fstate[f] \notin {"none", "INIT"} => begun[f] = TRUE
  /\ \A f \in owned : fstate[f] # "none"
ReferencesHold ==
  \A f \in Exists : refs[f] >= (IF f \in owned THEN 1 ELSE 0) + (IF begun[f] THEN 1 ELSE 0)
FibersAreCounted ==
  /\ countAtMain < 2 => fiberCount = Cardinality(Exists)
  /\ fstate[Main] = "none" => countAtMain = 0
FiberInv ==
  /\ FiberTypeOK
  /\ aborted = "no" => RunningIsCurrent /\ StatesFit /\ ReferencesHold /\ FibersAreCounted

(* Before the first call there is no fiber.                                 *)
LEMMA FiberInvHolds == ThreadsInit => FiberInv
<1>1. SUFFICES ASSUME FiberInit PROVE FiberInv
  BY PartsInit
<1>2. FiberTypeOK
  <2>1. fstate \in [Fiber \cup {Main} -> {"none", "INIT", "EXEC", "READY", "HOLD", "TERM", "EXCEPT"}]
    BY <1>1 DEF FiberInit
  <2>2. begun \in [Fiber -> BOOLEAN]
    BY <1>1 DEF FiberInit
  <2>3. refs \in [Fiber -> Int] /\ owned \subseteq Fiber /\ fiberCount \in Int /\ countAtMain \in Int
        /\ aborted = "no"
    BY <1>1 DEF FiberInit
  <2>4. QED
    BY <2>1, <2>2, <2>3 DEF FiberTypeOK
<1>3. Exists = {}
  BY <1>1 DEF FiberInit, Exists
<1>4. Cardinality(Exists) = 0
  BY <1>3, FS_EmptySet
<1>5. RunningIsCurrent /\ StatesFit
  BY <1>1, FiberAssumption DEF FiberInit, RunningIsCurrent, StatesFit
<1>6. ReferencesHold /\ FibersAreCounted
  BY <1>1, <1>3, <1>4 DEF FiberInit, ReferencesHold, FibersAreCounted
<1>7. QED
  BY <1>2, <1>5, <1>6 DEF FiberInv

(* A fiber that is suspended or runs has the references its stack needs.    *)
LEMMA FiberInvMeans == FiberInv => FibersFollowContext
<1>1. SUFFICES ASSUME FiberInv PROVE FibersFollowContext
  OBVIOUS
<1>2. FiberTypeOK /\ aborted # "destructor"
  BY <1>1 DEF FiberInv, FiberTypeOK
<1>3. ASSUME aborted = "no", NEW f \in Fiber, begun[f], fstate[f] # "none"
      PROVE  refs[f] > Cardinality(owned \cap {f})
  <2>1. refs[f] \in Int /\ refs[f] >= (IF f \in owned THEN 1 ELSE 0) + 1
    BY <1>1, <1>2, <1>3 DEF FiberInv, FiberTypeOK, ReferencesHold, Exists
  <2>2. CASE f \in owned
    <3>1. owned \cap {f} = {f}
      BY <2>2
    <3>2. Cardinality(owned \cap {f}) = 1
      BY <3>1, FS_Singleton
    <3>3. QED
      BY <2>1, <2>2, <3>2
  <2>3. CASE f \notin owned
    <3>1. owned \cap {f} = {}
      BY <2>3
    <3>2. Cardinality(owned \cap {f}) = 0
      BY <3>1, FS_EmptySet
    <3>3. QED
      BY <2>1, <2>3, <3>2
  <2>4. QED
    BY <2>2, <2>3
<1>4. aborted = "no" =>
        /\ current = IF fstate[Main] = "none" THEN NoFiber ELSE context
        /\ \A f \in Fiber : fstate[f] = "INIT" => ~begun[f]
        /\ countAtMain < 2 => fiberCount = Cardinality(Exists)
  BY <1>1 DEF FiberInv, RunningIsCurrent, StatesFit, FibersAreCounted
<1>5. QED
  BY <1>2, <1>3, <1>4 DEF FibersFollowContext, Exists

(* A change of one fiber's state changes the number of fibers by at most    *)
(* that one.                                                                *)
LEMMA StateMoves ==
  ASSUME FiberTypeOK, NEW f \in Fiber, Cardinality(Exists) \in Int,
         NEW state \in {"none", "INIT", "EXEC", "READY", "HOLD", "TERM", "EXCEPT"}, Becomes(f, state)
  PROVE  /\ fstate' \in [Fiber \cup {Main} -> {"none", "INIT", "EXEC", "READY", "HOLD", "TERM", "EXCEPT"}]
         /\ fstate'[f] = state
         /\ \A g \in Fiber \cup {Main} : g # f => fstate'[g] = fstate[g]
         /\ Cardinality(Exists') = Cardinality(Exists) + (IF state # "none" THEN 1 ELSE 0)
                                                       - (IF fstate[f] # "none" THEN 1 ELSE 0)
<1>1. /\ fstate' \in [Fiber \cup {Main} -> {"none", "INIT", "EXEC", "READY", "HOLD", "TERM", "EXCEPT"}]
      /\ fstate'[f] = state
      /\ \A g \in Fiber \cup {Main} : g # f => fstate'[g] = fstate[g]
  BY DEF FiberTypeOK, Becomes
<1>2. Exists \subseteq Fiber /\ Exists' \subseteq Fiber
  BY DEF Exists
<1>3. \A g \in Fiber : g \in Exists' <=> IF g = f THEN state # "none" ELSE g \in Exists
  BY <1>1 DEF Exists
<1>4. f \in Exists <=> fstate[f] # "none"
  BY DEF Exists
<1>5. IsFiniteSet(Exists)
  BY <1>2, FibersAreFinite, FS_Subset
<1>6. CASE state # "none"
  <2>1. Exists' = Exists \cup {f}
    BY <1>2, <1>3, <1>6
  <2>2. Cardinality(Exists') = IF f \in Exists THEN Cardinality(Exists) ELSE Cardinality(Exists) + 1
    BY <1>5, <2>1, FS_AddElement
  <2>3. QED
    BY <1>1, <1>4, <1>6, <2>2
<1>7. CASE state = "none"
  <2>1. Exists' = Exists \ {f}
    BY <1>2, <1>3, <1>7
  <2>2. Cardinality(Exists') = IF f \in Exists THEN Cardinality(Exists) - 1 ELSE Cardinality(Exists)
    BY <1>5, <2>1, FS_RemoveElement
  <2>3. QED
    BY <1>1, <1>4, <1>7, <2>2
<1>8. QED
  BY <1>6, <1>7

(* resume(), yield(), reset(), the end of a fiber, its destruction and      *)
(* every change of references keep the states and the counts in agreement.  *)
LEMMA StepKeepsFiberInv == FiberInv /\ [ThreadsNext]_allVars => FiberInv'
<1>1. SUFFICES ASSUME FiberInv, [FiberNext]_fiberVars PROVE FiberInv'
  BY PartsStep
<1>2. /\ FiberTypeOK
      /\ fstate \in [Fiber \cup {Main} -> {"none", "INIT", "EXEC", "READY", "HOLD", "TERM", "EXCEPT"}]
      /\ begun \in [Fiber -> BOOLEAN] /\ refs \in [Fiber -> Int]
      /\ owned \subseteq Fiber
      /\ fiberCount \in Int /\ countAtMain \in Int
  BY <1>1 DEF FiberInv, FiberTypeOK
<1>3. CASE UNCHANGED fiberVars
  BY <1>1, <1>3
  DEF FiberInv, FiberTypeOK, RunningIsCurrent, StatesFit, ReferencesHold, FibersAreCounted, Exists,
      fiberVars
<1>4. aborted = "no" \/ UNCHANGED fiberVars
  BY <1>1 DEF FiberNext, GetThis, ThreadExit, CreateFiber, Call, Back, ResetFiber, Drop, Yield, FiberEnds,
       InThread, InFiber
<1>5. SUFFICES ASSUME aborted = "no" PROVE FiberInv'
  BY <1>3, <1>4
<1>6. RunningIsCurrent /\ StatesFit /\ ReferencesHold /\ FibersAreCounted
  BY <1>1, <1>5 DEF FiberInv
<1>7. Main \notin Fiber /\ NoFiber \notin Fiber /\ NoFiber # Main
  BY FiberAssumption
<1>8. Cardinality(Exists) \in Nat
  <2>1. IsFiniteSet(Exists)
    BY FibersAreFinite, FS_Subset DEF Exists
  <2>2. QED
    BY <2>1, FS_CardinalityType
<1>9. CASE GetThis
  <2>1. /\ context = Main /\ current = NoFiber /\ Becomes(Main, "EXEC") /\ current' = Main
        /\ countAtMain' = fiberCount /\ fiberCount' = fiberCount % 2
        /\ UNCHANGED <<begun, refs, owned, context, aborted>>
    BY <1>9 DEF GetThis, InThread
  <2>2. fstate[Main] = "none"
    BY <1>6, <1>7, <2>1 DEF RunningIsCurrent
  <2>3. /\ fstate' \in [Fiber \cup {Main} -> {"none", "INIT", "EXEC", "READY", "HOLD", "TERM", "EXCEPT"}]
        /\ fstate'[Main] = "EXEC" /\ \A f \in Fiber : fstate'[f] = fstate[f]
    BY <1>2, <1>7, <2>1 DEF FiberTypeOK, Becomes
  <2>4. Exists' = Exists
    BY <2>3 DEF Exists
  <2>5. FiberTypeOK'
    <3>1. countAtMain' \in Int /\ fiberCount' \in Int
      BY <1>2, <2>1
    <3>2. QED
      BY <1>2, <1>5, <2>1, <2>3, <3>1 DEF FiberTypeOK
  <2>6. RunningIsCurrent'
    BY <1>7, <2>1, <2>3 DEF RunningIsCurrent
  <2>7. StatesFit'
    BY <1>2, <1>6, <2>1, <2>3 DEF StatesFit, FiberTypeOK
  <2>8. ReferencesHold'
    BY <1>6, <2>1, <2>4 DEF ReferencesHold
  <2>9. FibersAreCounted'
    <3>1. fiberCount = Cardinality(Exists)
      BY <1>6, <2>2 DEF FibersAreCounted
    <3>2. fiberCount < 2 => fiberCount % 2 = fiberCount
      BY <1>8, <3>1
    <3>3. QED
      BY <2>1, <2>3, <2>4, <3>1, <3>2 DEF FibersAreCounted
  <2>10. QED
    BY <2>5, <2>6, <2>7, <2>8, <2>9 DEF FiberInv
<1>10. CASE ThreadExit
  <2>1. /\ fiberCount' = fiberCount - 1 /\ aborted' = "thread exit"
        /\ UNCHANGED <<fstate, begun, refs, owned, current, context, countAtMain>>
    BY <1>10 DEF ThreadExit
  <2>2. fiberCount' \in Int
    <3>1. fiberCount \in Int /\ fiberCount' = fiberCount - 1
      BY <1>2, <2>1
    <3>2. QED
      BY <3>1
  <2>3. QED
    BY <1>2, <2>1, <2>2 DEF FiberInv, FiberTypeOK
<1>11. ASSUME NEW f \in Fiber, CreateFiber(f) PROVE FiberInv'
  <2>1. /\ context = Main /\ fstate[f] = "none" /\ Becomes(f, "INIT")
        /\ begun' = [begun EXCEPT ![f] = FALSE] /\ refs' = [refs EXCEPT ![f] = 1]
        /\ owned' = owned \cup {f} /\ fiberCount' = fiberCount + 1
        /\ UNCHANGED <<current, context, countAtMain, aborted>>
    BY <1>11 DEF CreateFiber, InThread
  <2>2. /\ fstate' \in [Fiber \cup {Main} -> {"none", "INIT", "EXEC", "READY", "HOLD", "TERM", "EXCEPT"}]
        /\ fstate'[f] = "INIT"
        /\ \A g \in Fiber \cup {Main} : g # f => fstate'[g] = fstate[g]
        /\ Cardinality(Exists') = Cardinality(Exists) + 1
    <3>1. Becomes(f, "INIT") /\ fstate[f] = "none"
      BY <2>1
    <3>2. QED
      BY <1>2, <1>8, <3>1, StateMoves
  <2>3. begun' \in [Fiber -> BOOLEAN] /\ begun'[f] = FALSE /\ \A g \in Fiber : g # f => begun'[g] = begun[g]
    BY <1>2, <2>1 DEF FiberTypeOK
  <2>4. refs' \in [Fiber -> Int] /\ refs'[f] = 1 /\ \A g \in Fiber : g # f => refs'[g] = refs[g]
    <3>1. refs' = [refs EXCEPT ![f] = 1]
      BY <2>1
    <3>2. QED
      BY <1>2, <3>1
  <2>5. FiberTypeOK'
    <3>1. owned' \subseteq Fiber /\ fiberCount' \in Int /\ UNCHANGED <<countAtMain, aborted>>
      BY <1>2, <2>1
    <3>2. QED
      BY <1>2, <2>2, <2>3, <2>4, <3>1 DEF FiberTypeOK
  <2>6. RunningIsCurrent'
    BY <1>6, <1>7, <2>1, <2>2 DEF RunningIsCurrent
  <2>7. StatesFit'
    BY <1>2, <1>6, <2>1, <2>2, <2>3 DEF StatesFit, FiberTypeOK
  <2>8. ReferencesHold'
    BY <1>6, <2>1, <2>2, <2>3, <2>4 DEF ReferencesHold, Exists
  <2>9. FibersAreCounted'
    BY <1>2, <1>6, <1>7, <2>1, <2>2 DEF FibersAreCounted, FiberTypeOK
  <2>10. QED
    BY <2>5, <2>6, <2>7, <2>8, <2>9 DEF FiberInv
<1>12. ASSUME NEW f \in Fiber, Call(f) PROVE FiberInv'
  <2>1. /\ context = Main /\ f \in owned /\ fstate[Main] # "none"
        /\ Becomes(f, "EXEC") /\ current' = f /\ context' = f
        /\ begun' = [begun EXCEPT ![f] = TRUE] /\ refs' = [refs EXCEPT ![f] = StackRef(f)]
        /\ UNCHANGED <<owned, fiberCount, countAtMain, aborted>>
    BY <1>12 DEF Call, InThread
  <2>2. fstate[f] # "none" /\ f \in Exists
    BY <1>6, <2>1 DEF StatesFit, Exists
  <2>3. /\ fstate' \in [Fiber \cup {Main} -> {"none", "INIT", "EXEC", "READY", "HOLD", "TERM", "EXCEPT"}]
        /\ fstate'[f] = "EXEC"
        /\ \A g \in Fiber \cup {Main} : g # f => fstate'[g] = fstate[g]
        /\ Cardinality(Exists') = Cardinality(Exists)
    <3>1. Becomes(f, "EXEC")
      BY <2>1
    <3>2. QED
      BY <1>2, <1>8, <2>2, <3>1, StateMoves
  <2>4. begun' \in [Fiber -> BOOLEAN] /\ begun'[f] = TRUE /\ \A g \in Fiber : g # f => begun'[g] = begun[g]
    BY <1>2, <2>1 DEF FiberTypeOK
  <2>5. refs[f] \in Int /\ StackRef(f) \in Int /\ StackRef(f) >= 2
    <3>1. refs[f] \in Int /\ refs[f] >= 1 + (IF begun[f] THEN 1 ELSE 0)
      BY <1>2, <1>6, <2>1, <2>2 DEF ReferencesHold
    <3>2. CASE begun[f]
      BY <3>1, <3>2 DEF StackRef
    <3>3. CASE ~begun[f]
      BY <3>1, <3>3 DEF StackRef
    <3>4. QED
      BY <3>1, <3>2, <3>3
  <2>6. refs' \in [Fiber -> Int] /\ refs'[f] >= 2 /\ \A g \in Fiber : g # f => refs'[g] = refs[g]
    BY <1>2, <2>1, <2>5 DEF FiberTypeOK
  <2>7. FiberTypeOK'
    BY <1>2, <2>1, <2>3, <2>4, <2>6 DEF FiberTypeOK
  <2>8. RunningIsCurrent'
    BY <1>7, <2>1, <2>3, <2>4 DEF RunningIsCurrent
  <2>9. StatesFit'
    BY <1>2, <1>6, <2>1, <2>3, <2>4 DEF StatesFit, FiberTypeOK
  <2>10. ReferencesHold'
    BY <1>6, <2>1, <2>3, <2>4, <2>6 DEF ReferencesHold, Exists
  <2>11. FibersAreCounted'
    BY <1>6, <1>7, <2>1, <2>3 DEF FibersAreCounted
  <2>12. QED
    BY <2>7, <2>8, <2>9, <2>10, <2>11 DEF FiberInv
<1>13. ASSUME NEW f \in Fiber, Back(f) PROVE FiberInv'
  <2>1. /\ context = f /\ current' = Main /\ context' = Main
        /\ UNCHANGED <<fstate, begun, refs, owned, fiberCount, countAtMain, aborted>>
    BY <1>13 DEF Back, InFiber
  <2>2. FiberTypeOK'
    BY <1>2, <2>1 DEF FiberTypeOK
  <2>3. RunningIsCurrent'
    BY <1>6, <1>7, <2>1 DEF RunningIsCurrent
  <2>4. Exists' = Exists
    BY <2>1 DEF Exists
  <2>5. StatesFit' /\ ReferencesHold' /\ FibersAreCounted'
    BY <1>6, <2>1, <2>4 DEF StatesFit, ReferencesHold, FibersAreCounted
  <2>6. QED
    BY <2>2, <2>3, <2>5 DEF FiberInv
<1>14. ASSUME NEW f \in Fiber, ResetFiber(f) PROVE FiberInv'
  <2>1. /\ context = Main /\ f \in owned /\ UNCHANGED <<refs, owned, current, context, fiberCount, countAtMain>>
    BY <1>14 DEF ResetFiber, InThread
  <2>2. CASE aborted' = "reset" /\ UNCHANGED <<fstate, begun>>
    BY <1>2, <2>1, <2>2 DEF FiberInv, FiberTypeOK
  <2>3. CASE Becomes(f, "INIT") /\ begun' = [begun EXCEPT ![f] = FALSE] /\ UNCHANGED aborted
    <3>1. fstate[f] # "none" /\ f \in Exists
      BY <1>6, <2>1 DEF StatesFit, Exists
    <3>2. /\ fstate' \in [Fiber \cup {Main} -> {"none", "INIT", "EXEC", "READY", "HOLD", "TERM", "EXCEPT"}]
          /\ fstate'[f] = "INIT"
          /\ \A g \in Fiber \cup {Main} : g # f => fstate'[g] = fstate[g]
          /\ Cardinality(Exists') = Cardinality(Exists)
      <4>1. Becomes(f, "INIT")
        BY <2>3
      <4>2. QED
        BY <1>2, <1>8, <3>1, <4>1, StateMoves
    <3>3. begun' \in [Fiber -> BOOLEAN] /\ begun'[f] = FALSE /\ \A g \in Fiber : g # f => begun'[g] = begun[g]
      BY <1>2, <2>3 DEF FiberTypeOK
    <3>4. FiberTypeOK'
      BY <1>2, <2>1, <2>3, <3>2, <3>3 DEF FiberTypeOK
    <3>5. RunningIsCurrent'
      BY <1>6, <1>7, <2>1, <3>2 DEF RunningIsCurrent
    <3>6. StatesFit'
      BY <1>2, <1>6, <2>1, <3>2, <3>3 DEF StatesFit, FiberTypeOK
    <3>7. ReferencesHold'
      <4>1. ASSUME NEW g \in Exists'
            PROVE  refs'[g] >= (IF g \in owned' THEN 1 ELSE 0) + (IF begun'[g] THEN 1 ELSE 0)
        <5>1. g \in Exists /\ refs[g] \in Int
          BY <1>2, <3>1, <3>2, <4>1 DEF Exists, FiberTypeOK
        <5>2. refs[g] >= (IF g \in owned THEN 1 ELSE 0) + (IF begun[g] THEN 1 ELSE 0)
          BY <1>6, <5>1 DEF ReferencesHold
        <5>3. begun'[g] => begun[g]
          BY <3>3, <5>1 DEF Exists
        <5>4. QED
          BY <2>1, <5>1, <5>2, <5>3
      <4>2. QED
        BY <4>1 DEF ReferencesHold
    <3>8. FibersAreCounted'
      BY <1>6, <1>7, <2>1, <3>2 DEF FibersAreCounted
    <3>9. QED
      BY <3>4, <3>5, <3>6, <3>7, <3>8 DEF FiberInv
  <2>4. QED
    BY <1>14, <2>2, <2>3 DEF ResetFiber
(* Only a fiber that has not begun can lose its last reference: it is in    *)
(* INIT, which the destructor accepts.                                      *)
<1>15. ASSUME NEW f \in Fiber, Drop(f) PROVE FiberInv'
  <2>1. /\ context = Main /\ f \in owned /\ owned' = owned \ {f} /\ refs' = [refs EXCEPT ![f] = @ - 1]
        /\ UNCHANGED <<begun, current, context, countAtMain>>
    BY <1>15 DEF Drop, InThread
  <2>2. fstate[f] # "none" /\ f \in Exists
    BY <1>6, <2>1 DEF StatesFit, Exists
  <2>3. refs[f] \in Int /\ refs[f] >= 1 + (IF begun[f] THEN 1 ELSE 0)
    BY <1>2, <1>6, <2>1, <2>2 DEF FiberTypeOK, ReferencesHold
  <2>4. /\ refs' \in [Fiber -> Int] /\ refs'[f] = refs[f] - 1
        /\ \A g \in Fiber : g # f => refs'[g] = refs[g]
    <3>1. refs' = [refs EXCEPT ![f] = refs[f] - 1] /\ refs[f] - 1 \in Int
      BY <2>1, <2>3
    <3>2. QED
      BY <1>2, <3>1
  <2>5. owned' \subseteq Fiber /\ f \notin owned' /\ \A g \in Fiber : g # f => (g \in owned' <=> g \in owned)
    BY <1>2, <2>1 DEF FiberTypeOK
  <2>6. CASE refs[f] > 1
    <3>1. UNCHANGED <<fstate, fiberCount, aborted>> /\ Exists' = Exists
      BY <1>15, <2>6 DEF Drop, Exists
    <3>2. FiberTypeOK'
      BY <1>2, <2>1, <2>4, <2>5, <3>1 DEF FiberTypeOK
    <3>3. RunningIsCurrent' /\ StatesFit' /\ FibersAreCounted'
      BY <1>6, <2>1, <3>1 DEF RunningIsCurrent, StatesFit, FibersAreCounted
    <3>4. ReferencesHold'
      BY <1>6, <2>1, <2>3, <2>4, <2>5, <3>1 DEF ReferencesHold, Exists
    <3>5. QED
      BY <3>2, <3>3, <3>4 DEF FiberInv
  <2>7. CASE ~(refs[f] > 1)
    <3>1. ~begun[f]
      BY <2>3, <2>7
    <3>2. fstate[f] = "INIT"
      BY <1>6, <2>2, <3>1 DEF StatesFit
    <3>3. fiberCount' = fiberCount - 1 /\ Becomes(f, "none") /\ UNCHANGED aborted
      BY <1>15, <2>7, <3>2 DEF Drop, Resettable
    <3>4. /\ fstate' \in [Fiber \cup {Main} -> {"none", "INIT", "EXEC", "READY", "HOLD", "TERM", "EXCEPT"}]
          /\ fstate'[f] = "none"
          /\ \A g \in Fiber \cup {Main} : g # f => fstate'[g] = fstate[g]
          /\ Cardinality(Exists') = Cardinality(Exists) - 1
      BY <1>2, <1>8, <2>2, <3>3, StateMoves
    <3>5. FiberTypeOK'
      <4>1. fiberCount' \in Int /\ UNCHANGED <<begun, countAtMain, aborted>>
        BY <1>2, <2>1, <3>3
      <4>2. QED
        BY <1>2, <2>4, <2>5, <3>4, <4>1 DEF FiberTypeOK
    <3>6. RunningIsCurrent'
      BY <1>6, <1>7, <2>1, <3>4 DEF RunningIsCurrent
    <3>7. StatesFit'
      BY <1>2, <1>6, <2>1, <2>5, <3>4 DEF StatesFit, FiberTypeOK
    <3>8. ReferencesHold'
      BY <1>6, <2>1, <2>4, <2>5, <3>4 DEF ReferencesHold, Exists
    <3>9. FibersAreCounted'
      BY <1>2, <1>6, <1>7, <1>8, <2>1, <3>3, <3>4 DEF FibersAreCounted, FiberTypeOK
    <3>10. QED
      BY <3>5, <3>6, <3>7, <3>8, <3>9 DEF FiberInv
  <2>8. QED
    BY <2>6, <2>7
<1>16. ASSUME NEW f \in Fiber, NEW state \in {"READY", "HOLD", "TERM"}, Yield(f, state) PROVE FiberInv'
  <2>1. /\ context = f /\ current = f /\ fstate[f] # "none" /\ begun[f] = TRUE /\ f \in Exists
        /\ UNCHANGED <<begun, refs, owned, current, context, fiberCount, countAtMain>>
    BY <1>6, <1>7, <1>16 DEF Yield, InFiber, RunningIsCurrent, Exists
  <2>2. CASE aborted' = "yield" /\ UNCHANGED fstate
    BY <1>2, <2>1, <2>2 DEF FiberInv, FiberTypeOK
  <2>3. CASE Becomes(f, state) /\ UNCHANGED aborted
    <3>1. /\ fstate' \in [Fiber \cup {Main} -> {"none", "INIT", "EXEC", "READY", "HOLD", "TERM", "EXCEPT"}]
          /\ fstate'[f] = state
          /\ \A g \in Fiber \cup {Main} : g # f => fstate'[g] = fstate[g]
          /\ Cardinality(Exists') = Cardinality(Exists)
      BY <1>2, <1>8, <2>1, <2>3, StateMoves
    <3>2. FiberTypeOK'
      BY <1>2, <2>1, <2>3, <3>1 DEF FiberTypeOK
    <3>3. RunningIsCurrent'
      BY <1>6, <1>7, <2>1, <3>1 DEF RunningIsCurrent
    <3>4. StatesFit'
      BY <1>2, <1>6, <2>1, <3>1 DEF StatesFit, FiberTypeOK
    <3>5. Exists' = Exists
      BY <2>1, <3>1 DEF Exists
    <3>6. ReferencesHold'
      BY <1>6, <2>1, <3>5 DEF ReferencesHold
    <3>7. FibersAreCounted'
      BY <1>6, <1>7, <2>1, <3>1 DEF FibersAreCounted
    <3>8. QED
      BY <3>2, <3>3, <3>4, <3>6, <3>7 DEF FiberInv
  <2>4. QED
    BY <1>16, <2>1, <2>2, <2>3 DEF Yield
<1>17. ASSUME NEW f \in Fiber, NEW state \in {"TERM", "EXCEPT"}, FiberEnds(f, state) PROVE FiberInv'
  <2>1. /\ aborted' = "never reach" /\ Becomes(f, state) /\ refs' = [refs EXCEPT ![f] = @ - 1]
        /\ UNCHANGED <<begun, owned, fiberCount, countAtMain>>
    BY <1>17 DEF FiberEnds
  <2>2. fstate' \in [Fiber \cup {Main} -> {"none", "INIT", "EXEC", "READY", "HOLD", "TERM", "EXCEPT"}]
    BY <1>2, <2>1 DEF FiberTypeOK, Becomes
  <2>3. refs' \in [Fiber -> Int]
    <3>1. refs' = [refs EXCEPT ![f] = refs[f] - 1]
      BY <2>1
    <3>2. refs \in [Fiber -> Int]
      BY <1>2
    <3>3. QED
      BY <3>1, <3>2
  <2>4. QED
    BY <1>2, <2>1, <2>2, <2>3 DEF FiberInv, FiberTypeOK
<1>18. QED
  BY <1>1, <1>3, <1>9, <1>10, <1>11, <1>12, <1>13, <1>14, <1>15, <1>16, <1>17 DEF FiberNext

-----------------------------------------------------------------------------
(* uthread.h: slots are reused, coroutines are not, so that a coroutine is  *)
(* in at most one slot for ever, and a slot is in use exactly while the     *)
(* coroutine that was last put there is unfinished.                         *)
Table == 0 .. MaxUthreads - 1
InUse(id) == ustate[id] # "FREE"
UthreadTypeOK ==
  /\ ustate \in [Table -> {"FREE", "RUNNABLE", "SUSPEND"}]
  /\ occupant \in [Table -> 0 .. MaxCreated]
  /\ running_thread \in {-1} \cup Table /\ inContext \in 0 .. MaxCreated
  /\ max_index \in Nat /\ (max_index <= MaxUthreads \/ overrun)
  /\ coroutine \in [1 .. MaxCreated -> {"none", "unfinished", "finished"}]
CreatedInOrder ==
  /\ Created \in 0 .. MaxCreated
  /\ \A k \in 1 .. MaxCreated : coroutine[k] # "none" <=> k <= Created
  /\ \A id \in Table : occupant[id] <= Created
SlotsFit ==
  /\ \A id, other \in Table : occupant[id] = occupant[other] /\ occupant[id] # 0 => id = other
  /\ \A id \in Table : InUse(id) <=> occupant[id] # 0 /\ coroutine[occupant[id]] = "unfinished"
  /\ \A k \in 1 .. MaxCreated : coroutine[k] = "unfinished" => \E id \in Table : occupant[id] = k
  /\ \A id \in Table : InUse(id) => occupant[id] = inContext \/ ustate[id] = "SUSPEND"
  /\ \A id \in Table : id >= max_index => ~InUse(id)
RunnerFits ==
  /\ running_thread # -1 => occupant[running_thread] = inContext /\ inContext # 0
  /\ inContext # 0 => coroutine[inContext] = "unfinished"
  /\ inContext # 0 /\ running_thread = -1 => inContext \in resumed
  /\ lostYield \subseteq resumed
  /\ overrun => inContext = 0 /\ \A id \in Table : InUse(id)
UthreadInv == UthreadTypeOK /\ CreatedInOrder /\ SlotsFit /\ RunnerFits

(* If the first n coroutines are created, their number is n.                *)
LEMMA CreatedIs ==
  ASSUME NEW c, NEW n \in 0 .. MaxCreated, \A k \in 1 .. MaxCreated : c[k] # "none" <=> k <= n
  PROVE  Cardinality({k \in 1 .. MaxCreated : c[k] # "none"}) = n
<1> DEFINE s == {k \in 1 .. MaxCreated : c[k] # "none"}
<1>1. s = 1 .. n
  BY UthreadAssumption
<1>2. Cardinality(1 .. n) = n
  BY FS_Interval
<1>3. QED
  BY <1>1, <1>2

(* The search of uthread_create() finds the first free slot, or the end.    *)
LEMMA FirstFreeFacts ==
  ASSUME max_index \in Nat
  PROVE  /\ FirstFree \in 0 .. max_index
         /\ FirstFree = max_index \/ Reusable(FirstFree)
         /\ \A i \in 0 .. FirstFree - 1 : ~Reusable(i)
<1> DEFINE Free0 == {id \in 0 .. max_index : id = max_index \/ Reusable(id)}
           Less == OpToRel(<, Nat)
<1>1. Free0 \subseteq Nat /\ max_index \in Free0
  OBVIOUS
<1>2. PICK least \in Free0 : \A k \in Free0 : ~(<<k, least>> \in Less)
  <2>1. IsWellFoundedOn(Less, Nat)
    BY NatLessThanWellFounded
  <2> HIDE DEF Less, Free0
  <2>2. QED
    BY <1>1, <2>1, WFMin
<1>3. \A i \in 0 .. least - 1 : ~Reusable(i)
  <2> SUFFICES ASSUME NEW i \in 0 .. least - 1, Reusable(i) PROVE FALSE
    OBVIOUS
  <2>1. i \in Free0 /\ i \in Nat /\ least \in Nat /\ i < least
    BY <1>1
  <2>2. <<i, least>> \in Less
    BY <2>1 DEF OpToRel
  <2>3. QED
    BY <1>2, <2>1, <2>2
<1>4. \E id \in 0 .. max_index : /\ id = max_index \/ Reusable(id)
                                 /\ \A i \in 0 .. id - 1 : ~Reusable(i)
  BY <1>3
<1>5. QED
  BY <1>4 DEF FirstFree

(* A schedule starts with no slot in use.                                   *)
LEMMA UthreadInvHolds == ThreadsInit => UthreadInv
<1>1. SUFFICES ASSUME UthreadInit PROVE UthreadInv
  BY PartsInit
<1>2. UthreadTypeOK
  <2>1. ustate \in [Table -> {"FREE", "RUNNABLE", "SUSPEND"}]
    BY <1>1 DEF UthreadInit, Table
  <2>2. occupant \in [Table -> 0 .. MaxCreated]
    BY <1>1, UthreadAssumption DEF UthreadInit, Table
  <2>3. coroutine \in [1 .. MaxCreated -> {"none", "unfinished", "finished"}]
    BY <1>1 DEF UthreadInit
  <2>4. /\ running_thread = -1 /\ inContext \in 0 .. MaxCreated /\ max_index \in Nat
        /\ max_index <= MaxUthreads
    BY <1>1, UthreadAssumption DEF UthreadInit
  <2>5. QED
    BY <2>1, <2>2, <2>3, <2>4 DEF UthreadTypeOK
<1>3. \A id \in Table : ustate[id] = "FREE" /\ occupant[id] = 0
  BY <1>1 DEF UthreadInit, Table
<1>4. \A k \in 1 .. MaxCreated : coroutine[k] = "none"
  BY <1>1 DEF UthreadInit
<1>5. Created = 0
  <2>1. 0 \in 0 .. MaxCreated /\ \A k \in 1 .. MaxCreated : ~(k <= 0)
    BY UthreadAssumption
  <2>2. QED
    BY <1>4, <2>1, CreatedIs DEF Created
<1>6. CreatedInOrder
  BY <1>3, <1>4, <1>5, UthreadAssumption DEF CreatedInOrder
<1>7. SlotsFit
  BY <1>3, <1>4 DEF SlotsFit, InUse
<1>8. RunnerFits
  BY <1>1 DEF UthreadInit, RunnerFits
<1>9. QED
  BY <1>2, <1>6, <1>7, <1>8 DEF UthreadInv

(* uthread_create() takes a free slot, resume and yield change places, and  *)
(* the end of a coroutine frees its slot.                                   *)
LEMMA StepKeepsUthreadInv == UthreadInv /\ [ThreadsNext]_allVars => UthreadInv'
<1>1. SUFFICES ASSUME UthreadTypeOK, CreatedInOrder, SlotsFit, RunnerFits, [UthreadNext]_uthreadVars
               PROVE  UthreadInv'
  BY PartsStep DEF UthreadInv
<1>2. /\ ustate \in [Table -> {"FREE", "RUNNABLE", "SUSPEND"}]
      /\ occupant \in [Table -> 0 .. MaxCreated]
      /\ running_thread \in {-1} \cup Table /\ inContext \in 0 .. MaxCreated
      /\ max_index \in Nat /\ (max_index <= MaxUthreads \/ overrun)
      /\ coroutine \in [1 .. MaxCreated -> {"none", "unfinished", "finished"}]
      /\ MaxUthreads \in Nat /\ MaxCreated \in Nat /\ Table \subseteq Nat
  BY <1>1, UthreadAssumption DEF UthreadTypeOK, Table
<1>3. \A id \in Table : InUse(id) => occupant[id] \in 1 .. MaxCreated
  BY <1>1, <1>2 DEF SlotsFit
<1>4. CASE UthreadCreate /\ FirstFree < MaxUthreads
  <2> DEFINE slot == FirstFree
             new == Created + 1
  <2>1. /\ InMain /\ Created < MaxCreated
        /\ max_index' = (IF slot = max_index THEN max_index + 1 ELSE max_index)
        /\ ustate' = [ustate EXCEPT ![slot] = "RUNNABLE"]
        /\ occupant' = [occupant EXCEPT ![slot] = new]
        /\ running_thread' = slot /\ inContext' = new
        /\ coroutine' = [coroutine EXCEPT ![new] = "unfinished"]
        /\ UNCHANGED <<overrun, resumed, lostYield>>
    BY <1>4 DEF UthreadCreate
  <2>2. slot \in 0 .. max_index /\ (slot = max_index \/ ~InUse(slot)) /\ slot < MaxUthreads
    BY <1>2, <1>4, FirstFreeFacts DEF Reusable, InUse
  <2>3. Created \in 0 .. MaxCreated /\ new \in 1 .. MaxCreated /\ new # 0 /\ new = Created + 1
    BY <1>1, <1>2, <2>1 DEF CreatedInOrder
  <2>4. inContext = 0 /\ ~overrun
    BY <2>1 DEF InMain
  <2> HIDE DEF slot, new
  <2>5. slot \in Table /\ ~InUse(slot)
    <3>1. slot \in Table
      BY <1>2, <2>2 DEF Table
    <3>2. QED
      BY <1>1, <1>2, <2>2, <3>1 DEF SlotsFit
  <2>6. /\ ustate' \in [Table -> {"FREE", "RUNNABLE", "SUSPEND"}] /\ ustate'[slot] = "RUNNABLE"
        /\ \A id \in Table : id # slot => ustate'[id] = ustate[id]
    BY <1>2, <2>1, <2>5
  <2>7. /\ occupant' \in [Table -> 0 .. MaxCreated] /\ occupant'[slot] = new
        /\ \A id \in Table : id # slot => occupant'[id] = occupant[id]
    <3>1. new \in 0 .. MaxCreated
      BY <2>3
    <3>2. QED
      BY <1>2, <2>1, <2>5, <3>1
  <2>8. /\ coroutine' \in [1 .. MaxCreated -> {"none", "unfinished", "finished"}]
        /\ coroutine'[new] = "unfinished"
        /\ \A k \in 1 .. MaxCreated : k # new => coroutine'[k] = coroutine[k]
    BY <1>2, <2>1, <2>3
  <2>9. UthreadTypeOK'
    <3>1. max_index' \in Nat /\ max_index' <= MaxUthreads
      BY <1>2, <2>1, <2>2, <2>4
    <3>2. running_thread' \in Table /\ inContext' \in 0 .. MaxCreated
      BY <2>1, <2>3, <2>5
    <3>3. QED
      BY <2>6, <2>7, <2>8, <3>1, <3>2 DEF UthreadTypeOK
  <2>10. Created' = new
    <3>1. \A k \in 1 .. MaxCreated : coroutine'[k] # "none" <=> k <= new
      BY <1>1, <2>3, <2>8 DEF CreatedInOrder
    <3>2. new \in 0 .. MaxCreated
      BY <2>3
    <3>3. QED
      BY <3>1, <3>2, CreatedIs DEF Created
  <2>11. CreatedInOrder'
    <3>1. \A k \in 1 .. MaxCreated : coroutine'[k] # "none" <=> k <= new
      BY <1>1, <2>3, <2>8 DEF CreatedInOrder
    <3>2. \A id \in Table : occupant'[id] <= new
      BY <1>1, <1>2, <2>3, <2>7 DEF CreatedInOrder
    <3>3. QED
      BY <2>3, <2>10, <3>1, <3>2 DEF CreatedInOrder
  <2>12. \A id \in Table : occupant[id] # new
    BY <1>1, <1>2, <2>3 DEF CreatedInOrder
  <2>13. SlotsFit'
    <3>1. \A id, other \in Table : occupant'[id] = occupant'[other] /\ occupant'[id] # 0 => id = other
      BY <1>1, <2>7, <2>12 DEF SlotsFit
    <3>2. \A id \in Table : InUse(id)' <=> occupant'[id] # 0 /\ coroutine'[occupant'[id]] = "unfinished"
      <4>1. ASSUME NEW id \in Table, id # slot
            PROVE  InUse(id)' <=> occupant'[id] # 0 /\ coroutine'[occupant'[id]] = "unfinished"
        <5>1. occupant'[id] = occupant[id] /\ ustate'[id] = ustate[id] /\ occupant[id] # new
          BY <2>6, <2>7, <2>12, <4>1
        <5>2. occupant[id] # 0 => coroutine'[occupant[id]] = coroutine[occupant[id]]
          BY <1>2, <2>8, <4>1, <5>1
        <5>3. QED
          BY <1>1, <4>1, <5>1, <5>2 DEF SlotsFit, InUse
      <4>2. ustate'[slot] # "FREE" /\ occupant'[slot] # 0 /\ coroutine'[occupant'[slot]] = "unfinished"
        BY <2>3, <2>6, <2>7, <2>8
      <4>3. QED
        BY <4>1, <4>2 DEF InUse
    <3>3. \A k \in 1 .. MaxCreated : coroutine'[k] = "unfinished" => \E id \in Table : occupant'[id] = k
      <4>1. ASSUME NEW k \in 1 .. MaxCreated, k # new, coroutine'[k] = "unfinished"
            PROVE  \E id \in Table : occupant'[id] = k
        <5>1. coroutine[k] = "unfinished"
          BY <2>8, <4>1
        <5>2. PICK id \in Table : occupant[id] = k
          BY <1>1, <5>1 DEF SlotsFit
        <5>3. InUse(id)
          BY <1>1, <5>1, <5>2 DEF SlotsFit
        <5>4. id # slot
          BY <2>5, <5>3
        <5>5. QED
          BY <2>7, <5>2, <5>4
      <4>2. QED
        BY <2>5, <2>7, <4>1
    <3>4. \A id \in Table : InUse(id)' => occupant'[id] = inContext' \/ ustate'[id] = "SUSPEND"
      <4>1. ASSUME NEW id \in Table, id # slot, InUse(id)' PROVE ustate'[id] = "SUSPEND"
        <5>1. InUse(id) /\ ustate'[id] = ustate[id]
          BY <2>6, <4>1 DEF InUse
        <5>2. occupant[id] # inContext
          BY <1>3, <2>4, <5>1
        <5>3. QED
          BY <1>1, <5>1, <5>2 DEF SlotsFit
      <4>2. QED
        BY <2>1, <2>7, <4>1
    <3>5. \A id \in Table : id >= max_index' => ~InUse(id)'
      BY <1>1, <1>2, <2>1, <2>2, <2>6 DEF SlotsFit, InUse
    <3>6. QED
      BY <3>1, <3>2, <3>3, <3>4, <3>5 DEF SlotsFit, InUse
  <2>14. RunnerFits'
    BY <1>1, <1>2, <2>1, <2>3, <2>4, <2>5, <2>7, <2>8 DEF RunnerFits
  <2>15. QED
    BY <2>9, <2>11, <2>13, <2>14 DEF UthreadInv
(* The table is full: the search has passed a slot in use at every place.   *)
<1>5. CASE UthreadCreate /\ ~(FirstFree < MaxUthreads)
  <2>1. /\ InMain /\ overrun' = TRUE
        /\ max_index' = (IF FirstFree = max_index THEN max_index + 1 ELSE max_index)
        /\ UNCHANGED <<ustate, occupant, running_thread, inContext, coroutine, resumed, lostYield>>
    BY <1>5 DEF UthreadCreate
  <2>2. inContext = 0 /\ max_index <= MaxUthreads
    BY <1>2, <2>1 DEF InMain
  <2>3. FirstFree = MaxUthreads /\ \A i \in 0 .. FirstFree - 1 : ~Reusable(i)
    BY <1>2, <1>5, <2>2, FirstFreeFacts
  <2>4. \A id \in Table : InUse(id)
    BY <2>3 DEF Reusable, InUse, Table
  <2>5. UthreadTypeOK'
    BY <1>1, <1>2, <2>1 DEF UthreadTypeOK
  <2>6. CreatedInOrder'
    BY <1>1, <2>1 DEF CreatedInOrder, Created
  <2>7. SlotsFit'
    <3>1. \A id \in Table : ~(id >= max_index')
      <4>1. max_index = MaxUthreads
        BY <1>2, <2>2, <2>3, FirstFreeFacts
      <4>2. QED
        BY <1>2, <2>1, <4>1 DEF Table
    <3>2. QED
      BY <1>1, <2>1, <3>1 DEF SlotsFit, InUse
  <2>8. RunnerFits'
    BY <1>1, <2>1, <2>2, <2>4 DEF RunnerFits, InUse
  <2>9. QED
    BY <2>5, <2>6, <2>7, <2>8 DEF UthreadInv
<1>6. CASE UthreadYield /\ running_thread = -1
  <2>1. /\ inContext # 0 /\ lostYield' = lostYield \cup {inContext}
        /\ UNCHANGED <<ustate, occupant, running_thread, max_index, inContext, coroutine, resumed, overrun>>
    BY <1>6 DEF UthreadYield
  <2>2. UthreadTypeOK'
    BY <1>1, <2>1 DEF UthreadTypeOK
  <2>3. CreatedInOrder' /\ SlotsFit'
    BY <1>1, <2>1 DEF CreatedInOrder, Created, SlotsFit, InUse
  <2>4. RunnerFits'
    BY <1>1, <1>6, <2>1 DEF RunnerFits, InUse
  <2>5. QED
    BY <2>2, <2>3, <2>4 DEF UthreadInv
<1>7. CASE UthreadYield /\ running_thread # -1
  <2>1. /\ inContext # 0 /\ ustate' = [ustate EXCEPT ![running_thread] = "SUSPEND"]
        /\ running_thread' = -1 /\ inContext' = 0
        /\ UNCHANGED <<occupant, max_index, coroutine, resumed, overrun, lostYield>>
    BY <1>7 DEF UthreadYield
  <2>2. running_thread \in Table /\ occupant[running_thread] = inContext /\ InUse(running_thread)
    BY <1>1, <1>2, <1>7 DEF RunnerFits, SlotsFit
  <2>3. /\ ustate' \in [Table -> {"FREE", "RUNNABLE", "SUSPEND"}] /\ ustate'[running_thread] = "SUSPEND"
        /\ \A id \in Table : id # running_thread => ustate'[id] = ustate[id]
    BY <1>2, <2>1, <2>2
  <2>4. \A id \in Table : InUse(id)' <=> InUse(id)
    BY <2>2, <2>3 DEF InUse
  <2>5. UthreadTypeOK'
    BY <1>1, <1>2, <2>1, <2>3 DEF UthreadTypeOK
  <2>6. CreatedInOrder'
    BY <1>1, <2>1 DEF CreatedInOrder, Created
  <2>7. SlotsFit'
    <3>1. \A id \in Table : InUse(id)' => ustate'[id] = "SUSPEND"
      <4>1. ASSUME NEW id \in Table, id # running_thread, InUse(id) PROVE ustate'[id] = "SUSPEND"
        <5>1. occupant[id] # inContext
          BY <1>1, <2>1, <2>2, <4>1 DEF SlotsFit
        <5>2. QED
          BY <1>1, <2>3, <4>1, <5>1 DEF SlotsFit
      <4>2. QED
        BY <2>3, <2>4, <4>1
    <3>2. QED
      BY <1>1, <2>1, <2>4, <3>1 DEF SlotsFit
  <2>8. RunnerFits'
    BY <1>1, <2>1, <2>4 DEF RunnerFits
  <2>9. QED
    BY <2>5, <2>6, <2>7, <2>8 DEF UthreadInv
<1>8. ASSUME NEW id \in Table, UthreadResume(id) PROVE UthreadInv'
  <2>1. /\ InMain /\ ustate[id] = "SUSPEND"
        /\ inContext' = occupant[id] /\ resumed' = resumed \cup {occupant[id]}
        /\ UNCHANGED <<ustate, occupant, running_thread, max_index, coroutine, lostYield, overrun>>
    BY <1>8 DEF UthreadResume
  <2>2. inContext = 0 /\ running_thread = -1 /\ ~overrun
    BY <1>1, <2>1 DEF InMain, RunnerFits
  <2>3. InUse(id) /\ occupant[id] \in 1 .. MaxCreated /\ coroutine[occupant[id]] = "unfinished"
    <3>1. InUse(id)
      BY <2>1 DEF InUse
    <3>2. QED
      BY <1>1, <1>3, <3>1 DEF SlotsFit
  <2>4. UthreadTypeOK'
    BY <1>1, <1>2, <2>1 DEF UthreadTypeOK
  <2>5. CreatedInOrder'
    BY <1>1, <2>1 DEF CreatedInOrder, Created
  <2>6. SlotsFit'
    <3>1. \A other \in Table : InUse(other) => ustate[other] = "SUSPEND"
      BY <1>1, <1>3, <2>2 DEF SlotsFit
    <3>2. QED
      BY <1>1, <2>1, <3>1 DEF SlotsFit, InUse
  <2>7. RunnerFits'
    BY <1>1, <2>1, <2>2, <2>3 DEF RunnerFits
  <2>8. QED
    BY <2>4, <2>5, <2>6, <2>7 DEF UthreadInv
<1>9. CASE UthreadEnds
  <2> DEFINE slot == SlotOf(inContext)
  <2>1. /\ inContext # 0 /\ ustate' = [ustate EXCEPT ![slot] = "FREE"]
        /\ running_thread' = -1 /\ inContext' = 0
        /\ coroutine' = [coroutine EXCEPT ![inContext] = "finished"]
        /\ UNCHANGED <<occupant, max_index, resumed, lostYield, overrun>>
    BY <1>9 DEF UthreadEnds
  <2>2. inContext \in 1 .. MaxCreated /\ coroutine[inContext] = "unfinished" /\ ~overrun
    <3>1. inContext \in 1 .. MaxCreated
      BY <1>2, <2>1
    <3>2. QED
      BY <1>1, <2>1, <3>1 DEF RunnerFits
  <2>3. slot \in Table /\ occupant[slot] = inContext
    <3>1. \E id \in Table : occupant[id] = inContext
      BY <1>1, <2>2 DEF SlotsFit
    <3>2. QED
      BY <3>1 DEF SlotOf, Table
  <2> HIDE DEF slot
  <2>4. /\ ustate' \in [Table -> {"FREE", "RUNNABLE", "SUSPEND"}] /\ ustate'[slot] = "FREE"
        /\ \A id \in Table : id # slot => ustate'[id] = ustate[id]
    BY <1>2, <2>1, <2>3
  <2>5. /\ coroutine' \in [1 .. MaxCreated -> {"none", "unfinished", "finished"}]
        /\ coroutine'[inContext] = "finished"
        /\ \A k \in 1 .. MaxCreated : k # inContext => coroutine'[k] = coroutine[k]
    BY <1>2, <2>1, <2>2
  <2>6. UthreadTypeOK'
    BY <1>1, <1>2, <2>1, <2>4, <2>5 DEF UthreadTypeOK
  <2>7. \A k \in 1 .. MaxCreated : coroutine'[k] # "none" <=> coroutine[k] # "none"
    BY <2>2, <2>5
  <2>8. Created' = Created
    <3>1. {k \in 1 .. MaxCreated : coroutine'[k] # "none"} = {k \in 1 .. MaxCreated : coroutine[k] # "none"}
      BY <2>7
    <3>2. QED
      BY <3>1 DEF Created
  <2>9. CreatedInOrder'
    BY <1>1, <2>1, <2>7, <2>8 DEF CreatedInOrder
  <2>10. \A id \in Table : id # slot => occupant[id] # inContext
    BY <1>1, <2>1, <2>3 DEF SlotsFit
  <2>11. SlotsFit'
    <3>1. \A id \in Table : InUse(id)' <=> occupant'[id] # 0 /\ coroutine'[occupant'[id]] = "unfinished"
      <4>1. ASSUME NEW id \in Table, id # slot
            PROVE  InUse(id)' <=> occupant'[id] # 0 /\ coroutine'[occupant'[id]] = "unfinished"
        <5>1. occupant'[id] = occupant[id] /\ ustate'[id] = ustate[id] /\ occupant[id] # inContext
          BY <2>1, <2>4, <2>10, <4>1
        <5>2. occupant[id] # 0 => coroutine'[occupant[id]] = coroutine[occupant[id]]
          BY <1>2, <2>5, <4>1, <5>1
        <5>3. QED
          BY <1>1, <4>1, <5>1, <5>2 DEF SlotsFit, InUse
      <4>2. ustate'[slot] = "FREE" /\ coroutine'[occupant'[slot]] # "unfinished"
        BY <2>1, <2>3, <2>4, <2>5
      <4>3. QED
        BY <4>1, <4>2 DEF InUse
    <3>2. \A k \in 1 .. MaxCreated : coroutine'[k] = "unfinished" => \E id \in Table : occupant'[id] = k
      BY <1>1, <2>1, <2>5 DEF SlotsFit
    <3>3. \A id \in Table : InUse(id)' => ustate'[id] = "SUSPEND"
      BY <1>1, <2>4, <2>10 DEF SlotsFit, InUse
    <3>4. \A id \in Table : id >= max_index' => ~InUse(id)'
      BY <1>1, <2>1, <2>4 DEF SlotsFit, InUse
    <3>5. QED
      BY <1>1, <2>1, <3>1, <3>2, <3>3, <3>4 DEF SlotsFit
  <2>12. RunnerFits'
    BY <1>1, <2>1, <2>2 DEF RunnerFits
  <2>13. QED
    BY <2>6, <2>9, <2>11, <2>12 DEF UthreadInv
<1>10. CASE UNCHANGED uthreadVars
  <2>1. UthreadTypeOK'
    BY <1>1, <1>10 DEF UthreadTypeOK, uthreadVars
  <2>2. CreatedInOrder' /\ SlotsFit' /\ RunnerFits'
    BY <1>1, <1>10 DEF CreatedInOrder, Created, SlotsFit, RunnerFits, InUse, uthreadVars
  <2>3. QED
    BY <2>1, <2>2 DEF UthreadInv
<1>11. QED
  BY <1>1, <1>4, <1>5, <1>6, <1>7, <1>8, <1>9, <1>10 DEF UthreadNext, Table

(* So the slot that runs is the one whose coroutine has the stack.          *)
LEMMA UthreadInvMeans == UthreadInv => SlotsFollowCoroutines
<1>1. SUFFICES ASSUME UthreadTypeOK, CreatedInOrder, SlotsFit, RunnerFits PROVE SlotsFollowCoroutines
  BY DEF UthreadInv
<1> DEFINE unfinished == {k \in 1 .. MaxCreated : coroutine[k] = "unfinished"}
           slots(k) == {id \in 0 .. MaxUthreads - 1 : occupant[id] = k /\ ustate[id] # "FREE"}
<1>2. ASSUME NEW k \in unfinished
      PROVE  \E id \in slots(k) : slots(k) = {id} /\ (k = inContext \/ ustate[id] = "SUSPEND")
  <2>1. k \in 1 .. MaxCreated /\ coroutine[k] = "unfinished" /\ k # 0
    BY <1>2
  <2>2. PICK id \in Table : occupant[id] = k
    BY <1>1, <2>1 DEF SlotsFit
  <2>3. InUse(id)
    BY <1>1, <2>1, <2>2 DEF SlotsFit
  <2>4. id \in slots(k)
    BY <2>2, <2>3 DEF InUse, Table
  <2>5. \A other \in slots(k) : other = id
    BY <1>1, <2>1, <2>2 DEF SlotsFit, Table
  <2>6. k = inContext \/ ustate[id] = "SUSPEND"
    BY <1>1, <2>2, <2>3 DEF SlotsFit
  <2>7. QED
    BY <2>4, <2>5, <2>6
<1>3. running_thread # -1 => occupant[running_thread] = inContext
  BY <1>1 DEF RunnerFits
<1>4. (\A id \in Table : ~InUse(id)) <=> unfinished = {}
  <2>1. ASSUME NEW id \in Table, InUse(id) PROVE occupant[id] \in unfinished
    BY <1>1, <2>1 DEF SlotsFit, UthreadTypeOK
  <2>2. ASSUME NEW k \in unfinished PROVE \E id \in Table : InUse(id)
    BY <1>1, <2>2 DEF SlotsFit
  <2>3. QED
    BY <2>1, <2>2
<1>5. ASSUME InMain PROVE schedule_finished <=> unfinished = {}
  <2>1. running_thread = -1 /\ max_index <= MaxUthreads
    BY <1>1, <1>5 DEF InMain, RunnerFits, UthreadTypeOK
  <2>2. schedule_finished <=> \A id \in 0 .. max_index - 1 : ~InUse(id)
    BY <2>1 DEF schedule_finished, InUse
  <2>3. \A id \in Table : id \in 0 .. max_index - 1 \/ ~InUse(id)
    BY <1>1, UthreadAssumption DEF SlotsFit, UthreadTypeOK, Table
  <2>4. \A id \in 0 .. max_index - 1 : id \in Table
    BY <1>1, <2>1, UthreadAssumption DEF UthreadTypeOK, Table
  <2>5. QED
    BY <1>4, <2>2, <2>3, <2>4
<1>6. lostYield \subseteq resumed
  BY <1>1 DEF RunnerFits
<1>7. ASSUME overrun PROVE Cardinality(unfinished) = MaxUthreads
  <2> DEFINE f == [id \in Table |-> occupant[id]]
  <2>1. \A id \in Table : InUse(id)
    BY <1>1, <1>7 DEF RunnerFits
  <2>2. \A id \in Table : occupant[id] \in unfinished /\ occupant[id] # 0
    BY <1>1, <2>1 DEF SlotsFit, UthreadTypeOK
  <2>3. f \in [Table -> unfinished] /\ \A id \in Table : f[id] = occupant[id]
    BY <2>2
  <2>4. \A k \in unfinished : \E id \in Table : occupant[id] = k
    BY <1>1 DEF SlotsFit
  <2>5. \A id, other \in Table : occupant[id] = occupant[other] => id = other
    BY <1>1, <2>2 DEF SlotsFit
  <2> HIDE DEF f, unfinished
  <2>6. f \in Injection(Table, unfinished)
    BY <2>3, <2>5 DEF Injection, IsInjective
  <2>7. f \in Surjection(Table, unfinished)
    BY <2>3, <2>4 DEF Surjection
  <2>8. ExistsBijection(Table, unfinished)
    BY <2>6, <2>7 DEF ExistsBijection, Bijection
  <2>9. IsFiniteSet(Table) /\ Cardinality(Table) = MaxUthreads
    BY FS_Interval, UthreadAssumption DEF Table
  <2>10. QED
    BY <2>8, <2>9, FS_Bijection
<1>8. QED
  BY <1>2, <1>3, <1>5, <1>6, <1>7 DEF SlotsFollowCoroutines

(* The tables and thread-local pointers of both coroutine libraries follow  *)
(* the contexts that run: no fiber is destroyed under its own stack, no     *)
(* slot is reused under an unfinished coroutine.                            *)
THEOREM CoroutinesAlwaysKeepState == ThreadsSpec => []CoroutinesKeepState
<1>1. ThreadsInit => FiberInv /\ UthreadInv
  BY FiberInvHolds, UthreadInvHolds
<1>2. FiberInv /\ UthreadInv /\ [ThreadsNext]_allVars => (FiberInv /\ UthreadInv)'
  BY StepKeepsFiberInv, StepKeepsUthreadInv
<1>3. FiberInv /\ UthreadInv => CoroutinesKeepState
  BY FiberInvMeans, UthreadInvMeans DEF CoroutinesKeepState
<1>4. QED
  BY <1>1, <1>2, <1>3, PTL DEF ThreadsSpec

-----------------------------------------------------------------------------
(***************************************************************************)
(* FiberTimers: Init, Next, Spec and vars are its own.  For any timers,    *)
(* users and pollers the ordered set of FiberTimerManager can be searched, *)
(* a one-shot callback runs once, a cancelled one no more, even when the   *)
(* clock is set back.  With a clock that is not, no poller oversleeps, and *)
(* a single poller takes no timer early.                                   *)
(***************************************************************************)

(* A timer between its constructor and the set belongs to one addTimer(),   *)
(* which has not returned it yet.                                           *)
CallsKnowTheirTimer ==
  /\ \A u \in User : IF uPc[u] = "insert"
                     THEN uTimer[u] \in Timer \ known /\ m_cb[uTimer[u]]
                     ELSE uTimer[u] = NoTimer
  /\ \A u, v \in User : uPc[u] = "insert" /\ uPc[v] = "insert" /\ uTimer[u] = uTimer[v] => u = v

SetHoldsKnown == \A e \in m_timers : e.timer \in known

(* reset() without from_now goes back to when the timer was last started.   *)
DueAfterStart == \A t \in Timer : m_ms[t] <= m_next[t]

SetInv == TypeOK /\ CallsKnowTheirTimer /\ SetHoldsKnown /\ DueAfterStart /\ SetIsSound

(* The callback of a one-shot timer is in one place: still in the timer, in *)
(* the hands of one poller, or run.                                         *)
Ready(t) == t \notin known \/ m_cb[t]
CallbackIsInOnePlace ==
  /\ \A p \in Poller : pPc[p] # "run" => cbs[p] = {}
  /\ \A t \in Timer \ Recurring :
       /\ Ready(t) => ran[t] = 0 /\ Taken(t) = {}
       /\ ran[t] = 0 \/ (ran[t] = 1 /\ Taken(t) = {})
       /\ \A p, q \in Taken(t) : p = q

(* With a clock that is never set back: no timer is due further ahead than  *)
(* its period, and nobody's reading of the clock is in the future.          *)
ClockGoesOn == /\ \A t \in Timer : m_next[t] <= now + m_ms[t]
               /\ \A p \in Poller : pNow[p] <= now

(* Somebody is awake or about to be woken.  m_tickled promises that; without *)
(* it a poller has to sleep no longer than any timer allows.                *)
Watching == \/ tickle \/ \E u \in User : uPc[u] = "tickle"
            \/ \E p \in Poller : pPc[p] # "sleep"
SleepsInTime(p) ==
  \/ pLeft[p] = 0
  \/ pLeft[p] # Forever /\ \A e \in m_timers : now + pLeft[p] <= e.key
TickledIsWatched == m_tickled => Watching
SetIsWatched == m_timers # {} => Watching \/ \E p \in Poller : SleepsInTime(p)

(* A poller that is alone reads later times only. *)
LastTimeIsPast ==
  /\ m_last_execute_time <= now
  /\ \A p \in Poller : pPc[p] = "list" => m_last_execute_time <= pNow[p]

CancelledHaveNoCallback == \A t \in cancelled : t \in known /\ ~m_cb[t]
CancelledNeverRan == \A t \in cancelled \ Recurring : ran[t] = 0 /\ Taken(t) = {}

-----------------------------------------------------------------------------
(* A timer is found under its due time if it is in the set at all. *)
LEMMA EntryOfTimer ==
  ASSUME SetInv, NEW e \in m_timers
  PROVE  e = Entry(e.timer, m_next[e.timer]) /\ e.timer \in Timer /\ e.key \in Nat
BY DEF SetInv, TypeOK, SetIsSound, Entry

(* The set is ordered by due time: unless it is empty it has a first timer. *)
LEMMA FirstIsFirst ==
  ASSUME NEW timers \in SUBSET [timer : Timer, key : Nat], timers # {}
  PROVE  First(timers) \in timers /\ \A e \in timers : First(timers).key <= e.key
<1> DEFINE Keys == {e.key : e \in timers}
           Less == OpToRel(<, Nat)
<1>1. Keys \subseteq Nat /\ Keys # {}
  OBVIOUS
<1>2. PICK least \in Keys : \A k \in Keys : ~(<<k, least>> \in Less)
  <2>1. IsWellFoundedOn(Less, Nat)
    BY NatLessThanWellFounded
  <2> HIDE DEF Less, Keys
  <2>2. QED
    BY <1>1, <2>1, WFMin
<1>3. \A k \in Keys : least <= k
  <2> SUFFICES ASSUME NEW k \in Keys, ~(least <= k) PROVE FALSE
    OBVIOUS
  <2>1. k \in Nat /\ least \in Nat /\ k < least
    BY <1>1
  <2>2. <<k, least>> \in Less
    BY <2>1 DEF OpToRel
  <2>3. QED
    BY <1>2, <2>2
<1>4. \E e \in timers : \A f \in timers : e.key <= f.key
  BY <1>3
<1>5. QED
  BY <1>4 DEF First

(* The types, with what arithmetic on due times needs. *)
LEMMA StepKeepsTypeOK ==
  ASSUME SetInv, [Next]_vars
  PROVE  TypeOK' /\ DueAfterStart'
<1> USE DEF SetInv
<1>1. ASSUME NEW u \in User, NEW t \in Timer, NEW ms \in Periods, AddTimer(u, t, ms)
      PROVE  TypeOK' /\ DueAfterStart'
  <2>1. ms \in Nat /\ now \in Nat
    BY PeriodAssumption, TimeAssumption DEF TypeOK
  <2>2. QED
    BY <1>1, <2>1 DEF AddTimer, TypeOK, DueAfterStart, clockVars, managerVars, pollerVars,
       historyVars
<1>2. ASSUME NEW u \in User, AddInsert(u) PROVE TypeOK' /\ DueAfterStart'
  <2>1. uTimer[u] \in Timer /\ Entry(uTimer[u], m_next[uTimer[u]]) \in [timer : Timer, key : Nat]
    BY <1>2 DEF AddInsert, TypeOK, CallsKnowTheirTimer, Entry
  <2>2. QED
    BY <1>2, <2>1 DEF AddInsert, InsertTimer, AtFront, TypeOK, DueAfterStart, clockVars,
       timerVars, pollerVars, historyVars
<1>3. ASSUME NEW u \in User, Tickle(u) PROVE TypeOK' /\ DueAfterStart'
  BY <1>3 DEF Tickle, TypeOK, DueAfterStart, clockVars, timerVars, managerVars, pollerVars,
     historyVars
<1>4. ASSUME NEW u \in User, NEW t \in Timer, Cancel(u, t) PROVE TypeOK' /\ DueAfterStart'
  BY <1>4 DEF Cancel, TypeOK, DueAfterStart, clockVars, userVars, pollerVars
<1>5. ASSUME NEW u \in User, NEW t \in Timer, Refresh(u, t) PROVE TypeOK' /\ DueAfterStart'
  <2>1. now \in Nat /\ now + m_ms[t] \in Nat /\ m_ms[t] <= now + m_ms[t]
    BY TimeAssumption DEF TypeOK
  <2>2. Entry(t, now + m_ms[t]) \in [timer : Timer, key : Nat]
    BY <2>1 DEF Entry
  <2>3. QED
    BY <1>5, <2>1, <2>2 DEF Refresh, Erase, TypeOK, DueAfterStart, clockVars, userVars,
       pollerVars, historyVars
<1>6. ASSUME NEW u \in User, NEW t \in Timer, NEW ms \in Periods, NEW fromNow \in BOOLEAN,
             Reset(u, t, ms, fromNow)
      PROVE  TypeOK' /\ DueAfterStart'
  <2> DEFINE due == (IF fromNow THEN now ELSE m_next[t] - m_ms[t]) + ms
  <2>1. ms \in Nat /\ due \in Nat /\ ms <= due
    BY PeriodAssumption, TimeAssumption DEF TypeOK, DueAfterStart
  <2>2. Entry(t, due) \in [timer : Timer, key : Nat]
    BY <2>1 DEF Entry
  <2>3. /\ m_next' = [m_next EXCEPT ![t] = due] /\ m_ms' = [m_ms EXCEPT ![t] = ms]
        /\ InsertTimer(u, Entry(t, due), Erase(t, due))
    BY <1>6 DEF Reset
  <2> HIDE DEF due
  <2>4. QED
    BY <1>6, <2>1, <2>2, <2>3 DEF Reset, InsertTimer, Erase, AtFront, TypeOK, DueAfterStart,
       clockVars, pollerVars, historyVars
<1>7. ASSUME NEW p \in Poller, GetNextTimer(p) PROVE TypeOK' /\ DueAfterStart'
  <2>1. now \in Nat
    BY <1>7, TimeAssumption DEF TypeOK
  <2>2. m_timers # {} => Remaining(First(m_timers).key) \in Nat
    BY <2>1, FirstIsFirst DEF Remaining, TypeOK
  <2>3. pLeft' \in [Poller -> Nat \cup {Forever}]
    BY <1>7, <2>2 DEF GetNextTimer, TypeOK
  <2>4. QED
    BY <1>7, <2>3 DEF GetNextTimer, TypeOK, DueAfterStart, clockVars, timerVars, userVars,
       historyVars
<1>8. ASSUME NEW p \in Poller, WakeUp(p) PROVE TypeOK' /\ DueAfterStart'
  BY <1>8 DEF WakeUp, TypeOK, DueAfterStart, clockVars, timerVars, managerVars, userVars,
     historyVars
<1>9. ASSUME NEW p \in Poller, ListTime(p) PROVE TypeOK' /\ DueAfterStart'
  BY <1>9 DEF ListTime, TypeOK, DueAfterStart, clockVars, timerVars, managerVars, userVars,
     historyVars
<1>10. ASSUME NEW p \in Poller, ListExpired(p) PROVE TypeOK' /\ DueAfterStart'
  <2> DEFINE elapsed == {e.timer : e \in Expired(pNow[p])}
             again == {t \in elapsed : ComesBack(t)}
             back  == {Entry(t, pNow[p] + m_ms[t]) : t \in again}
  <2>1. Expired(pNow[p]) \subseteq m_timers /\ pNow[p] \in 0 .. MaxTime /\ pNow[p] \in Nat
    BY TimeAssumption DEF Expired, DueBy, TypeOK
  <2>2. elapsed \subseteq Timer
    BY <2>1 DEF TypeOK
  <2>3. /\ cbs' = [cbs EXCEPT ![p] = elapsed] /\ pPc' = [pPc EXCEPT ![p] = "run"]
        /\ m_next' = [t \in Timer |-> IF t \in again THEN pNow[p] + m_ms[t] ELSE m_next[t]]
        /\ m_cb' = [t \in Timer |-> m_cb[t] /\ t \notin elapsed \ again]
        /\ m_timers' = (m_timers \ Expired(pNow[p])) \cup back
        /\ UNCHANGED <<clockVars, m_ms, m_tickled, userVars, pLeft, pNow, tickle, historyVars>>
    BY <1>10 DEF ListExpired
  <2>4. m_last_execute_time' \in 0 .. MaxTime
    BY <1>10, <2>1 DEF ListExpired, TypeOK
  <2>5. \A t \in Timer : pNow[p] + m_ms[t] \in Nat /\ m_ms[t] <= pNow[p] + m_ms[t]
    BY <2>1 DEF TypeOK
  <2>6. back \subseteq [timer : Timer, key : Nat]
    BY <2>2, <2>5 DEF Entry
  <2>7. m_next' \in [Timer -> Nat] /\ m_cb' \in [Timer -> BOOLEAN] /\ DueAfterStart'
    <3> HIDE DEF elapsed, again, back
    <3>1. QED
      BY <2>3, <2>5 DEF TypeOK, DueAfterStart
  <2>8. cbs' \in [Poller -> SUBSET Timer]
    <3> HIDE DEF elapsed, again, back
    <3>1. QED
      BY <2>2, <2>3 DEF TypeOK
  <2> HIDE DEF elapsed, again, back
  <2>9. m_timers' \subseteq [timer : Timer, key : Nat]
    BY <2>3, <2>6 DEF TypeOK
  <2>10. TypeOK'
    BY <2>3, <2>4, <2>7, <2>8, <2>9 DEF TypeOK, clockVars, userVars, historyVars
  <2>11. QED
    BY <2>7, <2>10
<1>11. ASSUME NEW p \in Poller, RunCallbacks(p) PROVE TypeOK' /\ DueAfterStart'
  <2>1. 0 \in 0 .. MaxTime
    BY TimeAssumption
  <2>2. QED
    BY <1>11, <2>1 DEF RunCallbacks, TypeOK, DueAfterStart, clockVars, timerVars, managerVars,
       userVars
<1>12. CASE Tick
  BY <1>12, TimeAssumption DEF Tick, TypeOK, DueAfterStart, Forever, timerVars, managerVars,
     userVars, historyVars
<1>13. CASE SetBack
  <2>1. now' \in 0 .. MaxTime /\ jumps' \in 0 .. MaxJumps
    BY <1>13, TimeAssumption DEF SetBack, TypeOK
  <2>2. QED
    BY <1>13, <2>1 DEF SetBack, TypeOK, DueAfterStart, timerVars, managerVars, userVars,
       pollerVars, historyVars
<1>14. CASE UNCHANGED vars
  BY <1>14 DEF vars, TypeOK, DueAfterStart, clockVars, timerVars, managerVars, userVars,
     pollerVars, historyVars
<1>15. QED
  BY <1>1, <1>2, <1>3, <1>4, <1>5, <1>6, <1>7, <1>8, <1>9, <1>10, <1>11, <1>12, <1>13, <1>14
  DEF Next, UserStep, UserCall, PollerStep
-----------------------------------------------------------------------------
(* Erasing a timer before its due time changes, as refresh() and reset() do, *)
(* and putting it back under the new one leaves a set that can be searched. *)
LEMMA MovedTimer ==
  ASSUME SetInv, NEW t \in Timer, NEW due, Found(t), m_cb[t],
         m_next' = [m_next EXCEPT ![t] = due],
         m_timers' = Erase(t, due) \cup {Entry(t, due)},
         UNCHANGED <<m_cb, known>>
  PROVE  SetHoldsKnown' /\ SetIsSound'
<1>1. \A e \in m_timers : e = Entry(e.timer, m_next[e.timer]) /\ e.timer \in Timer
  BY EntryOfTimer
<1>2. \A e \in Erase(t, due) : e \in m_timers /\ e.timer # t
  BY <1>1 DEF Erase
<1>3. \A e \in m_timers' : e = Entry(e.timer, m_next'[e.timer]) /\ m_cb'[e.timer]
  BY <1>1, <1>2 DEF SetInv, TypeOK, SetIsSound, Entry
<1>4. t \in known
  BY DEF Found, SetInv, SetHoldsKnown, Entry
<1>5. SetHoldsKnown'
  BY <1>2, <1>4 DEF SetInv, SetHoldsKnown, Entry
<1>6. QED
  BY <1>3, <1>5 DEF SetIsSound, Entry

(* Every step leaves the set searchable.                                    *)
LEMMA StepKeepsSet ==
  ASSUME SetInv, [Next]_vars
  PROVE  CallsKnowTheirTimer' /\ SetHoldsKnown' /\ SetIsSound'
<1> DEFINE Goal == CallsKnowTheirTimer' /\ SetHoldsKnown' /\ SetIsSound'
<1> USE DEF SetInv
<1>1. ASSUME NEW u \in User, NEW t \in Timer, NEW ms \in Periods, AddTimer(u, t, ms) PROVE Goal
  <2>1. \A e \in m_timers : e.timer # t
    BY <1>1 DEF AddTimer, SetHoldsKnown
  <2>2. t \in Timer \ known /\ NoTimer # t
    BY <1>1, TimerAssumption DEF AddTimer
  <2>3. CallsKnowTheirTimer'
    BY <1>1, <2>2 DEF AddTimer, TypeOK, CallsKnowTheirTimer, managerVars
  <2>4. SetHoldsKnown' /\ SetIsSound'
    BY <1>1, <2>1 DEF AddTimer, TypeOK, SetHoldsKnown, SetIsSound, managerVars
  <2>5. QED
    BY <2>3, <2>4
<1>2. ASSUME NEW u \in User, AddInsert(u) PROVE Goal
  <2> DEFINE t == uTimer[u]
  <2>1. /\ uPc[u] = "insert" /\ t \in Timer \ known /\ m_cb[t]
        /\ \A v \in User : v # u /\ uPc[v] = "insert" => uTimer[v] # t
    BY <1>2 DEF AddInsert, CallsKnowTheirTimer
  <2>2. /\ m_timers' = m_timers \cup {Entry(t, m_next[t])} /\ known' = known \cup {t}
        /\ uTimer' = [uTimer EXCEPT ![u] = NoTimer] /\ UNCHANGED <<m_next, m_cb>>
    BY <1>2 DEF AddInsert, InsertTimer, timerVars
  <2>3. uPc' = [uPc EXCEPT ![u] = uPc'[u]] /\ uPc'[u] # "insert"
    BY <1>2 DEF AddInsert, InsertTimer, TypeOK
  <2>4. CallsKnowTheirTimer'
    BY <2>1, <2>2, <2>3 DEF TypeOK, CallsKnowTheirTimer
  <2>5. \A e \in m_timers : e.timer # t
    BY <2>1 DEF SetHoldsKnown
  <2>6. SetHoldsKnown' /\ SetIsSound'
    BY <2>1, <2>2, <2>5 DEF SetHoldsKnown, SetIsSound, Entry
  <2>7. QED
    BY <2>4, <2>6
<1>3. ASSUME NEW u \in User, Tickle(u) PROVE Goal
  BY <1>3 DEF Tickle, TypeOK, CallsKnowTheirTimer, SetHoldsKnown, SetIsSound, timerVars,
     managerVars
<1>4. ASSUME NEW u \in User, NEW t \in Timer, Cancel(u, t) PROVE Goal
  <2>1. \A e \in m_timers' : e \in m_timers /\ e.timer # t
    <3>1. \A e \in m_timers : e = Entry(e.timer, m_next[e.timer])
      BY EntryOfTimer
    <3>2. QED
      BY <1>4, <3>1 DEF Cancel
  <2>2. CallsKnowTheirTimer'
    BY <1>4 DEF Cancel, TypeOK, CallsKnowTheirTimer, userVars
  <2>3. SetHoldsKnown' /\ SetIsSound'
    BY <1>4, <2>1 DEF Cancel, TypeOK, SetHoldsKnown, SetIsSound, userVars
  <2>4. QED
    BY <2>2, <2>3
<1>5. ASSUME NEW u \in User, NEW t \in Timer, Refresh(u, t) PROVE Goal
  <2>1. SetHoldsKnown' /\ SetIsSound'
    BY <1>5, MovedTimer DEF Refresh, HasCallback, userVars
  <2>2. CallsKnowTheirTimer'
    BY <1>5 DEF Refresh, CallsKnowTheirTimer, userVars
  <2>3. QED
    BY <2>1, <2>2
<1>6. ASSUME NEW u \in User, NEW t \in Timer, NEW ms \in Periods, NEW fromNow \in BOOLEAN,
             Reset(u, t, ms, fromNow)
      PROVE  Goal
  <2> DEFINE due == (IF fromNow THEN now ELSE m_next[t] - m_ms[t]) + ms
  <2>1. /\ m_next' = [m_next EXCEPT ![t] = due] /\ UNCHANGED <<m_cb, known, uTimer>>
        /\ InsertTimer(u, Entry(t, due), Erase(t, due)) /\ Found(t) /\ m_cb[t]
        /\ uPc[u] = "idle"
    BY <1>6 DEF Reset, HasCallback
  <2> HIDE DEF due
  <2>2. SetHoldsKnown' /\ SetIsSound'
    BY <2>1, MovedTimer DEF InsertTimer
  <2>3. uPc' = [uPc EXCEPT ![u] = uPc'[u]] /\ uPc'[u] # "insert"
    BY <2>1 DEF InsertTimer, TypeOK
  <2>4. CallsKnowTheirTimer'
    BY <2>1, <2>3 DEF TypeOK, CallsKnowTheirTimer
  <2>5. QED
    BY <2>2, <2>4
<1>7. ASSUME NEW p \in Poller, ListExpired(p) PROVE Goal
  <2> DEFINE expired == Expired(pNow[p])
             elapsed == {e.timer : e \in expired}
             again == {t \in elapsed : ComesBack(t)}
             back  == {Entry(t, pNow[p] + m_ms[t]) : t \in again}
  <2>1. /\ m_next' = [t \in Timer |-> IF t \in again THEN pNow[p] + m_ms[t] ELSE m_next[t]]
        /\ m_cb' = [t \in Timer |-> m_cb[t] /\ t \notin elapsed \ again]
        /\ m_timers' = (m_timers \ expired) \cup back /\ UNCHANGED userVars
    BY <1>7 DEF ListExpired
  <2>2. \A e \in m_timers : /\ e = Entry(e.timer, m_next[e.timer])
                            /\ e.timer \in Timer /\ e.timer \in known /\ m_cb[e.timer]
    BY EntryOfTimer DEF SetHoldsKnown, SetIsSound
  <2>3. expired \subseteq m_timers
    BY DEF Expired, DueBy
  <2>4. \A t \in elapsed : t \in Timer /\ t \in known /\ m_cb[t]
    BY <2>2, <2>3
  <2>5. \A e \in m_timers \ expired : e.timer \notin elapsed
    BY <2>2, <2>3
  <2>6. again \subseteq elapsed
    OBVIOUS
  <2>7. \A e \in back : e.timer \in again /\ e = Entry(e.timer, pNow[p] + m_ms[e.timer])
    BY DEF Entry
  <2> HIDE DEF expired, elapsed, again, back
  <2>8. \A e \in m_timers' : /\ e = Entry(e.timer, m_next'[e.timer])
                             /\ e.timer \in known /\ m_cb'[e.timer]
    BY <2>1, <2>2, <2>4, <2>5, <2>6, <2>7
  <2>9. SetHoldsKnown' /\ SetIsSound'
    BY <2>1, <2>8 DEF SetHoldsKnown, SetIsSound, Entry, userVars
  <2>10. CallsKnowTheirTimer'
    BY <2>1, <2>4 DEF TypeOK, CallsKnowTheirTimer, userVars
  <2>11. QED
    BY <2>9, <2>10
<1>8. CASE \/ \E p \in Poller : \/ GetNextTimer(p) \/ WakeUp(p) \/ ListTime(p)
                               \/ RunCallbacks(p)
           \/ Tick \/ SetBack \/ UNCHANGED vars
  <2>1. UNCHANGED <<m_timers, m_next, m_cb, uPc, uTimer, known>>
    BY <1>8 DEF GetNextTimer, WakeUp, ListTime, RunCallbacks, Tick, SetBack, vars, timerVars,
       managerVars, userVars
  <2>2. QED
    BY <2>1 DEF CallsKnowTheirTimer, SetHoldsKnown, SetIsSound
<1>9. QED
  BY <1>1, <1>2, <1>3, <1>4, <1>5, <1>6, <1>7, <1>8 DEF Next, UserStep, UserCall, PollerStep
-----------------------------------------------------------------------------
(* What listExpiredCb() takes is in the set, hence known and ready. *)
LEMMA TakenIsReady ==
  ASSUME SetInv, NEW at
  PROVE  \A e \in Expired(at) : e.timer \in Timer /\ e.timer \in known /\ m_cb[e.timer]
<1>1. Expired(at) \subseteq m_timers
  BY DEF Expired, DueBy
<1>2. QED
  BY <1>1, EntryOfTimer DEF SetInv, SetHoldsKnown, SetIsSound

(* Every step keeps a one-shot callback in one place: listExpiredCb() moves *)
(* it from the timer to the poller, which runs it and forgets it.           *)
LEMMA StepKeepsCallback ==
  ASSUME SetInv, CallbackIsInOnePlace, [Next]_vars
  PROVE  CallbackIsInOnePlace'
<1> USE DEF CallbackIsInOnePlace, Ready
<1>1. ASSUME NEW p \in Poller, ListExpired(p) PROVE CallbackIsInOnePlace'
  <2> DEFINE elapsed == {e.timer : e \in Expired(pNow[p])}
  <2>1. /\ cbs[p] = {} /\ cbs' = [cbs EXCEPT ![p] = elapsed]
        /\ pPc' = [pPc EXCEPT ![p] = "run"] /\ UNCHANGED <<ran, known>>
    BY <1>1 DEF ListExpired, userVars, historyVars
  <2>2. \A t \in elapsed : t \in Timer /\ t \in known /\ m_cb[t]
    BY TakenIsReady
  <2>3. \A t \in Timer \ Recurring : m_cb'[t] <=> m_cb[t] /\ t \notin elapsed
    BY <1>1 DEF ListExpired, ComesBack
  <2> HIDE DEF elapsed
  <2>4. \A q \in Poller : pPc'[q] # "run" => cbs'[q] = {}
    BY <2>1 DEF SetInv, TypeOK
  <2>5. ASSUME NEW t \in Timer \ Recurring, t \in elapsed
        PROVE  ran'[t] = 0 /\ Taken(t)' = {p} /\ ~Ready(t)'
    BY <2>1, <2>2, <2>3, <2>5 DEF SetInv, TypeOK, Taken
  <2>6. ASSUME NEW t \in Timer \ Recurring, t \notin elapsed
        PROVE  ran'[t] = ran[t] /\ Taken(t)' = Taken(t) /\ Ready(t)' = Ready(t)
    BY <2>1, <2>3, <2>6 DEF SetInv, TypeOK, Taken
  <2>7. QED
    BY <2>4, <2>5, <2>6
<1>2. ASSUME NEW p \in Poller, RunCallbacks(p) PROVE CallbackIsInOnePlace'
  <2>1. /\ ran' = [t \in Timer |-> IF t \in cbs[p] \ Recurring THEN ran[t] + 1 ELSE ran[t]]
        /\ cbs' = [cbs EXCEPT ![p] = {}] /\ pPc' = [pPc EXCEPT ![p] = "next"]
        /\ UNCHANGED <<m_cb, known>>
    BY <1>2 DEF RunCallbacks, timerVars, userVars
  <2>2. \A q \in Poller : pPc'[q] # "run" => cbs'[q] = {}
    BY <2>1 DEF SetInv, TypeOK
  <2>3. ASSUME NEW t \in Timer \ Recurring, t \in cbs[p]
        PROVE  ran'[t] = 1 /\ Taken(t)' = {} /\ ~Ready(t)'
    BY <2>1, <2>3 DEF SetInv, TypeOK, Taken
  <2>4. ASSUME NEW t \in Timer \ Recurring, t \notin cbs[p]
        PROVE  ran'[t] = ran[t] /\ Taken(t)' = Taken(t) /\ Ready(t)' = Ready(t)
    BY <2>1, <2>4 DEF SetInv, TypeOK, Taken
  <2>5. QED
    BY <2>2, <2>3, <2>4
<1>3. ASSUME UNCHANGED <<ran, cbs>>, \A q \in Poller : pPc'[q] # "run" => pPc[q] # "run",
             \A t \in Timer : Ready(t)' => Ready(t)
      PROVE  CallbackIsInOnePlace'
  BY <1>3 DEF Taken
<1>4. ASSUME NEW u \in User, UserStep(u) \/ \E t \in Timer : UserCall(u, t)
      PROVE  CallbackIsInOnePlace'
  <2>1. UNCHANGED <<ran, cbs, pPc>>
    BY <1>4 DEF UserStep, UserCall, AddTimer, AddInsert, Tickle, Cancel, Refresh, Reset,
       pollerVars, historyVars
  <2>2. \A x \in Timer : Ready(x)' => Ready(x)
    BY <1>4 DEF UserStep, UserCall, AddTimer, AddInsert, Tickle, Cancel, Refresh, Reset,
       timerVars, userVars, SetInv, TypeOK
  <2>3. QED
    BY <1>3, <2>1, <2>2
<1>5. CASE \/ \E p \in Poller : GetNextTimer(p) \/ WakeUp(p) \/ ListTime(p)
           \/ Tick \/ SetBack \/ UNCHANGED vars
  <2>1. UNCHANGED <<ran, cbs, m_cb, known>>
    BY <1>5 DEF GetNextTimer, WakeUp, ListTime, Tick, SetBack, vars, timerVars, userVars,
       pollerVars, historyVars
  <2>2. \A q \in Poller : pPc'[q] # "run" => pPc[q] # "run"
    BY <1>5 DEF GetNextTimer, WakeUp, ListTime, Tick, SetBack, vars, pollerVars, SetInv, TypeOK
  <2>3. QED
    BY <1>3, <2>1, <2>2
<1>6. QED
  BY <1>1, <1>2, <1>4, <1>5 DEF Next, PollerStep

(* No step gives a cancelled timer its callback back. *)
LEMMA StepKeepsCancelled ==
  ASSUME SetInv, CancelledHaveNoCallback, [Next]_vars
  PROVE  CancelledHaveNoCallback'
<1> USE DEF CancelledHaveNoCallback, SetInv
<1>1. cancelled \subseteq Timer
  BY DEF TypeOK
<1>2. ASSUME NEW u \in User, UserStep(u) \/ \E t \in Timer : UserCall(u, t)
      PROVE  CancelledHaveNoCallback'
  <2>1. known \subseteq known'
    BY <1>2 DEF UserStep, UserCall, AddTimer, AddInsert, Tickle, Cancel, Refresh, Reset, userVars
  <2>2. \A t \in known : t \in Timer /\ (m_cb'[t] => m_cb[t])
    BY <1>2 DEF UserStep, UserCall, AddTimer, AddInsert, Tickle, Cancel, Refresh, Reset,
       timerVars, TypeOK
  <2>3. \A t \in cancelled' : t \in cancelled \/ (t \in known /\ ~m_cb'[t])
    BY <1>2 DEF UserStep, UserCall, AddTimer, AddInsert, Tickle, Cancel, Refresh, Reset,
       historyVars, TypeOK
  <2>4. QED
    BY <2>1, <2>2, <2>3
<1>3. ASSUME NEW p \in Poller, ListExpired(p) PROVE CancelledHaveNoCallback'
  BY <1>1, <1>3 DEF ListExpired, userVars, historyVars
<1>4. CASE \/ \E p \in Poller : GetNextTimer(p) \/ WakeUp(p) \/ ListTime(p) \/ RunCallbacks(p)
           \/ Tick \/ SetBack \/ UNCHANGED vars
  BY <1>4 DEF GetNextTimer, WakeUp, ListTime, RunCallbacks, Tick, SetBack, vars, timerVars,
     userVars, historyVars
<1>5. QED
  BY <1>2, <1>3, <1>4 DEF Next, PollerStep

(* A cancelled one-shot timer is ready when it is cancelled, hence not run,  *)
(* and no poller takes it after that.                                       *)
LEMMA StepKeepsCancelledFromRunning ==
  ASSUME SetInv, CallbackIsInOnePlace, CancelledHaveNoCallback, CancelledNeverRan, [Next]_vars
  PROVE  CancelledNeverRan'
<1> USE DEF CancelledNeverRan, SetInv
<1>1. cancelled \subseteq Timer
  BY DEF TypeOK
<1>2. ASSUME UNCHANGED <<cancelled, ran, cbs>> PROVE CancelledNeverRan'
  BY <1>2 DEF Taken
<1>3. ASSUME NEW u \in User, NEW t \in Timer, Cancel(u, t) PROVE CancelledNeverRan'
  <2>1. t \notin Recurring => ran[t] = 0 /\ Taken(t) = {}
    BY <1>3 DEF Cancel, HasCallback, CallbackIsInOnePlace, Ready
  <2>2. UNCHANGED <<ran, cbs>> /\ cancelled' = cancelled \cup {t}
    BY <1>3 DEF Cancel, pollerVars
  <2>3. QED
    BY <2>1, <2>2 DEF Taken
<1>4. ASSUME NEW p \in Poller, ListExpired(p) PROVE CancelledNeverRan'
  <2> DEFINE elapsed == {e.timer : e \in Expired(pNow[p])}
  <2>1. \A t \in cancelled : t \notin elapsed
    BY TakenIsReady DEF CancelledHaveNoCallback
  <2>2. cbs' = [cbs EXCEPT ![p] = elapsed] /\ UNCHANGED <<ran, cancelled>>
    BY <1>4 DEF ListExpired, historyVars
  <2> HIDE DEF elapsed
  <2>3. QED
    BY <2>1, <2>2 DEF Taken, TypeOK
<1>5. ASSUME NEW p \in Poller, RunCallbacks(p) PROVE CancelledNeverRan'
  <2>1. /\ ran' = [t \in Timer |-> IF t \in cbs[p] \ Recurring THEN ran[t] + 1 ELSE ran[t]]
        /\ cbs' = [cbs EXCEPT ![p] = {}] /\ UNCHANGED cancelled
    BY <1>5 DEF RunCallbacks
  <2>2. \A t \in cancelled \ Recurring : t \notin cbs[p]
    BY DEF Taken
  <2>3. QED
    BY <1>1, <2>1, <2>2 DEF Taken, TypeOK
<1>6. CASE \/ \E u \in User : \/ UserStep(u)
                             \/ \E t \in Timer : \/ \E ms \in Periods : AddTimer(u, t, ms)
                                                \/ Refresh(u, t)
                                                \/ \E ms \in Periods, fromNow \in BOOLEAN :
                                                     Reset(u, t, ms, fromNow)
           \/ \E p \in Poller : GetNextTimer(p) \/ WakeUp(p) \/ ListTime(p)
           \/ Tick \/ SetBack \/ UNCHANGED vars
  BY <1>2, <1>6 DEF UserStep, AddTimer, AddInsert, Tickle, Refresh, Reset, GetNextTimer, WakeUp,
     ListTime, Tick, SetBack, vars, pollerVars, historyVars
<1>7. QED
  BY <1>3, <1>4, <1>5, <1>6 DEF Next, UserCall, PollerStep

-----------------------------------------------------------------------------
(* Every step, unless it sets the clock back, keeps due times and readings   *)
(* behind the clock.                                                        *)
LEMMA StepKeepsClock ==
  ASSUME SetInv, ClockGoesOn, [Next]_vars, MaxJumps = 0
  PROVE  ClockGoesOn'
<1> USE DEF ClockGoesOn
<1>1. now \in Nat /\ \A t \in Timer : m_next[t] \in Nat /\ m_ms[t] \in Nat
  BY TimeAssumption DEF SetInv, TypeOK
<1>2. \A p \in Poller : pNow[p] \in Nat
  BY TimeAssumption DEF SetInv, TypeOK
<1>3. ASSUME NEW u \in User, NEW t \in Timer, NEW ms \in Periods, AddTimer(u, t, ms)
      PROVE  ClockGoesOn'
  BY <1>1, <1>3, PeriodAssumption DEF AddTimer, SetInv, TypeOK, clockVars, pollerVars
<1>4. ASSUME NEW u \in User, NEW t \in Timer, Refresh(u, t) PROVE ClockGoesOn'
  BY <1>1, <1>4 DEF Refresh, SetInv, TypeOK, clockVars, pollerVars
<1>5. ASSUME NEW u \in User, NEW t \in Timer, NEW ms \in Periods, NEW fromNow \in BOOLEAN,
             Reset(u, t, ms, fromNow)
      PROVE  ClockGoesOn'
  <2> DEFINE due == (IF fromNow THEN now ELSE m_next[t] - m_ms[t]) + ms
  <2>1. ms \in Nat /\ due <= now + ms
    BY <1>1, PeriodAssumption
  <2>2. m_next' = [m_next EXCEPT ![t] = due] /\ m_ms' = [m_ms EXCEPT ![t] = ms]
        /\ UNCHANGED <<now, pNow>>
    BY <1>5 DEF Reset, clockVars, pollerVars
  <2> HIDE DEF due
  <2>3. QED
    BY <2>1, <2>2 DEF SetInv, TypeOK
<1>6. ASSUME NEW p \in Poller, ListTime(p) PROVE ClockGoesOn'
  BY <1>1, <1>6 DEF ListTime, SetInv, TypeOK, clockVars, timerVars
<1>7. ASSUME NEW p \in Poller, ListExpired(p) PROVE ClockGoesOn'
  <2>1. pNow[p] <= now /\ pNow[p] \in Nat
    BY <1>2
  <2>2. /\ UNCHANGED <<now, m_ms, pNow>>
        /\ \A t \in Timer : m_next'[t] = m_next[t] \/ m_next'[t] = pNow[p] + m_ms[t]
    BY <1>7 DEF ListExpired, clockVars
  <2>3. QED
    BY <1>1, <2>1, <2>2
<1>8. ASSUME NEW p \in Poller, RunCallbacks(p) PROVE ClockGoesOn'
  BY <1>1, <1>8 DEF RunCallbacks, SetInv, TypeOK, clockVars, timerVars
<1>9. CASE Tick
  <2>1. now' \in Nat /\ now <= now' /\ UNCHANGED <<m_next, m_ms, pNow>>
    BY <1>1, <1>9 DEF Tick, timerVars
  <2>2. QED
    BY <1>1, <1>2, <2>1
<1>10. ~SetBack
  BY DEF SetBack, SetInv, TypeOK
<1>11. CASE \/ \E u \in User : UserStep(u) \/ \E t \in Timer : Cancel(u, t)
            \/ \E p \in Poller : GetNextTimer(p) \/ WakeUp(p)
            \/ UNCHANGED vars
  BY <1>11 DEF UserStep, AddInsert, Tickle, Cancel, GetNextTimer, WakeUp, vars, clockVars,
     timerVars, pollerVars
<1>12. QED
  BY <1>3, <1>4, <1>5, <1>6, <1>7, <1>8, <1>9, <1>10, <1>11 DEF Next, UserCall, PollerStep

-----------------------------------------------------------------------------
(* A timer that goes into the set is told to a poller, or it is not before  *)
(* all others, or whoever was told before is still to look.                 *)
LEMMA InsertionIsWatched ==
  ASSUME SetInv, TickledIsWatched, SetIsWatched,
         NEW u \in User, uPc[u] # "tickle", NEW entry, entry.key \in Nat,
         NEW timers \in SUBSET m_timers, InsertTimer(u, entry, timers),
         UNCHANGED <<now, tickle, pPc, pLeft>>
  PROVE  TickledIsWatched' /\ SetIsWatched'
<1>1. PICK front \in AtFront(entry, timers) :
        /\ m_tickled' = (m_tickled \/ front)
        /\ uPc' = [uPc EXCEPT ![u] = IF front /\ ~m_tickled THEN "tickle" ELSE "idle"]
  BY DEF InsertTimer
<1>2. m_tickled \in BOOLEAN /\ front \in BOOLEAN /\ uPc \in [User -> {"idle", "insert", "tickle"}]
  BY <1>1 DEF SetInv, TypeOK, AtFront
<1>3. Watching => Watching'
  BY <1>1, <1>2 DEF Watching
<1>4. m_tickled' => Watching'
  <2>1. CASE m_tickled
    BY <1>3, <2>1 DEF TickledIsWatched
  <2>2. CASE ~m_tickled /\ front
    BY <1>1, <1>2, <2>2 DEF Watching
  <2>3. CASE ~m_tickled /\ ~front
    BY <1>1, <2>3
  <2>4. QED
    BY <1>2, <2>1, <2>2, <2>3
<1>5. CASE m_tickled'
  BY <1>4, <1>5 DEF TickledIsWatched, SetIsWatched
<1>6. CASE ~m_tickled'
  <2>1. PICK other \in timers : other.key <= entry.key
    <3>1. ~front
      BY <1>1, <1>2, <1>6
    <3>2. \A e \in timers : e.key \in Nat
      BY DEF SetInv, TypeOK
    <3>3. \/ ~\A e \in timers : entry.key < e.key
          \/ ~\A e \in timers : entry.key <= e.key
      BY <1>1, <3>1, Zenon DEF AtFront
    <3>4. QED
      BY <3>2, <3>3
  <2>2. m_timers # {} /\ m_timers' = timers \cup {entry} /\ other.key \in Nat
    BY <2>1 DEF InsertTimer, SetInv, TypeOK
  <2>3. CASE Watching
    BY <1>3, <1>6, <2>3 DEF TickledIsWatched, SetIsWatched
  <2>4. ASSUME NEW p \in Poller, SleepsInTime(p) PROVE SleepsInTime(p)'
    <3>1. pLeft[p] \in Nat \cup {Forever} /\ now \in Nat
      BY TimeAssumption DEF SetInv, TypeOK
    <3>2. CASE pLeft[p] = 0
      BY <3>2 DEF SleepsInTime
    <3>3. CASE pLeft[p] # 0
      <4>1. /\ pLeft[p] # Forever /\ pLeft[p] \in Nat
            /\ \A e \in m_timers : now + pLeft[p] <= e.key
        BY <2>4, <3>1, <3>3 DEF SleepsInTime
      <4>2. now + pLeft[p] <= other.key
        BY <2>1, <4>1
      <4>3. now + pLeft[p] <= entry.key
        BY <2>1, <2>2, <3>1, <4>1, <4>2
      <4>4. \A e \in m_timers' : now + pLeft[p] <= e.key
        BY <2>2, <4>1, <4>3
      <4>5. QED
        BY <4>1, <4>4 DEF SleepsInTime
    <3>4. QED
      BY <3>2, <3>3
  <2>5. QED
    BY <1>6, <2>2, <2>3, <2>4 DEF TickledIsWatched, SetIsWatched
<1>7. QED
  BY <1>5, <1>6

(* Every step, unless it sets the clock back, leaves somebody on watch: in   *)
(* particular refresh(), which tells nobody, only moves timers back.        *)
LEMMA StepKeepsWatch ==
  ASSUME SetInv, ClockGoesOn, TickledIsWatched, SetIsWatched, [Next]_vars, MaxJumps = 0
  PROVE  TickledIsWatched' /\ SetIsWatched'
<1>1. /\ now \in Nat /\ pLeft \in [Poller -> Nat \cup {Forever}]
      /\ \A e \in m_timers : e.timer \in Timer /\ e.key \in Nat
  BY TimeAssumption DEF SetInv, TypeOK
<1>2. ASSUME NEW p \in Poller, pPc'[p] # "sleep" PROVE TickledIsWatched' /\ SetIsWatched'
  BY <1>2 DEF Watching, TickledIsWatched, SetIsWatched
(* A step that leaves the sleepers alone and brings no timer forward: *)
<1>3. ASSUME m_timers = {} => m_timers' = {},
             \A bound \in Nat : (\A e \in m_timers : bound <= e.key)
                                => \A e \in m_timers' : bound <= e.key,
             UNCHANGED <<now, pLeft>>, m_tickled' = m_tickled, Watching => Watching'
      PROVE  TickledIsWatched' /\ SetIsWatched'
  <2>1. \A p \in Poller : SleepsInTime(p) => SleepsInTime(p)'
    <3> SUFFICES ASSUME NEW p \in Poller, SleepsInTime(p) PROVE SleepsInTime(p)'
      OBVIOUS
    <3>1. CASE pLeft[p] = 0
      BY <1>3, <3>1 DEF SleepsInTime
    <3>2. CASE pLeft[p] # 0
      <4>1. /\ pLeft[p] # Forever /\ now + pLeft[p] \in Nat
            /\ \A e \in m_timers : now + pLeft[p] <= e.key
        BY <1>1, <3>2 DEF SleepsInTime
      <4>2. \A e \in m_timers' : now + pLeft[p] <= e.key
        BY <1>3, <4>1
      <4>3. QED
        BY <1>3, <4>1, <4>2 DEF SleepsInTime
    <3>3. QED
      BY <3>1, <3>2
  <2>2. QED
    BY <1>3, <2>1 DEF TickledIsWatched, SetIsWatched
<1>4. ASSUME NEW u \in User, AddInsert(u) PROVE TickledIsWatched' /\ SetIsWatched'
  <2>1. Entry(uTimer[u], m_next[uTimer[u]]).key \in Nat
    BY <1>4 DEF AddInsert, SetInv, TypeOK, CallsKnowTheirTimer, Entry
  <2>2. /\ uPc[u] # "tickle" /\ UNCHANGED <<now, tickle, pPc, pLeft>>
        /\ InsertTimer(u, Entry(uTimer[u], m_next[uTimer[u]]), m_timers)
    BY <1>4 DEF AddInsert, clockVars, pollerVars
  <2>3. QED
    BY <2>1, <2>2, InsertionIsWatched
<1>5. ASSUME NEW u \in User, NEW t \in Timer, NEW ms \in Periods, NEW fromNow \in BOOLEAN,
             Reset(u, t, ms, fromNow)
      PROVE  TickledIsWatched' /\ SetIsWatched'
  <2> DEFINE due == (IF fromNow THEN now ELSE m_next[t] - m_ms[t]) + ms
  <2>1. due \in Nat /\ Entry(t, due).key = due
    BY <1>1, PeriodAssumption DEF SetInv, TypeOK, DueAfterStart, Entry
  <2>2. Erase(t, due) \subseteq m_timers
    BY DEF Erase
  <2>3. /\ uPc[u] # "tickle" /\ UNCHANGED <<now, tickle, pPc, pLeft>>
        /\ InsertTimer(u, Entry(t, due), Erase(t, due))
    BY <1>5 DEF Reset, clockVars, pollerVars
  <2> HIDE DEF due
  <2>4. QED
    BY <2>1, <2>2, <2>3, InsertionIsWatched
<1>6. ASSUME NEW u \in User, NEW t \in Timer, NEW ms \in Periods, AddTimer(u, t, ms)
      PROVE  TickledIsWatched' /\ SetIsWatched'
  <2>1. Watching => Watching'
    BY <1>6 DEF AddTimer, Watching, SetInv, TypeOK, pollerVars
  <2>2. QED
    BY <1>3, <1>6, <2>1 DEF AddTimer, clockVars, managerVars, pollerVars
<1>7. ASSUME NEW u \in User, Tickle(u) PROVE TickledIsWatched' /\ SetIsWatched'
  BY <1>7 DEF Tickle, Watching, TickledIsWatched, SetIsWatched
<1>8. ASSUME NEW u \in User, NEW t \in Timer, Cancel(u, t)
      PROVE  TickledIsWatched' /\ SetIsWatched'
  <2>1. /\ m_timers' \subseteq m_timers /\ UNCHANGED <<now, pLeft, m_tickled>>
        /\ UNCHANGED <<tickle, uPc, pPc>>
    BY <1>8 DEF Cancel, clockVars, userVars, pollerVars
  <2>2. QED
    BY <1>3, <2>1 DEF Watching
<1>9. ASSUME NEW u \in User, NEW t \in Timer, Refresh(u, t)
      PROVE  TickledIsWatched' /\ SetIsWatched'
  <2>1. /\ m_timers' = Erase(t, now + m_ms[t]) \cup {Entry(t, now + m_ms[t])} /\ Found(t)
        /\ UNCHANGED <<now, pLeft, m_tickled, tickle, uPc, pPc>>
    BY <1>9 DEF Refresh, clockVars, userVars, pollerVars
  <2>2. Entry(t, m_next[t]) \in m_timers /\ m_next[t] <= now + m_ms[t]
    BY <2>1 DEF Found, ClockGoesOn
  <2>3. m_next[t] \in Nat /\ now + m_ms[t] \in Nat
    BY <1>1 DEF SetInv, TypeOK
  <2>4. ASSUME NEW bound \in Nat, \A e \in m_timers : bound <= e.key, NEW e \in m_timers'
        PROVE  bound <= e.key
    <3>1. e \in m_timers \/ e = Entry(t, now + m_ms[t])
      BY <2>1 DEF Erase
    <3>2. bound <= m_next[t]
      BY <2>2, <2>4 DEF Entry
    <3>3. Entry(t, now + m_ms[t]).key = now + m_ms[t]
      BY DEF Entry
    <3>4. QED
      BY <2>2, <2>3, <2>4, <3>1, <3>2, <3>3
  <2>5. QED
    BY <1>3, <2>1, <2>2, <2>4 DEF Watching
<1>10. ASSUME NEW p \in Poller, GetNextTimer(p) PROVE TickledIsWatched' /\ SetIsWatched'
  <2>1. ~m_tickled' /\ UNCHANGED <<m_timers, now>>
    BY <1>10 DEF GetNextTimer, clockVars
  <2>2. CASE m_timers = {}
    BY <2>1, <2>2 DEF TickledIsWatched, SetIsWatched
  <2>3. CASE m_timers # {}
    <3>1. /\ First(m_timers).key \in Nat
          /\ \A e \in m_timers : First(m_timers).key <= e.key
      BY <1>1, <2>3, FirstIsFirst DEF SetInv, TypeOK
    <3>2. pLeft'[p] = Remaining(First(m_timers).key)
      BY <1>1, <1>10, <2>3 DEF GetNextTimer
    <3>3. SleepsInTime(p)'
      BY <1>1, <2>1, <3>1, <3>2 DEF SleepsInTime, Remaining, Forever
    <3>4. QED
      BY <2>1, <3>3 DEF TickledIsWatched, SetIsWatched
  <2>4. QED
    BY <2>2, <2>3
<1>11. ASSUME NEW p \in Poller, WakeUp(p) \/ ListTime(p) \/ ListExpired(p) \/ RunCallbacks(p)
       PROVE  TickledIsWatched' /\ SetIsWatched'
  BY <1>2, <1>11 DEF WakeUp, ListTime, ListExpired, RunCallbacks, SetInv, TypeOK
<1>12. CASE Tick
  <2>1. /\ now' \in Nat /\ now' <= now + 1 /\ UNCHANGED <<m_timers, m_tickled, tickle, uPc, pPc>>
        /\ pLeft' = [p \in Poller |-> IF pLeft[p] > 0 THEN pLeft[p] - 1 ELSE pLeft[p]]
    BY <1>1, <1>12 DEF Tick, managerVars, userVars
  <2>2. \A p \in Poller : SleepsInTime(p) => SleepsInTime(p)'
    <3> SUFFICES ASSUME NEW p \in Poller, SleepsInTime(p) PROVE SleepsInTime(p)'
      OBVIOUS
    <3>1. CASE pLeft[p] = 0
      BY <2>1, <3>1 DEF SleepsInTime
    <3>2. CASE pLeft[p] # 0
      <4>1. pLeft[p] \in Nat \ {0} /\ \A e \in m_timers : now + pLeft[p] <= e.key
        BY <1>1, <3>2 DEF SleepsInTime
      <4>2. pLeft'[p] = pLeft[p] - 1 /\ pLeft'[p] \in Nat
        BY <2>1, <4>1
      <4>3. \A e \in m_timers' : now' + pLeft'[p] <= e.key
        BY <1>1, <2>1, <4>1, <4>2
      <4>4. QED
        BY <4>2, <4>3 DEF SleepsInTime, Forever
    <3>3. QED
      BY <3>1, <3>2
  <2>3. QED
    BY <2>1, <2>2 DEF Watching, TickledIsWatched, SetIsWatched
<1>13. ~SetBack
  BY DEF SetBack, SetInv, TypeOK
<1>14. CASE UNCHANGED vars
  BY <1>3, <1>14 DEF vars, clockVars, managerVars, userVars, pollerVars, Watching
<1>15. QED
  BY <1>4, <1>5, <1>6, <1>7, <1>8, <1>9, <1>10, <1>11, <1>12, <1>13, <1>14
  DEF Next, UserStep, UserCall, PollerStep

-----------------------------------------------------------------------------
(* With one poller, which reads the clock and takes timers in turn, the last *)
(* time a timer was taken is past: no rollover is seen where there is none. *)
LEMMA StepKeepsLastTime ==
  ASSUME SetInv, ClockGoesOn, LastTimeIsPast, [Next]_vars, MaxJumps = 0,
         \A p, q \in Poller : p = q
  PROVE  LastTimeIsPast'
<1> USE DEF LastTimeIsPast
<1>1. now \in Nat /\ m_last_execute_time \in Nat /\ \A p \in Poller : pNow[p] \in Nat
  BY TimeAssumption DEF SetInv, TypeOK
<1>2. ASSUME NEW p \in Poller, ListTime(p) PROVE LastTimeIsPast'
  BY <1>2 DEF ListTime, SetInv, TypeOK, clockVars, managerVars
<1>3. ASSUME NEW p \in Poller, ListExpired(p) PROVE LastTimeIsPast'
  <2>1. /\ pPc' = [pPc EXCEPT ![p] = "run"] /\ UNCHANGED <<now, pNow>>
        /\ m_last_execute_time' = m_last_execute_time \/ m_last_execute_time' = pNow[p]
    BY <1>3 DEF ListExpired, clockVars
  <2>2. \A q \in Poller : pPc'[q] = "run"
    BY <2>1 DEF SetInv, TypeOK
  <2>3. QED
    BY <2>1, <2>2 DEF ClockGoesOn
<1>4. ASSUME NEW p \in Poller, GetNextTimer(p) \/ WakeUp(p) \/ RunCallbacks(p)
      PROVE  LastTimeIsPast'
  <2>1. pPc'[p] # "list" /\ UNCHANGED <<now, m_last_execute_time>>
    BY <1>4 DEF GetNextTimer, WakeUp, RunCallbacks, SetInv, TypeOK, clockVars, managerVars
  <2>2. QED
    BY <2>1
<1>5. CASE Tick
  BY <1>1, <1>5 DEF Tick, managerVars
<1>6. ~SetBack
  BY DEF SetBack, SetInv, TypeOK
<1>7. CASE UNCHANGED vars \/ \E u \in User : UserStep(u) \/ \E t \in Timer : UserCall(u, t)
  <2>1. UNCHANGED <<now, m_last_execute_time, pPc, pNow>>
    BY <1>7 DEF UserStep, UserCall, AddTimer, AddInsert, Tickle, Cancel, Refresh, Reset, vars,
       clockVars, managerVars, pollerVars
  <2>2. QED
    BY <2>1
<1>8. QED
  BY <1>2, <1>3, <1>4, <1>5, <1>6, <1>7 DEF Next, PollerStep

(* So what it takes is due by the time it read, hence by now. *)
LEMMA StepTakesDueTimers ==
  ASSUME SetInv, ClockGoesOn, LastTimeIsPast, [Next]_vars
  PROVE  \A p \in Poller : \A t \in cbs'[p] \ cbs[p] : m_next[t] <= now
<1> SUFFICES ASSUME NEW p \in Poller, NEW t \in cbs'[p] \ cbs[p] PROVE m_next[t] <= now
  OBVIOUS
<1>1. now \in Nat /\ m_last_execute_time \in Nat /\ \A q \in Poller : pNow[q] \in Nat
  BY TimeAssumption DEF SetInv, TypeOK
<1>2. ASSUME NEW q \in Poller, ListExpired(q) PROVE m_next[t] <= now
  <2>1. t \in {e.timer : e \in Expired(pNow[q])}
    BY <1>2 DEF ListExpired, SetInv, TypeOK
  <2>2. m_last_execute_time <= pNow[q] /\ pNow[q] <= now
    BY <1>2 DEF ListExpired, ClockGoesOn, LastTimeIsPast
  <2>3. PICK e \in m_timers : e.timer = t /\ e.key <= pNow[q]
    BY <1>1, <2>1, <2>2 DEF Expired, DetectClockRollover, DueBy
  <2>4. m_next[t] = e.key /\ e.key \in Nat
    BY <2>3 DEF SetInv, SetIsSound, TypeOK
  <2>5. QED
    BY <1>1, <2>2, <2>3, <2>4
<1>3. ASSUME NEW q \in Poller, RunCallbacks(q) PROVE FALSE
  BY <1>3 DEF RunCallbacks, SetInv, TypeOK
<1>4. CASE \/ \E u \in User : UserStep(u) \/ \E x \in Timer : UserCall(u, x)
           \/ \E q \in Poller : GetNextTimer(q) \/ WakeUp(q) \/ ListTime(q)
           \/ Tick \/ SetBack \/ UNCHANGED vars
  BY <1>4 DEF UserStep, UserCall, AddTimer, AddInsert, Tickle, Cancel, Refresh, Reset,
     GetNextTimer, WakeUp, ListTime, Tick, SetBack, vars, pollerVars
<1>5. QED
  BY <1>2, <1>3, <1>4 DEF Next, PollerStep

-----------------------------------------------------------------------------
(* The manager is built: no timers, nobody has begun anything. *)
LEMMA InitInvs == Init => /\ SetInv /\ CallbackIsInOnePlace /\ CancelledHaveNoCallback
                          /\ CancelledNeverRan /\ ClockGoesOn /\ TickledIsWatched /\ SetIsWatched
                          /\ LastTimeIsPast
<1> SUFFICES ASSUME Init
             PROVE  /\ SetInv /\ CallbackIsInOnePlace /\ CancelledHaveNoCallback
                    /\ CancelledNeverRan /\ ClockGoesOn /\ TickledIsWatched /\ SetIsWatched
                    /\ LastTimeIsPast
  OBVIOUS
<1>1. TypeOK
  <2>1. 0 \in 0 .. MaxTime /\ 0 \in 0 .. MaxJumps
    BY TimeAssumption
  <2>2. m_tickled \in BOOLEAN /\ tickle \in BOOLEAN /\ ~m_tickled
    BY Zenon DEF Init
  <2>3. /\ m_next \in [Timer -> Nat] /\ m_ms \in [Timer -> Nat] /\ m_cb \in [Timer -> BOOLEAN]
        /\ pLeft \in [Poller -> Nat \cup {Forever}] /\ ran \in [Timer -> Nat]
        /\ cbs \in [Poller -> SUBSET Timer] /\ pNow \in [Poller -> 0 .. MaxTime]
    BY <2>1 DEF Init
  <2>4. QED
    BY <2>1, <2>2, <2>3 DEF Init, TypeOK
<1>2. SetInv
  BY <1>1 DEF Init, SetInv, CallsKnowTheirTimer, SetHoldsKnown, DueAfterStart, SetIsSound
<1>3. CallbackIsInOnePlace /\ CancelledHaveNoCallback /\ CancelledNeverRan
  BY DEF Init, CancelledNeverRan, CallbackIsInOnePlace, Taken, CancelledHaveNoCallback
<1>4. ~m_tickled
  BY Zenon DEF Init
<1>5. ClockGoesOn /\ TickledIsWatched /\ SetIsWatched /\ LastTimeIsPast
  BY <1>4 DEF Init, ClockGoesOn, TickledIsWatched, SetIsWatched, LastTimeIsPast
<1>6. QED
  BY <1>2, <1>3, <1>5

(* The inductive invariants, whatever the clock does, *)
LEMMA SetInvariance ==
  Spec => [](SetInv /\ CallbackIsInOnePlace /\ CancelledHaveNoCallback /\ CancelledNeverRan)
<1>1. /\ SetInv /\ CallbackIsInOnePlace /\ CancelledHaveNoCallback /\ CancelledNeverRan
      /\ [Next]_vars
      => (SetInv /\ CallbackIsInOnePlace /\ CancelledHaveNoCallback /\ CancelledNeverRan)'
  BY StepKeepsTypeOK, StepKeepsSet, StepKeepsCallback, StepKeepsCancelled,
     StepKeepsCancelledFromRunning DEF SetInv
<1>2. QED
  BY InitInvs, <1>1, PTL DEF Spec

(* and with a clock that is never set back. *)
LEMMA ClockInvariance ==
  ASSUME MaxJumps = 0
  PROVE  Spec => [](SetInv /\ ClockGoesOn /\ TickledIsWatched /\ SetIsWatched)
<1>1. SetInv /\ ClockGoesOn /\ TickledIsWatched /\ SetIsWatched /\ [Next]_vars
      => (SetInv /\ ClockGoesOn /\ TickledIsWatched /\ SetIsWatched)'
  BY StepKeepsTypeOK, StepKeepsSet, StepKeepsClock, StepKeepsWatch DEF SetInv
<1>2. QED
  BY InitInvs, <1>1, PTL DEF Spec

-----------------------------------------------------------------------------
(* Type correctness: in particular no due time, not even one that reset()   *)
(* computes from the last start, is negative.                               *)
THEOREM TypeCorrect == Spec => []TypeOK
<1>1. SetInv => TypeOK
  BY DEF SetInv
<1>2. QED
  BY <1>1, SetInvariance, PTL

(* The set of timers can always be searched by timer and due time.          *)
THEOREM SetStaysSearchable == Spec => []SetIsSound
<1>1. SetInv => SetIsSound
  BY DEF SetInv
<1>2. QED
  BY <1>1, SetInvariance, PTL

(* A callback that does not recur runs at most once, however many pollers   *)
(* and whatever the clock does.                                             *)
THEOREM OneShotsRunOnce == Spec => []OneShotOnce
<1>1. SetInv /\ CallbackIsInOnePlace => OneShotOnce
  <2> SUFFICES ASSUME SetInv, CallbackIsInOnePlace, NEW t \in Timer \ Recurring
               PROVE  ran[t] + Cardinality(Taken(t)) <= 1
    BY DEF OneShotOnce
  <2>1. CASE Taken(t) = {}
    BY <2>1, FS_EmptySet DEF CallbackIsInOnePlace
  <2>2. CASE Taken(t) # {}
    <3>1. PICK p \in Poller : Taken(t) = {p}
      BY <2>2 DEF CallbackIsInOnePlace, Taken
    <3>2. Cardinality(Taken(t)) = 1
      BY <3>1, FS_Singleton
    <3>3. ran[t] = 0
      BY <2>2 DEF CallbackIsInOnePlace
    <3>4. QED
      BY <3>2, <3>3
  <2>3. QED
    BY <2>1, <2>2
<1>2. QED
  BY <1>1, SetInvariance, PTL

(* Once cancel() has returned true, a timer is never taken again; one that  *)
(* does not recur has not run and will not.                                 *)
THEOREM CancelledStayCancelled == Spec => []CancelIsFinal
<1>1. SetInv /\ CancelledHaveNoCallback /\ CancelledNeverRan => CancelIsFinal
  BY DEF SetInv, SetIsSound, CancelledHaveNoCallback, CancelledNeverRan, CancelIsFinal, InSet
<1>2. QED
  BY <1>1, SetInvariance, PTL

(* With a clock that is not set back, somebody always looks after the first *)
(* timer in time: no poller sleeps past it unless another one watches.      *)
THEOREM NobodyOversleeps == ASSUME MaxJumps = 0 PROVE Spec => []NoOversleep
<1>1. SetInv /\ SetIsWatched => NoOversleep
  <2> SUFFICES ASSUME SetInv, SetIsWatched, m_timers # {} PROVE NoOversleep
    BY DEF NoOversleep
  <2>1. First(m_timers) \in m_timers
    BY FirstIsFirst DEF SetInv, TypeOK
  <2>2. QED
    BY <2>1 DEF SetIsWatched, Watching, SleepsInTime, NoOversleep
<1>2. QED
  BY <1>1, ClockInvariance, PTL

(* With a clock that is not set back and a single poller no timer is taken  *)
(* before it is due, although the time is read before the lock is taken.    *)
THEOREM NoTimerIsEarly ==
  ASSUME MaxJumps = 0, \A p, q \in Poller : p = q
  PROVE  Spec => NeverEarly
<1>1. SetInv /\ ClockGoesOn /\ LastTimeIsPast /\ [Next]_vars
      => [\A p \in Poller : \A t \in cbs'[p] \ cbs[p] : m_next[t] <= now]_vars
  BY StepTakesDueTimers
<1>2. SetInv /\ ClockGoesOn /\ LastTimeIsPast /\ [Next]_vars => LastTimeIsPast'
  BY StepKeepsLastTime
<1>3. QED
  BY <1>1, <1>2, InitInvs, ClockInvariance, PTL DEF Spec, NeverEarly
=============================================================================
