---------------------------- MODULE MemoryPools ----------------------------
(***************************************************************************)
(* utils/memory_pool_lite.*: MemoryPoolLiteImpl, which cuts pieces off     *)
(* blocks and frees them all at its end, and MemoryPoolLiteAllocator, which *)
(* hands out slots of blocks and keeps returned ones on a list that runs   *)
(* through the slots themselves.  The clients of the allocators own the    *)
(* slots they were given, and write to them.                               *)
(***************************************************************************)
EXTENDS Integers, FiniteSets, Sequences

CONSTANTS Sizes,             \* what New() is asked for
          DefaultBlockSize,
          Allocator,         \* the places in which allocator objects are built
          Slots,             \* the slots of one of an allocator's blocks
          MaxPieces, MaxBlocks   \* bounds: pieces cut by New(), and blocks of allocators

ASSUME SizesAssumption == Sizes \subseteq Nat /\ DefaultBlockSize \in Nat \ {0}
ASSUME SlotsAssumption == Slots \in Nat \ {0} /\ MaxBlocks \in Nat

VARIABLES blocks, ptr, left, memory,          \* MemoryPoolLiteImpl
          pieces,                             \* what New() has returned
          currentBlock, currentSlot, freeSlots, \* each allocator's pointers
          prevBlock,                          \* the "next" in the head of each block
          nextSlot,                           \* the "next" in each slot
          alive,                              \* the allocators that exist
          freed,                              \* how often each block was deleted
          held,      \* the clients of each allocator that hold each slot: a number
          movedFrom  \* the allocators moved from

implVars == <<blocks, ptr, left, memory, pieces>>
allocVars == <<currentBlock, currentSlot, freeSlots, prevBlock, nextSlot, freed, alive, held,
               movedFrom>>
poolVars == <<implVars, allocVars>>

Null == <<0, 0>>                       \* nullptr: blocks count from 1
Slot == (1 .. MaxBlocks) \X (1 .. Slots)
Data == <<-1, -1>>                     \* an element where a pointer would be

PoolInit ==
  /\ blocks = <<>> /\ ptr = Null /\ left = 0 /\ memory = 0 /\ pieces = {}
  /\ currentBlock = [a \in Allocator |-> 0]
  /\ currentSlot = [a \in Allocator |-> Null] /\ freeSlots = [a \in Allocator |-> Null]
  /\ prevBlock = <<>> /\ nextSlot = [s \in Slot |-> Data]
  /\ freed = [b \in 1 .. MaxBlocks |-> 0]
  /\ alive = {} /\ held = [a \in Allocator |-> [s \in Slot |-> 0]] /\ movedFrom = {}

(* MemoryPoolLiteImpl: a block is its size, a pointer a block and an offset. *)
(* The rest of a block becomes the current piece, unless there is none.     *)
NewBlock(size) ==
  LET allocated == IF size > DefaultBlockSize THEN size ELSE DefaultBlockSize
      block == Len(blocks) + 1
  IN  /\ blocks' = Append(blocks, allocated)
      /\ memory' = memory + allocated
      /\ IF allocated > size THEN ptr' = <<block, size>> /\ left' = allocated - size
                             ELSE UNCHANGED <<ptr, left>>
Fits(size) == left >= size
Returned(size) == IF Fits(size) /\ ptr # Null THEN ptr ELSE <<Len(blocks) + 1, 0>>
New(size) ==
  /\ Cardinality(pieces) < MaxPieces
  /\ \/ /\ Fits(size) /\ ptr # Null
        /\ left' = left - size /\ ptr' = <<ptr[1], ptr[2] + size>>
        /\ UNCHANGED <<blocks, memory>>
     \/ Fits(size) /\ ptr = Null /\ NewBlock(0)
     \/ ~Fits(size) /\ NewBlock(size)
  /\ pieces' = pieces \cup {[at |-> Returned(size), size |-> size, no |-> Cardinality(pieces)]}
  /\ UNCHANGED allocVars

(* The constructors.  A copy starts empty, whatever it copies; a move takes  *)
(* the pointers over and clears only one of them in the source.  The slots   *)
(* that clients hold go with it, as the elements of a container do, and an   *)
(* allocator moved from is then only destroyed or assigned to.               *)
Usable(a) == a \in alive \ movedFrom
Holds(a, s) == held[a][s] > 0
Create(a) ==
  /\ a \notin alive /\ alive' = alive \cup {a}
  /\ currentBlock' = [currentBlock EXCEPT ![a] = 0]
  /\ currentSlot' = [currentSlot EXCEPT ![a] = Null]
  /\ freeSlots' = [freeSlots EXCEPT ![a] = Null]
  /\ UNCHANGED <<implVars, prevBlock, nextSlot, freed, held, movedFrom>>
Handover(a, other) ==
  /\ currentSlot' = [currentSlot EXCEPT ![a] = currentSlot[other]]
  /\ freeSlots' = [freeSlots EXCEPT ![a] = freeSlots[other]]
  /\ held' = [held EXCEPT ![a] = held[other], ![other] = held[a]]
  /\ movedFrom' = (movedFrom \ {a}) \cup {other}
(* Mutant: the source keeps its blocks. *)
SharedBlock(a, other) == [currentBlock EXCEPT ![a] = currentBlock[other]]
TakenBlock(a, other) == [currentBlock EXCEPT ![a] = currentBlock[other], ![other] = 0]
MoveConstruct(a, other) ==
  /\ a \notin alive /\ Usable(other) /\ alive' = alive \cup {a}
  /\ currentBlock' = TakenBlock(a, other)
  /\ Handover(a, other)
  /\ UNCHANGED <<implVars, prevBlock, nextSlot, freed>>

(* The assignment swaps the blocks, but copies the other pointers.  Clients  *)
(* have returned the slots of the target before.                             *)
SwappedBlocks(a, other) ==
  [currentBlock EXCEPT ![a] = currentBlock[other], ![other] = currentBlock[a]]
MoveAssign(a, other) ==
  /\ a \in alive /\ Usable(other) /\ a # other /\ \A s \in Slot : ~Holds(a, s)
  /\ currentBlock' = SwappedBlocks(a, other)
  /\ Handover(a, other)
  /\ UNCHANGED <<implVars, prevBlock, nextSlot, alive, freed>>

(* The blocks of a chain, last one first; the destructor deletes them.       *)
Chain(a) ==
  LET From[b \in 0 .. Len(prevBlock)] == IF b = 0 THEN {} ELSE {b} \cup From[prevBlock[b]]
  IN  From[currentBlock[a]]
Destroy(a) ==
  /\ a \in alive /\ alive' = alive \ {a}
  /\ freed' = [b \in 1 .. MaxBlocks |-> IF b \in Chain(a) THEN freed[b] + 1 ELSE freed[b]]
  /\ nextSlot' = [s \in Slot |-> IF s[1] \in Chain(a) THEN Data ELSE nextSlot[s]]
  /\ currentBlock' = [currentBlock EXCEPT ![a] = 0]
  /\ currentSlot' = [currentSlot EXCEPT ![a] = Null]
  /\ freeSlots' = [freeSlots EXCEPT ![a] = Null]
  /\ held' = [held EXCEPT ![a] = [s \in Slot |-> 0]] /\ movedFrom' = movedFrom \ {a}
  /\ UNCHANGED <<implVars, prevBlock>>

(* allocate(), and newElement() around it: a slot of the list, or the next   *)
(* one of the block, or the first of a new block.  The client writes to it.  *)
Exhausted(a) == currentSlot[a] = Null \/ currentSlot[a][2] > Slots
Give(a, slot) == held' = [held EXCEPT ![a][slot] = @ + 1]
Allocate(a) ==
  /\ Usable(a) /\ Cardinality({s \in Slot : Holds(a, s)}) < MaxPieces
  /\ \/ /\ freeSlots[a] \in Slot
        /\ Give(a, freeSlots[a])
        /\ freeSlots' = [freeSlots EXCEPT ![a] = nextSlot[freeSlots[a]]]
        /\ nextSlot' = [nextSlot EXCEPT ![freeSlots[a]] = Data]
        /\ UNCHANGED <<currentBlock, currentSlot, prevBlock>>
     \/ /\ freeSlots[a] = Null /\ ~Exhausted(a)
        /\ Give(a, currentSlot[a])
        /\ currentSlot' = [currentSlot EXCEPT ![a][2] = @ + 1]
        /\ nextSlot' = [nextSlot EXCEPT ![currentSlot[a]] = Data]
        /\ UNCHANGED <<currentBlock, freeSlots, prevBlock>>
     \/ /\ freeSlots[a] = Null /\ Exhausted(a) /\ Len(prevBlock) < MaxBlocks
        /\ LET block == Len(prevBlock) + 1
           IN  /\ prevBlock' = Append(prevBlock, currentBlock[a])
               /\ currentBlock' = [currentBlock EXCEPT ![a] = block]
               /\ Give(a, <<block, 1>>)
               /\ currentSlot' = [currentSlot EXCEPT ![a] = <<block, 2>>]
        /\ UNCHANGED <<freeSlots, nextSlot>>
  /\ UNCHANGED <<implVars, alive, freed, movedFrom>>

(* deallocate(), and deleteElement() around it.                              *)
ToList(a, slot) == [nextSlot EXCEPT ![slot] = freeSlots[a]]
Deallocate(a) ==
  /\ Usable(a)
  /\ \E s \in Slot :
       /\ Holds(a, s) /\ held' = [held EXCEPT ![a][s] = @ - 1]
       /\ nextSlot' = ToList(a, s)
       /\ freeSlots' = [freeSlots EXCEPT ![a] = s]
  /\ UNCHANGED <<implVars, currentBlock, currentSlot, prevBlock, alive, freed, movedFrom>>

PieceNext == \E size \in Sizes : New(size)
AllocatorNext ==
  \/ \E a \in Allocator : Create(a) \/ Destroy(a) \/ Allocate(a) \/ Deallocate(a)
  \/ \E a, other \in Allocator : MoveConstruct(a, other) \/ MoveAssign(a, other)
PoolNext == PieceNext \/ AllocatorNext
-----------------------------------------------------------------------------
(* memory_pool_lite.h:51-83: no two pieces overlap and none leaves its       *)
(* block; what is left over is behind them all.                              *)
PiecesAreDisjoint ==
  /\ \A p \in pieces : p.at[2] + p.size <= blocks[p.at[1]]
  /\ \A p, q \in pieces : p # q /\ p.at[1] = q.at[1] =>
       p.at[2] + p.size <= q.at[2] \/ q.at[2] + q.size <= p.at[2]
  /\ ptr # Null => ptr[2] + left <= blocks[ptr[1]]

(* memory_pool_lite.cc:76-97: a slot belongs to one client at a time and is  *)
(* not on a list meanwhile; a list leads through slots of its own blocks.    *)
LeadsOn(a, S) ==
  /\ freeSlots[a] \in Slot => freeSlots[a] \in S
  /\ \A s \in S : nextSlot[s] \in Slot => nextSlot[s] \in S
Listed(a) == {s \in Slot : \A S \in SUBSET Slot : LeadsOn(a, S) => s \in S}
SlotsHaveOneOwner ==
  /\ \A a, b \in alive, s \in Slot : Holds(a, s) => held[a][s] = 1 /\ (a = b \/ ~Holds(b, s))
  /\ \A a \in alive \ movedFrom : \A s \in Listed(a) : ~Holds(a, s) /\ s[1] \in Chain(a)

(* memory_pool_lite.cc:38-57: through all copies and moves every block stays *)
(* in one chain and is deleted once; what clients hold outlives no block.    *)
BlocksAreFreedOnce ==
  /\ \A b \in 1 .. Len(prevBlock) :
       Cardinality({a \in alive : b \in Chain(a)}) + freed[b] = 1
  /\ \A a \in alive, s \in Slot : Holds(a, s) => s[1] \in Chain(a)
=============================================================================
