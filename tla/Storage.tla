------------------------------ MODULE Storage ------------------------------
(***************************************************************************)
(* The classes of ds/ and utils/ that keep bytes, elements, memory or file *)
(* descriptors, side by side.  They have nothing to do with each other: a  *)
(* step of the whole is a step of one of them.                             *)
(***************************************************************************)
EXTENDS MemoryPools, ByteArrays, RingBuffers, FdGuards

storageVars == <<poolVars, arrayVars, ringVars, fdVars>>

StorageInit == PoolInit /\ ArrayInit /\ RingInit /\ FdInit

StoragePart == {"pieces", "allocators", "array", "ring", "guards"}
StepOf(part) ==
  \/ part = "pieces" /\ PieceNext /\ UNCHANGED <<arrayVars, ringVars, fdVars>>
  \/ part = "allocators" /\ AllocatorNext /\ UNCHANGED <<arrayVars, ringVars, fdVars>>
  \/ part = "array" /\ ArrayNext /\ UNCHANGED <<poolVars, ringVars, fdVars>>
  \/ part = "ring" /\ RingNext /\ UNCHANGED <<poolVars, arrayVars, fdVars>>
  \/ part = "guards" /\ FdNext /\ UNCHANGED <<poolVars, arrayVars, ringVars>>
StorageNext == \E part \in StoragePart : StepOf(part)

StorageSpec == StorageInit /\ [][StorageNext]_storageVars
-----------------------------------------------------------------------------
(* utils/bytearray.cc, ds/ring_buffer.h: a byte is found where it was       *)
(* written and an element in its turn, over every boundary of the buffers:  *)
(* the ends of nodes, and the end of the ring.  Nothing is said of a ring   *)
(* after a resize() with its writer not at 0: its copy leaves the buffer.   *)
BuffersKeepOrder ==
  CursorIsAtPosition /\ BytesStayInPlace /\ FaultsAreKnown /\ RingKeepsLine

(* utils/memory_pool_lite.*, fd_utils.h: through copies, moves and returns  *)
(* memory and descriptors have one owner and are given back once.           *)
MemoryHasOneOwner ==
  PiecesAreDisjoint /\ SlotsHaveOneOwner /\ BlocksAreFreedOnce /\ FdsHaveOneOwner
=============================================================================
