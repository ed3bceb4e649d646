----------------------------- MODULE ByteArrays -----------------------------
(***************************************************************************)
(* utils/bytearray.*: ByteArray, a chain of nodes of one size with a       *)
(* cursor.  Of the class's methods, the source defines those below.  A     *)
(* node is its number in the chain, and a byte a number never used before. *)
(***************************************************************************)
EXTENDS Integers, Sequences

CONSTANTS BaseSize,            \* bytes in a node
          MaxCall, MaxWritten  \* bounds: bytes in one call, and in all writes

ASSUME BaseSizeAssumption == BaseSize \in Nat \ {0} /\ MaxCall \in Nat /\ MaxWritten \in Nat

VARIABLES array,     \* the members; cur is a node or 0, the null pointer
          contents,  \* what each place of the chain holds
          written,   \* how many bytes were written since the start
          expected,  \* what was last written at each position, 0 if nothing
          fault      \* has a call followed the null pointer?

arrayVars == <<array, contents, written, expected, fault>>

MaxNodes == MaxWritten \div BaseSize + 2
Place == (1 .. MaxNodes) \X (0 .. BaseSize - 1)

ArrayInit ==
  /\ array = [position |-> 0, capacity |-> BaseSize, size |-> 0, nodes |-> 1, cur |-> 1]
  /\ contents = [p \in Place |-> 0] /\ written = 0
  /\ expected = [pos \in 0 .. MaxNodes * BaseSize - 1 |-> 0] /\ fault = FALSE

NodeAfter(a, node) == IF node < a.nodes THEN node + 1 ELSE 0

(* addCapacity(): new nodes at the end of the chain, if size does not fit;   *)
(* the first of them is the current one if nothing was left.                 *)
(* Mutant: the cursor stays null when the chain grows. *)
GrowsBehindCursor(a, size) ==
  LET left == a.capacity - a.position
      count == (size - left + BaseSize - 1) \div BaseSize
  IN  IF left >= size THEN a
      ELSE [a EXCEPT !.nodes = @ + count, !.capacity = @ + count * BaseSize]
AddCapacity(a, size) ==
  LET left == a.capacity - a.position
      count == (size - left + BaseSize - 1) \div BaseSize
  IN  IF left >= size THEN a
      ELSE [a EXCEPT !.nodes = @ + count, !.capacity = @ + count * BaseSize,
                     !.cur = IF left = 0 THEN a.nodes + 1 ELSE @]

(* The loop of write() and read(), which keeps a node, a position in it and  *)
(* what is left to do: the places size bytes go to or come from, and the     *)
(* cursor after them.                                                        *)
Loop == [node : 0 .. MaxNodes, npos : 0 .. BaseSize - 1, left : 0 .. MaxCall]
Walk(a, size) ==
  LET Places(at, n) == [k \in 1 .. n |-> <<at.node, at.npos + k - 1>>]
      Go[at \in Loop] ==
        LET ncap == BaseSize - at.npos
        IN  IF at.node = 0 THEN [places |-> <<>>, cur |-> 0, fault |-> TRUE]
            ELSE IF at.left = 0 THEN [places |-> <<>>, cur |-> at.node, fault |-> FALSE]
            ELSE IF ncap >= at.left
            THEN [places |-> Places(at, at.left), fault |-> FALSE,
                  cur |-> IF at.npos + at.left = BaseSize THEN NodeAfter(a, at.node)
                                                          ELSE at.node]
            ELSE LET rest == Go[[node |-> NodeAfter(a, at.node), npos |-> 0,
                                 left |-> at.left - ncap]]
                 IN  [rest EXCEPT !.places = Places(at, ncap) \o @]
  IN  Go[[node |-> a.cur, npos |-> a.position % BaseSize, left |-> size]]

Write(size) ==
  /\ ~fault /\ size > 0 /\ written + size <= MaxWritten /\ array.position + size <= MaxWritten
  /\ LET grown == AddCapacity(array, size)
         walk == Walk(grown, size)
         position == array.position + size
     IN  /\ array' = [grown EXCEPT !.position = position, !.cur = walk.cur,
                                   !.size = IF position > @ THEN position ELSE @]
         /\ contents' = [p \in Place |->
              IF \E k \in 1 .. Len(walk.places) : walk.places[k] = p
              THEN written + CHOOSE k \in 1 .. Len(walk.places) : walk.places[k] = p
              ELSE contents[p]]
         /\ expected' = [pos \in DOMAIN expected |->
              IF pos \in array.position .. position - 1
              THEN written + pos - array.position + 1 ELSE expected[pos]]
         /\ fault' = walk.fault
  /\ written' = written + size

(* getReadSize() in the guard; the bytes are read where Walk() leads.        *)
Readable(size) == size <= array.size - array.position
Read(size) ==
  /\ ~fault /\ Readable(size)
  /\ LET walk == Walk(array, size)
     IN  /\ fault' = walk.fault
         /\ array' = IF walk.fault THEN array
                     ELSE [array EXCEPT !.position = @ + size, !.cur = walk.cur]
  /\ UNCHANGED <<contents, written, expected>>

(* clear() deletes all nodes but the first.                                  *)
ClearedSize(a) == a.size
Clear ==
  /\ ~fault
  /\ array' = [array EXCEPT !.position = 0, !.capacity = BaseSize, !.nodes = 1, !.cur = 1,
                            !.size = ClearedSize(array)]
  /\ contents' = [p \in Place |-> IF p[1] = 1 THEN contents[p] ELSE 0]
  /\ expected' = [pos \in DOMAIN expected |-> IF pos < BaseSize THEN expected[pos] ELSE 0]
  /\ UNCHANGED <<written, fault>>

ArrayNext == Clear \/ \E size \in 0 .. MaxCall : Write(size) \/ Read(size)
-----------------------------------------------------------------------------
(* bytearray.cc:58-149: through writes that grow the chain, reads and        *)
(* clear(), the cursor is the node that holds the position, or null at the   *)
(* end of the chain.                                                         *)
CursorIsAtPosition ==
  /\ array.capacity = array.nodes * BaseSize /\ array.position <= array.capacity
  /\ array.cur = IF array.position = array.capacity THEN 0
                 ELSE array.position \div BaseSize + 1

(* bytearray.cc:88-149: what was written at a position is what a read of     *)
(* that position finds, whatever nodes it was split over.                    *)
BytesStayInPlace ==
  \A pos \in DOMAIN expected :
    expected[pos] = contents[<<pos \div BaseSize + 1, pos % BaseSize>>]

(* bytearray.cc:123-149: a read follows the null pointer only when clear()   *)
(* has left more size than capacity, or when it starts at the end.           *)
FaultsAreKnown ==
  fault => array.size > array.capacity \/ array.position = array.capacity

(* bytearray.h:326-330: clear() leaves position and size 0.                  *)
ClearEmpties == [][Clear => array'.position = 0 /\ array'.size = 0]_arrayVars
=============================================================================
