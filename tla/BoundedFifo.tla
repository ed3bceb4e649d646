---------------------------- MODULE BoundedFifo ----------------------------
(***************************************************************************)
(* What the single-producer single-consumer queue of                       *)
(* concurrent/lockfree_queue.h promises its two users: a bounded FIFO.     *)
(* Every element goes in once, stays in line, and comes out once, and at   *)
(* most Capacity elements are in line.  Calls that return false are        *)
(* stuttering steps here.                                                  *)
(***************************************************************************)
EXTENDS Integers, Sequences

CONSTANTS Elem,      \* the elements that may be pushed
          Capacity   \* how many elements the queue holds, at least one

VARIABLES line,   \* the elements in the queue, oldest first
          taken   \* the elements handed to the consumer, in the order it got them

fifoVars == <<line, taken>>

FifoTypeOK == line \in Seq(Elem) /\ taken \in Seq(Elem)

FifoInit == line = <<>> /\ taken = <<>>

Put(e) == /\ Len(line) < Capacity
          /\ line' = Append(line, e)
          /\ UNCHANGED taken

Take == /\ line # <<>>
        /\ taken' = Append(taken, Head(line))
        /\ line' = Tail(line)

FifoNext == Take \/ \E e \in Elem : Put(e)

FifoSpec == FifoInit /\ [][FifoNext]_fifoVars
=============================================================================
