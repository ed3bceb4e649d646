--------------------------- MODULE StealableDeque ---------------------------
(***************************************************************************)
(* What the work stealing queue of concurrent/work_stealing_queue.h is     *)
(* for: a line of work items.  Its owner adds and removes at the new end,  *)
(* thieves remove at the old end, and every removal hands the item to      *)
(* exactly one of them.  Calls that return false are stuttering steps.     *)
(***************************************************************************)
EXTENDS Integers, Sequences, SequencesExt

CONSTANT Item

VARIABLES line,             \* the items waiting, oldest first
          popped, stolen    \* how often each item went to the owner, to a thief

dequeVars == <<line, popped, stolen>>

DequeInit == /\ line = <<>>
             /\ popped = [i \in Item |-> 0]
             /\ stolen = [i \in Item |-> 0]

Add(i) == /\ line' = Append(line, i)
          /\ UNCHANGED <<popped, stolen>>

TakeNewest == /\ line # <<>>
              /\ popped' = [popped EXCEPT ![line[Len(line)]] = @ + 1]
              /\ line' = Front(line)
              /\ UNCHANGED stolen

TakeOldest == /\ line # <<>>
              /\ stolen' = [stolen EXCEPT ![line[1]] = @ + 1]
              /\ line' = Tail(line)
              /\ UNCHANGED popped

DequeNext == TakeNewest \/ TakeOldest \/ \E i \in Item : Add(i)

DequeSpec == DequeInit /\ [][DequeNext]_dequeVars
=============================================================================
