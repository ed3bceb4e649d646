---------------------------- MODULE MCSpscQueue ----------------------------
(* Model checking SpscQueue: two elements, a ring of three slots, enough    *)
(* pushes for both indices to wrap around.                                  *)
EXTENDS SpscQueue
=============================================================================
