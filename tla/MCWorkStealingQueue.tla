------------------------ MODULE MCWorkStealingQueue ------------------------
(* Model checking WorkStealingQueue: init() is tried with 0, 2 and 3, so    *)
(* that the ring has two slots.                                             *)
EXTENDS WorkStealingQueue

MCInitArgs == {0, 2, 3}
=============================================================================
