--------------------------- MODULE MCFiberTimers ---------------------------
(* Model checking FiberTimers: a timer that recurs and one that does not.   *)
(* The pollers are alike, and no property tells them apart.                 *)
EXTENDS FiberTimers, TLC

PollersAlike == Permutations(Poller)
=============================================================================
