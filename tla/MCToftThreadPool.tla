-------------------------- MODULE MCToftThreadPool --------------------------
(* Model checking ToftThreadPool: two workers; two callers share three      *)
(* tasks, one of which adds a fourth when it runs.                          *)
EXTENDS ToftThreadPool, TLC

CONSTANTS k1, k2, k3, k4

MCTask == {k1, k2, k3, k4}
MCChild == k1 :> k4 @@ [task \in {k2, k3, k4} |-> NoTask]
=============================================================================
