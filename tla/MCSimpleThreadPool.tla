------------------------- MODULE MCSimpleThreadPool -------------------------
(* Model checking SimpleThreadPool: two workers; two callers share three    *)
(* tasks, one of which enqueues a fourth when it runs.                      *)
EXTENDS SimpleThreadPool, TLC

CONSTANTS k1, k2, k3, k4

MCTask == {k1, k2, k3, k4}
MCChild == k1 :> k4 @@ [t \in {k2, k3, k4} |-> NoTask]
=============================================================================
