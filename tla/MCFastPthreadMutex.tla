------------------------- MODULE MCFastPthreadMutex -------------------------
(* Model checking FastPthreadMutex: three threads, so that one can sleep    *)
(* while two others race on the fast path.                                  *)
EXTENDS FastPthreadMutex
=============================================================================
