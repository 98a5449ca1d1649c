---------------------------- MODULE MCBusCalls ----------------------------
(* Two threads of a process on one kind of bus; the run has no liveness    *)
(* property, and the threads are interchangeable.                          *)
EXTENDS BusCalls, TLC

CONSTANTS t1, t2

SomeThreads == {t1, t2}
Interchangeable == Permutations(SomeThreads)
=============================================================================
