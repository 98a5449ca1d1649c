---------------------------- MODULE MCGpioSysfs ----------------------------
(* Two threads and a port of two pins, so that a pin comes after another one. *)
EXTENDS GpioSysfs, TLC

CONSTANTS t1, t2

SomeThreads == {t1, t2}
AnyThread == Permutations(SomeThreads)
=============================================================================
