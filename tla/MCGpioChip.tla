---------------------------- MODULE MCGpioChip ----------------------------
(* Two threads on a port of two lines, one of which can be an input only;   *)
(* one chip with another label comes first.  An int has two bits, so the    *)
(* lines fill it as 32 lines do in the code.  The threads are alike.        *)
EXTENDS GpioChip, TLC

CONSTANTS t1, t2

SomeThreads == {t1, t2}
Interchangeable == Permutations(SomeThreads)
=============================================================================
