--------------------------- MODULE MCGpioConfig ---------------------------
(* Two threads of a process, every file of at most MaxPorts ports. *)
EXTENDS GpioConfig

CONSTANTS t1, t2

SomeThreads == {t1, t2}
=============================================================================
