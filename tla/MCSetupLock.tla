---------------------------- MODULE MCSetupLock ----------------------------
\* Two threads in one process, one in a second, one in a third that may not
\* open the file.
EXTENDS SetupLock, TLC

CONSTANTS p1, p2, p3, a1, a2, b1, c1

MCProcOf == a1 :> p1 @@ a2 :> p1 @@ b1 :> p2 @@ c1 :> p3
=============================================================================
