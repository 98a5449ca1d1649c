--------------------------- MODULE MCWatchdogKom ---------------------------
\* A process of two threads and one of one, and Setups with right and wrong modes of
\* stages 0 and 1.
EXTENDS WatchdogKom, TLC

CONSTANTS p1, p2, a1, a2, b1

Setup(s, m) == [op |-> "setup", stage |-> s, mode |-> m]
MCRequests ==
  { [op |-> "enable"], Setup(0, "reset"), Setup(0, "interrupt"), Setup(0, "disable"),
    Setup(1, "reset"), Setup(1, "interrupt") }

TwoAndOne == a1 :> p1 @@ a2 :> p1 @@ b1 :> p2

\* No call reads the card back, so states that differ in the card alone go on alike.
WithoutCard ==
  <<lockVars, callVars, keapiEvtconfig, file, got, stages>>

\* The two threads of p1 are alike.
Twins == Permutations({a1, a2})
=============================================================================
