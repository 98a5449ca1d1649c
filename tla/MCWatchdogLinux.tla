-------------------------- MODULE MCWatchdogLinux --------------------------
\* Clients of a linux-like watchdog: a process of two threads and one of one, and what
\* they call.
EXTENDS WatchdogLinux, TLC

CONSTANTS p1, p2, a1, a2, b1

TwoAndOne == a1 :> p1 @@ a2 :> p1 @@ b1 :> p2

Simple(op) == [op |-> op, stage |-> 0, timeout |-> 0, mode |-> "reset"]
Setup(s, t, m) == [op |-> "setup", stage |-> s, timeout |-> t, mode |-> m]

\* Enable, the call that only reads the configuration, and Setups that arm the
\* card with rounded seconds, that keep it off, and that are refused.
SomeRequests ==
  { Simple("enable"), Simple("caps"), Setup(0, 2999, "reset"),
    Setup(0, 5000, "disable"), Setup(1, 1000, "reset") }

\* The driver knows 0, 1 and 3 seconds.
MCGranted(R) ==
  [s \in {r.timeout \div 1000 : r \in R} |-> IF s \in {0, 1} THEN s ELSE 3]
SomeGranted == MCGranted(SomeRequests)
=============================================================================
