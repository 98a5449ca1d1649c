------------------------- MODULE MCSerialBusMatch -------------------------
\* Buses with gaps between their numbers, bus 0 among them; every system in
\* which a name is carried by at most MaxSame buses and every configuration of
\* at most three entries with units up to MaxUnit.
EXTENDS SerialBusMatch

CONSTANTS MaxSame, MaxUnit

Same == {<<n, n>> : n \in Names}

MCSystems ==
  {s \in [Buses -> Names] :
     \A n \in Names : Cardinality({b \in Buses : s[b] = n}) <= MaxSame}

MCConfs ==
  UNION {[1 .. k -> [name : Names, unit : 0 .. MaxUnit]] : k \in 1 .. 3}
=============================================================================
