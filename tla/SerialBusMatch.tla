-------------------------- MODULE SerialBusMatch --------------------------
(***************************************************************************)
(* How GetInfoFromSerialBusConfFile (src/linux_support.c:301-396) decides   *)
(* which bus of the system each entry of i2c.conf or smbus.conf means.  An  *)
(* entry names a bus and a unit: among the buses of that name, in the order *)
(* of their numbers, the unit-th from 0.  readdir lists the buses in any    *)
(* order, so when a smaller number comes late it takes the place of the     *)
(* greater one an entry has, and the greater one is placed again.           *)
(***************************************************************************)
EXTENDS Integers, Sequences, FiniteSets, FiniteSetsExt

CONSTANTS
  Buses,       \* numbers of the i2c-N directories
  Names,       \* names of buses
  IsPrefix,    \* pairs of names: the first is how the second begins
  Systems,     \* the systems looked at: functions from Buses to Names
  Confs,       \* the configurations: sequences of [name, unit]
  ReadMayFail  \* a name may be unreadable: the bus is skipped, or the scan ends

ASSUME BusesAssumption == Buses \subseteq Nat
ASSUME PrefixAssumption ==
  IsPrefix \subseteq Names \X Names /\ \A n \in Names : <<n, n>> \in IsPrefix
ASSUME SystemsAssumption == Systems \subseteq [Buses -> Names]
ASSUME ConfsAssumption == Confs \subseteq Seq([name : Names, unit : Nat])
ASSUME ReadMayFailAssumption == ReadMayFail \in BOOLEAN

VARIABLES
  named,      \* the name of each bus of this system
  conf,       \* the entries of this configuration
  todo,       \* directories readdir has not returned yet
  read,       \* history: the buses whose names could be read
  data,       \* the name in the directory being read
  cur,        \* real_bus_count: the number being placed, or NoBus between two
  realNr,     \* realNr[i]: the bus entry i has, or NoBus
  units,      \* units[i]: how many buses of its name entry i has counted
  sbArrCount, \* entries that reached their unit
  result      \* what the scan comes to: "none" while it runs

matchVars == <<named, conf, todo, read, data, cur, realNr, units, sbArrCount, result>>

NoBus == -1
Index == DOMAIN conf

MatchTypeOK ==
  /\ named \in Systems /\ conf \in Confs
  /\ todo \subseteq Buses
  /\ read \subseteq Buses \ todo
  /\ data \in Names \cup {"none"}
  /\ cur \in Buses \cup {NoBus}
  /\ realNr \in [Index -> Buses \cup {NoBus}]
  /\ units \in [Index -> Nat]
  /\ sbArrCount \in 0 .. Len(conf)
  /\ result \in {"none", "cut", "success", "retrieval_error"}

MatchInit ==
  /\ named \in Systems
  /\ conf \in Confs
  /\ todo = Buses
  /\ read = {}
  /\ data = "none"
  /\ cur = NoBus
  /\ realNr = [i \in Index |-> NoBus]
  /\ units = [i \in Index |-> 0]
  /\ sbArrCount = 0
  /\ result = "none"

\* strncmp over the length of the configured name.
Matches(i) == <<conf[i].name, data>> \in IsPrefix

\* Broken: the numbers are taken in the order of readdir.
DisplacedNever == {}

\* Entries with a number greater than cur: cur takes its place.
Displaced == {i \in Index : Matches(i) /\ realNr[i] > cur}

\* Other entries of the name take cur until they have passed their unit.
Taken == {i \in Index \ Displaced : Matches(i) /\ units[i] <= conf[i].unit}

\* Broken: every bus on the way to the unit counts as found.
ReachedEarly == Taken

\* Entries that reach their unit with cur.
Reached == {i \in Taken : units[i] = conf[i].unit}

\* Broken: the number an entry loses is not placed again.
NeverPlacedAgain == NoBus

\* Broken: without a displaced number the last one is placed again.
PlacedNextOrSame == IF Displaced = {} THEN cur ELSE realNr[Max(Displaced)]

\* The displaced number to place next: the last entry's if there are several.
PlacedNext == IF Displaced = {} THEN NoBus ELSE realNr[Max(Displaced)]

-----------------------------------------------------------------------------
\* readdir returns bus b and its name is read, or cannot be and b is skipped.
ReadEntry(b) ==
  /\ result = "none" /\ cur = NoBus
  /\ b \in todo
  /\ todo' = todo \ {b}
  /\ \/ cur' = b /\ data' = named[b] /\ read' = read \cup {b}
     \/ ReadMayFail /\ UNCHANGED <<cur, data, read>>
  /\ UNCHANGED <<named, conf, realNr, units, sbArrCount, result>>

\* The name of bus b may not be read at all, and the scan ends there: the entries
\* and the counter are left as they are (see Listed of BusCalls).
CutShort(b) ==
  /\ result = "none" /\ cur = NoBus
  /\ b \in todo
  /\ ReadMayFail
  /\ result' = "cut"
  /\ UNCHANGED <<named, conf, todo, read, data, cur, realNr, units, sbArrCount>>

\* One round of the do-while loop over the entries.  0 ends the loop: a bus 0
\* cannot be displaced, so NoBus stands for it.
Pass ==
  /\ cur # NoBus
  /\ realNr' = [i \in Index |-> IF i \in Displaced \cup Taken THEN cur ELSE realNr[i]]
  /\ units' = [i \in Index |-> IF i \in Taken THEN units[i] + 1 ELSE units[i]]
  /\ sbArrCount' = sbArrCount + Cardinality(Reached)
  /\ cur' = PlacedNext
  /\ UNCHANGED <<named, conf, todo, read, data, result>>

\* readdir is at its end: every entry must have reached its unit.
Finish ==
  /\ result = "none" /\ cur = NoBus /\ todo = {}
  /\ result' = IF sbArrCount = Len(conf) THEN "success" ELSE "retrieval_error"
  /\ UNCHANGED <<named, conf, todo, read, data, cur, realNr, units, sbArrCount>>

MatchNext == (\E b \in Buses : ReadEntry(b) \/ CutShort(b)) \/ Pass \/ Finish

MatchSpec == MatchInit /\ [][MatchNext]_matchVars /\ WF_matchVars(MatchNext)

-----------------------------------------------------------------------------
\* The buses read that an entry's name fits, and the one of them it means.
Fitting(i) == {b \in read : <<conf[i].name, named[b]>> \in IsPrefix}
Meant(i, b) ==
  b \in Fitting(i) /\ Cardinality({c \in Fitting(i) : c < b}) = conf[i].unit

\* When the scan succeeds every entry has the bus that its name and unit mean
\* among the readable ones, whatever order readdir chose
\* (docs/CONFIGURATION_FILES_FORMAT:363-366, src/linux_support.c:361-382).
RightBus == result = "success" => \A i \in Index : Meant(i, realNr[i])

\* The scan fails only when an entry means no readable bus of the system
\* (src/linux_support.c:388-392).
PresentMeansSuccess ==
  result = "retrieval_error" => \E i \in Index : \A b \in read : ~Meant(i, b)

\* Placing displaced numbers again comes to an end (src/linux_support.c:361-382).
Terminates == <>(result # "none")
=============================================================================
