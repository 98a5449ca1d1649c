---------------------------- MODULE GpioConfig ----------------------------
(***************************************************************************)
(* How the threads of a process come to the ports of gpio.conf              *)
(* (src/gpio_pins.c:28-243).  The first call that finds no ports loads the  *)
(* file under pthread_mutex_trylock; everybody else reads gpPortArr and     *)
(* gpPortArrCount without the mutex, while they are filled too.  When the   *)
(* file is absent GetGpioConfig returns with the mutex locked, and when it  *)
(* is wrong what was loaded is cleared after the mutex has been released.   *)
(***************************************************************************)
EXTENDS Integers, FiniteSets

CONSTANTS
  Threads,      \* threads of the process
  NoThread,     \* the mutex is free
  MaxPorts,     \* bound: ports of the file, and port numbers asked for
  LoadMayFail   \* access and json_load_file may fail

ASSUME NoThreadAssumption == NoThread \notin Threads
ASSUME MaxPortsAssumption == MaxPorts \in Nat
ASSUME LoadMayFailAssumption == LoadMayFail \in BOOLEAN

VARIABLES
  conf,            \* the file: its number of ports, and how many are well-formed
  gpio_mutex,      \* the thread that holds it
  gpPortArr,       \* the number of ports the array has room for, or Null
  filled,          \* the ports of that array that have been filled
  gpPortArrCount,
  at,              \* at[t]: where t is in its call
  portNr,          \* portNr[t]: the port asked for, or Null for the count alone
  answer,          \* answer[t]: what t's call returned, or is about to return
  loads,           \* history: "none", "one", or "more" when a load came after
                   \* another one, or one failed
  leaver           \* history: the thread that left GetGpioConfig with the mutex

lock == <<gpio_mutex, leaver>>
ports == <<gpPortArr, filled, gpPortArrCount, loads>>
calls == <<at, portNr, answer>>
configVars == <<conf, lock, ports, calls>>

Null == -1
Absent == [ports |-> 0, good |-> -1]
Files == {Absent} \cup {f \in [ports : 0 .. MaxPorts, good : 0 .. MaxPorts] : f.good <= f.ports}

ConfigPlaces == {"idle", "check", "trylock", "access", "parse", "ports", "raise", "unlock",
           "clearCount", "clearArr", "count", "deref"}
Loading == {"access", "parse", "ports", "raise", "unlock"}
Results == {"none", "success", "busy_collision", "error", "param_error"}

ConfigTypeOK ==
  /\ conf \in Files
  /\ gpio_mutex \in Threads \cup {NoThread}
  /\ gpPortArr \in 0 .. MaxPorts \cup {Null}
  /\ filled \in 0 .. MaxPorts
  /\ gpPortArrCount \in Nat
  /\ at \in [Threads -> ConfigPlaces]
  /\ portNr \in [Threads -> 0 .. MaxPorts \cup {Null}]
  /\ answer \in [Threads -> Results]
  /\ loads \in {"none", "one", "more"}
  /\ leaver \in Threads \cup {NoThread}

ConfigInit ==
  /\ conf \in Files
  /\ gpio_mutex = NoThread /\ leaver = NoThread
  /\ gpPortArr = Null /\ filled = 0 /\ gpPortArrCount = 0
  /\ at = [t \in Threads |-> "idle"]
  /\ portNr = [t \in Threads |-> Null]
  /\ answer = [t \in Threads |-> "none"]
  /\ loads = "none"

-----------------------------------------------------------------------------
MoveTo(t, l) == at' = [at EXCEPT ![t] = l]

\* The call ends with result r; its frame is gone.
Return(t, r) ==
  /\ MoveTo(t, "idle")
  /\ answer' = [answer EXCEPT ![t] = r]
  /\ portNr' = [portNr EXCEPT ![t] = Null]

\* KEApiL_GetGpioPortCount, or one of the calls that begin with it and go on
\* to use port n.
Call(t, n) ==
  /\ at[t] = "idle"
  /\ MoveTo(t, "check")
  /\ portNr' = [portNr EXCEPT ![t] = n]
  /\ answer' = [answer EXCEPT ![t] = "none"]
  /\ UNCHANGED <<conf, lock, ports>>

CheckCount(t) ==
  /\ at[t] = "check"
  /\ MoveTo(t, IF gpPortArr = Null \/ gpPortArrCount = 0 THEN "trylock" ELSE "count")
  /\ UNCHANGED <<conf, lock, ports, portNr, answer>>

Locking(t) ==
  /\ gpio_mutex' = t
  /\ MoveTo(t, "access")
  /\ UNCHANGED <<conf, leaver, ports, portNr, answer>>

\* Broken: the mutex is waited for.
Lock(t) == at[t] = "trylock" /\ gpio_mutex = NoThread /\ Locking(t)

\* Broken: a mutex that is busy stops nobody.
LockAnyway(t) == at[t] = "trylock" /\ Locking(t)

Trylock(t) ==
  /\ at[t] = "trylock"
  /\ \/ gpio_mutex = NoThread /\ Locking(t)
     \/ /\ gpio_mutex # NoThread
        /\ Return(t, "busy_collision")
        /\ UNCHANGED <<conf, lock, ports>>

\* checkRAccess: an absent file is no error of GetGpioPortCount, which answers
\* with no ports; whatever the error, the mutex stays locked.
Access(t) ==
  /\ at[t] = "access"
  /\ \/ /\ conf # Absent
        /\ MoveTo(t, "parse")
        /\ UNCHANGED <<leaver, portNr, answer>>
     \/ /\ conf = Absent
        /\ Return(t, IF portNr[t] = Null THEN "success" ELSE "param_error")
        /\ leaver' = t
     \/ /\ LoadMayFail
        /\ Return(t, "error")
        /\ leaver' = t
  /\ UNCHANGED <<conf, gpio_mutex, ports>>

\* json_load_file and calloc; the old array, if any, is forgotten.
Parse(t) ==
  /\ at[t] = "parse"
  /\ \/ /\ gpPortArr' = conf.ports /\ filled' = 0
        /\ loads' = IF loads = "none" THEN "one" ELSE "more"
        /\ MoveTo(t, "ports")
        /\ UNCHANGED answer
     \/ /\ LoadMayFail
        /\ answer' = [answer EXCEPT ![t] = "error"]
        /\ MoveTo(t, "unlock")
        /\ UNCHANGED <<gpPortArr, filled, loads>>
  /\ UNCHANGED <<conf, lock, gpPortArrCount, portNr>>

\* Broken: the loop goes one port too far.
FillPortPastEnd(t) ==
  /\ at[t] = "ports"
  /\ IF filled <= conf.good
     THEN filled' = filled + 1 /\ MoveTo(t, "raise") /\ UNCHANGED answer
     ELSE /\ answer' = [answer EXCEPT ![t] = "success"]
          /\ MoveTo(t, "unlock")
          /\ UNCHANGED filled
  /\ UNCHANGED <<conf, lock, gpPortArr, gpPortArrCount, loads, portNr>>

\* The next port, if it is well-formed, has been filled; it does not count yet.
FillPort(t) ==
  /\ at[t] = "ports"
  /\ IF filled < conf.good
     THEN filled' = filled + 1 /\ MoveTo(t, "raise") /\ UNCHANGED answer
     ELSE /\ answer' = [answer EXCEPT ![t] = IF filled = conf.ports THEN "success" ELSE "error"]
          /\ MoveTo(t, "unlock")
          /\ UNCHANGED filled
  /\ UNCHANGED <<conf, lock, gpPortArr, gpPortArrCount, loads, portNr>>

\* Broken: with the first port all of them count.
CountAll == conf.ports

CountNext == gpPortArrCount + 1

RaiseCount(t) ==
  /\ at[t] = "raise"
  /\ gpPortArrCount' = CountNext
  /\ MoveTo(t, "ports")
  /\ UNCHANGED <<conf, lock, gpPortArr, filled, loads, portNr, answer>>

\* pthread_mutex_unlock, and after an error the clean-up without the mutex.
Unlock(t) ==
  /\ at[t] = "unlock"
  /\ gpio_mutex' = NoThread
  /\ MoveTo(t, IF answer[t] = "success" THEN "count" ELSE "clearCount")
  /\ UNCHANGED <<conf, leaver, ports, portNr, answer>>

ClearCount(t) ==
  /\ at[t] = "clearCount"
  /\ gpPortArrCount' = 0
  /\ loads' = "more"
  /\ MoveTo(t, "clearArr")
  /\ UNCHANGED <<conf, lock, gpPortArr, filled, portNr, answer>>

ClearArr(t) ==
  /\ at[t] = "clearArr"
  /\ gpPortArr' = Null /\ filled' = 0
  /\ Return(t, answer[t])
  /\ UNCHANGED <<conf, lock, gpPortArrCount, loads>>

\* The count is all that was asked for, or portNr is checked against it.
Count(t) ==
  /\ at[t] = "count"
  /\ \/ portNr[t] = Null /\ Return(t, "success")
     \/ portNr[t] # Null /\ portNr[t] >= gpPortArrCount /\ Return(t, "param_error")
     \/ /\ portNr[t] # Null /\ portNr[t] < gpPortArrCount
        /\ MoveTo(t, "deref")
        /\ UNCHANGED <<portNr, answer>>
  /\ UNCHANGED <<conf, lock, ports>>

\* gpPortArr[portNr] is read.
Deref(t) ==
  /\ at[t] = "deref"
  /\ Return(t, "success")
  /\ UNCHANGED <<conf, lock, ports>>

ConfigRun(t) ==
  \/ CheckCount(t) \/ Trylock(t) \/ Access(t) \/ Parse(t) \/ FillPort(t) \/ RaiseCount(t)
  \/ Unlock(t) \/ ClearCount(t) \/ ClearArr(t) \/ Count(t) \/ Deref(t)

ConfigNext == \E t \in Threads : ConfigRun(t) \/ \E n \in 0 .. MaxPorts \cup {Null} : Call(t, n)

\* A thread in a call keeps going.
ConfigSpec == ConfigInit /\ [][ConfigNext]_configVars /\ \A t \in Threads : WF_configVars(ConfigRun(t))
-----------------------------------------------------------------------------
(* Properties *)

\* One thread at a time fills the array: a thread that leaves GetGpioConfig
\* with the mutex locked keeps everybody out, and nobody is let in twice.
OneLoader ==
  /\ \A t, u \in Threads : at[t] \in Loading /\ at[u] \in Loading => t = u
  /\ leaver # NoThread => \A t \in Threads : at[t] \notin Loading

\* Readers take no mutex, and need none while one load is all there was: a
\* port number that passes the check against the counter is a port that has
\* been filled, at any moment of the load.
FirstLoadSafe ==
  \A t \in Threads : at[t] = "deref" /\ loads = "one" => portNr[t] < filled

\* Nobody waits for the mutex, so a mutex left locked stops no call.
CallsReturn == \A t \in Threads : at[t] # "idle" ~> at[t] = "idle"
=============================================================================
