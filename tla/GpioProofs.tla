----------------------------- MODULE GpioProofs -----------------------------
(***************************************************************************)
(* What the mutex and the counter of gpio.conf guarantee, for any number of *)
(* threads and any file.  Only one thread fills the array because a thread  *)
(* in the load holds the mutex; a reader needs no mutex during the first    *)
(* load because the counter never runs ahead of the ports that are filled,  *)
(* and neither goes back before a second load or a failure.                 *)
(* Then the three promises of the calls through /sys/class/gpio, for any    *)
(* number of threads and pins, whatever fails.  Each is an invariant of its  *)
(* own over the places of the loop: who owes an unexport, which pins are    *)
(* behind the loop's index, and that nobody unexports without having         *)
(* exported when gpio.conf says so.                                         *)
(***************************************************************************)
EXTENDS GpioConfig, GpioSysfs, TLAPS

\* A thread in the load holds the mutex; a thread that left with it holds it
\* for good.
MutexHeld ==
  /\ \A t \in Threads : at[t] \in Loading => gpio_mutex = t
  /\ leaver # NoThread => \A t \in Threads : at[t] \notin Loading
  /\ leaver # NoThread => gpio_mutex = leaver

\* Until a second load or a failure the counter is the number of filled ports, or
\* one less, when it is about to be raised.
CountIsFilled ==
  /\ loads = "none" => gpPortArrCount = 0 /\ filled = 0
  /\ loads = "one" => gpPortArrCount <= filled
  /\ \A t \in Threads :
       /\ at[t] = "raise" /\ loads = "one" => gpPortArrCount < filled
       /\ at[t] \in {"ports", "raise", "deref"} => loads # "none"
       /\ at[t] = "clearArr" => loads = "more"

ConfigInv == ConfigTypeOK /\ MutexHeld /\ CountIsFilled /\ FirstLoadSafe

\* What the model says of a file.
LEMMA FileFacts ==
  ASSUME NEW f \in Files
  PROVE  f.ports \in 0 .. MaxPorts /\ f.good \in Int /\ f.good <= f.ports
BY MaxPortsAssumption DEF Files, Absent

\* The variables keep their types in one step.
LEMMA ConfigTypeStep == ConfigTypeOK /\ [ConfigNext]_configVars => ConfigTypeOK'
<1> SUFFICES ASSUME ConfigTypeOK, [ConfigNext]_configVars PROVE ConfigTypeOK'
  OBVIOUS
<1>1. CASE UNCHANGED configVars
  BY <1>1 DEF ConfigTypeOK, configVars, lock, ports, calls
<1>2. ASSUME NEW t \in Threads, ConfigRun(t) PROVE ConfigTypeOK'
  <2> USE DEF ConfigTypeOK, lock, ports, MoveTo, Return, ConfigPlaces, Results, Null
  <2>1. CASE CheckCount(t) BY <2>1 DEF CheckCount
  <2>2. CASE Trylock(t) BY <2>2 DEF Trylock, Locking
  <2>3. CASE Access(t) BY <2>3 DEF Access
  <2>4. CASE Parse(t) BY <2>4, FileFacts, MaxPortsAssumption DEF Parse
  <2>5. CASE FillPort(t) BY <2>5, FileFacts, MaxPortsAssumption DEF FillPort
  <2>11. CASE RaiseCount(t) BY <2>11 DEF RaiseCount, CountNext
  <2>6. CASE Unlock(t) BY <2>6 DEF Unlock
  <2>7. CASE ClearCount(t) BY <2>7 DEF ClearCount
  <2>8. CASE ClearArr(t) BY <2>8, MaxPortsAssumption DEF ClearArr
  <2>9. CASE Count(t) BY <2>9 DEF Count
  <2>10. CASE Deref(t) BY <2>10 DEF Deref
  <2> QED BY <1>2, <2>1, <2>2, <2>3, <2>4, <2>5, <2>6, <2>7, <2>8, <2>9, <2>10, <2>11 DEF ConfigRun
<1>3. ASSUME NEW t \in Threads, NEW n \in 0 .. MaxPorts \cup {Null}, Call(t, n) PROVE ConfigTypeOK'
  BY <1>3 DEF Call, MoveTo, ConfigTypeOK, lock, ports, ConfigPlaces, Results
<1> QED BY <1>1, <1>2, <1>3 DEF ConfigNext

\* A step keeps the mutex with the thread that loads, or that left with it.
LEMMA HeldStep == ConfigTypeOK /\ MutexHeld /\ [ConfigNext]_configVars => MutexHeld'
<1> SUFFICES ASSUME ConfigTypeOK, MutexHeld, [ConfigNext]_configVars PROVE MutexHeld'
  OBVIOUS
<1> USE DEF MutexHeld, ConfigTypeOK, lock, MoveTo, Return, Loading
<1>1. CASE UNCHANGED configVars
  BY <1>1 DEF configVars, calls
<1>2. ASSUME NEW t \in Threads, ConfigRun(t) PROVE MutexHeld'
  <2>1. CASE CheckCount(t) BY <2>1 DEF CheckCount
  <2>2. CASE Trylock(t) BY <2>2, NoThreadAssumption DEF Trylock, Locking
  <2>3. CASE Access(t) BY <2>3, NoThreadAssumption DEF Access
  <2>4. CASE Parse(t) BY <2>4 DEF Parse
  <2>5. CASE FillPort(t) BY <2>5 DEF FillPort
  <2>11. CASE RaiseCount(t) BY <2>11 DEF RaiseCount
  <2>6. CASE Unlock(t) BY <2>6 DEF Unlock
  <2>7. CASE ClearCount(t) BY <2>7 DEF ClearCount
  <2>8. CASE ClearArr(t) BY <2>8 DEF ClearArr
  <2>9. CASE Count(t) BY <2>9 DEF Count
  <2>10. CASE Deref(t) BY <2>10 DEF Deref
  <2> QED BY <1>2, <2>1, <2>2, <2>3, <2>4, <2>5, <2>6, <2>7, <2>8, <2>9, <2>10, <2>11 DEF ConfigRun
<1>3. ASSUME NEW t \in Threads, NEW n \in 0 .. MaxPorts \cup {Null}, Call(t, n) PROVE MutexHeld'
  BY <1>3 DEF Call
<1> QED BY <1>1, <1>2, <1>3 DEF ConfigNext

\* A step keeps the counter and the filled ports together, and a port that
\* passed the check stays filled.
LEMMA CountStep == ConfigInv /\ [ConfigNext]_configVars => CountIsFilled' /\ FirstLoadSafe'
<1> SUFFICES ASSUME ConfigInv, [ConfigNext]_configVars PROVE CountIsFilled' /\ FirstLoadSafe'
  OBVIOUS
<1> USE DEF ConfigInv, CountIsFilled, FirstLoadSafe, ConfigTypeOK, ports, MoveTo, Return
<1>1. CASE UNCHANGED configVars
  BY <1>1 DEF configVars, calls
<1>2. ASSUME NEW t \in Threads, ConfigRun(t) PROVE CountIsFilled' /\ FirstLoadSafe'
  <2>1. CASE CheckCount(t) BY <2>1 DEF CheckCount
  <2>2. CASE Trylock(t) BY <2>2 DEF Trylock, Locking
  <2>3. CASE Access(t) BY <2>3 DEF Access
  <2>4. CASE Parse(t) BY <2>4 DEF Parse
  <2>5. CASE FillPort(t)
    <3>1. CASE filled < conf.good BY <2>5, <3>1 DEF FillPort, Null
    <3>2. CASE ~(filled < conf.good) BY <2>5, <3>2 DEF FillPort
    <3> QED BY <3>1, <3>2
  <2>11. CASE RaiseCount(t)
    <3>1. \A u \in Threads : at[u] = "raise" => u = t
      BY <2>11 DEF MutexHeld, Loading, RaiseCount
    <3> QED BY <2>11, <3>1 DEF RaiseCount, CountNext
  <2>6. CASE Unlock(t) BY <2>6 DEF Unlock
  <2>7. CASE ClearCount(t) BY <2>7 DEF ClearCount
  <2>8. CASE ClearArr(t) BY <2>8 DEF ClearArr
  <2>9. CASE Count(t) BY <2>9, MaxPortsAssumption DEF Count, Null
  <2>10. CASE Deref(t) BY <2>10 DEF Deref
  <2> QED BY <1>2, <2>1, <2>2, <2>3, <2>4, <2>5, <2>6, <2>7, <2>8, <2>9, <2>10, <2>11 DEF ConfigRun
<1>3. ASSUME NEW t \in Threads, NEW n \in 0 .. MaxPorts \cup {Null}, Call(t, n)
      PROVE CountIsFilled' /\ FirstLoadSafe'
  BY <1>3 DEF Call
<1> QED BY <1>1, <1>2, <1>3 DEF ConfigNext

\* The invariant of the loading of gpio.conf (gpio_pins.c:28-243).
THEOREM ConfigInvariant == ConfigSpec => []ConfigInv
<1>1. ConfigInit => ConfigInv
  BY MaxPortsAssumption DEF ConfigInit, ConfigInv, ConfigTypeOK, MutexHeld, CountIsFilled, FirstLoadSafe,
     ConfigPlaces, Loading, Results, Null
<1>2. ConfigInv /\ [ConfigNext]_configVars => ConfigInv'
  BY ConfigTypeStep, HeldStep, CountStep DEF ConfigInv
<1> QED BY <1>1, <1>2, PTL DEF ConfigSpec

\* The variables keep their types: however many loads fail half-way, the counter
\* is a number of ports and every call is at one of its places
\* (gpio_pins.c:28-243).
THEOREM ConfigTypeCorrect == ConfigSpec => []ConfigTypeOK
<1>1. ConfigInv => ConfigTypeOK
  BY DEF ConfigInv
<1> QED BY <1>1, ConfigInvariant, PTL

\* One thread at a time is between pthread_mutex_trylock and
\* pthread_mutex_unlock (gpio_pins.c:36-163), and none after a thread left
\* with the mutex locked (line 40).
THEOREM OneThreadLoads == ConfigSpec => []OneLoader
<1>1. ConfigInv => OneLoader
  BY DEF ConfigInv, MutexHeld, OneLoader
<1> QED BY <1>1, ConfigInvariant, PTL

\* During and after the first load a port number that passes the check without
\* the mutex (gpio_pins.c:236) is a filled port at line 239.
THEOREM FirstLoadIsSafe == ConfigSpec => []FirstLoadSafe
<1>1. ConfigInv => FirstLoadSafe
  BY DEF ConfigInv
<1> QED BY <1>1, ConfigInvariant, PTL

-----------------------------------------------------------------------------
(* The pins. *)

\* Behind the index every pin has been used, when an error ends the loop.
PinsDone ==
  unexportTrig =>
    \A t \in Callers :
      /\ pc[t] # "idle" => unexport[t] /\ 1 .. (i[t] - 1) \subseteq done[t]
      /\ pc[t] = "after" /\ ret[t] = "success" => i[t] \in done[t]
      /\ pc[t] = "idle" /\ ret[t] = "success" => Pins \subseteq done[t]

\* Nobody exports a pin of a port that is there, so nobody unexports one.
PortKept ==
  ~unexportTrig /\ before = Pins =>
    /\ exported = Pins
    /\ \A t \in Callers :
         /\ pc[t] \notin {"export", "recheck"}
         /\ pc[t] # "idle" => ~unexport[t]

SysfsInv == TypeOK /\ NoneLeftExported /\ PinsDone /\ PortKept

\* The variables keep their types in one step.
LEMMA SysfsTypeStep == TypeOK /\ [Next]_vars => TypeOK'
<1> SUFFICES ASSUME TypeOK, [Next]_vars PROVE TypeOK'
  OBVIOUS
<1> USE DEF TypeOK, GoTo, Result, Places, kernel, call
<1>1. CASE UNCHANGED vars
  BY <1>1 DEF vars, kernel, call, local
<1>2. ASSUME NEW t \in Callers, Run(t) PROVE TypeOK'
  <2>1. CASE Check(t) BY <2>1 DEF Check
  <2>2. CASE Export(t)
    <3>1. exported' \subseteq Pins /\ exported \subseteq exported'
      BY <2>2 DEF Export
    <3> QED BY <2>2, <3>1 DEF Export
  <2>3. CASE Recheck(t) BY <2>3 DEF Recheck
  <2>4. CASE Use(t)
    <3>1. inputs' \subseteq Pins
      BY <2>4 DEF Use
    <3>2. done' \in [Callers -> SUBSET Pins]
      BY <2>4 DEF Use, Used
    <3> QED BY <2>4, <3>1, <3>2 DEF Use, Used
  <2>5. CASE Value(t) BY <2>5 DEF Value, Used
  <2>6. CASE After(t)
    <3>1. ASSUME NextPin(t)
          PROVE  /\ i' \in [Callers -> Pins]
                 /\ pc' \in [Callers -> Places]
                 /\ ret' = ret
      BY <3>1, NPinsAssumption DEF NextPin, Pins
    <3>2. ASSUME Unexported(t)
          PROVE  exported' \subseteq Pins /\ kept' \subseteq exported'
      BY <3>2 DEF Unexported
    <3>3. /\ i' \in [Callers -> Pins]
          /\ pc' \in [Callers -> Places]
          /\ ret' \in [Callers -> {"none", "success", "error"}]
      BY <2>6, <3>1 DEF After
    <3>4. exported' \subseteq Pins /\ kept' \subseteq exported'
      BY <2>6, <3>2 DEF After
    <3> QED BY <2>6, <3>3, <3>4 DEF After
  <2> QED BY <1>2, <2>1, <2>2, <2>3, <2>4, <2>5, <2>6 DEF Run
<1>3. ASSUME NEW t \in Callers, NEW o \in Ops, NEW bits \in SUBSET Pins, Begin(t, o, bits)
      PROVE TypeOK'
  BY <1>3, NPinsAssumption DEF Begin, Pins
<1> QED BY <1>1, <1>2, <1>3 DEF Next

\* A pin is exported by a thread that owes its unexport, and the debt is paid or
\* refused before the index moves on.
LEMMA OwesStep == (TypeOK /\ NoneLeftExported) /\ [Next]_vars => NoneLeftExported'
<1> SUFFICES ASSUME (TypeOK /\ NoneLeftExported), [Next]_vars PROVE NoneLeftExported'
  OBVIOUS
<1> USE DEF TypeOK, NoneLeftExported, Owes, GoTo, Result, kernel, call
<1>1. CASE UNCHANGED vars
  BY <1>1 DEF vars, kernel, call, local
<1>2. ASSUME NEW t \in Callers, Run(t) PROVE NoneLeftExported'
  <2>1. CASE Check(t) BY <2>1 DEF Check
  <2>2. CASE Export(t) BY <2>2 DEF Export
  <2>3. CASE Recheck(t) BY <2>3 DEF Recheck
  <2>4. CASE Use(t) BY <2>4 DEF Use, Used
  <2>5. CASE Value(t) BY <2>5 DEF Value, Used
  <2>6. CASE After(t) BY <2>6 DEF After, NextPin, Unexported
  <2> QED BY <1>2, <2>1, <2>2, <2>3, <2>4, <2>5, <2>6 DEF Run
<1>3. ASSUME NEW t \in Callers, NEW o \in Ops, NEW bits \in SUBSET Pins, Begin(t, o, bits)
      PROVE NoneLeftExported'
  BY <1>3 DEF Begin
<1> QED BY <1>1, <1>2, <1>3 DEF Next

\* The index moves on behind a pin that has been used.
LEMMA DoneStep == (TypeOK /\ PinsDone) /\ [Next]_vars => PinsDone'
<1> SUFFICES ASSUME (TypeOK /\ PinsDone), [Next]_vars PROVE PinsDone'
  OBVIOUS
<1> USE DEF TypeOK, PinsDone, Pins, GoTo, Result, kernel, call
<1>1. CASE UNCHANGED vars
  BY <1>1 DEF vars, kernel, call, local
<1>2. ASSUME NEW t \in Callers, Run(t) PROVE PinsDone'
  <2>1. CASE Check(t) BY <2>1, NPinsAssumption DEF Check
  <2>2. CASE Export(t) BY <2>2, NPinsAssumption DEF Export
  <2>3. CASE Recheck(t) BY <2>3, NPinsAssumption DEF Recheck
  <2>4. CASE Use(t) BY <2>4, NPinsAssumption DEF Use, Used
  <2>5. CASE Value(t) BY <2>5, NPinsAssumption DEF Value, Used
  <2>6. CASE After(t) BY <2>6, NPinsAssumption DEF After, NextPin, Unexported
  <2> QED BY <1>2, <2>1, <2>2, <2>3, <2>4, <2>5, <2>6 DEF Run
<1>3. ASSUME NEW t \in Callers, NEW o \in Ops, NEW bits \in SUBSET Pins, Begin(t, o, bits)
      PROVE PinsDone'
  BY <1>3, NPinsAssumption DEF Begin
<1> QED BY <1>1, <1>2, <1>3 DEF Next

\* Without an export there is no unexport.
LEMMA KeptStep == (TypeOK /\ PortKept) /\ [Next]_vars => PortKept'
<1> SUFFICES ASSUME (TypeOK /\ PortKept), [Next]_vars PROVE PortKept'
  OBVIOUS
<1> USE DEF TypeOK, PortKept, GoTo, Result, kernel, call
<1>1. CASE UNCHANGED vars
  BY <1>1 DEF vars, kernel, call, local
<1>2. ASSUME NEW t \in Callers, Run(t) PROVE PortKept'
  <2>1. CASE Check(t) BY <2>1 DEF Check
  <2>2. CASE Export(t) BY <2>2 DEF Export
  <2>3. CASE Recheck(t) BY <2>3 DEF Recheck
  <2>4. CASE Use(t) BY <2>4 DEF Use, Used
  <2>5. CASE Value(t) BY <2>5 DEF Value, Used
  <2>6. CASE After(t) BY <2>6 DEF After, NextPin, Unexported
  <2> QED BY <1>2, <2>1, <2>2, <2>3, <2>4, <2>5, <2>6 DEF Run
<1>3. ASSUME NEW t \in Callers, NEW o \in Ops, NEW bits \in SUBSET Pins, Begin(t, o, bits)
      PROVE PortKept'
  BY <1>3 DEF Begin
<1> QED BY <1>1, <1>2, <1>3 DEF Next

\* The invariant of the four functions (gpio_pins.c:573-824).
THEOREM SysfsInvariant == Spec => []SysfsInv
<1>1. Init => SysfsInv
  BY NPinsAssumption DEF Init, SysfsInv, TypeOK, NoneLeftExported, PinsDone, PortKept, Places, Ops, Pins
<1>2. SysfsInv /\ [Next]_vars => SysfsInv'
  BY SysfsTypeStep, OwesStep, DoneStep, KeptStep DEF SysfsInv
<1> QED BY <1>1, <1>2, PTL DEF Spec

\* The variables have their types.
THEOREM SysfsTypeCorrect == Spec => []TypeOK
<1>1. SysfsInv => TypeOK
  BY DEF SysfsInv
<1> QED BY <1>1, SysfsInvariant, PTL

\* No call leaves a pin exported that somebody has to unexport
\* (gpio_pins.c:637-647 and the same lines of the other functions).
THEOREM NoPinLeft == Spec => []NoneLeftExported
<1>1. SysfsInv => NoneLeftExported
  BY DEF SysfsInv
<1> QED BY <1>1, SysfsInvariant, PTL

\* Success means that all pins were used, when pins are unexported.
THEOREM SuccessIsDone == Spec => []SuccessMeansDone
<1>1. SysfsInv => SuccessMeansDone
  BY DEF SysfsInv, TypeOK, PinsDone, SuccessMeansDone
<1> QED BY <1>1, SysfsInvariant, PTL

\* A port exported as a whole stays exported, when gpio.conf says so.
THEOREM PortStays == Spec => []WholePortKept
<1>1. SysfsInv => WholePortKept
  BY DEF SysfsInv, PortKept, WholePortKept
<1> QED BY <1>1, SysfsInvariant, PTL
=============================================================================
