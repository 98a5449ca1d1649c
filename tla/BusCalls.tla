----------------------------- MODULE BusCalls -----------------------------
(***************************************************************************)
(* The I2C or SMBus calls of a process's threads (src/i2c.c, src/sm_bus.c)  *)
(* and the cache of buses they share (src/linux_support.c:203-467).  Each   *)
(* call looks for its bus in the cache, twice: once for the number of buses *)
(* and once for the device file.  A thread that finds the cache empty loads *)
(* it under pthread_mutex_trylock; nobody takes the mutex to read it.  Then *)
(* the device is opened, asked what it can do, given the slave's address    *)
(* and used; each of these fails in its own way.  The two kinds of bus have *)
(* a cache and a mutex each, so an instance is about one of them.           *)
(***************************************************************************)
EXTENDS Integers, FiniteSets, Sequences

CONSTANTS
  Threads,      \* threads of the process
  NoThread,     \* the mutex is free
  MaxBuses,     \* bound: buses of a configuration
  Numbers,      \* bus numbers asked for
  MaxFds        \* descriptors the process may have open on devices

ASSUME NoThreadAssumption == NoThread \notin Threads
ASSUME MaxBusesAssumption == MaxBuses \in Nat
ASSUME NumbersAssumption == Numbers \subseteq Nat
ASSUME MaxFdsAssumption == MaxFds \in Nat

VARIABLES
  sbType,       \* "i2c" or "smbus"
  mutex,        \* the holder of i2c_mutex or smbus_mutex
  arr,          \* i2cArr or smbusArr: is realNr of an entry a bus or still -1;
                \* <<>> is NULL
  count,        \* i2cArrCount or smbusArrCount
  fds,          \* open descriptors
  pc,           \* pc[t]: where t is in its call
  op,           \* op[t]: the call
  nr,           \* nr[t]: the bus it is about
  search,       \* search[t]: is the count wanted, or the device file
  found,        \* found[t]: sbArr and sbArrCount of a load
  number,       \* number[t]: the bus in the name of the device file
  file,         \* file[t]: the descriptor, or 0
  ret,          \* ret[t]: what t's call returned, or its load is about to
  leaver,       \* history: the thread that left the load with the mutex
  reloaded,     \* history: a load began although buses were cached
  cut,          \* history: a load ended at a bus whose name it could not read
  kept          \* history: descriptors open when their call had returned
                \* KEAPI_RET_PERMISSION_DENIED

cache == <<arr, count, reloaded, cut>>
lock == <<mutex, leaver>>
files == <<fds, kept>>
call == <<op, nr, search>>
local == <<pc, call, found, number, file, ret>>
vars == <<sbType, lock, cache, files, local>>

Fds == 1 .. MaxFds
Arrays == UNION {[1 .. n -> {"bus", "none"}] : n \in 0 .. MaxBuses}
Founds == [arr : Arrays, count : 0 .. MaxBuses]

\* "plain" and "checked" are SMBus calls: the latter have more to check than
\* the slave's address.
Ops == {"count", "xfer", "probe", "plain", "checked"}
NothingFound == [arr |-> <<>>, count |-> 0]

Loading == {"clearCount", "free", "conf", "listed", "scan", "publish",
            "publishCount", "unlock"}
Ioctls == {"funcs", "slave", "transfer"}
Places == {"idle", "check", "trylock", "read", "args", "deref", "open"} \cup Loading \cup Ioctls

\* "error" is KEAPI_RET_ERROR and KEAPI_RET_RETRIEVAL_ERROR: nobody tells them
\* apart once the load is over.
Errors == {"permission_denied", "error"}
Results == Errors \cup {"none", "success", "busy_collision", "param_error", "not_supported"}

TypeOK ==
  /\ sbType \in {"i2c", "smbus"}
  /\ mutex \in Threads \cup {NoThread}
  /\ arr \in Arrays
  /\ count \in 0 .. MaxBuses
  /\ fds \subseteq Fds
  /\ pc \in [Threads -> Places]
  /\ op \in [Threads -> Ops]
  /\ nr \in [Threads -> Nat]
  /\ search \in [Threads -> {"count", "give"}]
  /\ found \in [Threads -> Founds]
  /\ number \in [Threads -> {"bus", "none", "garbage"}]
  /\ file \in [Threads -> 0 .. MaxFds]
  /\ ret \in [Threads -> Results]
  /\ leaver \in Threads \cup {NoThread}
  /\ reloaded \in BOOLEAN /\ cut \in BOOLEAN
  /\ kept \subseteq Fds

Init ==
  /\ sbType \in {"i2c", "smbus"}
  /\ mutex = NoThread /\ leaver = NoThread
  /\ arr = <<>> /\ count = 0
  /\ reloaded = FALSE /\ cut = FALSE
  /\ fds = {} /\ kept = {}
  /\ pc = [t \in Threads |-> "idle"]
  /\ op = [t \in Threads |-> "count"]
  /\ nr = [t \in Threads |-> 0]
  /\ search = [t \in Threads |-> "count"]
  /\ found = [t \in Threads |-> NothingFound]
  /\ number = [t \in Threads |-> "none"]
  /\ file = [t \in Threads |-> 0]
  /\ ret = [t \in Threads |-> "none"]

-----------------------------------------------------------------------------
GoTo(t, l) == pc' = [pc EXCEPT ![t] = l]

\* The call ends with result r; its frame is gone.
Return(t, r) ==
  /\ GoTo(t, "idle")
  /\ ret' = [ret EXCEPT ![t] = r]
  /\ op' = [op EXCEPT ![t] = "count"]
  /\ nr' = [nr EXCEPT ![t] = 0]
  /\ search' = [search EXCEPT ![t] = "count"]
  /\ found' = [found EXCEPT ![t] = NothingFound]
  /\ number' = [number EXCEPT ![t] = "none"]
  /\ file' = [file EXCEPT ![t] = 0]

Begin(t, o, n) ==
  /\ pc[t] = "idle"
  /\ GoTo(t, "check")
  /\ op' = [op EXCEPT ![t] = o]
  /\ nr' = [nr EXCEPT ![t] = n]
  /\ ret' = [ret EXCEPT ![t] = "none"]
  /\ UNCHANGED <<sbType, lock, cache, files, search, found, number, file>>

\* The calls of i2c.c.
I2cXfer(t, n) == sbType = "i2c" /\ Begin(t, "xfer", n)
I2cProbe(t, n) == sbType = "i2c" /\ Begin(t, "probe", n)

\* The calls of sm_bus.c.
BusCount(t) == Begin(t, "count", 0)
QuickCommand(t, n) == sbType = "smbus" /\ Begin(t, "checked", n)
SendByte(t, n) == sbType = "smbus" /\ Begin(t, "plain", n)
ReceiveByte(t, n) == sbType = "smbus" /\ Begin(t, "checked", n)
WriteByte(t, n) == sbType = "smbus" /\ Begin(t, "plain", n)
ReadByte(t, n) == sbType = "smbus" /\ Begin(t, "checked", n)
WriteWord(t, n) == sbType = "smbus" /\ Begin(t, "plain", n)
ReadWord(t, n) == sbType = "smbus" /\ Begin(t, "checked", n)
WriteBlock(t, n) == sbType = "smbus" /\ Begin(t, "checked", n)
ReadBlock(t, n) == sbType = "smbus" /\ Begin(t, "checked", n)

-----------------------------------------------------------------------------
(* The search in the cache *)

Check(t) ==
  /\ pc[t] = "check"
  /\ GoTo(t, IF arr = <<>> \/ count = 0 THEN "trylock" ELSE "read")
  /\ UNCHANGED <<sbType, lock, cache, files, call, found, number, file, ret>>

\* What a call returns when its load ends with the error r.  The number of
\* buses is then 0, which is a success unless a bus was asked for.
Told(t, r) ==
  IF search[t] = "give" THEN IF sbType = "i2c" THEN r ELSE "error"
  ELSE IF sbType = "smbus" /\ r = "permission_denied" THEN r
  ELSE IF op[t] = "count" THEN "success" ELSE "param_error"

Locking(t) ==
  /\ mutex' = t
  /\ GoTo(t, "clearCount")
  /\ IF count > 0 THEN reloaded' = TRUE ELSE UNCHANGED reloaded
  /\ UNCHANGED <<sbType, leaver, arr, count, cut, files, call, found, number, file, ret>>

\* Broken: a mutex that is busy stops nobody.
LockAnyway(t) == pc[t] = "trylock" /\ Locking(t)

Trylock(t) ==
  \/ pc[t] = "trylock" /\ mutex = NoThread /\ Locking(t)
  \/ /\ pc[t] = "trylock" /\ mutex # NoThread
     /\ Return(t, Told(t, "busy_collision"))
     /\ UNCHANGED <<sbType, lock, cache, files>>

\* Broken: the array is freed first and the counter follows.
ClearLate(t) ==
  /\ pc[t] = "clearCount"
  /\ GoTo(t, IF arr = <<>> THEN "conf" ELSE "free")
  /\ UNCHANGED <<sbType, lock, cache, files, call, found, number, file, ret>>

ClearCount(t) ==
  /\ pc[t] = "clearCount"
  /\ count' = 0
  /\ GoTo(t, IF arr = <<>> THEN "conf" ELSE "free")
  /\ UNCHANGED <<sbType, lock, arr, reloaded, cut, files, call, found, number, file, ret>>

\* free, and the pointer set to NULL: a reader finds garbage after either.
Free(t) ==
  /\ pc[t] = "free"
  /\ arr' = <<>>
  /\ GoTo(t, "conf")
  /\ UNCHANGED <<sbType, lock, count, reloaded, cut, files, call, found, number, file, ret>>

\* GetInfoFromSerialBusConfFile returns with the mutex locked.
LeaveLocked(t, r) ==
  /\ Return(t, Told(t, r))
  /\ leaver' = t
  /\ UNCHANGED <<sbType, mutex, cache, files>>

\* sbArr, sbArrCount and the result of the load are known.
Ends(t, es, n, r) ==
  /\ found' = [found EXCEPT ![t] = [arr |-> es, count |-> n]]
  /\ ret' = [ret EXCEPT ![t] = r]
  /\ GoTo(t, "publish")
  /\ UNCHANGED <<sbType, lock, arr, count, reloaded, files, call, number, file>>

\* The file may be unreadable, absent or no JSON, wrong, empty, or a list.
ReadConf(t) ==
  /\ pc[t] = "conf"
  /\ \/ \E r \in Errors : LeaveLocked(t, r)
     \/ /\ \E l \in {"scan", "listed"} : GoTo(t, l)
        /\ UNCHANGED <<sbType, lock, cache, files, call, found, number, file, ret>>
     \/ /\ GoTo(t, "unlock")
        /\ ret' = [ret EXCEPT ![t] = "error"]
        /\ UNCHANGED <<sbType, lock, cache, files, call, found, number, file>>
     \/ Ends(t, <<>>, 0, "success") /\ UNCHANGED cut

\* The buses found for the n entries of the list.  An entry counts when it has
\* its bus; when a name cannot be read the scan ends with what there is.
Listed(t) ==
  /\ pc[t] = "listed"
  /\ \/ \E r \in Errors : LeaveLocked(t, r)
     \/ \E n \in 1 .. MaxBuses :
          Ends(t, [i \in 1 .. n |-> "bus"], n, "success") /\ UNCHANGED cut
     \/ \E es \in Arrays \ {<<>>} :
          Ends(t, es, 0, "error") /\ UNCHANGED cut
     \/ \E es \in Arrays \ {<<>>}, n \in 0 .. MaxBuses, r \in Errors :
          /\ n <= Cardinality({i \in DOMAIN es : es[i] = "bus"})
          /\ Ends(t, es, n, r)
          /\ cut' = TRUE

\* fs_scan: the buses of the type, as they are numbered.
Scan(t) ==
  /\ pc[t] = "scan"
  /\ \E n \in 0 .. MaxBuses, r \in Errors \cup {"success"} :
       Ends(t, [i \in 1 .. n |-> "bus"], n, r)
  /\ UNCHANGED cut

\* Broken: the list is published with its length, whatever was found.
PublishLength(t) ==
  /\ pc[t] = "publishCount"
  /\ count' = Len(found[t].arr)
  /\ GoTo(t, "unlock")
  /\ UNCHANGED <<sbType, lock, arr, reloaded, cut, files, call, found, number, file, ret>>

Publish(t) ==
  /\ pc[t] = "publish"
  /\ arr' = found[t].arr
  /\ GoTo(t, "publishCount")
  /\ UNCHANGED <<sbType, lock, count, reloaded, cut, files, call, found, number, file, ret>>

PublishCount(t) ==
  /\ pc[t] = "publishCount"
  /\ count' = found[t].count
  /\ GoTo(t, "unlock")
  /\ UNCHANGED <<sbType, lock, arr, reloaded, cut, files, call, found, number, file, ret>>

Unlock(t) ==
  /\ pc[t] = "unlock"
  /\ mutex' = NoThread
  /\ IF ret[t] = "success"
     THEN /\ GoTo(t, "read")
          /\ found' = [found EXCEPT ![t] = NothingFound]
          /\ UNCHANGED <<call, number, file, ret>>
     ELSE Return(t, Told(t, ret[t]))
  /\ UNCHANGED <<sbType, leaver, cache, files>>

\* Broken: one bus too many.
ReadCountOffByOne(t) ==
  /\ pc[t] = "read"
  /\ IF op[t] = "count" \/ nr[t] > count
     THEN Return(t, IF op[t] = "count" THEN "success" ELSE "param_error")
     ELSE /\ GoTo(t, IF search[t] = "count" THEN "args" ELSE "deref")
          /\ UNCHANGED <<call, found, number, file, ret>>
  /\ UNCHANGED <<sbType, lock, cache, files>>

\* The counter is read: for the number of buses, which may be all that was
\* asked for, or to check the bus before it is looked up.
ReadCount(t) ==
  /\ pc[t] = "read"
  /\ IF op[t] = "count" \/ nr[t] >= count
     THEN Return(t, IF op[t] = "count" THEN "success" ELSE "param_error")
     ELSE /\ GoTo(t, IF search[t] = "count" THEN "args" ELSE "deref")
          /\ UNCHANGED <<call, found, number, file, ret>>
  /\ UNCHANGED <<sbType, lock, cache, files>>

\* The checks between the two searches.  A probe that names a register goes on
\* as a transfer of one byte.
CheckArgs(t) ==
  /\ pc[t] = "args"
  /\ \/ op[t] # "plain" /\ Return(t, "param_error")
     \/ /\ search' = [search EXCEPT ![t] = "give"]
        /\ GoTo(t, "check")
        /\ UNCHANGED <<op, nr, found, number, file, ret>>
     \/ /\ op[t] = "probe"
        /\ op' = [op EXCEPT ![t] = "xfer"]
        /\ GoTo(t, "check")
        /\ UNCHANGED <<nr, search, found, number, file, ret>>
  /\ UNCHANGED <<sbType, lock, cache, files>>

\* realNr is read where the pointer points, whatever is there now.
Deref(t) ==
  /\ pc[t] = "deref"
  /\ number' = [number EXCEPT ![t] =
       IF nr[t] < Len(arr) THEN arr[nr[t] + 1] ELSE "garbage"]
  /\ GoTo(t, "open")
  /\ UNCHANGED <<sbType, lock, cache, files, call, found, file, ret>>

-----------------------------------------------------------------------------
(* The transfer *)

FirstIoctl(t) == IF op[t] = "xfer" THEN "slave" ELSE "funcs"

\* The slave's address (SMBus), access to the device file, open.
Open(t) ==
  /\ pc[t] = "open"
  /\ \/ /\ \E r \in Errors \cup {"param_error"} :
             (r = "param_error" => sbType = "smbus") /\ Return(t, r)
        /\ UNCHANGED fds
     \/ \E d \in Fds \ fds :
          /\ \A e \in Fds \ fds : d <= e
          /\ number[t] # "none"
          /\ fds' = fds \cup {d}
          /\ file' = [file EXCEPT ![t] = d]
          /\ GoTo(t, FirstIoctl(t))
          /\ UNCHANGED <<call, found, number, ret>>
  /\ UNCHANGED <<sbType, lock, cache, kept>>

\* Broken: the descriptor is forgotten.
ForgetAndReturn(t, r) ==
  /\ Return(t, r)
  /\ UNCHANGED <<sbType, lock, cache, files>>

CloseAndReturn(t, r) ==
  /\ fds' = fds \ {file[t]}
  /\ Return(t, r)
  /\ UNCHANGED <<sbType, lock, cache, kept>>

\* failIoctlCheckErrno: without the permission the descriptor stays open.
FailIoctlCheckErrno(t) ==
  \/ /\ kept' = kept \cup {file[t]}
     /\ Return(t, "permission_denied")
     /\ UNCHANGED <<sbType, lock, cache, fds>>
  \/ CloseAndReturn(t, "error")

\* An I2C transfer sets the slave before it asks, the others after.
NextIoctl(t) ==
  IF (pc[t] = "funcs") = (op[t] = "xfer") THEN "transfer"
  ELSE IF pc[t] = "funcs" THEN "slave" ELSE "funcs"

\* The call's way to say that the adapter cannot do it.
Unsupported(t) ==
  IF op[t] = "xfer" THEN "param_error"
  ELSE IF op[t] = "probe" THEN "error" ELSE "not_supported"

Ioctl(t) ==
  /\ pc[t] \in Ioctls
  /\ \/ /\ pc[t] # "transfer"
        /\ GoTo(t, NextIoctl(t))
        /\ UNCHANGED <<sbType, lock, cache, files, call, found, number, file, ret>>
     \/ pc[t] = "transfer" /\ CloseAndReturn(t, "success")
     \/ pc[t] = "funcs" /\ CloseAndReturn(t, Unsupported(t))
     \/ pc[t] = "slave" /\ sbType = "i2c" /\ CloseAndReturn(t, "busy_collision")
     \/ FailIoctlCheckErrno(t)

Run(t) ==
  \/ Check(t) \/ Trylock(t) \/ ClearCount(t) \/ Free(t) \/ ReadConf(t)
  \/ Listed(t) \/ Scan(t) \/ Publish(t) \/ PublishCount(t) \/ Unlock(t)
  \/ ReadCount(t) \/ CheckArgs(t) \/ Deref(t) \/ Open(t) \/ Ioctl(t)

Call(t) ==
  \/ BusCount(t)
  \/ \E n \in Numbers :
       \/ I2cXfer(t, n) \/ I2cProbe(t, n)
       \/ QuickCommand(t, n) \/ SendByte(t, n) \/ ReceiveByte(t, n)
       \/ WriteByte(t, n) \/ ReadByte(t, n) \/ WriteWord(t, n) \/ ReadWord(t, n)
       \/ WriteBlock(t, n) \/ ReadBlock(t, n)

Next == \E t \in Threads : Call(t) \/ Run(t)

Spec == Init /\ [][Next]_vars
-----------------------------------------------------------------------------
(* Properties *)

\* Readers take no mutex (i2c.c:42-52, sm_bus.c:44-52), and need none as long
\* as nobody loads what is loaded: a bus that passed the check against the
\* counter is in an array that is neither freed nor shorter.
ReadsLive ==
  \A t \in Threads :
    pc[t] = "deref" /\ ~reloaded => nr[t] < Len(arr)

\* An entry of the list that has not got its bus is never opened as one: its
\* number -1 is seen only after a scan that was cut short has published what
\* it had (linux_support.c:344-347).
KnownBus ==
  \A t \in Threads :
    pc[t] \in {"open"} \cup Ioctls /\ ~reloaded /\ ~cut => number[t] = "bus"

\* A thread that left the load with the mutex (linux_support.c:269, 330, 333)
\* has left no buses behind, and nobody will find any.
LeftEmpty ==
  leaver # NoThread =>
    /\ arr = <<>> /\ count = 0
    /\ \A t \in Threads : pc[t] \notin Loading

\* Every descriptor is that of one call in its transfer, or of a call that
\* returned KEAPI_RET_PERMISSION_DENIED: no other path loses one, and nobody
\* closes another call's.
DescriptorsAccounted ==
  /\ kept \subseteq fds
  /\ \A t \in Threads : pc[t] \in Ioctls => file[t] \in fds \ kept
  /\ \A t, u \in Threads : pc[t] \in Ioctls /\ pc[u] \in Ioctls /\ file[t] = file[u] => t = u
  /\ \A d \in fds \ kept : \E t \in Threads : pc[t] \in Ioctls /\ file[t] = d

=============================================================================
