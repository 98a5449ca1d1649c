-------------------------- MODULE SerialBusProofs -------------------------
(***************************************************************************)
(* What holds of the calls on a bus for any number of threads, buses and   *)
(* descriptors.  The loader is alone because it has the mutex, so between  *)
(* its steps the cache is as it left it; readers need no mutex because the *)
(* counter is zero from the first step of a load to its last, and whoever  *)
(* passed the check before that makes the load a second one.  Descriptors  *)
(* are a matter of their own: each has one owner, or is lost for one       *)
(* reason. At the end of the module, what holds of the matching of         *)
(* configured buses with those of the system, whatever their numbers and   *)
(* the order of readdir: after every step an entry has what the buses      *)
(* placed so far give.                                                     *)
(***************************************************************************)
EXTENDS BusCalls, SerialBusMatch, FiniteSetTheorems, TLAPS

\* A thread in the load holds the mutex; a thread that left with it holds it
\* for good.
MutexHeld ==
  /\ \A t \in Threads : pc[t] \in Loading => mutex = t
  /\ leaver # NoThread => mutex = leaver /\ \A t \in Threads : pc[t] \notin Loading

\* The first n entries have their bus.
AllBuses(a) == \A i \in 1 .. Len(a) : a[i] = "bus"

\* What a loader has cleared stays clear, and what it has found is what it
\* publishes.
LoadGoesOn ==
  \A t \in Threads :
    /\ pc[t] = "clearCount" /\ ~reloaded => count = 0
    /\ pc[t] \in {"free", "conf", "listed", "scan", "publish", "publishCount"} => count = 0
    /\ pc[t] \in {"conf", "listed", "scan", "publish"} => arr = <<>>
    /\ pc[t] = "publishCount" => arr = found[t].arr
    /\ pc[t] \in {"publish", "publishCount"} =>
         /\ found[t].count <= Len(found[t].arr)
         /\ found[t].count = 0 \/ AllBuses(found[t].arr) \/ cut

\* The counter is never ahead of the array.
CacheSound ==
  /\ count <= Len(arr)
  /\ count = 0 \/ AllBuses(arr) \/ cut
  /\ leaver # NoThread => arr = <<>>

\* A bus that passed the check is in the cache until it is loaded again.
CheckHolds == \A t \in Threads : pc[t] = "deref" /\ ~reloaded => nr[t] < count

CacheInv == TypeOK /\ MutexHeld /\ LoadGoesOn /\ CacheSound /\ CheckHolds /\ KnownBus

\* An array of the cache is a sequence; a list of n buses is such an array.
LEMMA ArrayFacts ==
  /\ <<>> \in Arrays
  /\ \A a \in Arrays : Len(a) \in 0 .. MaxBuses /\ \A i \in 1 .. Len(a) : a[i] \in {"bus", "none"}
  /\ \A n \in 0 .. MaxBuses :
       /\ [i \in 1 .. n |-> "bus"] \in Arrays
       /\ Len([i \in 1 .. n |-> "bus"]) = n
BY MaxBusesAssumption DEF Arrays

\* No more entries have their bus than there are entries.
LEMMA BusesOfArray ==
  ASSUME NEW a \in Arrays, NEW n \in Nat, n <= Cardinality({i \in DOMAIN a : a[i] = "bus"})
  PROVE  n <= Len(a)
<1> DEFINE B == {i \in DOMAIN a : a[i] = "bus"}
<1>1. DOMAIN a = 1 .. Len(a) /\ Len(a) \in Nat
  BY MaxBusesAssumption DEF Arrays
<1>2. IsFiniteSet(1 .. Len(a)) /\ Cardinality(1 .. Len(a)) = Len(a)
  <2>1. 1 \in Int /\ Len(a) \in Int BY <1>1
  <2>2. IsFiniteSet(1 .. Len(a)) /\ Cardinality(1 .. Len(a)) = IF 1 > Len(a) THEN 0 ELSE Len(a) - 1 + 1
    BY <2>1, FS_Interval
  <2> QED BY <1>1, <2>2
<1>3. Cardinality(B) <= Len(a) /\ Cardinality(B) \in Nat
  BY <1>1, <1>2, FS_Subset, FS_CardinalityType
<1> QED BY <1>1, <1>3

\* Every call begins alike.
LEMMA CallBegins ==
  ASSUME NEW t \in Threads, Call(t)
  PROVE  \E o \in Ops, n \in Numbers \cup {0} : Begin(t, o, n)
BY DEF Call, Ops, BusCount, I2cXfer, I2cProbe, QuickCommand, SendByte, ReceiveByte, WriteByte,
   ReadByte, WriteWord, ReadWord, WriteBlock, ReadBlock

\* A loader begins with nothing.
LEMMA NothingFoundType == NothingFound \in Founds
BY ArrayFacts, MaxBusesAssumption DEF NothingFound, Founds

\* A call that ends leaves a frame of the right types.
LEMMA ReturnTypes ==
  ASSUME TypeOK, NEW t \in Threads, NEW r \in Results, Return(t, r)
  PROVE  /\ pc' \in [Threads -> Places] /\ op' \in [Threads -> Ops]
         /\ nr' \in [Threads -> Nat] /\ search' \in [Threads -> {"count", "give"}]
         /\ found' \in [Threads -> Founds] /\ number' \in [Threads -> {"bus", "none", "garbage"}]
         /\ file' \in [Threads -> 0 .. MaxFds] /\ ret' \in [Threads -> Results]
BY NothingFoundType, MaxFdsAssumption DEF TypeOK, Return, GoTo, Places, Ops

\* What a load ends with is of the right types.
LEMMA EndsTypes ==
  ASSUME TypeOK, NEW t \in Threads, NEW es \in Arrays, NEW n \in 0 .. MaxBuses, NEW r \in Results,
         Ends(t, es, n, r)
  PROVE  pc' \in [Threads -> Places] /\ found' \in [Threads -> Founds] /\ ret' \in [Threads -> Results]
BY DEF TypeOK, Ends, GoTo, Founds, Places, Loading

\* The next request is one.
LEMMA NextIoctlType == ASSUME NEW t \in Threads PROVE NextIoctl(t) \in Ioctls
BY DEF NextIoctl, Ioctls

\* A request to the driver leaves the cache alone, and the other threads.
LEMMA IoctlMoves ==
  ASSUME TypeOK, NEW t \in Threads, Ioctl(t)
  PROVE  /\ \E l \in Ioctls \cup {"idle"} :
              GoTo(t, l) /\ (l # "idle" => UNCHANGED <<call, found, number, file, files>>)
         /\ UNCHANGED <<sbType, lock, cache>>
         /\ \A u \in Threads \ {t} :
              found'[u] = found[u] /\ nr'[u] = nr[u] /\ number'[u] = number[u] /\ file'[u] = file[u]
<1> USE DEF TypeOK, Return
<1>1. CASE pc[t] # "transfer" /\ GoTo(t, NextIoctl(t))
           /\ UNCHANGED <<sbType, lock, cache, files, call, found, number, file, ret>>
  BY <1>1, NextIoctlType DEF call
<1>2. ASSUME NEW r \in Results, CloseAndReturn(t, r)
      PROVE  GoTo(t, "idle") /\ UNCHANGED <<sbType, lock, cache>>
             /\ \A u \in Threads \ {t} : found'[u] = found[u] /\ nr'[u] = nr[u]
                                          /\ number'[u] = number[u] /\ file'[u] = file[u]
  BY <1>2 DEF CloseAndReturn
<1>3. CASE FailIoctlCheckErrno(t)
  BY <1>3, <1>2 DEF FailIoctlCheckErrno, Results, Errors
<1>4. Unsupported(t) \in Results BY DEF Unsupported, Results, Errors
<1> QED BY <1>1, <1>2, <1>3, <1>4 DEF Ioctl, Results, Errors

\* What a load returns is a result.
LEMMA ToldTypes ==
  ASSUME NEW t \in Threads, NEW r \in Results PROVE Told(t, r) \in Results
BY DEF Told, Results, Errors

\* The variables keep their types in one step.
LEMMA TypeStep == TypeOK /\ DescriptorsAccounted /\ [Next]_vars => TypeOK'
<1> SUFFICES ASSUME TypeOK, DescriptorsAccounted, [Next]_vars PROVE TypeOK'
  OBVIOUS
<1> USE DEF TypeOK, call, lock, cache, files, GoTo, Places, Loading, Ioctls, Results, Errors
<1>1. CASE UNCHANGED vars
  BY <1>1 DEF vars, local
<1>2. ASSUME NEW t \in Threads, Run(t) PROVE TypeOK'
  <2>1. CASE Check(t) BY <2>1 DEF Check
  <2>2. CASE Trylock(t) BY <2>2, ReturnTypes, ToldTypes DEF Trylock, Locking
  <2>3. CASE ClearCount(t) BY <2>3, MaxBusesAssumption DEF ClearCount
  <2>4. CASE Free(t) BY <2>4, ArrayFacts DEF Free
  <2>5. CASE ReadConf(t)
    <3>1. ASSUME NEW r \in Errors, LeaveLocked(t, r) PROVE TypeOK'
      BY <3>1, ReturnTypes, ToldTypes DEF LeaveLocked
    <3>2. CASE Ends(t, <<>>, 0, "success") /\ UNCHANGED cut
      BY <3>2, EndsTypes, ArrayFacts, MaxBusesAssumption DEF Ends
    <3>3. ASSUME NEW l \in {"scan", "listed"}, GoTo(t, l),
                 UNCHANGED <<sbType, lock, cache, files, call, found, number, file, ret>>
          PROVE TypeOK'
      BY <3>3
    <3>4. ASSUME GoTo(t, "unlock"), ret' = [ret EXCEPT ![t] = "error"],
                 UNCHANGED <<sbType, lock, cache, files, call, found, number, file>>
          PROVE TypeOK'
      BY <3>4
    <3> QED BY <2>5, <3>1, <3>2, <3>3, <3>4 DEF ReadConf
  <2>6. CASE Listed(t)
    <3>1. ASSUME NEW r \in Errors, LeaveLocked(t, r) PROVE TypeOK'
      BY <3>1, ReturnTypes, ToldTypes DEF LeaveLocked
    <3>2. ASSUME NEW es \in Arrays, NEW n \in 0 .. MaxBuses, NEW r \in Results, Ends(t, es, n, r),
                 cut' \in BOOLEAN
          PROVE TypeOK'
      BY <3>2, EndsTypes DEF Ends
    <3>3. 0 \in 0 .. MaxBuses /\ 1 .. MaxBuses \subseteq 0 .. MaxBuses BY MaxBusesAssumption
    <3>4. ASSUME NEW n \in 1 .. MaxBuses, Ends(t, [i \in 1 .. n |-> "bus"], n, "success"), UNCHANGED cut
          PROVE TypeOK'
      BY <3>2, <3>3, <3>4, ArrayFacts
    <3>5. ASSUME NEW es \in Arrays, Ends(t, es, 0, "error"), UNCHANGED cut PROVE TypeOK'
      BY <3>2, <3>3, <3>5
    <3>6. ASSUME NEW es \in Arrays, NEW n \in 0 .. MaxBuses, NEW r \in Errors, Ends(t, es, n, r), cut' = TRUE
          PROVE TypeOK'
      BY <3>2, <3>6
    <3> QED BY <2>6, <3>1, <3>4, <3>5, <3>6 DEF Listed
  <2>7. CASE Scan(t) BY <2>7, ArrayFacts DEF Scan, Ends, Founds
  <2>8. CASE Publish(t) BY <2>8 DEF Publish, Founds
  <2>9. CASE PublishCount(t) BY <2>9 DEF PublishCount, Founds
  <2>10. CASE Unlock(t) BY <2>10, ReturnTypes, ToldTypes, NothingFoundType DEF Unlock
  <2>11. CASE ReadCount(t) BY <2>11, ReturnTypes DEF ReadCount
  <2>12. CASE CheckArgs(t) BY <2>12, ReturnTypes DEF CheckArgs, Ops
  <2>13. CASE Deref(t)
    <3>1. nr[t] \in Nat BY NumbersAssumption
    <3>2. nr[t] < Len(arr) => arr[nr[t] + 1] \in {"bus", "none"} BY <3>1, ArrayFacts
    <3> QED BY <2>13, <3>2 DEF Deref
  <2>14. CASE Open(t)
    <3>1. ASSUME NEW r \in Errors \cup {"param_error"}, Return(t, r), UNCHANGED fds PROVE TypeOK'
      BY <2>14, <3>1, ReturnTypes DEF Open
    <3>2. ASSUME NEW d \in Fds, fds' = fds \cup {d}, file' = [file EXCEPT ![t] = d],
                 GoTo(t, FirstIoctl(t)), UNCHANGED <<call, found, number, ret>>
          PROVE TypeOK'
      BY <2>14, <3>2 DEF Open, FirstIoctl, Fds
    <3> QED BY <2>14, <3>1, <3>2 DEF Open
  <2>15. CASE Ioctl(t)
    <3>1. ASSUME NEW r \in Results, CloseAndReturn(t, r) PROVE TypeOK'
      BY <3>1, ReturnTypes DEF CloseAndReturn
    <3>2. CASE FailIoctlCheckErrno(t)
      <4>1. ASSUME kept' = kept \cup {file[t]}, Return(t, "permission_denied"),
                   UNCHANGED <<sbType, lock, cache, fds>>
            PROVE TypeOK'
        BY <2>15, <4>1, ReturnTypes DEF Ioctl, DescriptorsAccounted
      <4> QED BY <3>1, <3>2, <4>1 DEF FailIoctlCheckErrno
    <3>3. Unsupported(t) \in Results BY DEF Unsupported
    <3> QED BY <2>15, <3>1, <3>2, <3>3, NextIoctlType DEF Ioctl
  <2> QED BY <1>2, <2>1, <2>2, <2>3, <2>4, <2>5, <2>6, <2>7, <2>8, <2>9, <2>10, <2>11, <2>12, <2>13, <2>14, <2>15 DEF Run
<1>3. ASSUME NEW t \in Threads, Call(t) PROVE TypeOK'
  <2>1. PICK o \in Ops, n \in Numbers \cup {0} : Begin(t, o, n) BY <1>3, CallBegins
  <2> QED BY <2>1, NumbersAssumption DEF Begin
<1> QED BY <1>1, <1>2, <1>3 DEF Next

\* A step keeps the mutex with the thread that loads, or that left with it.
LEMMA HeldStep == TypeOK /\ MutexHeld /\ [Next]_vars => MutexHeld'
<1> SUFFICES ASSUME TypeOK, MutexHeld, [Next]_vars PROVE MutexHeld'
  OBVIOUS
<1> USE DEF MutexHeld, TypeOK, call, lock, GoTo, Return, Loading, Ioctls
<1>1. CASE UNCHANGED vars
  BY <1>1 DEF vars, local
<1>2. ASSUME NEW t \in Threads, Run(t) PROVE MutexHeld'
  <2>1. CASE Check(t) BY <2>1 DEF Check
  <2>2. CASE Trylock(t) BY <2>2, NoThreadAssumption DEF Trylock, Locking
  <2>3. CASE ClearCount(t) BY <2>3 DEF ClearCount
  <2>4. CASE Free(t) BY <2>4 DEF Free
  <2>5. CASE ReadConf(t) BY <2>5, NoThreadAssumption DEF ReadConf, LeaveLocked, Ends
  <2>6. CASE Listed(t) BY <2>6, NoThreadAssumption DEF Listed, LeaveLocked, Ends
  <2>7. CASE Scan(t) BY <2>7 DEF Scan, Ends
  <2>8. CASE Publish(t) BY <2>8 DEF Publish
  <2>9. CASE PublishCount(t) BY <2>9 DEF PublishCount
  <2>10. CASE Unlock(t) BY <2>10 DEF Unlock
  <2>11. CASE ReadCount(t) BY <2>11 DEF ReadCount
  <2>12. CASE CheckArgs(t) BY <2>12 DEF CheckArgs
  <2>13. CASE Deref(t) BY <2>13 DEF Deref
  <2>14. CASE Open(t) BY <2>14 DEF Open, FirstIoctl
  <2>15. CASE Ioctl(t) BY <2>15 DEF Ioctl, FailIoctlCheckErrno, CloseAndReturn, NextIoctl
  <2> QED BY <1>2, <2>1, <2>2, <2>3, <2>4, <2>5, <2>6, <2>7, <2>8, <2>9, <2>10, <2>11, <2>12, <2>13, <2>14, <2>15 DEF Run
<1>3. ASSUME NEW t \in Threads, Call(t) PROVE MutexHeld'
  <2>1. PICK o \in Ops, n \in Numbers \cup {0} : Begin(t, o, n) BY <1>3, CallBegins
  <2> QED BY <2>1, NumbersAssumption DEF Begin
<1> QED BY <1>1, <1>2, <1>3 DEF Next

\* The loader finds the cache as it left it.
LEMMA LoadStep == CacheInv /\ [Next]_vars => LoadGoesOn'
<1> SUFFICES ASSUME CacheInv, [Next]_vars PROVE LoadGoesOn'
  OBVIOUS
<1> USE DEF CacheInv, call, MutexHeld, LoadGoesOn, AllBuses, TypeOK, cache, GoTo, Return, Loading, Ioctls
<1>1. CASE UNCHANGED vars
  BY <1>1 DEF vars, local
<1>2. ASSUME NEW t \in Threads, Run(t) PROVE LoadGoesOn'
  <2>1. CASE Check(t) BY <2>1 DEF Check
  <2>2. CASE Trylock(t)
    <3>1. CASE mutex = NoThread /\ Locking(t)
      <4>1. ~reloaded' => count = 0 BY <3>1, MaxBusesAssumption DEF Locking
      <4>2. \A u \in Threads : pc[u] \notin Loading BY <3>1, NoThreadAssumption
      <4> QED BY <3>1, <4>1, <4>2 DEF Locking
    <3>2. ASSUME NEW r, Return(t, r), UNCHANGED cache PROVE LoadGoesOn'
      BY <3>2
    <3> QED BY <2>2, <3>1, <3>2 DEF Trylock
  <2>3. CASE ClearCount(t) BY <2>3 DEF ClearCount
  <2>4. CASE Free(t) BY <2>4 DEF Free
  <2>5. CASE ReadConf(t) BY <2>5, ArrayFacts DEF ReadConf, LeaveLocked, Ends
  <2>6. CASE Listed(t)
    <3>1. ASSUME NEW r \in Errors, LeaveLocked(t, r) PROVE LoadGoesOn'
      BY <2>6, <3>1 DEF Listed, LeaveLocked
    <3>2. ASSUME NEW es \in Arrays, NEW n \in 0 .. MaxBuses, NEW r \in Results, Ends(t, es, n, r),
                 n <= Len(es), n = 0 \/ AllBuses(es) \/ cut', cut => cut'
          PROVE LoadGoesOn'
      BY <2>6, <3>2 DEF Listed, Ends
    <3>3. 0 \in 0 .. MaxBuses /\ 1 .. MaxBuses \subseteq 0 .. MaxBuses BY MaxBusesAssumption
    <3>4. ASSUME NEW n \in 1 .. MaxBuses, Ends(t, [i \in 1 .. n |-> "bus"], n, "success"), UNCHANGED cut
          PROVE LoadGoesOn'
      <4>1. AllBuses([i \in 1 .. n |-> "bus"]) /\ n <= Len([i \in 1 .. n |-> "bus"])
        BY <3>3, ArrayFacts
      <4> QED BY <3>2, <3>3, <3>4, <4>1, ArrayFacts DEF Results
    <3>5. ASSUME NEW es \in Arrays, Ends(t, es, 0, "error"), UNCHANGED cut PROVE LoadGoesOn'
      BY <3>2, <3>3, <3>5, ArrayFacts DEF Results, Errors
    <3>6. ASSUME NEW es \in Arrays, NEW n \in 0 .. MaxBuses, NEW r \in Errors, Ends(t, es, n, r), cut' = TRUE,
                 n <= Cardinality({i \in DOMAIN es : es[i] = "bus"})
          PROVE LoadGoesOn'
      <4>1. n \in Nat /\ n <= Len(es) BY <3>6, BusesOfArray, MaxBusesAssumption
      <4> QED BY <3>2, <3>6, <4>1 DEF Results
    <3> QED BY <2>6, <3>1, <3>4, <3>5, <3>6 DEF Listed
  <2>7. CASE Scan(t) BY <2>7, ArrayFacts DEF Scan, Ends
  <2>8. CASE Publish(t) BY <2>8, ArrayFacts DEF Publish
  <2>9. CASE PublishCount(t) BY <2>9 DEF PublishCount
  <2>10. CASE Unlock(t) BY <2>10 DEF Unlock
  <2>11. CASE ReadCount(t) BY <2>11 DEF ReadCount
  <2>12. CASE CheckArgs(t) BY <2>12 DEF CheckArgs
  <2>13. CASE Deref(t) BY <2>13 DEF Deref
  <2>14. CASE Open(t) BY <2>14 DEF Open, FirstIoctl
  <2>15. CASE Ioctl(t)
    <3>1. PICK l \in Ioctls \cup {"idle"} : GoTo(t, l) BY <2>15, IoctlMoves
    <3>2. UNCHANGED <<sbType, lock, cache>> BY <2>15, IoctlMoves
    <3>3. \A u \in Threads \ {t} : found'[u] = found[u] /\ nr'[u] = nr[u] BY <2>15, IoctlMoves
    <3> QED BY <3>1, <3>2, <3>3
  <2> QED BY <1>2, <2>1, <2>2, <2>3, <2>4, <2>5, <2>6, <2>7, <2>8, <2>9, <2>10, <2>11, <2>12, <2>13, <2>14, <2>15 DEF Run
<1>3. ASSUME NEW t \in Threads, Call(t) PROVE LoadGoesOn'
  <2>1. PICK o \in Ops, n \in Numbers \cup {0} : Begin(t, o, n) BY <1>3, CallBegins
  <2> QED BY <2>1, NumbersAssumption DEF Begin
<1> QED BY <1>1, <1>2, <1>3 DEF Next

\* The counter stays behind the array.
LEMMA SoundStep == CacheInv /\ [Next]_vars => CacheSound'
<1> SUFFICES ASSUME CacheInv, [Next]_vars PROVE CacheSound'
  OBVIOUS
<1> USE DEF CacheInv, call, MutexHeld, LoadGoesOn, CacheSound, AllBuses, TypeOK, lock, cache, GoTo, Return, Loading
<1>1. CASE UNCHANGED vars
  BY <1>1 DEF vars, local
<1>2. ASSUME NEW t \in Threads, Run(t) PROVE CacheSound'
  <2>1. CASE Check(t) BY <2>1 DEF Check
  <2>2. CASE Trylock(t) BY <2>2 DEF Trylock, Locking
  <2>3. CASE ClearCount(t) BY <2>3, ArrayFacts DEF ClearCount
  <2>4. CASE Free(t) BY <2>4, ArrayFacts DEF Free
  <2>5. CASE ReadConf(t) BY <2>5 DEF ReadConf, LeaveLocked, Ends
  <2>6. CASE Listed(t)
    <3>1. ASSUME NEW r \in Errors, LeaveLocked(t, r) PROVE CacheSound'
      BY <2>6, <3>1 DEF Listed, LeaveLocked
    <3>2. ASSUME NEW es, NEW n, NEW r, Ends(t, es, n, r), cut => cut' PROVE CacheSound'
      BY <3>2 DEF Ends
    <3>3. \/ \E r \in Errors : LeaveLocked(t, r)
          \/ (cut => cut') /\ \E es, n, r : Ends(t, es, n, r)
      BY <2>6 DEF Listed
    <3> QED BY <3>1, <3>2, <3>3
  <2>7. CASE Scan(t) BY <2>7 DEF Scan, Ends
  <2>8. CASE Publish(t) BY <2>8, ArrayFacts DEF Publish, Founds
  <2>9. CASE PublishCount(t) BY <2>9, ArrayFacts DEF PublishCount
  <2>10. CASE Unlock(t) BY <2>10 DEF Unlock
  <2>11. CASE ReadCount(t) BY <2>11 DEF ReadCount
  <2>12. CASE CheckArgs(t) BY <2>12 DEF CheckArgs
  <2>13. CASE Deref(t) BY <2>13 DEF Deref
  <2>14. CASE Open(t) BY <2>14 DEF Open, FirstIoctl
  <2>15. CASE Ioctl(t) BY <2>15, IoctlMoves DEF Ioctl
  <2> QED BY <1>2, <2>1, <2>2, <2>3, <2>4, <2>5, <2>6, <2>7, <2>8, <2>9, <2>10, <2>11, <2>12, <2>13, <2>14, <2>15 DEF Run
<1>3. ASSUME NEW t \in Threads, Call(t) PROVE CacheSound'
  <2>1. PICK o \in Ops, n \in Numbers \cup {0} : Begin(t, o, n) BY <1>3, CallBegins
  <2> QED BY <2>1, NumbersAssumption DEF Begin
<1> QED BY <1>1, <1>2, <1>3 DEF Next

\* A bus that passed the check stays in the cache until it is loaded again.
LEMMA CheckStep == CacheInv /\ [Next]_vars => CheckHolds'
<1> SUFFICES ASSUME CacheInv, [Next]_vars PROVE CheckHolds'
  OBVIOUS
<1> USE DEF CacheInv, call, MutexHeld, LoadGoesOn, CheckHolds, TypeOK, cache, GoTo, Return, Loading, Ioctls
<1>1. CASE UNCHANGED vars
  BY <1>1 DEF vars, local
<1>2. ASSUME NEW t \in Threads, Run(t) PROVE CheckHolds'
  <2>1. CASE Check(t) BY <2>1 DEF Check
  <2>2. CASE Trylock(t) BY <2>2 DEF Trylock, Locking
  <2>3. CASE ClearCount(t) BY <2>3 DEF ClearCount
  <2>4. CASE Free(t) BY <2>4 DEF Free
  <2>5. CASE ReadConf(t) BY <2>5 DEF ReadConf, LeaveLocked, Ends
  <2>6. CASE Listed(t)
    <3>1. ASSUME NEW r, LeaveLocked(t, r) PROVE CheckHolds'
      BY <3>1 DEF LeaveLocked
    <3>2. ASSUME NEW es, NEW n, NEW r, Ends(t, es, n, r) PROVE CheckHolds'
      BY <3>2 DEF Ends
    <3> QED BY <2>6, <3>1, <3>2 DEF Listed
  <2>7. CASE Scan(t) BY <2>7 DEF Scan, Ends
  <2>8. CASE Publish(t) BY <2>8 DEF Publish
  <2>9. CASE PublishCount(t) BY <2>9, ArrayFacts DEF PublishCount, Founds
  <2>10. CASE Unlock(t) BY <2>10 DEF Unlock
  <2>11. CASE ReadCount(t) BY <2>11 DEF ReadCount
  <2>12. CASE CheckArgs(t) BY <2>12 DEF CheckArgs
  <2>13. CASE Deref(t) BY <2>13 DEF Deref
  <2>14. CASE Open(t) BY <2>14 DEF Open, FirstIoctl
  <2>15. CASE Ioctl(t)
    <3>1. PICK l \in Ioctls \cup {"idle"} : GoTo(t, l) BY <2>15, IoctlMoves
    <3>2. UNCHANGED <<sbType, lock, cache>> BY <2>15, IoctlMoves
    <3>3. \A u \in Threads \ {t} : found'[u] = found[u] /\ nr'[u] = nr[u] BY <2>15, IoctlMoves
    <3> QED BY <3>1, <3>2, <3>3
  <2> QED BY <1>2, <2>1, <2>2, <2>3, <2>4, <2>5, <2>6, <2>7, <2>8, <2>9, <2>10, <2>11, <2>12, <2>13, <2>14, <2>15 DEF Run
<1>3. ASSUME NEW t \in Threads, Call(t) PROVE CheckHolds'
  <2>1. PICK o \in Ops, n \in Numbers \cup {0} : Begin(t, o, n) BY <1>3, CallBegins
  <2> QED BY <2>1, NumbersAssumption DEF Begin
<1> QED BY <1>1, <1>2, <1>3 DEF Next

\* A number is read from an entry that has its bus.
LEMMA KnownStep == CacheInv /\ [Next]_vars => KnownBus'
<1> SUFFICES ASSUME CacheInv, [Next]_vars PROVE KnownBus'
  OBVIOUS
<1> USE DEF CacheInv, call, KnownBus, CacheSound, CheckHolds, AllBuses, TypeOK, cache, GoTo, Return, Ioctls
<1>1. CASE UNCHANGED vars
  BY <1>1 DEF vars, local
<1>2. ASSUME NEW t \in Threads, Run(t) PROVE KnownBus'
  <2>1. CASE Check(t) BY <2>1 DEF Check
  <2>2. CASE Trylock(t) BY <2>2 DEF Trylock, Locking
  <2>3. CASE ClearCount(t) BY <2>3 DEF ClearCount
  <2>4. CASE Free(t) BY <2>4 DEF Free
  <2>5. CASE ReadConf(t) BY <2>5 DEF ReadConf, LeaveLocked, Ends
  <2>6. CASE Listed(t) BY <2>6 DEF Listed, LeaveLocked, Ends
  <2>7. CASE Scan(t) BY <2>7 DEF Scan, Ends
  <2>8. CASE Publish(t) BY <2>8 DEF Publish
  <2>9. CASE PublishCount(t) BY <2>9 DEF PublishCount
  <2>10. CASE Unlock(t) BY <2>10 DEF Unlock
  <2>11. CASE ReadCount(t) BY <2>11 DEF ReadCount
  <2>12. CASE CheckArgs(t) BY <2>12 DEF CheckArgs
  <2>13. CASE Deref(t) BY <2>13, ArrayFacts, NumbersAssumption DEF Deref
  <2>14. CASE Open(t) BY <2>14 DEF Open, FirstIoctl
  <2>15. CASE Ioctl(t) BY <2>15, IoctlMoves DEF Ioctl
  <2> QED BY <1>2, <2>1, <2>2, <2>3, <2>4, <2>5, <2>6, <2>7, <2>8, <2>9, <2>10, <2>11, <2>12, <2>13, <2>14, <2>15 DEF Run
<1>3. ASSUME NEW t \in Threads, Call(t) PROVE KnownBus'
  <2>1. PICK o \in Ops, n \in Numbers \cup {0} : Begin(t, o, n) BY <1>3, CallBegins
  <2> QED BY <2>1, NumbersAssumption DEF Begin
<1> QED BY <1>1, <1>2, <1>3 DEF Next

\* Nothing changes for the descriptors when nobody comes to the transfer or
\* leaves it.
LEMMA OutsideTransfer ==
  ASSUME DescriptorsAccounted, UNCHANGED files,
         \A u \in Threads : (pc'[u] \in Ioctls <=> pc[u] \in Ioctls)
                           /\ (pc[u] \in Ioctls => file'[u] = file[u])
  PROVE  DescriptorsAccounted'
BY DEF DescriptorsAccounted, files

\* A step opens a descriptor nobody has, or closes or loses the caller's own.
LEMMA DescriptorStep == TypeOK /\ DescriptorsAccounted /\ [Next]_vars => DescriptorsAccounted'
<1> SUFFICES ASSUME TypeOK, DescriptorsAccounted, [Next]_vars PROVE DescriptorsAccounted'
  OBVIOUS
<1> USE DEF TypeOK
<1>1. CASE UNCHANGED vars
  BY <1>1, OutsideTransfer DEF vars, local
<1>2. ASSUME NEW t \in Threads, Run(t) PROVE DescriptorsAccounted'
  <2> DEFINE Quiet == /\ UNCHANGED files
                      /\ \A u \in Threads : (pc'[u] \in Ioctls <=> pc[u] \in Ioctls)
                                           /\ (pc[u] \in Ioctls => file'[u] = file[u])
  <2> USE DEF GoTo, Return, Loading, Ioctls
  <2>1. CASE Check(t)
    <3>1. Quiet BY <2>1 DEF Check
    <3> QED BY <3>1, OutsideTransfer
  <2>2. CASE Trylock(t)
    <3>1. Quiet BY <2>2 DEF Trylock, Locking
    <3> QED BY <3>1, OutsideTransfer
  <2>3. CASE ClearCount(t)
    <3>1. Quiet BY <2>3 DEF ClearCount
    <3> QED BY <3>1, OutsideTransfer
  <2>4. CASE Free(t)
    <3>1. Quiet BY <2>4 DEF Free
    <3> QED BY <3>1, OutsideTransfer
  <2>5. CASE ReadConf(t)
    <3>1. Quiet BY <2>5 DEF ReadConf, LeaveLocked, Ends
    <3> QED BY <3>1, OutsideTransfer
  <2>6. CASE Listed(t)
    <3>1. Quiet BY <2>6 DEF Listed, LeaveLocked, Ends
    <3> QED BY <3>1, OutsideTransfer
  <2>7. CASE Scan(t)
    <3>1. Quiet BY <2>7 DEF Scan, Ends
    <3> QED BY <3>1, OutsideTransfer
  <2>8. CASE Publish(t)
    <3>1. Quiet BY <2>8 DEF Publish
    <3> QED BY <3>1, OutsideTransfer
  <2>9. CASE PublishCount(t)
    <3>1. Quiet BY <2>9 DEF PublishCount
    <3> QED BY <3>1, OutsideTransfer
  <2>10. CASE Unlock(t)
    <3>1. Quiet BY <2>10 DEF Unlock
    <3> QED BY <3>1, OutsideTransfer
  <2>11. CASE ReadCount(t)
    <3>1. Quiet BY <2>11 DEF ReadCount
    <3> QED BY <3>1, OutsideTransfer
  <2>12. CASE CheckArgs(t)
    <3>1. Quiet BY <2>12 DEF CheckArgs
    <3> QED BY <3>1, OutsideTransfer
  <2>13. CASE Deref(t)
    <3>1. Quiet BY <2>13 DEF Deref
    <3> QED BY <3>1, OutsideTransfer
  <2>14. CASE Open(t)
    <3>1. ASSUME NEW r, Return(t, r), UNCHANGED <<fds, kept>> PROVE DescriptorsAccounted'
      <4>1. Quiet BY <2>14, <3>1 DEF Open, files
      <4> QED BY <4>1, OutsideTransfer
    <3>2. ASSUME NEW d \in Fds \ fds, fds' = fds \cup {d}, file' = [file EXCEPT ![t] = d],
                 GoTo(t, FirstIoctl(t)), UNCHANGED kept
          PROVE DescriptorsAccounted'
      <4>1. FirstIoctl(t) \in Ioctls BY DEF FirstIoctl
      <4>2. pc'[t] \in Ioctls /\ file'[t] = d BY <3>2, <4>1
      <4>3. \A u \in Threads : pc[u] \in Ioctls => u # t /\ pc'[u] = pc[u] /\ file'[u] = file[u]
        BY <2>14, <3>2 DEF Open
      <4>4. \A u \in Threads : pc'[u] \in Ioctls => u = t \/ pc[u] \in Ioctls BY <3>2
      <4>5. d \notin kept BY <3>2 DEF DescriptorsAccounted
      <4> QED BY <3>2, <4>2, <4>3, <4>4, <4>5 DEF DescriptorsAccounted
    <3> QED BY <2>14, <3>1, <3>2 DEF Open
  <2>15. CASE Ioctl(t)
    <3>1. CASE GoTo(t, NextIoctl(t)) /\ UNCHANGED <<files, file>>
      <4>1. Quiet BY <2>15, <3>1, NextIoctlType DEF Ioctl
      <4> QED BY <4>1, OutsideTransfer
    <3>2. ASSUME NEW r, Return(t, r),
                 \/ fds' = fds \ {file[t]} /\ kept' = kept
                 \/ fds' = fds /\ kept' = kept \cup {file[t]}
          PROVE  DescriptorsAccounted'
      <4>1. (fds \ kept)' = (fds \ kept) \ {file[t]} BY <3>2
      <4>2. pc'[t] \notin Ioctls /\ \A u \in Threads \ {t} : pc'[u] = pc[u] /\ file'[u] = file[u]
        BY <3>2
      <4>3. pc[t] \in Ioctls /\ file[t] \in fds \ kept BY <2>15 DEF Ioctl, DescriptorsAccounted
      <4>4. (kept \subseteq fds)' BY <3>2, <4>3 DEF DescriptorsAccounted
      <4>5. \A u \in Threads : pc'[u] \in Ioctls => u # t /\ pc[u] \in Ioctls /\ file'[u] = file[u]
        BY <4>2
      <4>6. \A u \in Threads : pc'[u] \in Ioctls => file'[u] \in (fds \ kept)'
        BY <4>1, <4>3, <4>5 DEF DescriptorsAccounted
      <4>7. ASSUME NEW d \in (fds \ kept)' PROVE \E u \in Threads : pc'[u] \in Ioctls /\ file'[u] = d
        <5>1. PICK u \in Threads : pc[u] \in Ioctls /\ file[u] = d BY <4>1 DEF DescriptorsAccounted
        <5>2. u # t BY <5>1, <4>1
        <5> QED BY <5>1, <5>2, <4>2
      <4> QED BY <4>4, <4>5, <4>6, <4>7 DEF DescriptorsAccounted
    <3> QED BY <2>15, <3>1, <3>2 DEF Ioctl, FailIoctlCheckErrno, CloseAndReturn
  <2> QED BY <1>2, <2>1, <2>2, <2>3, <2>4, <2>5, <2>6, <2>7, <2>8, <2>9, <2>10, <2>11, <2>12, <2>13, <2>14, <2>15 DEF Run
<1>3. ASSUME NEW t \in Threads, Call(t) PROVE DescriptorsAccounted'
  <2>1. PICK o \in Ops, n \in Numbers \cup {0} : Begin(t, o, n) BY <1>3, CallBegins
  <2> QED BY <2>1, OutsideTransfer DEF Begin, GoTo, Ioctls
<1> QED BY <1>1, <1>2, <1>3 DEF Next

-----------------------------------------------------------------------------
BusInv == CacheInv /\ DescriptorsAccounted

\* The invariant of the calls (linux_support.c:203-467, i2c.c, sm_bus.c).
THEOREM BusInvariant == Spec => []BusInv
<1>1. Init => BusInv
  <2>1. Init => TypeOK
    <3>1. 0 \in 0 .. MaxBuses /\ 0 \in 0 .. MaxFds BY MaxBusesAssumption, MaxFdsAssumption
    <3>2. Init => arr \in Arrays /\ count \in 0 .. MaxBuses BY <3>1, ArrayFacts DEF Init
    <3>3. Init => found \in [Threads -> Founds] BY NothingFoundType DEF Init
    <3>4. Init => /\ sbType \in {"i2c", "smbus"} /\ mutex = NoThread /\ leaver = NoThread
                  /\ fds = {} /\ kept = {} /\ reloaded = FALSE /\ cut = FALSE
      BY DEF Init
    <3>5. Init => /\ pc \in [Threads -> Places] /\ op \in [Threads -> Ops] /\ nr \in [Threads -> Nat]
                  /\ search \in [Threads -> {"count", "give"}] /\ ret \in [Threads -> Results]
                  /\ number \in [Threads -> {"bus", "none", "garbage"}] /\ file \in [Threads -> 0 .. MaxFds]
      BY <3>1 DEF Init, Places, Ops, Results
    <3> QED BY <3>2, <3>3, <3>4, <3>5 DEF TypeOK
  <2>2. Init => MutexHeld /\ LoadGoesOn /\ CheckHolds /\ KnownBus /\ DescriptorsAccounted
    BY DEF Init, MutexHeld, LoadGoesOn, CheckHolds, KnownBus, DescriptorsAccounted, Loading, Ioctls
  <2>3. Init => CacheSound
    BY ArrayFacts DEF Init, CacheSound
  <2> QED BY <2>1, <2>2, <2>3 DEF BusInv, CacheInv
<1>2. BusInv /\ [Next]_vars => BusInv'
  BY TypeStep, HeldStep, LoadStep, SoundStep, CheckStep, KnownStep, DescriptorStep DEF BusInv, CacheInv
<1> QED BY <1>1, <1>2, PTL DEF Spec

\* The variables have their types.
THEOREM BusTypeCorrect == Spec => []TypeOK
<1>1. BusInv => TypeOK
  BY DEF BusInv, CacheInv
<1> QED BY <1>1, BusInvariant, PTL

\* i2cArr[i2cNr] and smbusArr[smbusNr] (i2c.c:52, sm_bus.c:52) are read without
\* the mutex from an array that is there, until a second load begins.
THEOREM ReadersNeedNoMutex == Spec => []ReadsLive
<1>1. BusInv => ReadsLive
  <2> SUFFICES ASSUME BusInv, NEW t \in Threads, pc[t] = "deref", ~reloaded PROVE nr[t] < Len(arr)
    BY DEF ReadsLive
  <2>1. nr[t] < count /\ count <= Len(arr) BY DEF BusInv, CacheInv, CheckHolds, CacheSound
  <2>2. nr[t] \in Int /\ count \in Int /\ Len(arr) \in Int
    BY ArrayFacts, MaxBusesAssumption DEF BusInv, CacheInv, TypeOK
  <2> QED BY <2>1, <2>2
<1> QED BY <1>1, BusInvariant, PTL

\* A transfer goes to a bus of the system and not to the number -1 that an
\* entry has before its bus is found (linux_support.c:315), unless the scan was
\* cut short or the cache loaded twice.
THEOREM TransfersKnowTheirBus == Spec => []KnownBus
<1>1. BusInv => KnownBus
  BY DEF BusInv, CacheInv
<1> QED BY <1>1, BusInvariant, PTL

\* After a return with the mutex locked (linux_support.c:269, 330, 333) there
\* are no buses, and nobody loads them.
THEOREM LeaverLeavesNothing == Spec => []LeftEmpty
<1>1. BusInv => LeftEmpty
  <2> SUFFICES ASSUME BusInv, leaver # NoThread
               PROVE  arr = <<>> /\ count = 0 /\ \A t \in Threads : pc[t] \notin Loading
    BY DEF LeftEmpty
  <2>1. arr = <<>> /\ count <= Len(arr) /\ count \in 0 .. MaxBuses
    BY DEF BusInv, CacheInv, CacheSound, TypeOK
  <2>2. count = 0 BY <2>1, MaxBusesAssumption
  <2> QED BY <2>1, <2>2 DEF BusInv, CacheInv, MutexHeld
<1> QED BY <1>1, BusInvariant, PTL

\* Every path of a transfer closes its own descriptor and no other, except
\* failIoctlCheckErrno for EACCES and EPERM (linux_support.c:152-159).
THEOREM NoOtherDescriptorLost == Spec => []DescriptorsAccounted
<1>1. BusInv => DescriptorsAccounted
  BY DEF BusInv
<1> QED BY <1>1, BusInvariant, PTL

-----------------------------------------------------------------------------
(* The matching of the entries with the buses of the system.  Buses are      *)
(* placed one after the other; between two passes every entry has what the   *)
(* buses placed so far give it.                                              *)

Numbered == \A b \in Buses : b \in Nat

LEMMA BusNumbers == Numbered /\ NoBus \notin Buses
  BY BusesAssumption DEF NoBus, Numbered

\* A set of indices that is not empty has a greatest one, since inclusion of
\* finite sets is well-founded.
LEMMA GreatestIndex ==
  ASSUME NEW n \in Nat, NEW T \in SUBSET (1 .. n), T # {}
  PROVE  Max(T) \in T
<1> DEFINE S == 1 .. n
           R == StrictSubsetOrdering(S)
           C == {l .. n : l \in T}
<1>1. IsWellFoundedOn(R, FiniteSubsetsOf(S))
  BY FS_StrictSubsetOrderingWellFounded
<1>2. C \subseteq FiniteSubsetsOf(S) /\ C # {}
  <2>1. ASSUME NEW l \in T PROVE l .. n \in FiniteSubsetsOf(S)
    <3>1. l .. n \subseteq S /\ l \in Int /\ n \in Int OBVIOUS
    <3>2. IsFiniteSet(l .. n) BY <3>1, FS_Interval
    <3> QED BY <3>1, <3>2 DEF FiniteSubsetsOf
  <2> QED BY <2>1
<1>3. PICK c \in C : \A d \in C : <<d, c>> \notin R
  BY <1>1, <1>2, WFMin
<1>4. PICK m \in T : c = m .. n
  OBVIOUS
<1>5. ASSUME NEW k \in T, ~(m >= k) PROVE FALSE
  <2>1. k .. n \subseteq m .. n /\ m \in m .. n /\ m \notin k .. n /\ m .. n \subseteq S /\ k .. n \subseteq S
    BY <1>5
  <2>2. <<k .. n, c>> \in R BY <1>4, <2>1 DEF StrictSubsetOrdering
  <2> QED BY <1>3, <2>2
<1> QED BY <1>5 DEF Max

\* The entries that have reached their unit.
AtUnit == {j \in Index : units[j] > conf[j].unit}

Counts ==
  /\ MatchTypeOK
  /\ result # "none" => cur = NoBus
  /\ sbArrCount = Cardinality(AtUnit)
  /\ result = "success" => sbArrCount = Len(conf)
  /\ result = "retrieval_error" => sbArrCount # Len(conf)

LEMMA ConfType ==
  ASSUME MatchTypeOK
  PROVE  /\ Index = 1 .. Len(conf) /\ Len(conf) \in Nat
         /\ IsFiniteSet(Index) /\ Cardinality(Index) = Len(conf)
         /\ \A j \in Index : conf[j].name \in Names /\ conf[j].unit \in Nat
<1>1. conf \in Seq([name : Names, unit : Nat]) BY ConfsAssumption DEF MatchTypeOK
<1>2. Index = 1 .. Len(conf) /\ Len(conf) \in Nat BY <1>1 DEF Index
<1>3. IsFiniteSet(1 .. Len(conf)) /\ Cardinality(1 .. Len(conf)) = Len(conf)
  <2>1. 1 \in Int /\ Len(conf) \in Int BY <1>2
  <2> QED BY <1>2, <2>1, FS_Interval
<1>4. ASSUME NEW j \in 1 .. Len(conf) PROVE conf[j].name \in Names /\ conf[j].unit \in Nat
  <2> DEFINE E == [name : Names, unit : Nat]
  <2>1. conf[j] \in E
    <3>1. conf \in Seq(E) BY <1>1
    <3> HIDE DEF E
    <3> QED BY <3>1
  <2> QED BY <2>1
<1> QED BY <1>2, <1>3, <1>4

\* The number to place next is one an entry had.
LEMMA NextNumber ==
  ASSUME MatchTypeOK, cur \in Buses
  PROVE  \/ Displaced = {} /\ PlacedNext = NoBus
         \/ Displaced # {} /\ \E j \in Displaced : PlacedNext = realNr[j] /\ PlacedNext \in Buses
<1>1. Index = 1 .. Len(conf) /\ Len(conf) \in Nat BY ConfType
<1>2. CASE Displaced # {}
  <2>1. Displaced \in SUBSET (1 .. Len(conf)) BY <1>1 DEF Displaced
  <2>2. Max(Displaced) \in Displaced BY <1>1, <1>2, <2>1, GreatestIndex
  <2>3. PlacedNext = realNr[Max(Displaced)] BY <1>2 DEF PlacedNext
  <2>4. realNr[Max(Displaced)] > cur /\ realNr[Max(Displaced)] \in Buses \cup {NoBus}
    BY <2>2 DEF Displaced, MatchTypeOK
  <2>5. realNr[Max(Displaced)] # NoBus BY <2>4, BusNumbers DEF NoBus, Numbered
  <2> QED BY <1>2, <2>2, <2>3, <2>4, <2>5
<1> QED BY <1>2 DEF PlacedNext

\* What a pass adds to the entries that have reached their unit.
LEMMA PassCounts ==
  ASSUME Counts, Pass
  PROVE  AtUnit' = AtUnit \cup Reached /\ AtUnit \cap Reached = {}
<1> USE DEF Counts
<1>1. conf' = conf /\ Index' = Index BY DEF Pass, Index
<1>2. \A j \in Index : units[j] \in Nat /\ conf[j].unit \in Nat BY ConfType DEF MatchTypeOK
<1>3. \A j \in Index : units'[j] = IF j \in Taken THEN units[j] + 1 ELSE units[j]
  BY DEF Pass
<1>4. \A j \in Taken : j \in Index /\ units[j] <= conf[j].unit BY DEF Taken
<1>5. ASSUME NEW j \in Index
      PROVE  j \in AtUnit' <=> j \in AtUnit \/ j \in Reached
  <2>1. CASE j \in Taken
    <3>1. units'[j] > conf[j].unit <=> units[j] = conf[j].unit BY <1>2, <1>3, <1>4, <2>1
    <3>2. j \in Reached <=> units[j] = conf[j].unit BY <2>1 DEF Reached
    <3>3. j \notin AtUnit BY <1>2, <1>4, <2>1 DEF AtUnit
    <3> QED BY <1>1, <3>1, <3>2, <3>3 DEF AtUnit
  <2>2. CASE j \notin Taken
    BY <1>1, <1>3, <2>2 DEF AtUnit, Reached
  <2> QED BY <2>1, <2>2
<1>6. AtUnit \subseteq Index /\ AtUnit' \subseteq Index /\ Reached \subseteq Index
  BY <1>1, <1>4 DEF AtUnit, Reached
<1>7. AtUnit \cap Reached = {} BY <1>2, <1>4 DEF AtUnit, Reached
<1> QED BY <1>5, <1>6, <1>7

LEMMA CountsInit == MatchInit => Counts
<1> SUFFICES ASSUME MatchInit PROVE Counts
  OBVIOUS
<1>1. conf \in Seq([name : Names, unit : Nat]) BY ConfsAssumption DEF MatchInit
<1>2. Len(conf) \in Nat /\ Index = 1 .. Len(conf) BY <1>1 DEF Index
<1>3. MatchTypeOK BY <1>2 DEF MatchInit, MatchTypeOK
<1>4. AtUnit = {}
  <2>1. \A j \in Index : conf[j].unit \in Nat BY <1>3, ConfType
  <2> QED BY <2>1 DEF AtUnit, MatchInit
<1> QED BY <1>3, <1>4, FS_EmptySet DEF Counts, MatchInit

LEMMA CountsStep == Counts /\ [MatchNext]_matchVars => Counts'
<1> SUFFICES ASSUME Counts, [MatchNext]_matchVars PROVE Counts'
  OBVIOUS
<1> USE DEF Counts
<1>1. CASE UNCHANGED matchVars
  BY <1>1 DEF matchVars, MatchTypeOK, AtUnit, Index
<1>2. ASSUME NEW b \in Buses, ReadEntry(b) PROVE Counts'
  <2>1. /\ UNCHANGED <<named, conf, realNr, units, sbArrCount, result>> /\ result = "none"
        /\ todo' = todo \ {b} /\ b \in todo
        /\ \/ cur' = b /\ data' = named[b] /\ read' = read \cup {b}
           \/ UNCHANGED <<cur, data, read>> /\ cur = NoBus
    BY <1>2 DEF ReadEntry
  <2>2. named[b] \in Names BY SystemsAssumption DEF MatchTypeOK
  <2>3. MatchTypeOK' BY <2>1, <2>2 DEF MatchTypeOK, Index
  <2>4. AtUnit' = AtUnit BY <2>1 DEF AtUnit, Index
  <2> QED BY <2>1, <2>3, <2>4
<1>3. CASE Pass
  <2>1. /\ cur \in Buses /\ cur # NoBus /\ result = "none"
        /\ UNCHANGED <<named, conf, todo, read, data, result>>
        /\ cur' = PlacedNext /\ sbArrCount' = sbArrCount + Cardinality(Reached)
    BY <1>3 DEF Pass, MatchTypeOK
  <2>2. IsFiniteSet(Index) /\ Cardinality(Index) = Len(conf) /\ Len(conf) \in Nat BY ConfType
  <2>3. AtUnit' = AtUnit \cup Reached /\ AtUnit \cap Reached = {} BY <1>3, PassCounts
  <2>4. AtUnit \in SUBSET Index /\ Reached \in SUBSET Index /\ AtUnit' \in SUBSET Index
    BY <2>3 DEF AtUnit, Reached, Taken
  <2>5. IsFiniteSet(AtUnit) /\ IsFiniteSet(Reached) /\ IsFiniteSet(AtUnit')
    BY <2>2, <2>4, FS_Subset
  <2>6. Cardinality(AtUnit \cap Reached) = 0 BY <2>3, FS_EmptySet
  <2>7. /\ Cardinality(AtUnit) \in Nat /\ Cardinality(Reached) \in Nat
        /\ Cardinality(AtUnit') \in Nat /\ Cardinality(AtUnit') <= Len(conf)
    BY <2>2, <2>4, <2>5, FS_CardinalityType, FS_Subset
  <2>8. Cardinality(AtUnit') = Cardinality(AtUnit) + Cardinality(Reached)
    <3>1. Cardinality(AtUnit \cup Reached)
            = Cardinality(AtUnit) + Cardinality(Reached) - Cardinality(AtUnit \cap Reached)
      BY <2>5, FS_Union
    <3>2. Cardinality(AtUnit') = Cardinality(AtUnit) + Cardinality(Reached) - 0
      BY <3>1, <2>3, <2>6
    <3> QED BY <3>2, <2>7
  <2>9. sbArrCount' = Cardinality(AtUnit') /\ sbArrCount' \in 0 .. Len(conf)
    BY <2>1, <2>2, <2>7, <2>8
  <2>10. realNr' \in [Index -> Buses \cup {NoBus}] /\ units' \in [Index -> Nat]
    BY <1>3, <2>1 DEF Pass, MatchTypeOK
  <2>11. cur' \in Buses \cup {NoBus} BY <2>1, NextNumber
  <2>12. MatchTypeOK' BY <2>1, <2>9, <2>10, <2>11 DEF MatchTypeOK, Index
  <2> QED BY <2>1, <2>9, <2>12
<1>4. CASE Finish
  <2>1. /\ UNCHANGED <<named, conf, todo, read, data, cur, realNr, units, sbArrCount>>
        /\ cur = NoBus /\ result' = IF sbArrCount = Len(conf) THEN "success" ELSE "retrieval_error"
    BY <1>4 DEF Finish
  <2> QED BY <2>1 DEF MatchTypeOK, AtUnit, Index
<1>5. ASSUME NEW b \in Buses, CutShort(b) PROVE Counts'
  BY <1>5 DEF CutShort, MatchTypeOK, AtUnit, Index
<1> QED BY <1>1, <1>2, <1>3, <1>4, <1>5 DEF MatchNext

\* The variables keep their types: the counter of entries that have their bus is
\* never more than the entries, whatever buses there are and whatever names begin
\* others (src/linux_support.c:301-396).
THEOREM MatchTypeCorrect == MatchSpec => []MatchTypeOK
<1>1. Counts => MatchTypeOK BY DEF Counts
<1> QED BY <1>1, CountsInit, CountsStep, PTL DEF MatchSpec

\* What a pass places next is a greater number of the system, or nothing.
GoesUp == cur # NoBus => cur' = NoBus \/ (cur' \in Buses /\ cur' > cur)

\* Between two calls of readdir the numbers placed only grow, however many buses
\* have a name and whatever names begin others: the do-while loop makes at most as
\* many rounds as there are buses (src/linux_support.c:361-382).
THEOREM NumbersGoUp == MatchSpec => [][GoesUp]_matchVars
<1>1. ASSUME Counts, [MatchNext]_matchVars PROVE [GoesUp]_matchVars
  <2>1. ASSUME Pass PROVE GoesUp
    <3>1. cur \in Buses /\ cur' = PlacedNext BY <1>1, <2>1 DEF Pass, Counts, MatchTypeOK
    <3>2. PlacedNext = NoBus \/ (PlacedNext \in Buses /\ PlacedNext > cur)
      <4>1. \A j \in Displaced : realNr[j] > cur BY DEF Displaced
      <4> QED BY <1>1, <3>1, <4>1, NextNumber DEF Counts
    <3> QED BY <3>1, <3>2 DEF GoesUp
  <2>2. ASSUME NEW b \in Buses, ReadEntry(b) \/ CutShort(b) PROVE GoesUp
    BY <2>2 DEF ReadEntry, CutShort, GoesUp
  <2>3. CASE Finish BY <2>3 DEF Finish, GoesUp
  <2>4. CASE UNCHANGED matchVars BY <2>4
  <2> QED BY <1>1, <2>1, <2>2, <2>3, <2>4 DEF MatchNext
<1> QED BY <1>1, CountsInit, CountsStep, PTL DEF MatchSpec

-----------------------------------------------------------------------------
\* At most two buses have a name, and none begins like another.
AtMostTwo ==
  /\ \A m, n \in Names : <<m, n>> \in IsPrefix => m = n
  /\ \A s \in Systems : \A a, b, c \in Buses :
       s[a] = s[b] /\ s[b] = s[c] => a = b \/ b = c \/ a = c

\* The buses of an entry's name that are placed.
Placed(j) == Fitting(j) \ {cur}

\* What they give it: its first bus whether it means it or not, and the second
\* one, in the order of the numbers, if it does not mean the first.
HasPlaced(j) ==
  /\ Placed(j) = {} => realNr[j] = NoBus /\ units[j] = 0
  /\ \A b \in Placed(j) : Placed(j) = {b} => realNr[j] = b /\ units[j] = 1
  /\ \A b, c \in Placed(j) : b < c =>
       IF conf[j].unit = 0 THEN realNr[j] = b /\ units[j] = 1
       ELSE realNr[j] = c /\ units[j] = 2

InOrder ==
  /\ cur # NoBus => cur \in read /\ data = named[cur]
  /\ \A j \in Index : HasPlaced(j)

LEMMA FittingIs ==
  ASSUME AtMostTwo, MatchTypeOK, NEW j \in Index
  PROVE  /\ Fitting(j) = {b \in read : named[b] = conf[j].name}
         /\ Fitting(j) \subseteq Buses /\ Fitting(j) \subseteq Nat
         /\ \A a, b, c \in Fitting(j) : a = b \/ b = c \/ a = c
<1>1. conf[j].name \in Names BY ConfType
<1>2. \A b \in read : b \in Buses /\ named[b] \in Names BY SystemsAssumption DEF MatchTypeOK
<1>3. \A n \in Names : <<conf[j].name, n>> \in IsPrefix <=> n = conf[j].name
  BY <1>1, PrefixAssumption DEF AtMostTwo
<1>4. Fitting(j) = {b \in read : named[b] = conf[j].name} BY <1>2, <1>3 DEF Fitting
<1>5. \A a, b, c \in Fitting(j) : a = b \/ b = c \/ a = c
  BY <1>2, <1>4 DEF AtMostTwo, MatchTypeOK
<1> QED BY <1>2, <1>4, <1>5, BusNumbers DEF Numbered

LEMMA MatchesIs ==
  ASSUME AtMostTwo, MatchTypeOK, cur # NoBus, cur \in read, data = named[cur], NEW j \in Index
  PROVE  /\ Matches(j) <=> conf[j].name = data
         /\ Matches(j) <=> cur \in Fitting(j)
<1>1. conf[j].name \in Names BY ConfType
<1>2. cur \in Buses /\ data \in Names BY SystemsAssumption DEF MatchTypeOK
<1>3. Matches(j) <=> conf[j].name = data BY <1>1, <1>2, PrefixAssumption DEF Matches, AtMostTwo
<1>4. cur \in Fitting(j) <=> conf[j].name = data BY FittingIs
<1> QED BY <1>3, <1>4

\* An entry that cur fits has at most one bus.
LEMMA OneBefore ==
  ASSUME AtMostTwo, MatchTypeOK, InOrder, cur # NoBus, NEW j \in Index, Matches(j)
  PROVE  /\ cur \in Fitting(j) /\ cur \in Nat
         /\ \/ Placed(j) = {} /\ Fitting(j) = {cur}
            \/ \E p \in Nat \ {cur} : Placed(j) = {p} /\ Fitting(j) = {p, cur}
<1>1. cur \in Fitting(j) BY MatchesIs DEF InOrder
<1>2. Fitting(j) \subseteq Nat /\ \A a, b, c \in Fitting(j) : a = b \/ b = c \/ a = c
  BY FittingIs
<1>3. ASSUME NEW p \in Fitting(j), p # cur PROVE Placed(j) = {p} /\ Fitting(j) = {p, cur}
  <2>1. \A c \in Fitting(j) : c = p \/ c = cur BY <1>1, <1>2, <1>3
  <2> QED BY <1>1, <1>3, <2>1 DEF Placed
<1>4. (\A p \in Fitting(j) : p = cur) => Placed(j) = {} /\ Fitting(j) = {cur}
  BY <1>1 DEF Placed
<1> QED BY <1>1, <1>2, <1>3, <1>4

\* Entries that cur fits have the same buses.
LEMMA SameBuses ==
  ASSUME AtMostTwo, MatchTypeOK, InOrder, cur # NoBus,
         NEW j \in Index, NEW l \in Index, Matches(j), Matches(l)
  PROVE  Placed(j) = Placed(l) /\ Fitting(j) = Fitting(l)
<1>1. conf[j].name = conf[l].name BY MatchesIs DEF InOrder
<1>2. Fitting(j) = {b \in read : named[b] = conf[j].name} BY FittingIs
<1>3. Fitting(l) = {b \in read : named[b] = conf[l].name} BY FittingIs
<1>4. Fitting(j) = Fitting(l) BY <1>1, <1>2, <1>3
<1> QED BY <1>4 DEF Placed

\* A pass places cur, or puts it in the place of a greater number, which is the
\* next to place.
LEMMA PassInOrder ==
  ASSUME AtMostTwo, Counts, InOrder, Pass
  PROVE  InOrder'
<1> USE DEF Counts
<1>1. /\ cur # NoBus /\ cur' = PlacedNext /\ UNCHANGED <<named, conf, read, data>>
      /\ \A j \in Index : /\ realNr'[j] = IF j \in Displaced \cup Taken THEN cur ELSE realNr[j]
                          /\ units'[j] = IF j \in Taken THEN units[j] + 1 ELSE units[j]
  BY DEF Pass
<1>2. cur \in Buses /\ cur \in read /\ data = named[cur] /\ cur \in Nat
  BY <1>1, BusNumbers DEF InOrder, MatchTypeOK, Numbered
<1>3. Index' = Index /\ \A j \in Index : Fitting(j)' = Fitting(j)
  BY <1>1 DEF Index, Fitting
<1>4. \A j \in Index : ~Matches(j) => j \notin Displaced /\ j \notin Taken
  BY DEF Displaced, Taken
<1>5. ASSUME NEW l \in Displaced
      PROVE  /\ l \in Index /\ Matches(l) /\ realNr[l] \in Nat /\ realNr[l] > cur
             /\ Placed(l) = {realNr[l]} /\ Fitting(l) = {realNr[l], cur}
  <2>1. l \in Index /\ Matches(l) /\ realNr[l] > cur BY DEF Displaced
  <2>2. Placed(l) # {} BY <1>2, <2>1 DEF InOrder, HasPlaced, NoBus
  <2>3. PICK p \in Nat \ {cur} : Placed(l) = {p} /\ Fitting(l) = {p, cur}
    BY <1>1, <2>1, <2>2, OneBefore
  <2>4. realNr[l] = p BY <2>1, <2>3 DEF InOrder, HasPlaced
  <2> QED BY <2>1, <2>3, <2>4
<1>6. \/ Displaced = {} /\ cur' = NoBus
      \/ \E l \in Displaced : cur' = realNr[l]
  BY <1>1, <1>2, NextNumber
<1>7. cur' # NoBus => cur' \in read /\ data = named[cur']
  <2> SUFFICES ASSUME NEW l \in Displaced, cur' = realNr[l]
               PROVE  cur' \in read /\ data = named[cur']
    BY <1>6
  <2>1. l \in Index /\ Matches(l) /\ cur' \in Fitting(l) BY <1>5
  <2>2. conf[l].name = data BY <1>1, <1>2, <2>1, MatchesIs
  <2> QED BY <2>1, <2>2, FittingIs
<1>8. ASSUME NEW j \in Index, ~Matches(j)
      PROVE  HasPlaced(j)'
  <2>1. realNr'[j] = realNr[j] /\ units'[j] = units[j] BY <1>1, <1>4, <1>8
  <2>2. cur \notin Fitting(j) BY <1>1, <1>2, <1>8, MatchesIs
  <2>3. cur' \notin Fitting(j)
    <3>1. conf[j].name \in Names /\ conf[j].name # data BY <1>1, <1>2, <1>8, ConfType, MatchesIs
    <3>2. CASE cur' = NoBus
      <4>1. NoBus \notin Nat BY DEF NoBus
      <4> QED BY <3>2, <4>1, FittingIs
    <3>3. CASE cur' # NoBus BY <1>7, <3>1, <3>3, FittingIs
    <3> QED BY <3>2, <3>3
  <2>4. Placed(j)' = Placed(j) BY <1>3, <2>2, <2>3 DEF Placed
  <2>5. HasPlaced(j) BY DEF InOrder
  <2> QED BY <1>1, <2>1, <2>4, <2>5 DEF HasPlaced
<1>9. ASSUME NEW j \in Index, Matches(j)
      PROVE  HasPlaced(j)'
  <2>1. conf[j].unit \in Nat BY ConfType
  <2>2. HasPlaced(j) BY DEF InOrder
  <2>3. CASE Placed(j) = {} /\ Fitting(j) = {cur}
    <3>1. Displaced = {}
      <4> SUFFICES ASSUME NEW l \in Displaced PROVE FALSE
        OBVIOUS
      <4>1. Placed(l) = Placed(j) BY <1>1, <1>5, <1>9, SameBuses
      <4> QED BY <1>5, <2>3, <4>1
    <3>2. cur' = NoBus BY <1>6, <3>1
    <3>3. j \in Taken BY <1>9, <2>1, <2>2, <2>3, <3>1 DEF HasPlaced, Taken
    <3>4. realNr'[j] = cur /\ units'[j] = 1 BY <1>1, <2>2, <2>3, <3>3 DEF HasPlaced
    <3>5. Placed(j)' = {cur} BY <1>2, <1>3, <2>3, <3>2 DEF Placed, NoBus
    <3> QED BY <1>2, <3>4, <3>5 DEF HasPlaced
  <2>4. ASSUME NEW p \in Nat, p # cur, Placed(j) = {p}, Fitting(j) = {p, cur}
        PROVE  HasPlaced(j)'
    <3>1. realNr[j] = p /\ units[j] = 1 BY <2>2, <2>4 DEF HasPlaced
    <3>2. \A l \in Displaced : realNr[l] = p
      <4> SUFFICES ASSUME NEW l \in Displaced PROVE realNr[l] = p
        OBVIOUS
      <4>1. Placed(l) = Placed(j) BY <1>1, <1>5, <1>9, SameBuses
      <4> QED BY <1>5, <2>4, <4>1
    <3>3. CASE p < cur
      <4>1. Displaced = {}
        <5>1. ~(p > cur) BY <1>2, <2>4, <3>3
        <5> QED BY <1>5, <3>2, <5>1
      <4>2. cur' = NoBus BY <1>6, <4>1
      <4>3. Placed(j)' = {p, cur} BY <1>2, <1>3, <2>4, <4>2 DEF Placed, NoBus
      <4>4. j \in Taken <=> conf[j].unit # 0 BY <1>9, <2>1, <3>1, <4>1 DEF Taken
      <4>5. IF conf[j].unit = 0 THEN realNr'[j] = p /\ units'[j] = 1
            ELSE realNr'[j] = cur /\ units'[j] = 2
        BY <1>1, <3>1, <4>1, <4>4
      <4>6. conf' = conf /\ {p, cur} # {} /\ p # cur /\ ~(cur < p) /\ ~(p < p) /\ ~(cur < cur)
        BY <1>1, <1>2, <2>4, <3>3
      <4>7. \A b : {p, cur} # {b} BY <2>4
      <4> QED BY <4>3, <4>5, <4>6, <4>7 DEF HasPlaced
    <3>4. CASE p > cur
      <4>1. j \in Displaced BY <1>9, <3>1, <3>4 DEF Displaced
      <4>2. cur' = p BY <1>6, <3>2, <4>1
      <4>3. Placed(j)' = {cur} BY <1>3, <2>4, <4>2 DEF Placed
      <4>4. realNr'[j] = cur /\ units'[j] = 1 BY <1>1, <3>1, <4>1 DEF Taken
      <4> QED BY <1>2, <4>3, <4>4 DEF HasPlaced
    <3> QED BY <1>2, <2>4, <3>3, <3>4
  <2> QED BY <1>1, <1>9, <2>3, <2>4, OneBefore
<1> QED BY <1>1, <1>3, <1>7, <1>8, <1>9 DEF InOrder

LEMMA InOrderStep == AtMostTwo /\ Counts /\ InOrder /\ [MatchNext]_matchVars => InOrder'
<1> SUFFICES ASSUME AtMostTwo, Counts, InOrder, [MatchNext]_matchVars PROVE InOrder'
  OBVIOUS
<1> USE DEF Counts
<1>1. CASE UNCHANGED <<named, conf, read, data, cur, realNr, units>>
  BY <1>1 DEF InOrder, HasPlaced, Placed, Fitting, Index
<1>2. ASSUME NEW b \in Buses, ReadEntry(b) PROVE InOrder'
  <2>1. UNCHANGED <<named, conf, realNr, units>> /\ cur = NoBus /\ b \in todo
    BY <1>2 DEF ReadEntry
  <2>2. CASE cur' = b /\ data' = named[b] /\ read' = read \cup {b}
    <3>1. b \notin read BY <2>1 DEF MatchTypeOK
    <3>2. Index' = Index BY <2>1 DEF Index
    <3>3. ASSUME NEW j \in Index PROVE Placed(j)' = Placed(j)
      <4>1. Fitting(j)' \ {b} = Fitting(j) BY <2>1, <2>2, <3>1 DEF Fitting
      <4>2. NoBus \notin Fitting(j) BY BusNumbers DEF Fitting, MatchTypeOK
      <4> QED BY <2>1, <2>2, <4>1, <4>2 DEF Placed
    <3>4. \A j \in Index : HasPlaced(j)'
      BY <2>1, <3>3 DEF InOrder, HasPlaced
    <3> QED BY <2>1, <2>2, <3>2, <3>4 DEF InOrder
  <2>3. CASE UNCHANGED <<cur, data, read>> BY <1>1, <2>1, <2>3
  <2> QED BY <1>2, <2>2, <2>3 DEF ReadEntry
<1>3. CASE Pass BY <1>3, PassInOrder
<1>4. CASE Finish \/ UNCHANGED matchVars BY <1>1, <1>4 DEF Finish, matchVars
<1>5. ASSUME NEW b \in Buses, CutShort(b) PROVE UNCHANGED <<named, conf, todo, read, data, cur, realNr, units>>
  BY <1>5 DEF CutShort
<1> QED BY <1>1, <1>2, <1>3, <1>4, <1>5 DEF MatchNext

\* When all buses are placed an entry has passed its unit exactly when there is
\* the bus it means, and then it has that bus.
LEMMA AllPlaced ==
  ASSUME AtMostTwo, MatchTypeOK, InOrder, cur = NoBus, NEW j \in Index
  PROVE  /\ units[j] > conf[j].unit => Meant(j, realNr[j])
         /\ ~(units[j] > conf[j].unit) => \A b \in read : ~Meant(j, b)
<1>1. conf[j].unit \in Nat BY ConfType
<1>2. Fitting(j) \subseteq Nat /\ \A a, b, c \in Fitting(j) : a = b \/ b = c \/ a = c
  BY FittingIs
<1>3. Placed(j) = Fitting(j) BY <1>2 DEF Placed, NoBus
<1>4. HasPlaced(j) BY DEF InOrder
<1> DEFINE Below(b) == {c \in Fitting(j) : c < b}
<1>5. CASE Fitting(j) = {}
  <2>1. units[j] = 0 BY <1>3, <1>4, <1>5 DEF HasPlaced
  <2>2. ~(units[j] > conf[j].unit) BY <1>1, <2>1
  <2> QED BY <1>5, <2>2 DEF Meant
<1>6. ASSUME NEW p \in Fitting(j), Fitting(j) = {p}
      PROVE  /\ units[j] > conf[j].unit => Meant(j, realNr[j])
             /\ ~(units[j] > conf[j].unit) => \A b \in read : ~Meant(j, b)
  <2>1. realNr[j] = p /\ units[j] = 1 BY <1>3, <1>4, <1>6 DEF HasPlaced
  <2>2. Below(p) = {} BY <1>2, <1>6
  <2>3. Cardinality(Below(p)) = 0 BY <2>2, FS_EmptySet
  <2>4. units[j] > conf[j].unit <=> conf[j].unit = 0 BY <1>1, <2>1
  <2> QED BY <1>6, <2>1, <2>3, <2>4 DEF Meant
<1>7. ASSUME NEW p \in Fitting(j), NEW q \in Fitting(j), p < q
      PROVE  /\ units[j] > conf[j].unit => Meant(j, realNr[j])
             /\ ~(units[j] > conf[j].unit) => \A b \in read : ~Meant(j, b)
  <2>1. Fitting(j) = {p, q} BY <1>2, <1>7
  <2>2. IF conf[j].unit = 0 THEN realNr[j] = p /\ units[j] = 1
        ELSE realNr[j] = q /\ units[j] = 2
    BY <1>3, <1>4, <1>7 DEF HasPlaced
  <2>3. p \in Nat /\ q \in Nat BY <1>2
  <2>4. Below(p) = {} /\ Below(q) = {p} BY <1>7, <2>1, <2>3
  <2>5. Cardinality(Below(p)) = 0 /\ Cardinality(Below(q)) = 1
    BY <2>4, FS_EmptySet, FS_Singleton
  <2>6. units[j] > conf[j].unit <=> conf[j].unit \in {0, 1} BY <1>1, <2>2
  <2> QED BY <1>1, <2>1, <2>2, <2>5, <2>6 DEF Meant
<1>8. \/ Fitting(j) = {}
      \/ \E p \in Fitting(j) : Fitting(j) = {p}
      \/ \E p, q \in Fitting(j) : p < q
  <2> SUFFICES ASSUME NEW p \in Fitting(j), NEW q \in Fitting(j), p # q
               PROVE  p < q \/ q < p
    OBVIOUS
  <2> QED BY <1>2
<1> QED BY <1>5, <1>6, <1>7, <1>8

LEMMA MatchingEnds ==
  ASSUME AtMostTwo, Counts, InOrder
  PROVE  RightBus /\ PresentMeansSuccess
<1> USE DEF Counts
<1>1. IsFiniteSet(Index) /\ Cardinality(Index) = Len(conf) BY ConfType
<1>2. AtUnit \in SUBSET Index BY DEF AtUnit
<1>3. ASSUME result = "success" PROVE \A j \in Index : Meant(j, realNr[j])
  <2>1. AtUnit = Index BY <1>1, <1>2, <1>3, FS_Subset
  <2> QED BY <1>3, <2>1, AllPlaced DEF AtUnit
<1>4. ASSUME result = "retrieval_error" PROVE \E j \in Index : \A b \in read : ~Meant(j, b)
  <2>1. AtUnit # Index BY <1>1, <1>4
  <2>2. PICK j \in Index : ~(units[j] > conf[j].unit) BY <1>2, <2>1 DEF AtUnit
  <2> QED BY <1>4, <2>2, AllPlaced
<1> QED BY <1>3, <1>4 DEF RightBus, PresentMeansSuccess

LEMMA MatchingInvariant ==
  ASSUME AtMostTwo
  PROVE  MatchSpec => [](Counts /\ InOrder)
<1>1. MatchInit => InOrder
  BY DEF MatchInit, InOrder, HasPlaced, Placed, Fitting
<1>2. InOrder /\ Counts /\ [MatchNext]_matchVars => InOrder' BY InOrderStep
<1> QED BY <1>1, <1>2, CountsInit, CountsStep, PTL DEF MatchSpec

\* With at most two buses of a name and no name that begins like another, every
\* entry has the bus that its name and unit mean, whatever numbers the buses have,
\* in whatever order readdir returns them, and however many entries there are
\* (src/linux_support.c:361-382).
THEOREM TwoBusesRightBus == AtMostTwo => (MatchSpec => []RightBus)
<1> SUFFICES ASSUME AtMostTwo PROVE MatchSpec => []RightBus
  OBVIOUS
<1>1. Counts /\ InOrder => RightBus BY MatchingEnds
<1>2. MatchSpec => [](Counts /\ InOrder) BY MatchingInvariant
<1> QED BY <1>1, <1>2, PTL

\* And the scan fails only when there is an entry without such a bus
\* (src/linux_support.c:388-392).
THEOREM TwoBusesSuccess == AtMostTwo => (MatchSpec => []PresentMeansSuccess)
<1> SUFFICES ASSUME AtMostTwo PROVE MatchSpec => []PresentMeansSuccess
  OBVIOUS
<1>1. Counts /\ InOrder => PresentMeansSuccess BY MatchingEnds
<1>2. MatchSpec => [](Counts /\ InOrder) BY MatchingInvariant
<1> QED BY <1>1, <1>2, PTL
-----------------------------------------------------------------------------
(* readdir in the order of the numbers.  Nothing is displaced then, and the  *)
(* rule is right for any number of buses of a name and for names that begin  *)
(* others: what goes wrong with three buses of a name (TwoBusesRightBus has   *)
(* two) comes from the order of the directory alone.                         *)

\* What readdir does not promise: the buses come in the order of their numbers.
Ascending == \A b \in todo \ todo' : \A c \in todo : b <= c

\* An entry has counted the buses placed for it, up to its unit, and has the last
\* one it counted.
Counted(j) ==
  /\ Cardinality(Placed(j)) <= conf[j].unit => units[j] = Cardinality(Placed(j))
  /\ Cardinality(Placed(j)) > conf[j].unit => units[j] = conf[j].unit + 1
  /\ units[j] = 0 => realNr[j] = NoBus
  /\ units[j] > 0 =>
       /\ realNr[j] \in Placed(j)
       /\ Cardinality({c \in Placed(j) : c < realNr[j]}) = units[j] - 1

\* The buses read are smaller than those still to come, and the one being placed
\* is the greatest of them.
Sorted ==
  /\ IsFiniteSet(read)
  /\ \A b \in read, c \in todo : b < c
  /\ cur # NoBus => cur \in read /\ data = named[cur] /\ \A b \in read : b <= cur
  /\ \A j \in Index : Counted(j)

LEMMA PlacedFacts ==
  ASSUME MatchTypeOK, Sorted, NEW j \in Index
  PROVE  /\ Placed(j) \subseteq Buses /\ Placed(j) \subseteq read
         /\ \A b \in Placed(j) : b \in Nat
         /\ IsFiniteSet(Placed(j)) /\ Cardinality(Placed(j)) \in Nat
         /\ conf[j].unit \in Nat /\ units[j] \in Nat
         /\ cur # NoBus => cur \in Nat /\ \A b \in Placed(j) : b < cur
<1>1. Placed(j) \in SUBSET read BY DEF Placed, Fitting
<1>2. IsFiniteSet(Placed(j)) /\ Cardinality(Placed(j)) \in Nat
  BY <1>1, FS_Subset, FS_CardinalityType DEF Sorted
<1>3. read \subseteq Buses /\ Placed(j) \subseteq Buses BY <1>1 DEF MatchTypeOK
<1>4. \A b \in Buses : b \in Nat BY BusNumbers DEF Numbered
<1>5. conf[j].unit \in Nat /\ units[j] \in Nat BY ConfType DEF MatchTypeOK
<1>6. ASSUME cur # NoBus PROVE cur \in Nat /\ \A b \in Placed(j) : b < cur
  <2>1. cur \in Buses BY <1>6 DEF MatchTypeOK
  <2>2. \A b \in Placed(j) : b \in read /\ b # cur /\ b <= cur BY <1>1, <1>6 DEF Placed, Sorted
  <2> QED BY <1>3, <1>4, <2>1, <2>2
<1> QED BY <1>1, <1>2, <1>3, <1>4, <1>5, <1>6

\* With everything placed in order, cur displaces nothing and is the last to place.
LEMMA NoneDisplaced ==
  ASSUME MatchTypeOK, Sorted, cur # NoBus
  PROVE  Displaced = {} /\ PlacedNext = NoBus
<1>1. ASSUME NEW j \in Index PROVE ~(realNr[j] > cur)
  <2>1. /\ units[j] \in Nat /\ cur \in Nat
        /\ \A b \in Placed(j) : b \in Nat /\ b < cur
    BY PlacedFacts
  <2>2. Counted(j) BY DEF Sorted
  <2>3. CASE units[j] = 0 BY <2>1, <2>2, <2>3 DEF Counted, NoBus
  <2>4. CASE units[j] > 0
    <3>1. realNr[j] \in Placed(j) BY <2>2, <2>4 DEF Counted
    <3> QED BY <2>1, <3>1
  <2> QED BY <2>1, <2>3, <2>4
<1>2. Displaced = {} BY <1>1 DEF Displaced
<1> QED BY <1>2 DEF PlacedNext

\* What a pass does to an entry that cur fits.
LEMMA FittingCounted ==
  ASSUME Counts, Sorted, Pass, NEW j \in Index, Matches(j)
  PROVE  Counted(j)'
<1> DEFINE P == Placed(j)
           k == Cardinality(Placed(j))
<1>1. /\ cur # NoBus /\ cur' = NoBus /\ Displaced = {}
      /\ UNCHANGED <<named, conf, read>>
      /\ j \in Taken <=> units[j] <= conf[j].unit
      /\ j \in Taken => realNr'[j] = cur /\ units'[j] = units[j] + 1
      /\ j \notin Taken => realNr'[j] = realNr[j] /\ units'[j] = units[j]
  <2>1. cur # NoBus BY DEF Pass
  <2>2. Displaced = {} /\ PlacedNext = NoBus BY <2>1, NoneDisplaced DEF Counts
  <2> QED BY <2>1, <2>2 DEF Pass, Taken
<1>2. /\ IsFiniteSet(P) /\ k \in Nat /\ conf[j].unit \in Nat /\ units[j] \in Nat /\ cur \in Nat
      /\ \A b \in P : b \in Nat /\ b < cur
  BY <1>1, PlacedFacts DEF Counts
<1>3. Counted(j) BY DEF Sorted
<1>4. Placed(j)' = P \cup {cur} /\ cur \notin P
  <2>1. cur \in Fitting(j) BY <1>1 DEF Sorted, Fitting, Matches
  <2>2. Fitting(j)' = Fitting(j) BY <1>1 DEF Fitting
  <2>3. NoBus \notin Fitting(j) BY BusNumbers DEF Counts, MatchTypeOK, Fitting
  <2> QED BY <1>1, <2>1, <2>2, <2>3 DEF Placed
<1>5. Cardinality(Placed(j)') = k + 1 BY <1>2, <1>4, FS_AddElement
<1>6. CASE k <= conf[j].unit
  <2>1. units[j] = k BY <1>3, <1>6 DEF Counted
  <2>2. realNr'[j] = cur /\ units'[j] = k + 1 BY <1>1, <1>6, <2>1
  <2>3. {c \in P \cup {cur} : c < cur} = P BY <1>2
  <2>4. {c \in Placed(j)' : c < realNr'[j]} = P BY <1>4, <2>2, <2>3
  <2>5. realNr'[j] \in Placed(j)' /\ units'[j] > 0 /\ units'[j] # 0
        /\ Cardinality({c \in Placed(j)' : c < realNr'[j]}) = units'[j] - 1
    <3>1. Cardinality({c \in Placed(j)' : c < realNr'[j]}) = k BY <2>4
    <3>2. k = units'[j] - 1 /\ units'[j] > 0 /\ units'[j] # 0 BY <1>2, <2>2
    <3> QED BY <1>4, <2>2, <3>1, <3>2
  <2>6. /\ Cardinality(Placed(j)') <= conf'[j].unit => units'[j] = Cardinality(Placed(j)')
        /\ Cardinality(Placed(j)') > conf'[j].unit => units'[j] = conf'[j].unit + 1
    BY <1>1, <1>2, <1>5, <1>6, <2>2
  <2> QED BY <2>5, <2>6 DEF Counted
<1>7. CASE k > conf[j].unit
  <2>1. units[j] = conf[j].unit + 1 BY <1>3, <1>7 DEF Counted
  <2>2. realNr'[j] = realNr[j] /\ units'[j] = units[j] BY <1>1, <1>2, <2>1
  <2>3. realNr[j] \in P /\ Cardinality({c \in P : c < realNr[j]}) = units[j] - 1
    BY <1>2, <1>3, <2>1 DEF Counted
  <2>4. {c \in P \cup {cur} : c < realNr[j]} = {c \in P : c < realNr[j]} BY <1>2, <2>3
  <2>5. {c \in Placed(j)' : c < realNr'[j]} = {c \in P : c < realNr[j]} BY <1>4, <2>2, <2>4
  <2>6. realNr'[j] \in Placed(j)' /\ units'[j] # 0
        /\ Cardinality({c \in Placed(j)' : c < realNr'[j]}) = units'[j] - 1
    <3>1. Cardinality({c \in Placed(j)' : c < realNr'[j]}) = units'[j] - 1 BY <2>2, <2>3, <2>5
    <3>2. units'[j] # 0 BY <1>2, <2>1, <2>2
    <3> QED BY <1>4, <2>2, <2>3, <3>1, <3>2
  <2>7. ~(Cardinality(Placed(j)') <= conf'[j].unit) /\ units'[j] = conf'[j].unit + 1
    BY <1>1, <1>2, <1>5, <1>7, <2>1, <2>2
  <2> QED BY <2>6, <2>7 DEF Counted
<1> QED BY <1>2, <1>6, <1>7

LEMMA SortedStep ==
  Counts /\ Sorted /\ [MatchNext]_matchVars /\ [Ascending]_matchVars => Sorted'
<1> SUFFICES ASSUME Counts, Sorted, [MatchNext]_matchVars, [Ascending]_matchVars PROVE Sorted'
  OBVIOUS
<1>0. MatchTypeOK BY DEF Counts
<1>1. CASE UNCHANGED <<named, conf, read, data, cur, realNr, units>> /\ todo' \subseteq todo
  <2>1. \A j \in Index : Counted(j)' <=> Counted(j)
    BY <1>1 DEF Counted, Placed, Fitting
  <2> QED BY <1>1, <2>1 DEF Sorted, Index
<1>2. ASSUME NEW b \in Buses, ReadEntry(b), Ascending PROVE Sorted'
  <2>1. /\ UNCHANGED <<named, conf, realNr, units>> /\ cur = NoBus
        /\ b \in todo /\ todo' = todo \ {b}
    BY <1>2 DEF ReadEntry
  <2>2. CASE cur' = b /\ data' = named[b] /\ read' = read \cup {b}
    <3>1. b \notin read BY <1>0, <2>1 DEF MatchTypeOK
    <3>2. Index' = Index BY <2>1 DEF Index
    <3>3. ASSUME NEW j \in Index PROVE Placed(j)' = Placed(j)
      <4>1. Fitting(j)' \ {b} = Fitting(j) BY <2>1, <2>2, <3>1 DEF Fitting
      <4>2. NoBus \notin Fitting(j) BY <1>0, BusNumbers DEF Fitting, MatchTypeOK
      <4> QED BY <2>1, <2>2, <4>1, <4>2 DEF Placed
    <3>4. \A j \in Index : Counted(j)'
      BY <2>1, <3>3 DEF Sorted, Counted
    <3>5. \A c \in Buses : c \in Nat BY BusNumbers DEF Numbered
    <3>6. \A c \in todo : b <= c BY <1>2, <2>1 DEF Ascending
    <3>7. todo \subseteq Buses /\ read \subseteq Buses BY <1>0 DEF MatchTypeOK
    <3>8. \A a \in read', c \in todo' : a < c
      <4>1. \A c \in todo' : b < c BY <2>1, <3>5, <3>6, <3>7
      <4> QED BY <2>1, <2>2, <4>1 DEF Sorted
    <3>9. \A a \in read' : a <= b BY <2>1, <2>2, <3>5, <3>7 DEF Sorted
    <3>10. IsFiniteSet(read') BY <2>2, FS_AddElement DEF Sorted
    <3>11. cur' \in read' /\ data' = named'[cur'] /\ \A a \in read' : a <= cur'
      BY <2>1, <2>2, <3>9
    <3> QED BY <3>2, <3>4, <3>8, <3>10, <3>11 DEF Sorted
  <2>3. CASE UNCHANGED <<cur, data, read>> BY <1>1, <2>1, <2>3
  <2> QED BY <1>2, <2>2, <2>3 DEF ReadEntry
<1>3. CASE Pass
  <2>1. cur # NoBus /\ UNCHANGED <<named, conf, todo, read, data>> BY <1>3 DEF Pass
  <2>2. Displaced = {} /\ cur' = NoBus BY <1>0, <1>3, <2>1, NoneDisplaced DEF Pass
  <2>3. ASSUME NEW j \in Index, ~Matches(j) PROVE Counted(j)'
    <3>1. realNr'[j] = realNr[j] /\ units'[j] = units[j] BY <1>3, <2>2, <2>3 DEF Pass, Taken
    <3>2. cur \notin Fitting(j) BY <2>1, <2>3 DEF Sorted, Fitting, Matches
    <3>3. NoBus \notin Fitting(j) BY <1>0, BusNumbers DEF MatchTypeOK, Fitting
    <3>4. Placed(j)' = Placed(j) BY <2>1, <2>2, <3>2, <3>3 DEF Placed, Fitting
    <3> QED BY <2>1, <3>1, <3>4 DEF Sorted, Counted
  <2>4. \A j \in Index : Counted(j)' BY <1>3, <2>3, FittingCounted
  <2> QED BY <2>1, <2>2, <2>4 DEF Sorted, Index
<1>4. CASE Finish \/ UNCHANGED matchVars BY <1>1, <1>4 DEF Finish, matchVars
<1>5. ASSUME NEW b \in Buses, CutShort(b) PROVE UNCHANGED <<named, conf, todo, read, data, cur, realNr, units>>
  BY <1>5 DEF CutShort
<1> QED BY <1>1, <1>2, <1>3, <1>4, <1>5 DEF MatchNext

\* At the end an entry has passed its unit exactly when there is the bus it means,
\* and then it has that bus.
LEMMA SortedMeans ==
  ASSUME Counts, Sorted, cur = NoBus, NEW j \in Index
  PROVE  /\ units[j] > conf[j].unit => Meant(j, realNr[j])
         /\ ~(units[j] > conf[j].unit) => \A b \in read : ~Meant(j, b)
<1> DEFINE P == Fitting(j)
<1>1. Placed(j) = P BY BusNumbers DEF Placed, Fitting, Counts, MatchTypeOK
<1>2. /\ IsFiniteSet(P) /\ Cardinality(P) \in Nat /\ conf[j].unit \in Nat /\ units[j] \in Nat
      /\ \A b \in P : b \in Nat
  BY <1>1, PlacedFacts DEF Counts
<1>3. Counted(j) BY DEF Sorted
<1>4. ASSUME units[j] > conf[j].unit PROVE Meant(j, realNr[j])
  <2>1. units[j] = conf[j].unit + 1 BY <1>1, <1>2, <1>3, <1>4 DEF Counted
  <2>2. realNr[j] \in P /\ Cardinality({c \in P : c < realNr[j]}) = units[j] - 1
    BY <1>1, <1>2, <1>3, <2>1 DEF Counted
  <2> QED BY <1>2, <2>1, <2>2 DEF Meant
<1>5. ASSUME ~(units[j] > conf[j].unit), NEW b \in read, Meant(j, b) PROVE FALSE
  <2>1. Cardinality(P) <= conf[j].unit BY <1>1, <1>2, <1>3, <1>5 DEF Counted
  <2> DEFINE B == {c \in P : c < b}
  <2>2. b \in P /\ Cardinality(B) = conf[j].unit BY <1>5 DEF Meant
  <2>3. B \in SUBSET P /\ b \notin B BY <1>2, <2>2
  <2>4. IsFiniteSet(B) /\ Cardinality(B) <= Cardinality(P) /\ (Cardinality(B) = Cardinality(P) => B = P)
    BY <1>2, <2>3, FS_Subset
  <2>5. Cardinality(B) = Cardinality(P) BY <1>2, <2>1, <2>2, <2>4
  <2> QED BY <2>2, <2>3, <2>4, <2>5
<1> QED BY <1>4, <1>5

LEMMA SortedEnds ==
  ASSUME Counts, Sorted
  PROVE  RightBus /\ PresentMeansSuccess
<1> USE DEF Counts
<1>1. IsFiniteSet(Index) /\ Cardinality(Index) = Len(conf) BY ConfType
<1>2. AtUnit \in SUBSET Index BY DEF AtUnit
<1>3. ASSUME result = "success" PROVE \A j \in Index : Meant(j, realNr[j])
  <2>1. AtUnit = Index BY <1>1, <1>2, <1>3, FS_Subset
  <2> QED BY <1>3, <2>1, SortedMeans DEF AtUnit
<1>4. ASSUME result = "retrieval_error" PROVE \E j \in Index : \A b \in read : ~Meant(j, b)
  <2>1. AtUnit # Index BY <1>1, <1>4
  <2>2. PICK j \in Index : ~(units[j] > conf[j].unit) BY <1>2, <2>1 DEF AtUnit
  <2> QED BY <1>4, <2>2, SortedMeans
<1> QED BY <1>3, <1>4 DEF RightBus, PresentMeansSuccess

LEMMA SortedInit == MatchInit => Sorted
<1> SUFFICES ASSUME MatchInit PROVE Sorted
  OBVIOUS
<1>1. MatchTypeOK BY CountsInit DEF Counts
<1>2. ASSUME NEW j \in Index PROVE Counted(j)
  <2>1. Placed(j) = {} BY DEF Placed, Fitting, MatchInit
  <2>2. units[j] = 0 /\ realNr[j] = NoBus /\ conf[j].unit \in Nat BY <1>1, ConfType DEF MatchInit
  <2> QED BY <2>1, <2>2, FS_EmptySet DEF Counted
<1> QED BY <1>2, FS_EmptySet DEF Sorted, MatchInit

LEMMA SortedInvariant == MatchSpec /\ [][Ascending]_matchVars => [](Counts /\ Sorted)
<1>1. Counts /\ Sorted /\ [MatchNext]_matchVars /\ [Ascending]_matchVars => Counts' /\ Sorted'
  BY CountsStep, SortedStep
<1> QED BY <1>1, CountsInit, SortedInit, PTL DEF MatchSpec

\* If readdir returns the buses in the order of their numbers, every entry of a
\* scan that succeeds has the bus its name and unit mean, for any number of buses
\* of a name, of entries and of names that begin others (src/linux_support.c:361-382).
THEOREM SortedRightBus == MatchSpec /\ [][Ascending]_matchVars => []RightBus
<1>1. Counts /\ Sorted => RightBus BY SortedEnds
<1> QED BY <1>1, SortedInvariant, PTL

\* And the scan then fails only when an entry means no readable bus
\* (src/linux_support.c:388-392).
THEOREM SortedSuccess == MatchSpec /\ [][Ascending]_matchVars => []PresentMeansSuccess
<1>1. Counts /\ Sorted => PresentMeansSuccess BY SortedEnds
<1> QED BY <1>1, SortedInvariant, PTL
-----------------------------------------------------------------------------
(* What the matching comes to is what BusCalls lets a load find.            *)

\* What a load gets to see of the entries: whether they have a bus.
Shown == [i \in Index |-> IF realNr[i] = NoBus THEN "none" ELSE "bus"]

\* The three ends Listed has for a list of at most MaxBuses entries: all found, an
\* error at the end of the directory, and an error in the middle of it, at which
\* the entries are published as they are with the count so far.
FindsAsListed ==
  Len(conf) \in 1 .. MaxBuses =>
    /\ result = "success" =>
         Shown = [i \in 1 .. Len(conf) |-> "bus"] /\ sbArrCount = Len(conf)
    /\ Shown \in Arrays \ {<<>>}
    /\ sbArrCount \in 0 .. MaxBuses
    /\ sbArrCount <= Cardinality({i \in DOMAIN Shown : Shown[i] = "bus"})

\* An entry that has counted a bus has one.
HasBus == \A j \in Index : units[j] > 0 => realNr[j] # NoBus

LEMMA HasBusStep == Counts /\ HasBus /\ [MatchNext]_matchVars => HasBus'
<1> SUFFICES ASSUME Counts, HasBus, [MatchNext]_matchVars PROVE HasBus'
  OBVIOUS
<1>1. CASE UNCHANGED <<conf, realNr, units>>
  BY <1>1 DEF HasBus, Index
<1>2. CASE Pass
  <2>1. cur # NoBus /\ Index' = Index BY <1>2 DEF Pass, Index
  <2>2. ASSUME NEW j \in Index, units'[j] > 0 PROVE realNr'[j] # NoBus
    <3>1. CASE j \in Displaced \cup Taken BY <1>2, <2>1, <3>1 DEF Pass
    <3>2. CASE j \notin Displaced \cup Taken BY <1>2, <2>2, <3>2 DEF Pass, HasBus
    <3> QED BY <3>1, <3>2
  <2> QED BY <2>1, <2>2 DEF HasBus
<1>3. ASSUME NEW b \in Buses, ReadEntry(b) \/ CutShort(b) PROVE UNCHANGED <<conf, realNr, units>>
  BY <1>3 DEF ReadEntry, CutShort
<1> QED BY <1>1, <1>2, <1>3 DEF MatchNext, Finish, matchVars

LEMMA CountsShown ==
  ASSUME Counts, HasBus
  PROVE  FindsAsListed
<1> SUFFICES ASSUME Len(conf) \in 1 .. MaxBuses
             PROVE  /\ result = "success" =>
                         Shown = [i \in 1 .. Len(conf) |-> "bus"] /\ sbArrCount = Len(conf)
                    /\ Shown \in Arrays \ {<<>>}
                    /\ sbArrCount \in 0 .. MaxBuses
                    /\ sbArrCount <= Cardinality({i \in DOMAIN Shown : Shown[i] = "bus"})
  BY DEF FindsAsListed
<1> DEFINE With == {i \in Index : Shown[i] = "bus"}
<1>1. /\ Index = 1 .. Len(conf) /\ Len(conf) \in Nat
      /\ IsFiniteSet(Index) /\ Cardinality(Index) = Len(conf)
      /\ \A j \in Index : conf[j].unit \in Nat /\ units[j] \in Nat
  BY ConfType DEF Counts, MatchTypeOK
<1>2. \A j \in Index : units[j] > 0 => Shown[j] = "bus" BY DEF HasBus, Shown
<1>3. AtUnit \in SUBSET Index /\ AtUnit \in SUBSET With
  <2>1. \A j \in AtUnit : j \in Index /\ units[j] > 0 BY <1>1 DEF AtUnit
  <2> QED BY <1>2, <2>1
<1>4. IsFiniteSet(With) BY <1>1, FS_Subset
<1>5. sbArrCount <= Cardinality(With) BY <1>3, <1>4, FS_Subset DEF Counts
<1>6. DOMAIN Shown = Index BY DEF Shown
<1>7. Shown \in Arrays \ {<<>>}
  <2>1. Shown \in [1 .. Len(conf) -> {"bus", "none"}] BY <1>1 DEF Shown
  <2>2. Len(conf) \in 0 .. MaxBuses BY MaxBusesAssumption
  <2>3. Shown \in Arrays BY <2>1, <2>2 DEF Arrays
  <2>4. 1 \in DOMAIN Shown BY <1>1, <1>6
  <2> QED BY <2>3, <2>4
<1>8. sbArrCount \in 0 .. MaxBuses BY <1>1, MaxBusesAssumption DEF Counts, MatchTypeOK
<1>9. ASSUME result = "success"
      PROVE  Shown = [i \in 1 .. Len(conf) |-> "bus"] /\ sbArrCount = Len(conf)
  <2>1. AtUnit = Index BY <1>1, <1>3, <1>9, FS_Subset DEF Counts
  <2>2. \A j \in Index : Shown[j] = "bus" BY <1>3, <2>1
  <2> QED BY <1>1, <1>9, <2>2 DEF Shown, Counts
<1> QED BY <1>5, <1>6, <1>7, <1>8, <1>9

\* Whatever buses the system has and in whatever order they come, the matching ends
\* a load in one of the ways that Listed of BusCalls has: a success has a bus for
\* every entry, and when an unreadable name cuts the scan short no more entries
\* count as found than have a bus (src/linux_support.c:344-345, 361-396).  What
\* is proved of the calls on buses therefore holds over the matching.
THEOREM LoadsFindWhatMatches == MatchSpec => []FindsAsListed
<1>1. MatchInit => HasBus BY DEF MatchInit, HasBus
<1>2. Counts /\ HasBus => FindsAsListed BY CountsShown
<1>3. Counts /\ HasBus /\ [MatchNext]_matchVars => HasBus' BY HasBusStep
<1> QED BY <1>1, <1>2, <1>3, CountsInit, CountsStep, PTL DEF MatchSpec
=============================================================================
