# KEAPI in TLA+

KEAPI is the library through which programs on Kontron boards reach watchdog,
GPIO, I2C and SMBus, user EEPROM, sensors and board data. It has no daemon and
no thread of its own: every program links it, every call runs in its caller's
thread, and the calls of several threads and several programs meet in

- **process-wide variables** (`include/globals.h`): configuration caches
  (`wdtInfo`, `gpPortArr`, `i2cArr`, `smbusArr`, `siArr`), `keapiEvtconfig`,
  `unexportTrig`, and five pthread mutexes that protect some of them some of
  the time;
- **the file system**: the temporary file in which the watchdog stages wait
  for Enable, under a POSIX record lock; `/sys/class/gpio`; EEPROM files;
- **devices**, whose state outlives the program.

What can go wrong is therefore not in any one function but between calls: two
threads in one lazily loaded cache, two programs with one temporary file, a
program that dies between two steps, a read that fails half-way through a loop.
The modules here are about that.

## Inventory

| Component (under `src/src`) | State | Operations | Hard because | What makes it correct |
|---|---|---|---|---|
| temporary-file lock (`linux_support.c`) | a mutex per process, a record lock on the file, open descriptors | `mkLock`, `openLock`, `closeUnlock` | a record lock belongs to the process and any `close` of the file drops it; processes die; `lockf` and `open` fail | the lock is exclusive, is never lost while in use, is always given back |
| watchdog (`wd.c`) | `wdtInfo`, the temporary file, `keapiEvtconfig`, the card | GetCaps, Setup, Enable, Disable, Trigger, GetExpired, WaitUntilExpired | Setup and Enable may be calls of different programs; a stage is stored in several steps each of which fails; early returns inside the lock; a pointer and a routing that the threads of a process share without a lock; a signal handler | Enable arms what the last Setup stored, no mixture is ever stored, every path unlocks |
| serial bus configuration (`linux_support.c`) | `i2cArr`, `smbusArr` and their counters | `GetInfoFromSerialBusConfFile`, `giveI2cFilename`, ... | `readdir` has no order; readers without the mutex; returns that keep it | an entry means the same bus in every order; no reader sees a bus that is not there |
| I2C, SMBus transfers (`i2c.c`, `sm_bus.c`) | an open descriptor | count, transfer, probe; count and nine SMBus commands | the bus is looked up twice with other threads between; a descriptor on every error path | no descriptor is lost, no call closes another one's |
| GPIO (`gpio_pins.c`) | `gpPortArr`, its counter, `unexportTrig`; exported pins, or line handles, in the kernel | port count, capabilities, directions, levels, in two styles | lazy loading under `trylock`; three steps per pin on state other programs change; up to four descriptors per call | readers never see a port that is not there; no pin stays exported and no descriptor open; a call does what it was asked and no more |
| storage (`storage.c`, `storage_picmg.c`) | `siArr` | count, size, read, write, block search | arithmetic on offsets; short reads; a chain of blocks with lengths from the EEPROM | a read or write stays in the user block and ends |
| EAPI wrapper (`PicmgWrapper.c`) | none | PICMG EAPI over KEAPI | read-modify-write of a whole port; two-stage watchdog start | a call changes what it names |
| JIDA wrapper (`JidaWrapper.c`), `libinit.c` | `jidaDllInitCnt`, the mutexes | initialise, uninitialise, calls by handle | nested initialisation creates mutexes that are in use | mutexes live from the first to the last |
| sensors, CPU, battery, disks, PCI, board, memory, network, SPI, intruder, display | none or in the driver | probe and read | parsing | (stateless) |
| dispatch (`keapiNative.c`, `keapi.c`, ...) | none | forwarding with checks for NULL | - | (stateless) |
| platform threads and events (`PlatformDependence.c`) | two events (mutex and condition) per thread | create, destroy, set, wait, close | events without memory; time-outs; cancellation with a mutex held | who is joined ends; a closed event is not used |

Interaction: the wrappers call the public functions; the public functions call
`KEApiL_*`; Setup and Enable of the watchdog call the lock; the transfers read
the bus cache; the GPIO accesses begin with the loading of `gpio.conf`; the
storage calls with that of `storage.conf`.

## Modules

| Module | Models | How |
|---|---|---|
| `FileMutex` | nothing in the code: a mutex with a holder that can die | the promise of `openLock` and `closeUnlock` |
| `SetupLock` | `openLock`, `mkLock`, `closeUnlock` (`linux_support.c:39-78`) | one action per call into the C library: `LockMutex`, `MkLock`, `OpenAndLock`, `CloseFile`, `UnlockMutex`; `Death` is what the kernel does when a process ends |
| `SetupRegister` | nothing in the code: a place for one setup, and a card that is armed from it | the promise of Setup, Enable and Disable to programs that share a linux-like watchdog |
| `WatchdogLinux` | the calls for a linux-like card (`wd.c:75-435, 475-510, 660-751`) | extends `SetupLock`; a call is a place `pc[t]`; the temporary file is a sequence of lines and holes, because `writeWdtSetup` truncates without going back to offset 0; `Crash` is a read through a `wdtInfo` that another thread has set to NULL |
| `WatchdogKom` | Setup, Enable, Disable for a kontron-like-kom card (`wd.c:185-308, 310-460`) | extends `SetupLock`; the file is one routing; the paths that return without `closeUnlock` are there, each as the code has it |
| `SerialBusMatch` | the matching loop (`linux_support.c:301-396`) | `ReadEntry` is `readdir` with any order, `CutShort` the name that may not be read and ends the scan, `Pass` one round of the `do` loop over the entries |
| `GpioConfig` | the loading and reading of `gpio.conf` (`gpio_pins.c:28-243`) | one action per step between which another thread can come: the check without the mutex, `trylock`, each port, its count, unlock, each half of the clean-up, the reading of the count and of the array |
| `GpioSysfs` | the four functions over `/sys/class/gpio` (`gpio_pins.c:537-824`) | one loop with one action per access to the kernel; the functions differ in `Use` and `Value` only |
| `GpioChip` | the four functions over `/dev/gpiochip` (`gpio_pins.c:249-504`, 827-934), and the read-modify-write of the wrappers (`PicmgWrapper.c:955-1086`, `JidaWrapper.c:574-588`) | a port is the set of its outputs and the set of those that are high; descriptors are numbers the kernel gives out, 0 is the process's input; a wrapper's call is a reading call that goes on to write (`then`); `saysFalse` is the answer `JidaIOXorAndXor` gives in any case |
| `BusCalls` | the cache of buses (`linux_support.c:203-467`) and all calls of `i2c.c` and `sm_bus.c` | the load is cut at every point another thread can tell (counter, array, pointer, mutex); a call searches twice, opens, and makes its `ioctl`s in its own order; which buses a load finds is any result `SerialBusMatch` allows |
| `Storage` | `storage.conf` (`linux_support.c:470-661`), the walks over an EEPROM (`storage_picmg.c:194-239, 341-351`), the calls of `storage.c` | a block is an identifier and two bytes; a char is signed or not; `int` overflow and a walk that leaves the chain (`lost`) are undefined; each `read` or `write` moves any number of bytes |
| `PlatformThreads` | events and threads (`PlatformDependence.c:35-191`) | an owner and its thread; an event is a holder, waiters and whether it exists; the thread's function is the caller's, written as `PlatformDependence.h:55-58` means it |
| `*Proofs` | - | theorems: one module per component, `GpioProofs` for `GpioConfig` and `GpioSysfs`, `SerialBusProofs` for `BusCalls` and `SerialBusMatch` |
| `MC*` | - | constants for TLC |

Data is abstract where no property looks: a level is not modelled in `GpioSysfs`, a gpio.conf
is the number of its ports and of those that are well-formed, a bus name is a
model value with a prefix relation (`strncmp` over the configured length). Bits
are sets. `Die` in the watchdog modules ends a process anywhere: its memory is
new, the file and the card stay.

History variables (`saved`, `stages`, `got`, `read`, `loads`, `leaver`,
`done`, `before`, `kept`, `reloaded`, `cut`, `touched`, `leaked`, `outs0`, `high0`,
`alone`, `answered`, `spurious`, `misused`) only remember what the properties speak
of; no guard reads them. `spoiled` of `GpioChip` is read: once a call has closed a
descriptor that is not its own, any file of the process may be the one it uses,
and the model follows the process no further.

Operators whose comment begins with "Broken:" are plausible faults. They are not
part of any specification: put in the place of a definition each makes one of
the properties fail, which shows that the property says something.

## Runs

| Run | Instance | Shows |
|---|---|---|
| `lock` | three processes, one with two threads, one without access to the file; `lockf` may fail | `LockKept`: nobody's `mkLock` or `close` drops a lock in use. `Exclusive`: one thread has it. `LockUsed`, `LockReleased`: it never outlives its user and nobody has it for good. `ImplementsFileMutex`: refinement of `FileMutex` |
| `wd` | a process of two threads and one of one; five calls, in and out of range; anything may fail | `FileIsLastSetup`: the file, holes aside, is the last Setup. `ArmsLastSetup`: so is what the card gets. `ImplementsRegister`: refinement of `SetupRegister`. `SettledForGood`: a configuration that is there while nobody loads it stays, so that only overlapping first calls crash. `EveryPathUnlocks` |
| `kom` | a process of two threads and one of one; Setups of stages 0 and 1, right and wrong, and Enable; anything may fail | `FileIsStages`: a cascade only over an interrupt. `RoutesStored`: the card gets the routing the stages meant, unless another thread of the process wrote `keapiEvtconfig` in between. `LeakBlocks`, `LeakStays`: a call that returns without `closeUnlock` stops the others, for good, and never lets two of them work at once |
| `kom_leak` | the same | violation, below |
| `buses` | four buses (with gaps and bus 0), two names, at most two buses of a name, up to three entries, unreadable names | `RightBus`: in a scan that succeeds every entry has its bus, and unit counts buses in the order of their numbers whatever `readdir` does. `PresentMeansSuccess`: no scan fails without a reason. `Terminates` |
| `buses_three` | three buses of a name | violation, below |
| `gpio_config` | two threads, files of at most two ports, right, wrong, absent, unreadable | `OneLoader`, `FirstLoadSafe`: no reader of the first load needs the mutex. `CallsReturn` |
| `gpio_sysfs` | two threads, a port of two pins, any pins exported before, `UNEXPORT` or not, anything may fail | `NoneLeftExported`: who exports pays. `SuccessMeansDone`: no error is lost. `WholePortKept` |
| `bus` | two threads, either kind of bus, at most two buses, two descriptors; any configuration, any failure | `ReadsLive`: readers need no mutex until a second load. `KnownBus`: only a bus that was found is opened. `LeftEmpty`: a load that keeps the mutex leaves nothing behind. `DescriptorsAccounted`: one path loses descriptors, no other |
| `storage` | one thread; lists of up to two entries of nine kinds, EEPROMs of up to four blocks; requests at the edges of areas, files and numbers | `UserAreaFound`: both walks find the area the chain describes. `StaysInArea`, `SuccessMeansDone`: for any splitting of the transfer. `TypeOK`: the counter is never more than the entries. `CallsReturn` |
| `chip` | two threads, two lines of which one is an output only, one other chip before, four descriptors | `DescriptorsAccounted`. `DoneAsAsked`: an undisturbed call that says success has read what there is, or set what it was asked and kept the rest; one that says an error has changed nothing, or some directions; one of `JidaIOXorAndXor`, which always says FALSE, has done all or nothing |
| `threads` | an owner and its thread | `JoinedHasAnswered`: a thread that was not heard is not joined. `UsedWhileAlive`: a closed event is used by a cancelled thread only. `DestroyReturns` |

Every property is broken by one of the "Broken:" operators; each of them stands
before the definition it replaces. Deadlock is checked where `CHECK_DEADLOCK FALSE`
is not given. It is given for `SerialBusMatch`, which stops when the scan is over;
for `GpioConfig` and `BusCalls`, where nothing depends on it; for `Storage`, where
a transfer past the end of the file goes on without moving anything, and the model
stops at a walk that is lost; for `GpioChip`, which stops when `spoiled`; and for
`PlatformThreads`, which stops when the thread is destroyed.

**Bounds.** `MaxHole = 1`: a hole in the file counts as one cell however long it is;
every cell of a hole is skipped alike, so a longer one adds nothing. `MaxSame` and
`MaxUnit` (in `MCSerialBusMatch`): buses of one name and greatest unit; two buses of a
name are the least for which order matters, and three are where the code goes wrong.
`MaxPorts = 2`: a file can fail after a good port, and a reader can see one port of two.
`NPins = 2`: the flag `unexport` of one pin acts on the next. Two processes are enough
for every race over the file, since a step of a third is a step of one of the two for
the first, and two threads in one of them for every race over `wdtInfo`,
`keapiEvtconfig` and the mutex; the proofs below do without the bounds. The requests of
`wd` are Enable, GetCaps (it only reads the configuration), a Setup that arms the card
with other seconds than asked for, one that keeps it off and one that is refused;
Disable and Trigger alone are one step each of the `Device` that Enable begins with.
Those of `kom` leave out the mode TIMER, which differs from RESET in its name, and
Disable alone, which is the first step of Enable. `WithoutCard` (in `MCWatchdogKom`): no
call reads the card back, and no state invariant is about it, so `kom` explores states
up to it; `Twins`: the two threads of one process are alike, and no property of `kom` is
a liveness property. `MaxBuses = 2` and bus numbers 0 and 1 in `bus`: a number can be in
the counter and not in an array that was replaced. `MaxFds = 2`: one descriptor per
thread, so that a lost one is noticed as one too few. `Half = 4` and `IntMax = 255` in
`storage`: bytes of three bits and lengths of six, in which each sign and each overflow
occurs as in bytes of eight bits. Chains of four blocks: the user block first, after one
and after two, twice, after a CRC block, without a length, and after a CRC block that
has one; and no block at all. `NLines = 2`, one word and one mask in `chip`: the other
bit is the one that must stay; `IntBits = 2`: the port fills an int, so that the shift
of `gpio_pins.c:870` is undefined and both its outcomes occur; `Others = 1`: a chip with
another label. Threads are interchangeable in `bus`, `gpio_sysfs` and `chip`, which have
no liveness property; they are checked up to symmetry. `gpPortArrCount` needs no bound:
it grows once per thread that has found no ports, and those are finitely many between
two times at which it is set to 0.

**Fairness.** `LockFairness` says weakly that a thread inside a call goes on: threads
are scheduled, and nothing in the code waits but `pthread_mutex_lock` and `lockf`.
`WdFairness` says less, that a thread which has both locks goes on, or crashes where
`wdtInfo` is NULL: that is all `EveryPathUnlocks` needs, which says that each thread is
again and again out of the lock. Nobody is obliged to call, to die or to be served in
order: `pthread_mutex_lock` and `lockf` promise no fairness, so that "who waits gets the
lock" is not claimed. `LockReleased`, `EveryPathUnlocks` and `CallsReturn` are of the
kind that weak fairness gives. In `Storage` the one thread goes on (`WF_vars(Step)`),
and nothing has to fail: a transfer that moves something each time ends. In
`PlatformThreads` owner and thread are each scheduled, which includes that the time of a
wait passes; a spurious wake-up need never come.

## Proofs

For any processes, threads, requests, pins and ports:

- **The lock.** `LockInvariant` is the inductive invariant `LockInv`: a thread
  between `openLock` and `closeUnlock` holds its process's mutex; only that
  thread has a descriptor; a descriptor with the record lock means that its
  process owns the record lock, and the record lock means there is such a
  descriptor. The mutex is what makes `LockKept` inductive: without it another
  thread's `mkLock` would drop the lock. `Exclusive` follows because the record
  lock has one owner and the mutex one holder, also when `lockf` fails
  (`MutualExclusion`); that nobody else touches the file at all needs
  `~LockMayFail` (`WorkingAloneHolds`). `LockRefines`: every step maps to a
  step of `FileMutex` or a stutter, with the holder the thread whose descriptor
  is locked.
- **The watchdog, linux-like.** Every step of the calls is a step of the lock or leaves
  it alone, by the way the actions are put together (lemma `WdUsesLock`), so everything
  proved of the lock holds of the calls, which is how `WatchdogExclusive` follows.
  `LastSetupStored` proves `FileIsLastSetup` from `~LockMayFail`. What makes it hard is
  that `writeWdtSetup` truncates without going back to offset 0, so that a line is
  written behind a hole. The invariant `FileInv` says that the file is empty or has one
  written cell, wherever it is (`Stored`), and that what a thread inside the lock has
  read stays true until it writes or arms (`AtFile`), since nobody else is at work
  there; `StoredLines` says what the lines of such a file are (`Lines`, the written
  cells in their order, whose n-th is the one with n written cells up to it).
  `LastSetupArmed` gets `ArmsLastSetup` from the same invariant: the entry read is the
  last one still when the card gets it. `ConfiguredForGood` proves `SettledForGood`,
  with any number of threads and without a hypothesis: a call looks for the pointer
  before it loads, so once it is set and no load is under way nobody begins another; the
  only step that clears it is the end of the process. `WatchdogRefines` proves, from
  `~LockMayFail` again, that the calls implement `SetupRegister`: the lines of the file
  are its one place, the card is its card, and each step is a step of it or a stutter.
  Truncating is `Clear`, writing is `Store` and never finds a setup in place; a death
  clears or changes nothing. `EveryCallUnlocks`: a call that is over holds nothing,
  which is what the other kind of card gets wrong.
- **The watchdog, kontron-like-kom.** The lemma `KomUsesLock`, as above.
  `KomFileIsStages` proves `FileIsStages` from `~LockMayFail`. Its invariant `KomInv`
  adds what a thread is about to write (`Ready`: a thread between its first access to
  the file and its write works inside the lock, and the value it prepared fits the
  stages stored) and `EmptyIsFresh`: a read from an empty file gets nothing and leaves
  the variable, which is harmless only because a process that can find the file empty
  still has the initial value. `StoredIsRouted` proves `RoutesStored` from the same
  invariant, for processes of any number of threads: what Enable reads is what the
  stages mean (`ReadIsMeant`, where an empty file is the case that could go wrong), and
  the variable keeps it until somebody of the process writes it (`GotInv`). Of a call
  that returns without `closeUnlock` (`Leaked`, the violation of `kom_leak`) two
  theorems say what it does: `LeakKeepsOut` proves `LeakBlocks`, that no other thread of
  the process is in the lock, and none of any process works under the record lock if the
  descriptor was left open too; and `LeakIsForGood` proves `LeakStays`, that this lasts
  until the process ends, whatever its threads call. Both rest on `LockInv`, which the
  calls keep because of `KomUsesLock`, and on `PhasesFit`, which place of a call goes
  with which place in the lock.
- **GPIO.** `ConfigTypeCorrect`, and `OneThreadLoads` and `FirstLoadIsSafe` from
  `MutexHeld` and `CountIsFilled`: until a second load or a failure the counter is the
  number of filled ports. `NoPinLeft`, `SuccessIsDone`, `PortStays`, `SysfsTypeCorrect`:
  three invariants over the places of the loop, independent of each other: who
  owes an unexport, which pins are behind the index, who may unexport.
- **`/dev/gpiochip`.** `ChipInvariant`: a descriptor is the process's input, the chip of
  one call, the lines of one call, or a chip with another label, and the kernel never
  gives out one of them twice; `NoDescriptorLost` follows. `AloneDoesAsAsked` proves
  `DoneAsAsked`, for what each call answers and not for what its last access returned,
  which differ in `JidaIOXorAndXor`; it does so from `CallsRight`: `OnTrack`, which
  operation can be at which place and where its loop starts, whoever else runs; and
  `AloneRight`, which holds of a call while nobody else changes the port: its word is
  what was asked for or what was there (`WordRight`), the outputs seen are those there
  are (`SeenRight`), and the port is at each place as far changed as the call has come
  (`PortRight`).
- **Buses.** `BusInvariant` is the conjunction of the types, the mutex held by
  whoever loads, what the cache is worth at each place of the load (`CacheSound`:
  an array that can be read is as long as its counter), what a reader that has
  passed the check knows, and the descriptors. The theorems are its conjuncts or
  follow at once. `reloaded` makes `ReadsLive` inductive: while it is FALSE the
  array grows once, before the counter.
- **Matching of buses.** `MatchTypeCorrect` and `NumbersGoUp` hold of all systems and
  configurations. The first needs that the counter is the number of entries that have
  reached their unit (`Counts`); the second is why the `do` loop ends, since what is
  placed again is a greater number each time. `TwoBusesRightBus` and
  `TwoBusesSuccess` need `AtMostTwo`: at most two buses have a name, and no name begins
  another. The run `buses_three` shows that three are too many, and a name that begins
  another lets a missing bus be found, so the theorems say no less than the code does.
  The invariant is `InOrder`: after each round every entry has what the buses of its
  name placed so far give it: none, the only one, or the second of two in the order of
  their numbers. `SortedRightBus` and `SortedSuccess` need no `AtMostTwo`: for any number of
  buses of a name, and names that begin others, the rule is right when `readdir` returns
  the numbers in order (`Ascending`), which `readdir` does not promise. There
  `Sorted` is inductive: an entry has counted the buses placed for it up to its unit
  (`Counted`), and all of them are smaller than what comes, so that nothing is displaced.
- **From the matching to the calls.** `LoadsFindWhatMatches`: for any buses, entries and order, a
  load that goes through a list comes to one of the ends that `Listed` of `BusCalls`
  allows it, and when it is cut short between two buses no more entries count than have
  a bus (`HasBus`, `Counts`). So the theorems about the calls, proved for every such end,
  hold over the matching.
- **Threads.** `ThreadsInvariant`: the events live as long as the owner is attached to its
  thread, and a thread that has not ended after that is cancelled (`Lifetime`); who is
  among the waiters of an event sleeps on that one (`WaitersSleep`); and the owner is woken by its
  time, by the answer or for no reason (`WokenByAnswer`). `OnlyAnswersJoined` and
  `OnlyCancelledMisuse` follow.
- **Storage.** `StorageInvariant`: the areas loaded keep their form through both
  walks, and during a transfer the bytes touched are exactly those up to `buf`, at
  one distance from the area's begin. `TransferStaysInArea` and `SuccessIsDone`
  follow by arithmetic. `WalksFindUserArea` proves `UserAreaFound` for chains of any
  length. Its invariant `AreaInv` adds how far each walk has come (`OnChain`): the first
  one is at the begin of the block after those it has counted; the second one has
  listed the blocks before its own, each at its offset, and ends where the first did.

The offsets of a chain, the cells of a file and the entries counted are data that only
an induction reaches, and the library's induction theorems cannot be used here. Where
one is needed, it comes from the fact that a nonempty set of numbers has a least one,
which `LeastNumber` proves from the order on finite sets: the least number of which a
statement is false contradicts the one before it. `LeastNumber` and
`Induction` stand in `WatchdogProofs` and in `StorageProofs`, which share no module.

Proving `UserAreaFound` showed that its precondition was too weak: the walks miss the
area if the CRC block has a length other than 0, which the first walk does not add, or
if the last block is called a user block and has no length. `WellFormed` now says what
the code's comment (`storage_picmg.c:230-231`) takes for granted, and the run `storage` has
chains of both kinds.

Assumptions are those on the constants, all `ASSUME`d by name in the modules and
evaluated by TLC in the runs, and the two hypotheses that theorems name:
`~LockMayFail`, since a caller that `openLock` lets in without the lock is in nobody's
hands; and `AtMostTwo`. The runs `wd`, `kom` and `buses` have constants
that meet them, and the text below says what happens otherwise. `Ascending` is no
assumption about a system but the hypothesis of two theorems. Model-checked only is
liveness, which is out of the prover's reach: `LockReleased`, `EveryPathUnlocks`,
`Terminates`, `CallsReturn`, `DestroyReturns`. Every other property that a passing run
checks is a theorem too.

## Disagreements

The runs that end in a violation show what the code does against what its
comments and documents say:

- `kom_leak`: Setup of stage 0 in mode DISABLE returns without `closeUnlock`, and
  so does every failing system call in Setup and Enable; the next call waits for
  ever.
- `buses_three`: with three buses of a name a displaced number is lost or counted
  twice in some orders of `readdir`.

The models hold more of this kind, stated here without a run of their own.

*Watchdog.* When the first calls of two threads of a process overlap,
`GetWatchgdogConfig` (`wd.c:90`) sets `wdtInfo` to NULL in the one while the other, that
has its configuration, is about to read through it. `Crash` is what comes of it, and the
run `wd` has it; a program that makes one successful call before it starts its other
threads is safe (`SettledForGood`). Enable reads `keapiEvtconfig` again after
`closeUnlock` (`wd.c:449`), when another thread of the process may have changed it, and
the card then gets a routing that no stored stage meant: the run `kom` has that too, and
`RoutesStored` speaks of the Enables it does not happen to. When `lockf` fails,
`openLock` logs it and its caller works on the file beside the one that has the lock
(`WorkingAlone` fails with `LockMayFail`). KEApiWatchdogSetup reports success although
`writeWdtSetup` failed.

*GPIO.* Without `gpio.conf`, which the documentation calls the normal case for a
board without GPIO, the first call leaves `gpio_mutex` locked and the others report
a collision. A thread that has found no ports
loads `gpio.conf` after another one has: the counter is not reset and counts
twice, so a port number out of the array passes the check; and after a failed load
the counter and the array are cleared when the mutex is free already. This is why
`FirstLoadSafe` ends with the first load. With `UNEXPORT` disabled an error of a
pin is replaced by the next pin's result, and pins of the port that others have
exported are unexported once the call has exported one. Two calls on one port
fail each other, since one unexports what the other one is using.
Over `/dev/gpiochip`: a chip with another label is never closed; `gpio_set_levels`
closes descriptor 0 when it gets no lines, because `ghr.fd` is 0 after its `memset`;
a failed `gpio_get_linehandle` goes unnoticed, since its error is positive and its
callers look for a negative one, and `lfd`, never set, is closed. A port without
outputs cannot have its levels set: the request of no lines fails. The wrappers
lose a change that another call makes between their reading and their writing, and
`JidaIOXorAndXor` returns FALSE also when it has succeeded (`JidaWrapper.c:587`), so
that its caller cannot tell a port that was changed from one that was not. For a port
of 32 lines the check of the capabilities shifts an `int` by its width
(`gpio_pins.c:870`); the model lets the mask be all lines or none.

*Buses.* A displaced number is placed again under the name of the bus that
displaced it: with names of which one begins the other a missing bus is found
(`TwoBusesRightBus` needs names none of which begins another).
KEAPI_RET_PERMISSION_DENIED keeps its descriptor open. A load that may not
read its configuration, or `/sys/bus/i2c/devices`, keeps the mutex:
`LeftEmpty` says that this leaves the cache empty for good. A second load frees what
others are reading, and a scan cut short publishes entries whose number is still
-1; `ReadsLive` and `KnownBus` end there. While one thread loads, another one is told
that there are no buses.

*Storage.* Chars of an EEPROM are signed on x86, so that a length with a low byte of
128 or more is negative and the CRC block is never known in the first walk: the chain
seems to end there. The clean-up after an entry that is no object looks at an element
the array has not got. The comment at `linux_support.c:629-633` promises that one
accessible EEPROM is enough, but the first one must be accessible. A transfer past
the end of the file makes the same call for ever. `offset + dataLength` overflows.

*Threads.* An event remembers nothing: a stop that is set while the thread works is
lost, the owner waits in vain and cancels; an answer given before the owner waits is
lost too, and a thread that has ended is then cancelled and never joined. A thread
cancelled in its wait dies with the mutex of `stop`, and `closeEvent`, hence
`destroyThread`, waits for ever or asserts. After a spurious wake-up of `stopped` the
owner joins a thread that never saw the stop.

*Wrappers.* `EApiLibInitialize` never returns `EAPI_STATUS_INITIALIZED`, which
`EApi.h:336` lists for a library that is.

## Not modelled, and next

In this order:

1. `PicmgWatchdog`: the two-stage start of `EApiWDogStart` over `WatchdogKom`; what is
   stored when the second stage is refused.
2. `WatchdogWait`: the signal handler's flag, cleared by every waiter.
3. `Storage` with several threads: the array grows under `eep_mutex` and is read
   without it, as the buses are.

Left out for good: sensors, CPU, battery, disks, PCI, board, memory, network, SPI,
display and the dispatch layer keep no state between calls and talk to no other
call; their risk is parsing, which tests reach. The library's initialisation:
a second KEApiLibInitialize initialises mutexes that are in use, and JIDA counts its
users without a lock. Both are undefined, and what can be said is what programs have
to keep to: initialise once before and end once after all other calls. The mapped
share of the source stays small because two thirds of its lines are tables and
declarations in headers (`pcihdr.h` and `PNPID.h` alone have 40000).
`WatchdogKom` leaves out the search for the index of a time (`getWdTimeIndex`, a
lookup in the driver's table) and GetExpired (a read of the card). `FillPort` of
`GpioConfig` writes an element of the array in one step, but counts it in another one
(`RaiseCount`): a thread that reads an element which is not counted yet is what
`FirstLoadSafe` is about, and no other order of the fields shows. No entry of `Storage`
has an empty path, which `storage.c:108` would refuse. The critical
sections of `PlatformDependence.c` are one mutex call each; no other file of the
library uses that file.
