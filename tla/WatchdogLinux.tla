--------------------------- MODULE WatchdogLinux ---------------------------
(***************************************************************************)
(* The watchdog calls of src/wd.c for a "linux-like" card.  Setup does not  *)
(* touch the card: it stores stage, timeout and mode in the temporary file  *)
(* all processes share, and Enable, of any process, reads them back and     *)
(* arms the card.  Both work on the file between openLock and closeUnlock   *)
(* (SetupLock); the configuration pointer wdtInfo is shared by the threads  *)
(* of one process under no lock at all.                                     *)
(*                                                                          *)
(* The file is a sequence of cells, a line or a hole: writeWdtSetup cuts    *)
(* the file to length 0 but leaves the offset where reading ended, so what  *)
(* it writes comes after a hole as long as the old file.  A hole reads as   *)
(* NUL characters, which readWdtSetup takes for empty lines.                *)
(***************************************************************************)
EXTENDS SetupLock, Integers, Sequences, SequencesExt

CONSTANTS
  Requests,       \* the calls clients make: a subset of AllRequests
  MinTimeout,     \* watchdog.conf: limits, in milliseconds
  MaxTimeout,
  Granted,        \* Granted[s]: the seconds the driver arms when asked for s
  IoMayFail,      \* ftruncate, write, open, ioctl and the config may fail
  MaxHole         \* bound: a longer hole is modelled by one of MaxHole cells

Operations == {"setup", "enable", "disable", "trigger", "caps"}
Modes == {"reset", "interrupt", "disable"}
AllRequests == [op : Operations, stage : Int, timeout : Int, mode : Modes]

ASSUME RequestsAssumption == Requests \subseteq AllRequests
ASSUME TimeoutAssumption == MinTimeout \in Int /\ MaxTimeout \in Int
ASSUME GrantedAssumption ==
  Granted \in [{r.timeout \div 1000 : r \in Requests} -> Nat]
ASSUME IoMayFailAssumption == IoMayFail \in BOOLEAN
ASSUME MaxHoleAssumption == MaxHole \in Nat

VARIABLES
  wdtInfo,  \* wdtInfo[p]: the configuration pointer of p is not NULL
  pc,       \* pc[t]: where t is in its call
  req,      \* req[t]: the call
  sets,     \* sets[t]: the stages t read, and for Setup updated
  off,      \* off[t]: the offset of t's descriptor
  file,     \* the temporary file
  card,     \* the seconds the card is armed with, or Off
  saved     \* history: the entry of the last Setup that was written, if any

clientVars == <<pc, req, sets, off>>
wdVars == <<lockVars, clientVars, wdtInfo, file, card, saved>>

Off == -1
Hole == [stage |-> -1, timeout |-> 0, mode |-> "none"]
Entry(r) == [stage |-> r.stage, timeout |-> r.timeout, mode |-> r.mode]
Entries == {Entry(r) : r \in Requests}
NoCall == [op |-> "none"]

Places == {"idle", "config", "loading", "params", "device", "caps", "openLock",
           "read", "truncate", "write", "reset", "arm", "closeUnlock"}

\* Where a call goes on once it has the configuration.
Begin(r) ==
  CASE r.op = "setup" -> "params"
    [] r.op = "caps" -> "caps"
    [] OTHER -> "device"

-----------------------------------------------------------------------------
WdTypeOK ==
  /\ LockTypeOK
  /\ wdtInfo \in [Procs -> BOOLEAN]
  /\ pc \in [Threads -> Places]
  /\ req \in [Threads -> Requests \cup {NoCall}]
  /\ sets \in [Threads -> Seq(Entries)]
  /\ off \in [Threads -> Nat]
  /\ file \in Seq(Entries \cup {Hole})
  /\ card \in Nat \cup {Off}
  /\ saved \in Seq(Entries)

WdInit ==
  /\ LockInit
  /\ wdtInfo = [p \in Procs |-> FALSE]
  /\ pc = [t \in Threads |-> "idle"]
  /\ req = [t \in Threads |-> NoCall]
  /\ sets = [t \in Threads |-> <<>>]
  /\ off = [t \in Threads |-> 0]
  /\ file = <<>>
  /\ card = Off
  /\ saved = <<>>

-----------------------------------------------------------------------------
\* The contents of the file.

\* readWdtSetup: the lines of the file in their order, holes skipped.
Written(f) == {i \in DOMAIN f : f[i] # Hole}
UpTo(S, i) == {j \in S : j <= i}
Nth(S, n) == CHOOSE i \in S : Cardinality(UpTo(S, i)) = n
Lines(f) == [n \in 1 .. Cardinality(Written(f)) |-> f[Nth(Written(f), n)]]

\* Broken: the new entry always comes last.
UpdateAppends(s, e) == Append(s, e)

\* updateWdtSetup: replace the first entry of e's stage, or append e.
UpdateWdtSetup(s, e) ==
  LET same == {i \in DOMAIN s : s[i].stage = e.stage}
  IN  IF same = {} THEN Append(s, e)
      ELSE [s EXCEPT ![CHOOSE i \in same : \A j \in same : i <= j] = e]

\* write at offset o: cells before o that the file does not have are holes.
WriteAt(f, o, s) ==
  [i \in 1 .. (IF s = <<>> \/ Len(f) > o + Len(s) THEN Len(f) ELSE o + Len(s)) |->
     IF i \in o + 1 .. o + Len(s) THEN s[i - o]
     ELSE IF i <= Len(f) THEN f[i] ELSE Hole]

\* The descriptor can be used, with or without the record lock.
Open(t) == fd[t] \in {"locked", "unlocked"}

-----------------------------------------------------------------------------
\* A step of thread t that goes on at place l, or ends t's call.
GoTo(t, l) == pc' = [pc EXCEPT ![t] = l] /\ UNCHANGED req

Return(t) ==
  /\ pc' = [pc EXCEPT ![t] = "idle"]
  /\ req' = [req EXCEPT ![t] = NoCall]

\* Broken: every call reads the configuration, also when it is there.
CallLoads(t, r) ==
  /\ pc[t] = "idle"
  /\ req' = [req EXCEPT ![t] = r]
  /\ pc' = [pc EXCEPT ![t] = "config"]
  /\ UNCHANGED <<lockVars, wdtInfo, sets, off, file, card, saved>>

Call(t, r) ==
  /\ pc[t] = "idle"
  /\ req' = [req EXCEPT ![t] = r]
  /\ pc' = [pc EXCEPT ![t] = IF wdtInfo[ProcOf[t]] THEN Begin(r) ELSE "config"]
  /\ UNCHANGED <<lockVars, wdtInfo, sets, off, file, card, saved>>

\* GetWatchgdogConfig clears the pointer before it reads the file...
LoadBegin(t) ==
  /\ pc[t] = "config"
  /\ wdtInfo' = [wdtInfo EXCEPT ![ProcOf[t]] = FALSE]
  /\ GoTo(t, "loading")
  /\ UNCHANGED <<lockVars, sets, off, file, card, saved>>

\* ...and sets it when the file is right.
LoadEnd(t) ==
  /\ pc[t] = "loading"
  /\ \/ /\ wdtInfo' = [wdtInfo EXCEPT ![ProcOf[t]] = TRUE]
        /\ GoTo(t, Begin(req[t]))
     \/ IoMayFail /\ Return(t) /\ UNCHANGED wdtInfo
  /\ UNCHANGED <<lockVars, sets, off, file, card, saved>>

\* Setup's checks: the timeout against the configuration unless the mode is
\* DISABLE, then mode and stage against what a linux-like card has.
ParamsOK(r) ==
  /\ r.stage = 0
  /\ r.mode \in {"reset", "disable"}
  /\ r.mode = "disable" \/ r.timeout \in MinTimeout .. MaxTimeout

CheckParams(t) ==
  /\ pc[t] = "params"
  /\ wdtInfo[ProcOf[t]]
  /\ IF ParamsOK(req[t]) THEN GoTo(t, "openLock") ELSE Return(t)
  /\ UNCHANGED <<lockVars, wdtInfo, sets, off, file, card, saved>>

GetCaps(t) ==
  /\ pc[t] = "caps"
  /\ wdtInfo[ProcOf[t]]
  /\ Return(t)
  /\ UNCHANGED <<lockVars, wdtInfo, sets, off, file, card, saved>>

\* Disable and Trigger: access, open, one ioctl, close.  Enable begins with
\* Disable and goes on only after its success.
Device(t) ==
  /\ pc[t] = "device"
  /\ wdtInfo[ProcOf[t]]
  /\ \/ /\ card' = IF req[t].op = "trigger" THEN card ELSE Off
        /\ IF req[t].op = "enable" THEN GoTo(t, "openLock") ELSE Return(t)
     \/ IoMayFail /\ Return(t) /\ UNCHANGED card
  /\ UNCHANGED <<lockVars, wdtInfo, sets, off, file, saved>>

-----------------------------------------------------------------------------
\* The part under openLock and closeUnlock.

Locking(t) ==
  /\ pc[t] = "openLock"
  /\ LockMutex(t) \/ MkLock(t)
  /\ UNCHANGED <<clientVars, wdtInfo, file, card, saved>>

Locked(t) ==
  /\ pc[t] = "openLock"
  /\ OpenAndLock(t)
  /\ GoTo(t, "read")
  /\ UNCHANGED <<wdtInfo, sets, off, file, card, saved>>

\* Setup reads the file to its end and updates the stages it found.  How far
\* the end is matters to nobody who reads the file, so MaxHole may cut it.
ReadForSetup(t) ==
  /\ pc[t] = "read"
  /\ req[t].op = "setup"
  /\ sets' = [sets EXCEPT ![t] =
       UpdateWdtSetup(IF Open(t) THEN Lines(file) ELSE <<>>, Entry(req[t]))]
  /\ off' = [off EXCEPT ![t] = IF Open(t) THEN Min({Len(file), MaxHole}) ELSE 0]
  /\ GoTo(t, "truncate")
  /\ UNCHANGED <<lockVars, wdtInfo, file, card, saved>>

\* writeWdtSetup: a failed ftruncate ends it; nobody is told.
Truncate(t) ==
  /\ pc[t] = "truncate"
  /\ \/ Open(t) /\ file' = <<>> /\ saved' = <<>> /\ GoTo(t, "write")
     \/ (~Open(t) \/ IoMayFail) /\ UNCHANGED <<file, saved>> /\ GoTo(t, "closeUnlock")
  /\ UNCHANGED <<lockVars, wdtInfo, sets, off, card>>

\* The lines, up to the first write that fails; nobody is told either.
Write(t) ==
  /\ pc[t] = "write"
  /\ \E n \in 0 .. Len(sets[t]) :
       /\ IoMayFail \/ n = Len(sets[t])
       /\ file' = WriteAt(file, off[t], SubSeq(sets[t], 1, n))
       /\ saved' = IF n = Len(sets[t]) THEN <<Entry(req[t])>> ELSE <<>>
  /\ GoTo(t, "closeUnlock")
  /\ UNCHANGED <<lockVars, wdtInfo, sets, off, card>>

\* Broken: Enable lets go of the file before it arms the card.
ReadForEnableUnlocks(t) ==
  /\ pc[t] = "read"
  /\ req[t].op = "enable"
  /\ CloseFile(t)
  /\ LET s == Lines(file) IN
     /\ sets' = [sets EXCEPT ![t] = s]
     /\ GoTo(t, IF Len(s) # 1 \/ s[1].mode = "disable" THEN "closeUnlock" ELSE "arm")
  /\ UNCHANGED <<wdtInfo, off, file, card, saved>>

\* Enable wants exactly one stage, number 0, and arms nothing in mode DISABLE.
ReadForEnable(t) ==
  /\ pc[t] = "read"
  /\ req[t].op = "enable"
  /\ LET s == IF Open(t) THEN Lines(file) ELSE <<>> IN
     /\ sets' = [sets EXCEPT ![t] = s]
     /\ GoTo(t, IF Len(s) # 1 \/ s[1].stage # 0 THEN "reset"
                ELSE IF s[1].mode = "disable" THEN "closeUnlock"
                ELSE "arm")
  /\ UNCHANGED <<lockVars, wdtInfo, off, file, card, saved>>

\* Broken: the error path returns without closeUnlock.
ResetReturns(t) ==
  /\ pc[t] = "reset"
  /\ file' = <<>> /\ saved' = <<>>
  /\ Return(t)
  /\ UNCHANGED <<lockVars, wdtInfo, sets, off, card>>

\* resetWdtSetup.
Reset(t) ==
  /\ pc[t] = "reset"
  /\ \/ Open(t) /\ file' = <<>> /\ saved' = <<>>
     \/ (~Open(t) \/ IoMayFail) /\ UNCHANGED <<file, saved>>
  /\ GoTo(t, "closeUnlock")
  /\ UNCHANGED <<lockVars, wdtInfo, sets, off, card>>

\* open and WDIOC_SETTIMEOUT, which starts the card.  A driver that grants
\* other seconds makes Enable report an error, with the card armed.
Arm(t) ==
  /\ pc[t] = "arm"
  /\ wdtInfo[ProcOf[t]]
  /\ \/ card' = Granted[sets[t][1].timeout \div 1000]
     \/ IoMayFail /\ UNCHANGED card
  /\ GoTo(t, "closeUnlock")
  /\ UNCHANGED <<lockVars, wdtInfo, sets, off, file, saved>>

Unlocking(t) ==
  /\ pc[t] = "closeUnlock"
  /\ CloseFile(t)
  /\ UNCHANGED <<clientVars, wdtInfo, file, card, saved>>

Unlocked(t) ==
  /\ pc[t] = "closeUnlock"
  /\ UnlockMutex(t)
  /\ Return(t)
  /\ sets' = [sets EXCEPT ![t] = <<>>]
  /\ off' = [off EXCEPT ![t] = 0]
  /\ UNCHANGED <<wdtInfo, file, card, saved>>

-----------------------------------------------------------------------------
\* The end of process p; the slot starts over.
Die(p) ==
  LET Reborn(f, v) == [t \in Threads |-> IF ProcOf[t] = p THEN v ELSE f[t]] IN
  /\ Death(p)
  /\ wdtInfo' = [wdtInfo EXCEPT ![p] = FALSE]
  /\ pc' = Reborn(pc, "idle")
  /\ req' = Reborn(req, NoCall)
  /\ sets' = Reborn(sets, <<>>)
  /\ off' = Reborn(off, 0)
  /\ UNCHANGED <<file, card, saved>>

\* t reads through wdtInfo, which another thread of its process has set to NULL
\* since t looked, and takes the process down with it.
Crash(t) ==
  /\ pc[t] \in {"params", "caps", "device", "arm"}
  /\ ~wdtInfo[ProcOf[t]]
  /\ Die(ProcOf[t])

\* What t does on its own before openLock...
BeforeLock(t) ==
  LoadBegin(t) \/ LoadEnd(t) \/ CheckParams(t) \/ GetCaps(t) \/ Device(t)

\* ...in openLock, and once it has both locks.
InOpenLock(t) == Locking(t) \/ Locked(t)
InsideLock(t) ==
  \/ ReadForSetup(t) \/ Truncate(t) \/ Write(t) \/ ReadForEnable(t) \/ Reset(t)
  \/ Arm(t) \/ Unlocking(t) \/ Unlocked(t)

WdNext ==
  \/ \E t \in Threads : \E r \in Requests : Call(t, r)
  \/ \E t \in Threads : BeforeLock(t) \/ InOpenLock(t) \/ InsideLock(t) \/ Crash(t)
  \/ \E p \in Procs : Die(p)

\* A thread that has both locks runs; no one is obliged to call, and a thread that
\* waits for one of the locks gets it in no fair order.
WdFairness == \A t \in Threads : WF_wdVars(InsideLock(t) \/ Crash(t))

WdSpec == WdInit /\ [][WdNext]_wdVars
FairWdSpec == WdSpec /\ WdFairness

-----------------------------------------------------------------------------
\* The file, holes aside, is the last Setup anybody wrote and nothing else:
\* an older one never shows through, two of them never mix, and a Setup that
\* fails half-way leaves no half (src/wd.c:706-721).
FileIsLastSetup == Lines(file) = saved

\* The card is only ever armed with the timeout of the last Setup of all
\* processes, in whole seconds, and only if that Setup asked for RESET: the
\* entry Enable read is still the last one when it arms (src/wd.c:378-429).
ArmsLastSetup ==
  [][card' \notin {card, Off} =>
       /\ saved # <<>>
       /\ saved[1].mode = "reset"
       /\ saved[1].timeout \in MinTimeout .. MaxTimeout
       /\ card' = Granted[saved[1].timeout \div 1000]]_wdVars

\* To programs the file, as readWdtSetup reads it, and the card are one setup that
\* is in place or not and a card armed from it alone: no step of a call, failure or
\* death shows a setup that nobody made (src/wd.c:185-435, 706-721).
Register == INSTANCE SetupRegister WITH
  Setups <- {e \in Entries : ParamsOK(e)},
  Seconds <- [e \in {d \in Entries : ParamsOK(d)} |-> Granted[e.timeout \div 1000]],
  stored <- Lines(file),
  armed <- card
ImplementsRegister == Register!Spec

\* The configuration of p is there and no thread of p is about to read it again.
Settled(p) ==
  /\ wdtInfo[p]
  /\ \A t \in Threads : ProcOf[t] = p => pc[t] \notin {"config", "loading"}

\* Threads whose first calls overlap may take their process down: one clears the
\* pointer the other is about to use.  Once the loads are over and one has
\* succeeded that cannot happen again, whatever is called by any thread, so a
\* program is safe that makes one call before it starts its other threads
\* (src/wd.c:90, 155-156, 187-189).
SettledForGood == [][\A p \in Procs : Settled(p) => Settled(p)' \/ Die(p)]_wdVars

\* No caller stays inside the lock for good: every path out of Setup and Enable
\* comes to closeUnlock, errors included, or the process ends, which it does by
\* itself if it meets a NULL wdtInfo there (src/wd.c:203-207, 378-429).
EveryPathUnlocks == \A t \in Threads : []<>(at[t] \notin {"in", "unlock"})
=============================================================================
