---------------------------- MODULE WatchdogKom ----------------------------
(***************************************************************************)
(* The watchdog calls of src/wd.c for a "kontron-like-kom" card.  Setup of  *)
(* stage 0 gives the card its time and stores how an expiry is to be routed *)
(* in the temporary file; Setup of stage 1 turns a stored interrupt into    *)
(* interrupt-then-reset; Enable routes and starts the card.  The value      *)
(* passes through keapiEvtconfig, one variable for all threads of a         *)
(* process.  The configuration is taken as loaded (WatchdogLinux has that). *)
(*                                                                          *)
(* An error path that returns without closeUnlock leaves its thread idle    *)
(* with at[t] # "out": its next openLock, like anybody's, waits for ever.   *)
(***************************************************************************)
EXTENDS SetupLock, Integers, Sequences

CONSTANTS
  Requests,    \* the calls clients make
  IoMayFail    \* read, write, open and ioctl may fail

Modes == {"reset", "interrupt", "timer", "disable"}
AllRequests == [op : {"setup"}, stage : {-1, 0, 1, 2}, mode : Modes]
               \cup {[op |-> "enable"], [op |-> "disable"]}

ASSUME RequestsAssumption == Requests \subseteq AllRequests
ASSUME IoMayFailAssumption == IoMayFail \in BOOLEAN

VARIABLES
  pc,              \* pc[t]: where t is in its call
  req,             \* req[t]: the call
  keapiEvtconfig,  \* keapiEvtconfig[p]
  file,            \* the value in the temporary file, "none" when it is empty
  card,            \* [route, on]
  got,             \* history: what the stages meant when t's Enable read them, "none"
                   \* once keapiEvtconfig[ProcOf[t]] has been written again
  stages           \* history: modes of the stages stored last, in order

callVars == <<pc, req>>
komVars == <<lockVars, callVars, keapiEvtconfig, file, card, got, stages>>

Places == {"idle", "params", "device", "openLock", "read", "setTime", "store",
           "closeUnlock", "route", "start"}
Routes == {"0", "RES", "IRQ", "TIMEOUT", "IRQ_RES"}
NoCall == [op |-> "none"]

\* The switch over the mode of stage 0; DISABLE is an error there, after which the
\* routing stays 0.
RouteOf ==
  [reset |-> "RES", interrupt |-> "IRQ", timer |-> "TIMEOUT", disable |-> "0"]

\* The routing that stages stored in this order mean.
Meant(s) ==
  IF s = <<>> THEN "0" ELSE IF Len(s) = 1 THEN RouteOf[s[1]] ELSE "IRQ_RES"

\* A thread is in Setup's own code only during a Setup.
CallsMatch ==
  \A t \in Threads :
    pc[t] \in {"params", "setTime", "store"} => req[t].op = "setup"

KomTypeOK ==
  /\ LockTypeOK
  /\ pc \in [Threads -> Places]
  /\ req \in [Threads -> Requests \cup {NoCall}]
  /\ keapiEvtconfig \in [Procs -> Routes]
  /\ file \in Routes \cup {"none"}
  /\ card \in [route : Routes \cup {"none"}, on : BOOLEAN]
  /\ got \in [Threads -> Routes \cup {"none"}]
  /\ stages \in Seq(Modes)
  /\ CallsMatch

KomInit ==
  /\ LockInit
  /\ pc = [t \in Threads |-> "idle"]
  /\ req = [t \in Threads |-> NoCall]
  /\ keapiEvtconfig = [p \in Procs |-> "0"]
  /\ file = "none"
  /\ card = [route |-> "none", on |-> FALSE]
  /\ got = [t \in Threads |-> "none"]
  /\ stages = <<>>

-----------------------------------------------------------------------------
GoTo(t, l) == pc' = [pc EXCEPT ![t] = l] /\ UNCHANGED req

Return(t) ==
  /\ pc' = [pc EXCEPT ![t] = "idle"]
  /\ req' = [req EXCEPT ![t] = NoCall]

Evt(t) == keapiEvtconfig[ProcOf[t]]

\* t writes keapiEvtconfig for all threads of its process; g is t's new got.
SetEvt(t, v, g) ==
  /\ keapiEvtconfig' = [keapiEvtconfig EXCEPT ![ProcOf[t]] = v]
  /\ got' = [u \in Threads |-> IF u = t THEN g
                              ELSE IF ProcOf[u] = ProcOf[t] THEN "none" ELSE got[u]]

Open(t) == fd[t] \in {"locked", "unlocked"}

\* read of one int: at the end of the file, or of an empty one, it gets nothing
\* and the variable keeps its value.
ReadValue(t) == IF file = "none" THEN Evt(t) ELSE file

\* Broken: half of closeUnlock, the mutex is freed and the descriptor kept.
FailWithMutexFreed(t) ==
  /\ Return(t)
  /\ mutex' = [mutex EXCEPT ![ProcOf[t]] = NoThread]
  /\ UNCHANGED <<flock, at, fd>>

\* return failIoctlCheckErrno(&fdtmp): the descriptor is closed unless errno is
\* EACCES or EPERM; the mutex is kept in either case.
FailWithoutUnlock(t) ==
  /\ Return(t)
  /\ CloseFile(t) \/ UNCHANGED lockVars

Call(t, r) ==
  /\ pc[t] = "idle"
  /\ pc' = [pc EXCEPT ![t] = IF r.op = "setup" THEN "params" ELSE "device"]
  /\ req' = [req EXCEPT ![t] = r]
  /\ UNCHANGED <<lockVars, keapiEvtconfig, file, card, got, stages>>

\* Setup's checks, then access and open of the card.
CheckParams(t) ==
  /\ pc[t] = "params"
  /\ \/ req[t].stage \in {0, 1} /\ GoTo(t, "openLock")
     \/ (req[t].stage \notin {0, 1} \/ IoMayFail) /\ Return(t)
  /\ UNCHANGED <<lockVars, keapiEvtconfig, file, card, got, stages>>

\* Disable, alone or as the first part of Enable.
Disable(t) ==
  /\ pc[t] = "device"
  /\ \/ /\ card' = [card EXCEPT !.on = FALSE]
        /\ IF req[t].op = "enable" THEN GoTo(t, "openLock") ELSE Return(t)
     \/ IoMayFail /\ Return(t) /\ UNCHANGED card
  /\ UNCHANGED <<lockVars, keapiEvtconfig, file, got, stages>>

Locking(t) ==
  /\ pc[t] = "openLock"
  /\ LockMutex(t) \/ MkLock(t)
  /\ UNCHANGED <<callVars, keapiEvtconfig, file, card, got, stages>>

Locked(t) ==
  /\ pc[t] = "openLock"
  /\ OpenAndLock(t)
  /\ GoTo(t, "read")
  /\ UNCHANGED <<keapiEvtconfig, file, card, got, stages>>

-----------------------------------------------------------------------------
\* Setup of stage 0: forget the routing, in the variable and in the file.
Forget(t) ==
  /\ pc[t] = "read"
  /\ req[t].op = "setup" /\ req[t].stage = 0
  /\ SetEvt(t, "0", "none")
  /\ \/ /\ Open(t)
        /\ file' = "0" /\ stages' = <<>>
        /\ GoTo(t, "setTime")
        /\ UNCHANGED lockVars
     \/ /\ ~Open(t) \/ IoMayFail
        /\ FailWithoutUnlock(t)
        /\ UNCHANGED <<file, stages>>
  /\ UNCHANGED card

\* SETTIME; when it fails, and for DISABLE, the call returns without closeUnlock.
SetTime(t) ==
  /\ pc[t] = "setTime"
  /\ \/ /\ req[t].mode # "disable"
        /\ SetEvt(t, RouteOf[req[t].mode], "none")
        /\ GoTo(t, "store")
     \/ /\ req[t].mode = "disable" \/ IoMayFail
        /\ Return(t)
        /\ UNCHANGED <<keapiEvtconfig, got>>
  /\ UNCHANGED <<lockVars, file, card, stages>>

\* Broken: whatever stage 0 does, stage 1 makes a cascade of it.
CascadeAnything(t) ==
  /\ pc[t] = "read"
  /\ req[t].op = "setup" /\ req[t].stage = 1
  /\ SetEvt(t, "IRQ_RES", "none") /\ GoTo(t, "store")
  /\ UNCHANGED <<lockVars, file, card, stages>>

\* Setup of stage 1: only RESET, and only after an interrupt.
Cascade(t) ==
  /\ pc[t] = "read"
  /\ req[t].op = "setup" /\ req[t].stage = 1
  /\ \/ /\ req[t].mode = "reset" /\ Open(t) /\ ReadValue(t) = "IRQ"
        /\ SetEvt(t, "IRQ_RES", "none") /\ GoTo(t, "store")
        /\ UNCHANGED lockVars
     \/ /\ req[t].mode = "reset" /\ Open(t) /\ ReadValue(t) # "IRQ"
        /\ SetEvt(t, ReadValue(t), "none") /\ GoTo(t, "closeUnlock")
        /\ UNCHANGED lockVars
     \/ /\ req[t].mode = "reset" /\ (~Open(t) \/ IoMayFail)
        /\ FailWithoutUnlock(t)
        /\ UNCHANGED <<keapiEvtconfig, got>>
     \/ /\ req[t].mode # "reset" /\ GoTo(t, "closeUnlock")
        /\ UNCHANGED <<lockVars, keapiEvtconfig, got>>
  /\ UNCHANGED <<file, card, stages>>

\* lseek to 0 and write the variable.
Store(t) ==
  /\ pc[t] = "store"
  /\ \/ /\ Open(t)
        /\ file' = Evt(t)
        /\ stages' = Append(stages, req[t].mode)
        /\ GoTo(t, "closeUnlock")
        /\ UNCHANGED lockVars
     \/ /\ IoMayFail
        /\ FailWithoutUnlock(t)
        /\ UNCHANGED <<file, stages>>
  /\ UNCHANGED <<keapiEvtconfig, card, got>>

\* Broken: a routing the process knows is not read again.
ReadRouteOnce(t) ==
  /\ pc[t] = "read"
  /\ req[t].op = "enable"
  /\ SetEvt(t, IF Evt(t) = "0" THEN ReadValue(t) ELSE Evt(t), Meant(stages))
  /\ GoTo(t, "closeUnlock")
  /\ UNCHANGED <<lockVars, file, card, stages>>

\* Enable reads the routing.
ReadRoute(t) ==
  /\ pc[t] = "read"
  /\ req[t].op = "enable"
  /\ \/ /\ Open(t)
        /\ SetEvt(t, ReadValue(t), Meant(stages))
        /\ GoTo(t, "closeUnlock")
        /\ UNCHANGED lockVars
     \/ /\ ~Open(t) \/ IoMayFail
        /\ FailWithoutUnlock(t)
        /\ UNCHANGED <<keapiEvtconfig, got>>
  /\ UNCHANGED <<file, card, stages>>

Unlocking(t) ==
  /\ pc[t] = "closeUnlock"
  /\ CloseFile(t)
  /\ UNCHANGED <<callVars, keapiEvtconfig, file, card, got, stages>>

Unlocked(t) ==
  /\ pc[t] = "closeUnlock"
  /\ UnlockMutex(t)
  /\ IF req[t].op = "enable" THEN GoTo(t, "route") ELSE Return(t)
  /\ UNCHANGED <<keapiEvtconfig, file, card, got, stages>>

-----------------------------------------------------------------------------
\* open and SETROUTING, outside the lock: the variable is read once more.
Route(t) ==
  /\ pc[t] = "route"
  /\ \/ card' = [card EXCEPT !.route = Evt(t)] /\ GoTo(t, "start")
     \/ IoMayFail /\ Return(t) /\ UNCHANGED card
  /\ got' = [got EXCEPT ![t] = "none"]
  /\ UNCHANGED <<lockVars, keapiEvtconfig, file, stages>>

Start(t) ==
  /\ pc[t] = "start"
  /\ \/ card' = [card EXCEPT !.on = TRUE]
     \/ IoMayFail /\ UNCHANGED card
  /\ Return(t)
  /\ UNCHANGED <<lockVars, keapiEvtconfig, file, got, stages>>

Die(p) ==
  LET Reborn(f, v) == [t \in Threads |-> IF ProcOf[t] = p THEN v ELSE f[t]] IN
  /\ Death(p)
  /\ pc' = Reborn(pc, "idle")
  /\ req' = Reborn(req, NoCall)
  /\ keapiEvtconfig' = [keapiEvtconfig EXCEPT ![p] = "0"]
  /\ got' = Reborn(got, "none")
  /\ UNCHANGED <<file, card, stages>>

Run(t) ==
  \/ CheckParams(t) \/ Disable(t) \/ Locking(t) \/ Locked(t)
  \/ Forget(t) \/ SetTime(t) \/ Cascade(t) \/ Store(t) \/ ReadRoute(t)
  \/ Unlocking(t) \/ Unlocked(t) \/ Route(t) \/ Start(t)

KomNext ==
  \/ \E t \in Threads : \E r \in Requests : Call(t, r)
  \/ \E t \in Threads : Run(t)
  \/ \E p \in Procs : Die(p)

KomSpec == KomInit /\ [][KomNext]_komVars

-----------------------------------------------------------------------------
\* The file holds the routing of the stages stored last: a cascade only over an
\* interrupt, nothing of an older Setup once a newer one began, whatever
\* processes die or fail in between (src/wd.c:236-294).
FileIsStages ==
  \/ stages = <<>> /\ file \in {"none", "0"}
  \/ \E m \in Modes \ {"disable"} : stages = <<m>> /\ file = RouteOf[m]
  \/ stages = <<"interrupt", "reset">> /\ file = "IRQ_RES"

\* What makes it inductive.  A thread between its first access to the file and
\* its write is inside the lock, and what it is about to store is what its
\* stage is to become...
Ready(t) ==
  /\ pc[t] = "read" => at[t] = "in"
  /\ pc[t] \in {"setTime", "store"} => Working(t)
  /\ pc[t] = "setTime" => req[t].stage = 0 /\ stages = <<>> /\ file = "0"
  /\ pc[t] = "store" =>
       \/ /\ req[t].stage = 0 /\ req[t].mode # "disable"
          /\ Evt(t) = RouteOf[req[t].mode] /\ stages = <<>>
       \/ /\ req[t].stage = 1 /\ req[t].mode = "reset"
          /\ Evt(t) = "IRQ_RES" /\ stages = <<"interrupt">>

Prepared == \A t \in Threads : Ready(t)

\* ...and a process that reads nothing from an empty file has nothing older.
EmptyIsFresh == file = "none" => \A p \in Procs : keapiEvtconfig[p] = "0"

KomInv == FileIsStages /\ Prepared /\ EmptyIsFresh

\* The card gets the routing that the stages of all processes meant while Enable
\* had the lock, not one its process remembers from an older call, unless another
\* thread of its own process has written keapiEvtconfig between the lock and the
\* card, which nothing prevents (src/wd.c:438-449).
RoutesStored ==
  [][\A t \in Threads :
       pc[t] = "route" /\ pc'[t] = "start" /\ got[t] # "none"
         => card'.route = got[t]]_komVars

\* A call of t returned without closeUnlock: t has no business in the lock and is
\* in it.
Leaked(t) ==
  at[t] \in {"in", "unlock"} /\ pc[t] \in {"idle", "params", "device", "openLock"}

\* Where a call works between openLock and closeUnlock.
Inner == {"read", "setTime", "store", "closeUnlock"}

\* After that every other thread of its process is out of the lock, and if the
\* descriptor was left open too nobody in any process works under the record lock:
\* the paths that forget closeUnlock stop the others, they never let two of them
\* work at once (src/wd.c:234-297, 436-442).
LeakBlocks ==
  \A t \in Threads : Leaked(t) =>
    /\ \A s \in Threads \ {t} : ProcOf[s] = ProcOf[t] => at[s] = "out" /\ pc[s] \notin Inner
    /\ fd[t] = "locked" => \A s \in Threads \ {t} : fd[s] # "locked"

\* And it lasts as long as the process: no call of any thread gives back what was
\* left locked, and t itself never gets past openLock again
\* (src/linux_support.c:60-64).
LeakStays ==
  [][\A t \in Threads : Leaked(t) =>
       (Leaked(t)' /\ at'[t] = at[t] /\ fd'[t] = fd[t]) \/ Die(ProcOf[t])]_komVars

\* A call that is over holds nothing (src/linux_support.c:39-42).
IdleHoldsNothing == \A t \in Threads : pc[t] = "idle" => at[t] = "out"
=============================================================================
