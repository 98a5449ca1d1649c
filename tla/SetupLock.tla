----------------------------- MODULE SetupLock -----------------------------
(***************************************************************************)
(* openLock and closeUnlock of src/linux_support.c: the lock around a      *)
(* temporary file shared by several processes.  Two locks are nested:      *)
(* a pthread mutex orders the threads of one process, an fcntl record lock *)
(* orders the processes.  The record lock belongs to the PROCESS and is    *)
(* dropped when the process closes ANY descriptor of the file, which is    *)
(* what mkLock does on the way in: without the mutex one thread would drop *)
(* the lock another thread works under.                                    *)
(*                                                                         *)
(* A process slot p that dies is taken by a new instance of the program.   *)
(***************************************************************************)
CONSTANTS
  Procs,          \* process slots
  Threads,        \* threads, over all processes
  ProcOf,         \* the process each thread belongs to
  NoProc,         \* nobody holds the record lock
  NoThread,       \* the mutex is free
  NoAccess,       \* processes that may not open the file for writing
  LockMayFail     \* lockf can fail (EINTR, ENOLCK)

ASSUME ProcOfAssumption == ProcOf \in [Threads -> Procs]
ASSUME NoneAssumption == NoProc \notin Procs /\ NoThread \notin Threads
ASSUME NoAccessAssumption == NoAccess \subseteq Procs
ASSUME LockMayFailAssumption == LockMayFail \in BOOLEAN

VARIABLES
  mutex,    \* mutex[p]: the thread of p that holds the pthread mutex
  flock,    \* the process that holds the record lock
  at,       \* at[t]: where t is in openLock / closeUnlock
  fd        \* fd[t]: the descriptor openLock gave t

lockVars == <<mutex, flock, at, fd>>

Phases == {"out", "mkLock", "lockf", "in", "unlock"}

\* "locked": open and under the record lock; "unlocked": open, lockf failed;
\* "bad": open failed, the caller goes on with -1.
Descriptors == {"none", "locked", "unlocked", "bad"}

LockTypeOK ==
  /\ mutex \in [Procs -> Threads \cup {NoThread}]
  /\ flock \in Procs \cup {NoProc}
  /\ at \in [Threads -> Phases]
  /\ fd \in [Threads -> Descriptors]

LockInit ==
  /\ mutex = [p \in Procs |-> NoThread]
  /\ flock = NoProc
  /\ at = [t \in Threads |-> "out"]
  /\ fd = [t \in Threads |-> "none"]

-----------------------------------------------------------------------------
\* Broken: the threads of a process are not ordered.
LockMutexUnguarded(t) ==
  /\ at[t] = "out"
  /\ mutex' = [mutex EXCEPT ![ProcOf[t]] = t]
  /\ at' = [at EXCEPT ![t] = "mkLock"]
  /\ UNCHANGED <<flock, fd>>

\* Broken: a recursive mutex, its holder gets it once more.
LockMutexRecursive(t) ==
  /\ at[t] \in {"out", "in", "unlock"}
  /\ mutex[ProcOf[t]] \in {NoThread, t}
  /\ mutex' = [mutex EXCEPT ![ProcOf[t]] = t]
  /\ at' = [at EXCEPT ![t] = "mkLock"]
  /\ UNCHANGED <<flock, fd>>

\* pthread_mutex_lock(mutex): blocks while the mutex is held, by t itself too.
LockMutex(t) ==
  /\ at[t] = "out"
  /\ mutex[ProcOf[t]] = NoThread
  /\ mutex' = [mutex EXCEPT ![ProcOf[t]] = t]
  /\ at' = [at EXCEPT ![t] = "mkLock"]
  /\ UNCHANGED <<flock, fd>>

\* mkLock: open(O_CREAT) and close; the close drops the process's record lock.
MkLock(t) ==
  /\ at[t] = "mkLock"
  /\ flock' = IF flock = ProcOf[t] THEN NoProc ELSE flock
  /\ at' = [at EXCEPT ![t] = "lockf"]
  /\ UNCHANGED <<mutex, fd>>

\* Broken: F_TLOCK for F_LOCK, the caller never waits for another process.
OpenAndTryLock(t) ==
  /\ at[t] = "lockf"
  /\ at' = [at EXCEPT ![t] = "in"]
  /\ fd' = [fd EXCEPT ![t] = IF ProcOf[t] \in NoAccess THEN "bad" ELSE "locked"]
  /\ flock' = IF flock = NoProc /\ ProcOf[t] \notin NoAccess THEN ProcOf[t] ELSE flock
  /\ UNCHANGED mutex

\* open(O_RDWR) and lockf(F_LOCK); a failure of either is only logged.
OpenAndLock(t) ==
  /\ at[t] = "lockf"
  /\ at' = [at EXCEPT ![t] = "in"]
  /\ \/ /\ ProcOf[t] \in NoAccess
        /\ fd' = [fd EXCEPT ![t] = "bad"]
        /\ UNCHANGED flock
     \/ /\ ProcOf[t] \notin NoAccess
        /\ flock \in {NoProc, ProcOf[t]}
        /\ flock' = ProcOf[t]
        /\ fd' = [fd EXCEPT ![t] = "locked"]
     \/ /\ ProcOf[t] \notin NoAccess
        /\ LockMayFail
        /\ fd' = [fd EXCEPT ![t] = "unlocked"]
        /\ UNCHANGED flock
  /\ UNCHANGED mutex

\* Broken: the descriptor is forgotten, neither unlocked nor closed.
CloseFileForgotten(t) ==
  /\ at[t] = "in"
  /\ fd' = [fd EXCEPT ![t] = "none"]
  /\ at' = [at EXCEPT ![t] = "unlock"]
  /\ UNCHANGED <<mutex, flock>>

\* lockf(F_ULOCK) and close(fd): the close drops every lock of the process.
CloseFile(t) ==
  /\ at[t] = "in"
  /\ flock' = IF fd[t] # "bad" /\ flock = ProcOf[t] THEN NoProc ELSE flock
  /\ fd' = [fd EXCEPT ![t] = "none"]
  /\ at' = [at EXCEPT ![t] = "unlock"]
  /\ UNCHANGED mutex

\* pthread_mutex_unlock(mutex).
UnlockMutex(t) ==
  /\ at[t] = "unlock"
  /\ mutex' = [mutex EXCEPT ![ProcOf[t]] = NoThread]
  /\ at' = [at EXCEPT ![t] = "out"]
  /\ UNCHANGED <<flock, fd>>

\* The process in slot p ends (exit, signal, power): the kernel drops its locks.
Death(p) ==
  /\ mutex' = [mutex EXCEPT ![p] = NoThread]
  /\ flock' = IF flock = p THEN NoProc ELSE flock
  /\ at' = [t \in Threads |-> IF ProcOf[t] = p THEN "out" ELSE at[t]]
  /\ fd' = [t \in Threads |-> IF ProcOf[t] = p THEN "none" ELSE fd[t]]

LockStep(t) ==
  LockMutex(t) \/ MkLock(t) \/ OpenAndLock(t) \/ CloseFile(t) \/ UnlockMutex(t)

LockNext == (\E t \in Threads : LockStep(t)) \/ (\E p \in Procs : Death(p))

\* A thread inside the lock keeps going; nothing obliges a process to die or
\* a thread to call openLock, and the two locks are granted in no fair order.
LockFairness ==
  \A t \in Threads :
    /\ WF_lockVars(MkLock(t))
    /\ WF_lockVars(CloseFile(t))
    /\ WF_lockVars(UnlockMutex(t))

LockSpec == LockInit /\ [][LockNext]_lockVars
FairLockSpec == LockSpec /\ LockFairness

-----------------------------------------------------------------------------
\* t works on the file through an open descriptor.
Working(t) == at[t] = "in" /\ fd[t] \in {"locked", "unlocked"}

\* At most one thread of all processes works on the file under the record lock,
\* also when lockf fails for others: the purpose of openLock
\* (src/linux_support.c:40).
Exclusive ==
  \A s, t \in Threads : fd[s] = "locked" /\ fd[t] = "locked" => s = t

\* At most one thread of all processes works on the file, with the record lock
\* or without (src/linux_support.c:39-42).
WorkingAlone == \A s, t \in Threads : Working(s) /\ Working(t) => s = t

\* A thread that got the record lock still has it whenever it works on the
\* file: no other thread's mkLock or closeUnlock has dropped it.
LockKept == \A t \in Threads : fd[t] = "locked" => flock = ProcOf[t]

\* A thread inside openLock/closeUnlock is the one holder of its mutex.
MutexHeld ==
  \A t \in Threads : at[t] # "out" <=> mutex[ProcOf[t]] = t

DescriptorsOwned ==
  \A t \in Threads :
    /\ at[t] = "in" <=> fd[t] # "none"
    /\ fd[t] = "unlocked" => LockMayFail
    /\ fd[t] = "bad" <=> at[t] = "in" /\ ProcOf[t] \in NoAccess

\* The record lock has a thread that works under it: it cannot outlive its use.
LockUsed ==
  flock # NoProc => \E t \in Threads : ProcOf[t] = flock /\ fd[t] = "locked"

LockInv == MutexHeld /\ DescriptorsOwned /\ LockKept /\ LockUsed

\* Whoever works on the file lets go of the record lock in the end: no process
\* keeps the others out for good once its threads run.
LockReleased == \A p \in Procs : flock = p ~> flock # p

\* The lock implements the abstract one; its users are the threads that work
\* under the record lock (src/linux_support.c:39-42).
users == {t \in Threads : fd[t] = "locked"}
Abstract == INSTANCE FileMutex WITH Threads <- Threads, users <- users
ImplementsFileMutex == Abstract!Spec
=============================================================================
