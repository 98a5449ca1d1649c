-------------------------- MODULE SetupLockProofs --------------------------
(***************************************************************************)
(* Proofs about the lock of the temporary file, for any number of processes *)
(* and threads.                                                             *)
(***************************************************************************)
EXTENDS SetupLock, TLAPS

USE ProcOfAssumption, NoneAssumption, NoAccessAssumption, LockMayFailAssumption

-----------------------------------------------------------------------------
LEMMA LockTypeInit == LockInit => LockTypeOK
  BY DEF LockInit, LockTypeOK, Phases, Descriptors

LEMMA LockTypeStep == LockTypeOK /\ [LockNext]_lockVars => LockTypeOK'
<1> SUFFICES ASSUME LockTypeOK, [LockNext]_lockVars PROVE LockTypeOK'
  OBVIOUS
<1> USE DEF LockTypeOK, Phases, Descriptors
<1>1. ASSUME NEW t \in Threads, LockMutex(t) PROVE LockTypeOK'
  BY <1>1 DEF LockMutex
<1>2. ASSUME NEW t \in Threads, MkLock(t) PROVE LockTypeOK'
  BY <1>2 DEF MkLock
<1>3. ASSUME NEW t \in Threads, OpenAndLock(t) PROVE LockTypeOK'
  BY <1>3 DEF OpenAndLock
<1>4. ASSUME NEW t \in Threads, CloseFile(t) PROVE LockTypeOK'
  BY <1>4 DEF CloseFile
<1>5. ASSUME NEW t \in Threads, UnlockMutex(t) PROVE LockTypeOK'
  BY <1>5 DEF UnlockMutex
<1>6. ASSUME NEW p \in Procs, Death(p) PROVE LockTypeOK'
  BY <1>6 DEF Death
<1>7. CASE UNCHANGED lockVars
  BY <1>7 DEF lockVars
<1> QED
  BY <1>1, <1>2, <1>3, <1>4, <1>5, <1>6, <1>7 DEF LockNext, LockStep

\* The four variables of openLock and closeUnlock keep their types.
THEOREM LockTypeCorrect == LockSpec => []LockTypeOK
  BY LockTypeInit, LockTypeStep, PTL DEF LockSpec

-----------------------------------------------------------------------------
\* LockKept alone is not inductive: a thread in mkLock drops the record lock of
\* its process, and only the mutex (MutexHeld) shows that no other thread of
\* the process then has a descriptor that counts on it (DescriptorsOwned).

LEMMA LockInvInit == LockInit => LockInv
  BY DEF LockInit, LockInv, MutexHeld, DescriptorsOwned, LockKept, LockUsed

\* Two threads of one process are never both past pthread_mutex_lock.
LEMMA OneInside ==
  ASSUME LockTypeOK, MutexHeld, NEW s \in Threads, NEW t \in Threads,
         ProcOf[s] = ProcOf[t], at[s] # "out", at[t] # "out"
  PROVE  s = t
  BY DEF MutexHeld

LEMMA LockInvStep ==
  LockTypeOK /\ LockInv /\ [LockNext]_lockVars => LockInv'
<1> SUFFICES ASSUME LockTypeOK, LockInv, [LockNext]_lockVars PROVE LockInv'
  OBVIOUS
<1> USE DEF LockTypeOK, Phases, Descriptors
<1>0. LockTypeOK'
  BY LockTypeStep
<1>a. \A s, t \in Threads :
        ProcOf[s] = ProcOf[t] /\ at[s] # "out" /\ at[t] # "out" => s = t
  BY OneInside DEF LockInv
<1>1. ASSUME NEW t \in Threads, LockMutex(t) PROVE LockInv'
  <2>1. MutexHeld'
    BY <1>1 DEF LockMutex, LockInv, MutexHeld
  <2>2. DescriptorsOwned' /\ LockKept' /\ LockUsed'
    BY <1>1 DEF LockMutex, LockInv, DescriptorsOwned, LockKept, LockUsed
  <2> QED BY <2>1, <2>2 DEF LockInv
<1>2. ASSUME NEW t \in Threads, MkLock(t) PROVE LockInv'
  <2>1. MutexHeld'
    BY <1>2 DEF MkLock, LockInv, MutexHeld
  <2>2. DescriptorsOwned'
    BY <1>2 DEF MkLock, LockInv, DescriptorsOwned
  <2>3. \A s \in Threads : fd[s] = "locked" => ProcOf[s] # ProcOf[t]
    BY <1>2, <1>a DEF MkLock, LockInv, DescriptorsOwned
  <2>4. LockKept'
    BY <1>2, <2>3 DEF MkLock, LockInv, LockKept
  <2>5. LockUsed'
    BY <1>2 DEF MkLock, LockInv, LockUsed
  <2> QED BY <2>1, <2>2, <2>4, <2>5 DEF LockInv
<1>3. ASSUME NEW t \in Threads, OpenAndLock(t) PROVE LockInv'
  <2>1. MutexHeld'
    BY <1>3 DEF OpenAndLock, LockInv, MutexHeld
  <2>2. DescriptorsOwned'
    BY <1>3 DEF OpenAndLock, LockInv, DescriptorsOwned
  <2>3. LockKept'
    BY <1>3 DEF OpenAndLock, LockInv, LockKept
  <2>4. LockUsed'
    BY <1>3 DEF OpenAndLock, LockInv, LockUsed, DescriptorsOwned
  <2> QED BY <2>1, <2>2, <2>3, <2>4 DEF LockInv
<1>4. ASSUME NEW t \in Threads, CloseFile(t) PROVE LockInv'
  <2>1. MutexHeld'
    BY <1>4 DEF CloseFile, LockInv, MutexHeld
  <2>2. DescriptorsOwned'
    BY <1>4 DEF CloseFile, LockInv, DescriptorsOwned
  <2>3. \A s \in Threads : s # t /\ fd[s] = "locked" => ProcOf[s] # ProcOf[t]
    BY <1>4, <1>a DEF CloseFile, LockInv, DescriptorsOwned
  <2>4. LockKept'
    BY <1>4, <2>3 DEF CloseFile, LockInv, LockKept
  <2>5. fd[t] # "locked" => flock # ProcOf[t]
    BY <1>4, <1>a DEF CloseFile, LockInv, LockUsed, DescriptorsOwned
  <2>6. LockUsed'
    BY <1>4, <2>5 DEF CloseFile, LockInv, LockUsed
  <2> QED BY <2>1, <2>2, <2>4, <2>6 DEF LockInv
<1>5. ASSUME NEW t \in Threads, UnlockMutex(t) PROVE LockInv'
  <2>1. MutexHeld'
    BY <1>5, <1>a DEF UnlockMutex, LockInv, MutexHeld
  <2>2. DescriptorsOwned' /\ LockKept' /\ LockUsed'
    BY <1>5 DEF UnlockMutex, LockInv, DescriptorsOwned, LockKept, LockUsed
  <2> QED BY <2>1, <2>2 DEF LockInv
<1>6. ASSUME NEW p \in Procs, Death(p) PROVE LockInv'
  <2>1. MutexHeld'
    BY <1>6 DEF Death, LockInv, MutexHeld
  <2>2. DescriptorsOwned' /\ LockKept' /\ LockUsed'
    BY <1>6 DEF Death, LockInv, DescriptorsOwned, LockKept, LockUsed
  <2> QED BY <2>1, <2>2 DEF LockInv
<1>7. CASE UNCHANGED lockVars
  BY <1>7 DEF lockVars, LockInv, MutexHeld, DescriptorsOwned, LockKept, LockUsed
<1> QED
  BY <1>1, <1>2, <1>3, <1>4, <1>5, <1>6, <1>7 DEF LockNext, LockStep

\* The inductive invariant of the two nested locks: the mutex belongs to the
\* one thread inside, descriptors belong to it, and the record lock is held
\* for a thread that works under it and only for one.
THEOREM LockInvariant == LockSpec => []LockInv
<1>1. LockTypeOK /\ LockInv /\ [LockNext]_lockVars => LockInv'
  BY LockInvStep
<1> QED
  BY LockInvInit, LockTypeCorrect, <1>1, PTL DEF LockSpec

\* A thread that got the record lock keeps it while it works on the file: the
\* close in another thread's mkLock never drops it (src/linux_support.c:43-68).
THEOREM RecordLockKept == LockSpec => []LockKept
  BY LockInvariant, PTL DEF LockInv

\* Nobody's record lock outlives its use (src/linux_support.c:70-78).
THEOREM RecordLockUsed == LockSpec => []LockUsed
  BY LockInvariant, PTL DEF LockInv

-----------------------------------------------------------------------------
LEMMA ExclusiveFromInv == LockTypeOK /\ LockInv => Exclusive
<1> SUFFICES ASSUME LockTypeOK, LockInv,
                    NEW s \in Threads, NEW t \in Threads,
                    fd[s] = "locked", fd[t] = "locked"
             PROVE  s = t
  BY DEF Exclusive
<1>1. ProcOf[s] = ProcOf[t]
  BY DEF LockInv, LockKept
<1>2. at[s] = "in" /\ at[t] = "in"
  BY DEF LockInv, DescriptorsOwned
<1> QED
  BY <1>1, <1>2, OneInside DEF LockInv

LEMMA ExclusiveInNext == LockTypeOK' /\ LockInv' => Exclusive'
<1> SUFFICES ASSUME LockTypeOK', LockInv',
                    NEW s \in Threads, NEW t \in Threads,
                    fd'[s] = "locked", fd'[t] = "locked"
             PROVE  s = t
  BY DEF Exclusive
<1>1. ProcOf[s] = ProcOf[t]
  BY DEF LockInv, LockKept
<1>2. at'[s] = "in" /\ at'[t] = "in"
  BY DEF LockInv, DescriptorsOwned
<1> QED
  BY <1>1, <1>2 DEF LockInv, MutexHeld

\* One thread of all processes at a time works on the file under the record
\* lock: what openLock is for (src/linux_support.c:39-42).
THEOREM MutualExclusion == LockSpec => []Exclusive
<1>1. LockTypeOK /\ LockInv => Exclusive
  BY ExclusiveFromInv
<1> QED
  BY LockTypeCorrect, LockInvariant, <1>1, PTL

LEMMA AloneFromInv == ~LockMayFail /\ LockTypeOK /\ LockInv => WorkingAlone
<1> SUFFICES ASSUME ~LockMayFail, LockTypeOK, LockInv,
                    NEW s \in Threads, NEW t \in Threads,
                    Working(s), Working(t)
             PROVE  s = t
  BY DEF WorkingAlone
<1>1. fd[s] = "locked" /\ fd[t] = "locked"
  BY DEF Working, LockInv, DescriptorsOwned
<1> QED
  BY <1>1, ExclusiveFromInv DEF Exclusive

\* When lockf does not fail, nobody works on the file without the record lock
\* either (src/linux_support.c:64-67).
THEOREM WorkingAloneHolds == ~LockMayFail => (LockSpec => []WorkingAlone)
<1> SUFFICES ASSUME ~LockMayFail PROVE LockSpec => []WorkingAlone
  OBVIOUS
<1>1. LockTypeOK /\ LockInv => WorkingAlone
  BY AloneFromInv
<1> QED
  BY LockTypeCorrect, LockInvariant, <1>1, PTL

-----------------------------------------------------------------------------
\* The users of the abstract mutex are the threads that have the record lock.

LEMMA UsersInit == LockInit => Abstract!Init
  BY DEF LockInit, Abstract!Init, users

LEMMA UsersStep ==
  LockTypeOK /\ LockInv /\ LockTypeOK' /\ LockInv' /\ [LockNext]_lockVars
    => [Abstract!Next]_users
<1> SUFFICES ASSUME LockTypeOK, LockInv, LockTypeOK', LockInv', [LockNext]_lockVars
             PROVE  [Abstract!Next]_users
  OBVIOUS
<1> USE DEF LockTypeOK, Phases, Descriptors
<1>a. \A s, t \in users : s = t
  BY ExclusiveFromInv DEF Exclusive, users
<1>b. \A t \in Threads : at[t] # "in" => t \notin users
  BY DEF LockInv, DescriptorsOwned, users
<1>1. ASSUME NEW t \in Threads, LockMutex(t) \/ MkLock(t) \/ UnlockMutex(t)
      PROVE  users' = users
  BY <1>1 DEF LockMutex, MkLock, UnlockMutex, users
<1>2. ASSUME NEW t \in Threads, OpenAndLock(t), t \notin users'
      PROVE  users' = users
  BY <1>2, <1>b DEF OpenAndLock, users
<1>3. ASSUME NEW t \in Threads, OpenAndLock(t), t \in users'
      PROVE  Abstract!Enter(t)
  <2>1. \A s \in users : s = t
    <3> SUFFICES ASSUME NEW s \in users PROVE s = t
      OBVIOUS
    <3>1. s \in users'
      BY <1>3 DEF OpenAndLock, users
    <3> QED
      BY <1>3, <3>1, ExclusiveInNext DEF users, Exclusive
  <2>2. t \notin users
    BY <1>3, <1>b DEF OpenAndLock
  <2>3. users = {}
    BY <2>1, <2>2
  <2>4. users' = {t}
    BY <1>3, <2>3 DEF OpenAndLock, users
  <2> QED
    BY <2>3, <2>4 DEF Abstract!Enter
<1>4. ASSUME NEW t \in Threads, CloseFile(t), t \in users
      PROVE  Abstract!Leave(t)
  <2>1. users = {t}
    BY <1>4, <1>a
  <2>2. users' = {}
    BY <1>4, <2>1 DEF CloseFile, users
  <2> QED
    BY <2>1, <2>2 DEF Abstract!Leave
<1>5. ASSUME NEW t \in Threads, CloseFile(t), t \notin users
      PROVE  users' = users
  BY <1>5 DEF CloseFile, users
<1>6. ASSUME NEW p \in Procs, Death(p)
      PROVE  users' = users \/ \E t \in Threads : Abstract!Leave(t)
  <2>1. users' = {t \in users : ProcOf[t] # p}
    BY <1>6 DEF Death, users
  <2>2. CASE \E t \in users : ProcOf[t] = p
    <3>1. PICK t \in users : ProcOf[t] = p
      BY <2>2
    <3>2. users = {t} /\ users' = {} /\ t \in Threads
      BY <3>1, <2>1, <1>a DEF users
    <3> QED
      BY <3>2 DEF Abstract!Leave
  <2>3. CASE \A t \in users : ProcOf[t] # p
    BY <2>1, <2>3
  <2> QED
    BY <2>2, <2>3
<1>7. CASE UNCHANGED lockVars
  BY <1>7 DEF lockVars, users
<1> QED
  BY <1>1, <1>2, <1>3, <1>4, <1>5, <1>6, <1>7 DEF LockNext, LockStep, Abstract!Next

\* openLock and closeUnlock implement the abstract mutex on the file: a thread
\* gets the record lock only when nobody has it, and gives it up by closeUnlock
\* or with its process.
THEOREM LockRefines == LockSpec => ImplementsFileMutex
<1> SUFFICES LockSpec => Abstract!Spec
  BY DEF ImplementsFileMutex
<1>1. LockTypeOK /\ LockInv /\ LockTypeOK' /\ LockInv' /\ [LockNext]_lockVars
        => [Abstract!Next]_users
  BY UsersStep
<1> QED
  BY UsersInit, LockTypeCorrect, LockInvariant, <1>1, PTL DEF LockSpec, Abstract!Spec
=============================================================================
