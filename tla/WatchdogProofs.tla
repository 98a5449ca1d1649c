-------------------------- MODULE WatchdogProofs --------------------------
(***************************************************************************)
(* The watchdog calls for a linux-like card.  They use the lock as          *)
(* SetupLock describes it, so what is proved of the lock holds of them.     *)
(* Then: the types, the configuration pointer, and the file: it holds the   *)
(* last Setup, and that is what Enable arms.                                *)
(***************************************************************************)
EXTENDS WatchdogLinux, SetupLockProofs, FiniteSetTheorems

USE RequestsAssumption, TimeoutAssumption, GrantedAssumption,
    IoMayFailAssumption, MaxHoleAssumption

LEMMA WdLockInit == WdInit => LockInit
  BY DEF WdInit

\* A crash is a death, so every step is one of four kinds.
LEMMA StepKinds ==
  WdNext => \/ \E t \in Threads : \E r \in Requests : Call(t, r)
            \/ \E t \in Threads : BeforeLock(t)
            \/ \E t \in Threads : InOpenLock(t) \/ InsideLock(t)
            \/ \E p \in Procs : Die(p)
<1>1. ASSUME NEW t \in Threads, Crash(t) PROVE \E p \in Procs : Die(p)
  BY <1>1, ProcOfAssumption DEF Crash
<1> QED
  BY <1>1 DEF WdNext

LEMMA WdLockStep == [WdNext]_wdVars => [LockNext]_lockVars
<1> SUFFICES ASSUME [WdNext]_wdVars PROVE [LockNext]_lockVars
  OBVIOUS
<1>1. ASSUME NEW t \in Threads, NEW r \in Requests, Call(t, r)
      PROVE  UNCHANGED lockVars
  BY <1>1 DEF Call
<1>2. ASSUME NEW t \in Threads, BeforeLock(t)
      PROVE  UNCHANGED lockVars
  BY <1>2 DEF BeforeLock, LoadBegin, LoadEnd, CheckParams, GetCaps, Device
<1>3. ASSUME NEW t \in Threads, InOpenLock(t) \/ InsideLock(t)
      PROVE  LockStep(t) \/ UNCHANGED lockVars
  <2>1. CASE Locking(t)
    BY <2>1 DEF Locking, LockStep
  <2>2. CASE Locked(t)
    BY <2>2 DEF Locked, LockStep
  <2>3. CASE ReadForSetup(t) \/ ReadForEnable(t)
    BY <2>3 DEF ReadForSetup, ReadForEnable
  <2>4. CASE Truncate(t) \/ Write(t) \/ Reset(t) \/ Arm(t)
    BY <2>4 DEF Truncate, Write, Reset, Arm
  <2>5. CASE Unlocking(t)
    BY <2>5 DEF Unlocking, LockStep
  <2>6. CASE Unlocked(t)
    BY <2>6 DEF Unlocked, LockStep
  <2> QED
    BY <1>3, <2>1, <2>2, <2>3, <2>4, <2>5, <2>6 DEF InOpenLock, InsideLock
<1>4. ASSUME NEW p \in Procs, Die(p)
      PROVE  Death(p)
  BY <1>4 DEF Die
<1>5. CASE UNCHANGED wdVars
  BY <1>5 DEF wdVars, lockVars
<1> QED
  BY StepKinds, <1>1, <1>2, <1>3, <1>4, <1>5 DEF LockNext

LEMMA WdUsesLock == WdSpec => LockSpec
  BY WdLockInit, WdLockStep, PTL DEF WdSpec, LockSpec

\* One thread of all processes at a time reads, writes or arms from the
\* stored stages under the record lock (src/wd.c:203-207, 378-429).
THEOREM WatchdogExclusive == WdSpec => []Exclusive
  BY WdUsesLock, MutualExclusion

-----------------------------------------------------------------------------
\* The lines of a file.  Induction over the natural numbers is by the least
\* element of a set, since intervals are finite and strict inclusion of finite
\* sets is well-founded.

LEMMA LeastNumber ==
  ASSUME NEW T \in SUBSET Nat, T # {}
  PROVE  \E m \in T : \A k \in T : m <= k
<1>1. PICK n \in T : TRUE
  OBVIOUS
<1> DEFINE S == 0 .. n
           R == StrictSubsetOrdering(S)
           C == {0 .. k : k \in T \cap S}
<1>2. IsFiniteSet(S)
  BY FS_Interval
<1>3. IsWellFoundedOn(R, FiniteSubsetsOf(S))
  BY <1>2, FS_StrictSubsetOrderingWellFounded
<1>4. C \subseteq FiniteSubsetsOf(S) /\ C # {}
  <2>1. C # {}
    BY <1>1
  <2>2. ASSUME NEW k \in T \cap S
        PROVE  0 .. k \in FiniteSubsetsOf(S)
    <3>1. 0 .. k \subseteq S /\ 0 \in Int /\ k \in Int
      OBVIOUS
    <3>2. IsFiniteSet(0 .. k)
      BY <3>1, FS_Interval
    <3> QED
      BY <3>1, <3>2 DEF FiniteSubsetsOf
  <2> QED
    BY <2>1, <2>2
<1>5. PICK c \in C : \A d \in C : <<d, c>> \notin R
  BY <1>3, <1>4, WFMin
<1>6. PICK m \in T \cap S : c = 0 .. m
  OBVIOUS
<1>7. ASSUME NEW k \in T, k < m
      PROVE  FALSE
  <2>1. 0 .. k \in C
    BY <1>6, <1>7
  <2>2. 0 .. k \subseteq 0 .. m /\ m \in 0 .. m /\ m \notin 0 .. k
    BY <1>7
  <2>3. <<0 .. k, c>> \in R
    BY <1>6, <1>7, <2>2 DEF StrictSubsetOrdering
  <2> QED
    BY <1>5, <2>1, <2>3
<1> QED
  BY <1>6, <1>7

LEMMA Induction ==
  ASSUME NEW S, 0 \in S, \A n \in Nat : n \in S => n + 1 \in S
  PROVE  Nat \subseteq S
<1> DEFINE T == Nat \ S
<1> SUFFICES ASSUME T # {} PROVE FALSE
  OBVIOUS
<1>1. PICK m \in T : \A k \in T : m <= k
  BY LeastNumber
<1>2. m # 0 /\ m - 1 \in Nat /\ m - 1 \notin T
  BY <1>1
<1>3. (m - 1) + 1 \in S
  BY <1>2
<1> QED
  BY <1>1, <1>3

\* The n-th member of a set of numbers is there for every n up to its size:
\* the line readWdtSetup gives as the n-th is a line of the file.
LEMMA NthExists ==
  \A m \in Nat : \A S \in SUBSET (1 .. m) : \A n \in 1 .. Cardinality(S) :
     \E i \in S : Cardinality(UpTo(S, i)) = n
<1> DEFINE Counted(m) ==
      \A S \in SUBSET (1 .. m) : \A n \in 1 .. Cardinality(S) :
         \E i \in S : Cardinality(UpTo(S, i)) = n
    A == {m \in Nat : Counted(m)}
<1>1. 0 \in A
  <2>1. \A S \in SUBSET (1 .. 0) : Cardinality(S) = 0
    <3>1. 1 .. 0 = {}
      OBVIOUS
    <3> QED
      BY <3>1, FS_EmptySet
  <2> QED
    BY <2>1
<1>2. ASSUME NEW m \in Nat, m \in A
      PROVE  m + 1 \in A
  <2> SUFFICES ASSUME NEW S \in SUBSET (1 .. m + 1), NEW n \in 1 .. Cardinality(S)
               PROVE  \E i \in S : Cardinality(UpTo(S, i)) = n
    OBVIOUS
  <2>1. CASE m + 1 \notin S
    <3>1. S \in SUBSET (1 .. m)
      BY <2>1
    <3> QED
      BY <1>2, <3>1
  <2>2. CASE m + 1 \in S
    <3> DEFINE R == S \ {m + 1}
    <3>1. R \in SUBSET (1 .. m)
      OBVIOUS
    <3>2. IsFiniteSet(1 .. m + 1)
      BY FS_Interval
    <3>3. IsFiniteSet(S)
      BY <3>2, FS_Subset
    <3>4. Cardinality(R) = Cardinality(S) - 1 /\ Cardinality(S) \in Nat
      BY <2>2, <3>3, FS_RemoveElement, FS_CardinalityType
    <3>5. CASE n <= Cardinality(R)
      <4>1. n \in 1 .. Cardinality(R)
        BY <3>4, <3>5
      <4>2. PICK i \in R : Cardinality(UpTo(R, i)) = n
        BY <1>2, <3>1, <4>1
      <4>3. UpTo(R, i) = UpTo(S, i)
        BY <3>1, <4>2 DEF UpTo
      <4> QED
        BY <4>2, <4>3
    <3>6. CASE n = Cardinality(S)
      <4>1. UpTo(S, m + 1) = S
        BY DEF UpTo
      <4> QED
        BY <2>2, <3>6, <4>1
    <3> QED
      BY <3>4, <3>5, <3>6
  <2> QED
    BY <2>1, <2>2
<1> HIDE DEF A
<1>3. Nat \subseteq A
  BY <1>1, <1>2, Induction
<1> QED
  BY <1>3 DEF A

LEMMA WrittenFinite ==
  ASSUME NEW S, NEW f \in Seq(S)
  PROVE  /\ Written(f) \in SUBSET (1 .. Len(f))
         /\ Cardinality(Written(f)) \in Nat
<1>1. Written(f) \in SUBSET (1 .. Len(f))
  BY DEF Written
<1>2. 1 \in Int /\ Len(f) \in Int
  OBVIOUS
<1>3. IsFiniteSet(1 .. Len(f))
  BY <1>2, FS_Interval
<1> QED
  BY <1>1, <1>3, FS_Subset, FS_CardinalityType

\* What readWdtSetup returns are entries, whatever holes the file has.
LEMMA LinesType ==
  ASSUME NEW f \in Seq(Entries \cup {Hole})
  PROVE  Lines(f) \in Seq(Entries)
<1> DEFINE W == Written(f)
<1>1. W \in SUBSET (1 .. Len(f)) /\ Cardinality(W) \in Nat /\ Len(f) \in Nat
  BY WrittenFinite
<1>2. ASSUME NEW n \in 1 .. Cardinality(W)
      PROVE  f[Nth(W, n)] \in Entries
  <2>1. \E i \in W : Cardinality(UpTo(W, i)) = n
    BY <1>1, NthExists
  <2>2. Nth(W, n) \in W
    BY <2>1 DEF Nth
  <2> QED
    BY <2>2 DEF Written
<1> HIDE DEF W
<1> QED
  BY <1>1, <1>2 DEF Lines, W

\* A file without lines...
LEMMA LinesOfEmpty == Lines(<<>>) = <<>>
<1>1. Written(<<>>) = {}
  BY DEF Written
<1>2. Cardinality({}) = 0
  BY FS_EmptySet
<1>3. <<>> \in Seq(Entries \cup {Hole})
  OBVIOUS
<1>4. Lines(<<>>) \in Seq(Entries)
  BY <1>3, LinesType
<1>5. DOMAIN Lines(<<>>) = 1 .. 0
  BY <1>1, <1>2 DEF Lines
<1> QED
  BY <1>4, <1>5

\* ...and one with a single line, behind a hole or not.
LEMMA LinesOfOne ==
  ASSUME NEW S, NEW f \in Seq(S), NEW k \in DOMAIN f, f[k] # Hole,
         \A i \in DOMAIN f : i # k => f[i] = Hole
  PROVE  Lines(f) = <<f[k]>>
<1>1. Written(f) = {k}
  BY DEF Written
<1>2. Cardinality({k}) = 1
  BY FS_Singleton
<1>3. UpTo({k}, k) = {k}
  BY DEF UpTo
<1>4. Nth({k}, 1) = k
  BY <1>2, <1>3 DEF Nth
<1>5. Lines(f) = [n \in 1 .. 1 |-> f[Nth({k}, n)]]
  BY <1>1, <1>2 DEF Lines
<1> QED
  BY <1>4, <1>5

-----------------------------------------------------------------------------
\* The other operators on the contents of the file.

LEMMA SetsUpdated ==
  ASSUME NEW s \in Seq(Entries), NEW e \in Entries
  PROVE  UpdateWdtSetup(s, e) \in Seq(Entries)
<1> DEFINE n == Len(s)
<1>1. n \in Nat /\ s \in [1 .. n -> Entries]
  OBVIOUS
<1>2. \A k : [s EXCEPT ![k] = e] \in [1 .. n -> Entries]
  BY <1>1
<1>3. \A f \in [1 .. n -> Entries] : f \in Seq(Entries)
  BY <1>1
<1> QED
  BY <1>2, <1>3 DEF UpdateWdtSetup

\* Setup of the only stage replaces it.
LEMMA OneStays ==
  ASSUME NEW s \in Seq(Entries), NEW e \in Entries,
         s = <<>> \/ (Len(s) = 1 /\ s[1].stage = e.stage)
  PROVE  UpdateWdtSetup(s, e) = <<e>>
<1>1. CASE s = <<>>
  BY <1>1 DEF UpdateWdtSetup
<1>2. CASE Len(s) = 1 /\ s[1].stage = e.stage
  <2>1. {i \in DOMAIN s : s[i].stage = e.stage} = {1}
    BY <1>2
  <2>2. (CHOOSE i \in {1} : \A j \in {1} : i <= j) = 1
    OBVIOUS
  <2> QED
    BY <1>2, <2>1, <2>2 DEF UpdateWdtSetup
<1> QED
  BY <1>1, <1>2

LEMMA FileWritten ==
  ASSUME NEW f \in Seq(Entries \cup {Hole}), NEW o \in Nat, NEW s \in Seq(Entries)
  PROVE  WriteAt(f, o, s) \in Seq(Entries \cup {Hole})
<1> DEFINE n == IF s = <<>> \/ Len(f) > o + Len(s) THEN Len(f) ELSE o + Len(s)
<1>1. n \in Nat
  OBVIOUS
<1>2. ASSUME NEW i \in 1 .. n
      PROVE  (IF i \in o + 1 .. o + Len(s) THEN s[i - o]
              ELSE IF i <= Len(f) THEN f[i] ELSE Hole) \in Entries \cup {Hole}
  <2>1. CASE i \in o + 1 .. o + Len(s)
    <3>1. i - o \in 1 .. Len(s)
      BY <2>1
    <3> QED
      BY <2>1, <3>1
  <2>2. CASE i \notin o + 1 .. o + Len(s) /\ i <= Len(f)
    BY <2>2
  <2> QED
    BY <2>1, <2>2
<1> QED
  BY <1>1, <1>2 DEF WriteAt

\* What writeWdtSetup writes into the file it has cut is one line, behind a hole.
LEMMA OneWritten ==
  ASSUME NEW o \in Nat, NEW e
  PROVE  LET f == WriteAt(<<>>, o, <<e>>) IN
         /\ DOMAIN f = 1 .. o + 1
         /\ f[o + 1] = e
         /\ \A i \in DOMAIN f : i # o + 1 => f[i] = Hole
  BY DEF WriteAt

LEMMA PartsOfOne == \A e : SubSeq(<<e>>, 1, 0) = <<>> /\ SubSeq(<<e>>, 1, 1) = <<e>>
<1> SUFFICES ASSUME NEW e
             PROVE  SubSeq(<<e>>, 1, 0) = <<>> /\ SubSeq(<<e>>, 1, 1) = <<e>>
  OBVIOUS
<1>1. <<e>> \in Seq({e}) /\ Len(<<e>>) = 1
  OBVIOUS
<1>2. SubSeq(<<e>>, 1, 0) \in Seq({e}) /\ Len(SubSeq(<<e>>, 1, 0)) = 0
  BY <1>1
<1>3. SubSeq(<<e>>, 1, 1) \in Seq({e}) /\ Len(SubSeq(<<e>>, 1, 1)) = 1
  BY <1>1
<1>4. SubSeq(<<e>>, 1, 0) = <<>>
  BY <1>2
<1> DEFINE s == SubSeq(<<e>>, 1, 1)
<1> HIDE DEF s
<1>5. s \in Seq({e}) /\ Len(s) = 1
  BY <1>3 DEF s
<1>6. s = <<e>>
  BY <1>5
<1> QED
  BY <1>4, <1>6 DEF s

LEMMA NothingWritten ==
  ASSUME NEW o \in Nat
  PROVE  WriteAt(<<>>, o, <<>>) = <<>>
<1>1. <<>> \in Seq(Entries \cup {Hole}) /\ <<>> \in Seq(Entries)
  OBVIOUS
<1>2. WriteAt(<<>>, o, <<>>) \in Seq(Entries \cup {Hole})
  BY <1>1, FileWritten
<1>3. DOMAIN WriteAt(<<>>, o, <<>>) = 1 .. 0
  BY DEF WriteAt
<1> QED
  BY <1>2, <1>3

-----------------------------------------------------------------------------
\* Types.  A thread in a call has a request, and one that is about to arm read
\* exactly one entry.
CallsKnown ==
  \A t \in Threads :
    /\ pc[t] # "idle" => req[t] \in Requests
    /\ pc[t] = "arm" => Len(sets[t]) = 1

WdTyped == WdTypeOK /\ CallsKnown

LEMMA EntryType == \A r \in Requests : Entry(r) \in Entries
  BY DEF Entries

LEMMA GrantedType ==
  \A e \in Entries : Granted[e.timeout \div 1000] \in Nat
<1> SUFFICES ASSUME NEW e \in Entries PROVE Granted[e.timeout \div 1000] \in Nat
  OBVIOUS
<1>1. PICK r \in Requests : e = Entry(r)
  BY DEF Entries
<1>2. e.timeout = r.timeout
  BY <1>1 DEF Entry
<1> QED
  BY <1>2

LEMMA WdTypedInit == WdInit => WdTyped
<1> SUFFICES ASSUME WdInit PROVE WdTyped
  OBVIOUS
<1>1. LockTypeOK
  BY LockTypeInit DEF WdInit
<1>2. WdTypeOK
  BY <1>1 DEF WdInit, WdTypeOK, Places
<1> QED
  BY <1>2 DEF WdInit, CallsKnown, WdTyped

LEMMA WdTypedStep == WdTyped /\ [WdNext]_wdVars => WdTyped'
<1> SUFFICES ASSUME WdTyped, [WdNext]_wdVars PROVE WdTyped'
  OBVIOUS
<1>0. LockTypeOK'
  BY WdLockStep, LockTypeStep DEF WdTyped, WdTypeOK
<1> DEFINE Rest ==
      /\ wdtInfo \in [Procs -> BOOLEAN]
      /\ pc \in [Threads -> Places]
      /\ req \in [Threads -> Requests \cup {NoCall}]
      /\ sets \in [Threads -> Seq(Entries)]
      /\ off \in [Threads -> Nat]
      /\ file \in Seq(Entries \cup {Hole})
      /\ card \in Nat \cup {Off}
      /\ saved \in Seq(Entries)
      /\ CallsKnown
<1> SUFFICES Rest'
  BY <1>0 DEF WdTyped, WdTypeOK
<1>a. Rest
  BY DEF WdTyped, WdTypeOK
<1>b. Lines(file) \in Seq(Entries)
  BY LinesType DEF WdTyped, WdTypeOK
<1>c. \A r \in Requests : Entry(r) \in Entries
  BY EntryType
<1>d. <<>> \in Seq(Entries) /\ <<>> \in Seq(Entries \cup {Hole})
  OBVIOUS
<1>e. \A r \in Requests : Begin(r) \in {"params", "caps", "device"}
  BY DEF Begin
<1> USE DEF Rest, CallsKnown, GoTo, Return, Places
<1>1. ASSUME NEW t \in Threads, NEW r \in Requests, Call(t, r)
      PROVE  Rest'
  BY <1>a, <1>e, <1>1 DEF Call
<1>2. ASSUME NEW t \in Threads, BeforeLock(t)
      PROVE  Rest'
  <2>1. CASE LoadBegin(t)
    BY <1>a, <2>1 DEF LoadBegin
  <2>2. CASE LoadEnd(t)
    BY <1>a, <1>e, <2>2 DEF LoadEnd
  <2>3. CASE CheckParams(t) \/ GetCaps(t)
    BY <1>a, <2>3 DEF CheckParams, GetCaps
  <2>4. CASE Device(t)
    BY <1>a, <2>4 DEF Device
  <2> QED
    BY <1>2, <2>1, <2>2, <2>3, <2>4 DEF BeforeLock
<1>3. ASSUME NEW t \in Threads, InOpenLock(t) \/ InsideLock(t)
      PROVE  Rest'
  <2>1. CASE Locking(t)
    BY <1>a, <2>1 DEF Locking, clientVars
  <2>2. CASE Locked(t)
    BY <1>a, <2>2 DEF Locked
  <2>3. CASE ReadForSetup(t)
    <3> DEFINE s == IF Open(t) THEN Lines(file) ELSE <<>>
               o == IF Open(t) THEN Min({Len(file), MaxHole}) ELSE 0
    <3>1. req[t] \in Requests
      BY <1>a, <2>3 DEF ReadForSetup
    <3>2. s \in Seq(Entries) /\ Entry(req[t]) \in Entries
      BY <1>b, <1>c, <1>d, <3>1
    <3>3. UpdateWdtSetup(s, Entry(req[t])) \in Seq(Entries)
      BY <3>2, SetsUpdated
    <3>4. o \in Nat
      <4>1. Len(file) \in Nat
        BY <1>a
      <4>2. \E m \in {Len(file), MaxHole} : \A n \in {Len(file), MaxHole} : m <= n
        BY <4>1
      <4> QED
        BY <4>1, <4>2 DEF Min
    <3>5. /\ sets' = [sets EXCEPT ![t] = UpdateWdtSetup(s, Entry(req[t]))]
          /\ off' = [off EXCEPT ![t] = o]
          /\ pc' = [pc EXCEPT ![t] = "truncate"]
          /\ UNCHANGED <<req, wdtInfo, file, card, saved>>
      BY <2>3 DEF ReadForSetup
    <3> HIDE DEF s, o
    <3> QED
      BY <1>a, <3>1, <3>3, <3>4, <3>5
  <2>4. CASE Truncate(t)
    BY <1>a, <1>d, <2>4 DEF Truncate
  <2>5. CASE Write(t)
    <3>1. PICK n \in 0 .. Len(sets[t]) :
            /\ file' = WriteAt(file, off[t], SubSeq(sets[t], 1, n))
            /\ saved' = IF n = Len(sets[t]) THEN <<Entry(req[t])>> ELSE <<>>
      BY <2>5 DEF Write
    <3>2. SubSeq(sets[t], 1, n) \in Seq(Entries)
      BY <1>a
    <3>3. file' \in Seq(Entries \cup {Hole})
      BY <1>a, <3>1, <3>2, FileWritten
    <3>4. req[t] \in Requests
      BY <1>a, <2>5 DEF Write
    <3>5. saved' \in Seq(Entries)
      BY <1>c, <1>d, <3>1, <3>4
    <3> QED
      BY <1>a, <2>5, <3>3, <3>5 DEF Write
  <2>6. CASE ReadForEnable(t)
    <3> DEFINE s == IF Open(t) THEN Lines(file) ELSE <<>>
    <3>1. s \in Seq(Entries)
      BY <1>b, <1>d
    <3>2. /\ sets' = [sets EXCEPT ![t] = s]
          /\ pc' = [pc EXCEPT ![t] = IF Len(s) # 1 \/ s[1].stage # 0 THEN "reset"
                                     ELSE IF s[1].mode = "disable" THEN "closeUnlock"
                                     ELSE "arm"]
          /\ pc[t] = "read"
          /\ UNCHANGED <<req, wdtInfo, off, file, card, saved>>
      BY <2>6 DEF ReadForEnable
    <3> HIDE DEF s
    <3> QED
      BY <1>a, <3>1, <3>2
  <2>7. CASE Reset(t)
    BY <1>a, <1>d, <2>7 DEF Reset
  <2>8. CASE Arm(t)
    <3>1. sets[t][1] \in Entries
      BY <1>a, <2>8 DEF Arm
    <3>2. Granted[sets[t][1].timeout \div 1000] \in Nat
      BY <3>1, GrantedType
    <3> QED
      BY <1>a, <2>8, <3>2 DEF Arm
  <2>9. CASE Unlocking(t)
    BY <1>a, <2>9 DEF Unlocking, clientVars
  <2>10. CASE Unlocked(t)
    BY <1>a, <1>d, <2>10 DEF Unlocked
  <2> QED
    BY <1>3, <2>1, <2>2, <2>3, <2>4, <2>5, <2>6, <2>7, <2>8, <2>9, <2>10 DEF InOpenLock, InsideLock
<1>4. ASSUME NEW p \in Procs, Die(p)
      PROVE  Rest'
  BY <1>a, <1>d, <1>4 DEF Die
<1>5. CASE UNCHANGED wdVars
  BY <1>a, <1>5 DEF wdVars, clientVars
<1> QED
  BY StepKinds, <1>1, <1>2, <1>3, <1>4, <1>5

\* All variables of the watchdog calls keep their types: what readWdtSetup finds
\* are entries some Setup asked for, also when two processes write at once
\* because lockf failed (src/wd.c:660-751).
THEOREM WatchdogTypeCorrect == WdSpec => []WdTypeOK
<1>1. WdTyped => WdTypeOK
  BY DEF WdTyped
<1> QED
  BY WdTypedInit, WdTypedStep, <1>1, PTL DEF WdSpec

-----------------------------------------------------------------------------
\* The configuration pointer.

LEMMA SettledStep ==
  ASSUME WdTypeOK, NEW p \in Procs, Settled(p), [WdNext]_wdVars
  PROVE  Settled(p)' \/ Die(p)
<1> USE DEF Settled, GoTo, Return
<1>a. /\ wdtInfo \in [Procs -> BOOLEAN]
      /\ pc \in [Threads -> Places]
      /\ ProcOf \in [Threads -> Procs]
  BY ProcOfAssumption DEF WdTypeOK
<1>1. ASSUME NEW t \in Threads, NEW r \in Requests, Call(t, r)
      PROVE  Settled(p)'
  <2>1. Begin(r) \notin {"config", "loading"}
    BY DEF Begin
  <2> QED
    BY <1>a, <1>1, <2>1 DEF Call
<1>2. ASSUME NEW t \in Threads, BeforeLock(t)
      PROVE  Settled(p)'
  <2>1. CASE LoadBegin(t)
    BY <1>a, <2>1 DEF LoadBegin
  <2>2. CASE LoadEnd(t)
    <3>1. ProcOf[t] # p
      BY <2>2 DEF LoadEnd
    <3> QED
      BY <1>a, <2>2, <3>1 DEF LoadEnd
  <2>3. CASE CheckParams(t) \/ GetCaps(t) \/ Device(t)
    BY <1>a, <2>3 DEF CheckParams, GetCaps, Device
  <2> QED
    BY <1>2, <2>1, <2>2, <2>3 DEF BeforeLock
<1>3. ASSUME NEW t \in Threads, InOpenLock(t) \/ InsideLock(t)
      PROVE  Settled(p)'
  <2>1. CASE Locking(t) \/ Unlocking(t)
    BY <2>1 DEF Locking, Unlocking, clientVars
  <2>2. CASE Locked(t) \/ ReadForSetup(t) \/ Truncate(t) \/ Write(t) \/ Reset(t)
    BY <1>a, <2>2 DEF Locked, ReadForSetup, Truncate, Write, Reset
  <2>3. CASE ReadForEnable(t)
    BY <1>a, <2>3 DEF ReadForEnable
  <2>4. CASE Arm(t) \/ Unlocked(t)
    BY <1>a, <2>4 DEF Arm, Unlocked
  <2> QED
    BY <1>3, <2>1, <2>2, <2>3, <2>4 DEF InOpenLock, InsideLock
<1>4. ASSUME NEW q \in Procs, Die(q), q # p
      PROVE  Settled(p)'
  BY <1>a, <1>4 DEF Die
<1>5. CASE UNCHANGED wdVars
  BY <1>5 DEF wdVars, clientVars
<1> QED
  BY StepKinds, <1>1, <1>2, <1>3, <1>4, <1>5

\* Once the loads of a process are over and one has succeeded its wdtInfo is set
\* until the process ends, for any number of threads and calls; overlapping first
\* calls are all that can make one read through NULL (src/wd.c:90, 187-189).
THEOREM ConfiguredForGood == WdSpec => SettledForGood
<1>1. ASSUME WdTypeOK, [WdNext]_wdVars
      PROVE  [\A p \in Procs : Settled(p) => Settled(p)' \/ Die(p)]_wdVars
  BY <1>1, SettledStep
<1> QED
  BY WatchdogTypeCorrect, <1>1, PTL DEF WdSpec, SettledForGood

-----------------------------------------------------------------------------
\* The lock given back.  A call has the mutex or the record lock only where it
\* is between openLock and closeUnlock.
BetweenLocks ==
  {"openLock", "read", "truncate", "write", "reset", "arm", "closeUnlock"}

OutsideIsOut == \A t \in Threads : pc[t] \notin BetweenLocks => at[t] = "out"

\* A call that is over holds nothing.
IdleHoldsNothing == \A t \in Threads : pc[t] = "idle" => at[t] = "out"

LEMMA OutsideIsOutStep ==
  ASSUME WdTyped, OutsideIsOut, [WdNext]_wdVars
  PROVE  OutsideIsOut'
<1> USE DEF OutsideIsOut, BetweenLocks, GoTo, Return
<1>a. /\ pc \in [Threads -> Places]
      /\ at \in [Threads -> Phases]
      /\ \A t \in Threads : req[t] = NoCall \/ Begin(req[t]) \in {"params", "caps", "device"}
  BY DEF WdTyped, WdTypeOK, LockTypeOK, Begin
<1>1. ASSUME NEW t \in Threads, NEW r \in Requests, Call(t, r)
      PROVE  OutsideIsOut'
  BY <1>a, <1>1 DEF Call, lockVars
<1>2. ASSUME NEW t \in Threads, BeforeLock(t)
      PROVE  OutsideIsOut'
  <2>1. UNCHANGED at /\ pc[t] \notin BetweenLocks
    BY <1>2 DEF BeforeLock, LoadBegin, LoadEnd, CheckParams, GetCaps, Device, lockVars
  <2>2. \A u \in Threads : u # t => pc'[u] = pc[u]
    BY <1>a, <1>2 DEF BeforeLock, LoadBegin, LoadEnd, CheckParams, GetCaps, Device
  <2> QED
    BY <1>a, <2>1, <2>2
<1>3. ASSUME NEW t \in Threads, InOpenLock(t) \/ InsideLock(t)
      PROVE  OutsideIsOut'
  <2>1. CASE Locking(t)
    BY <1>a, <2>1 DEF Locking, LockMutex, MkLock, clientVars
  <2>2. CASE Locked(t)
    BY <1>a, <2>2 DEF Locked, OpenAndLock
  <2>3. CASE ReadForSetup(t) \/ Truncate(t) \/ Write(t) \/ Reset(t)
    BY <1>a, <2>3 DEF ReadForSetup, Truncate, Write, Reset, lockVars
  <2>4. CASE ReadForEnable(t) \/ Arm(t)
    BY <1>a, <2>4 DEF ReadForEnable, Arm, lockVars
  <2>5. CASE Unlocking(t)
    BY <1>a, <2>5 DEF Unlocking, CloseFile, clientVars
  <2>6. CASE Unlocked(t)
    BY <1>a, <2>6 DEF Unlocked, UnlockMutex
  <2> QED
    BY <1>3, <2>1, <2>2, <2>3, <2>4, <2>5, <2>6 DEF InOpenLock, InsideLock
<1>4. ASSUME NEW p \in Procs, Die(p)
      PROVE  OutsideIsOut'
  BY <1>a, <1>4 DEF Die, Death
<1>5. CASE UNCHANGED wdVars
  BY <1>5 DEF wdVars, clientVars, lockVars
<1> QED
  BY StepKinds, <1>1, <1>2, <1>3, <1>4, <1>5

\* No path out of a call keeps the mutex, the record lock or the descriptor, for
\* any processes and threads, also when lockf fails: what a linux-like card's
\* Setup and Enable do on each of their error paths and a kontron-like-kom one's do
\* not (src/wd.c:203-207, 372-430).
THEOREM EveryCallUnlocks == WdSpec => []IdleHoldsNothing
<1>1. WdInit => OutsideIsOut
  BY DEF WdInit, LockInit, OutsideIsOut
<1>2. WdTyped /\ OutsideIsOut /\ [WdNext]_wdVars => OutsideIsOut'
  BY OutsideIsOutStep
<1>3. OutsideIsOut => IdleHoldsNothing
  BY DEF OutsideIsOut, IdleHoldsNothing, BetweenLocks
<1> QED
  BY WdTypedInit, WdTypedStep, <1>1, <1>2, <1>3, PTL DEF WdSpec

-----------------------------------------------------------------------------
\* The file.  Whoever is between its first access and closeUnlock is inside the
\* lock, and since lockf does not fail nobody else is: what it has read stays
\* true until it writes or arms (AtFile).  The stored stages are one or none
\* (Stored), because Setup refuses any stage but 0.

Stored ==
  \/ file = <<>> /\ saved = <<>>
  \/ \E e \in Entries, k \in DOMAIN file :
       /\ saved = <<e>> /\ ParamsOK(e)
       /\ file[k] = e
       /\ \A i \in DOMAIN file : i # k => file[i] = Hole

AtFile(t) ==
  /\ pc[t] \in {"read", "truncate", "write", "reset", "arm"} => at[t] = "in"
  /\ pc[t] \in {"openLock", "read"} /\ req[t].op = "setup" => ParamsOK(req[t])
  /\ pc[t] \in {"truncate", "write"} =>
       ParamsOK(req[t]) /\ sets[t] = <<Entry(req[t])>>
  /\ pc[t] = "write" => Working(t) /\ file = <<>> /\ saved = <<>>
  /\ pc[t] = "arm" =>
       Working(t) /\ sets[t] = saved /\ saved # <<>> /\ saved[1].mode # "disable"

FileInv == Stored /\ \A t \in Threads : AtFile(t)

LEMMA StoredLines ==
  ASSUME WdTypeOK, Stored
  PROVE  Lines(file) = saved
<1>1. file \in Seq(Entries \cup {Hole})
  BY DEF WdTypeOK
<1>2. CASE file = <<>> /\ saved = <<>>
  BY <1>2, LinesOfEmpty
<1>3. ASSUME NEW e \in Entries, NEW k \in DOMAIN file,
             saved = <<e>>, ParamsOK(e), file[k] = e,
             \A i \in DOMAIN file : i # k => file[i] = Hole
      PROVE  Lines(file) = saved
  <2>1. e # Hole
    BY <1>3 DEF ParamsOK, Hole
  <2> QED
    BY <1>1, <1>3, <2>1, LinesOfOne
<1> QED
  BY <1>2, <1>3 DEF Stored

LEMMA FileInvInit == WdInit => FileInv
  BY DEF WdInit, FileInv, Stored, AtFile

\* Who does not move keeps what it knows while another thread works.
LEMMA OthersStay ==
  ASSUME WorkingAlone, NEW t \in Threads, NEW u \in Threads, u # t, AtFile(u),
         UNCHANGED <<file, saved>> \/ Working(t),
         pc'[u] = pc[u], at'[u] = at[u], fd'[u] = fd[u],
         req'[u] = req[u], sets'[u] = sets[u]
  PROVE  AtFile(u)'
  BY DEF AtFile, Working, WorkingAlone

LEMMA FileInvStep ==
  ASSUME WdTyped, LockInv, WorkingAlone, FileInv, [WdNext]_wdVars
  PROVE  FileInv'
<1> USE DEF GoTo, Return
<1>a. /\ LockTypeOK /\ WdTypeOK /\ CallsKnown
      /\ wdtInfo \in [Procs -> BOOLEAN]
      /\ pc \in [Threads -> Places]
      /\ req \in [Threads -> Requests \cup {NoCall}]
      /\ sets \in [Threads -> Seq(Entries)]
      /\ at \in [Threads -> Phases] /\ fd \in [Threads -> Descriptors]
  BY DEF WdTyped, WdTypeOK, LockTypeOK
<1>b. Stored /\ \A t \in Threads : AtFile(t)
  BY DEF FileInv
<1>c. Lines(file) = saved
  BY <1>a, <1>b, StoredLines
<1>d. UNCHANGED <<file, saved>> => Stored'
  BY <1>b DEF Stored
<1>e. \A t \in Threads : at[t] = "in" /\ Open(t) <=> Working(t)
  BY DEF Open, Working
<1>1. ASSUME NEW t \in Threads, NEW r \in Requests, Call(t, r)
      PROVE  FileInv'
  <2>1. UNCHANGED <<file, saved>>
    BY <1>1 DEF Call
  <2>2. AtFile(t)'
    BY <1>a, <1>1 DEF Call, AtFile, Begin
  <2>3. ASSUME NEW u \in Threads, u # t PROVE AtFile(u)'
    BY <1>a, <1>b, <1>1, <2>1, <2>3, OthersStay DEF Call, lockVars
  <2> QED
    BY <1>d, <2>1, <2>2, <2>3 DEF FileInv
<1>2. ASSUME NEW t \in Threads, BeforeLock(t)
      PROVE  FileInv'
  <2>1. UNCHANGED <<file, saved, lockVars, sets>>
    BY <1>2 DEF BeforeLock, LoadBegin, LoadEnd, CheckParams, GetCaps, Device
  <2>2. ASSUME NEW u \in Threads, u # t PROVE pc'[u] = pc[u] /\ req'[u] = req[u]
    BY <1>a, <1>2, <2>2
    DEF BeforeLock, LoadBegin, LoadEnd, CheckParams, GetCaps, Device
  <2>3. ASSUME NEW u \in Threads, u # t PROVE AtFile(u)'
    BY <1>b, <2>1, <2>2, <2>3, OthersStay DEF lockVars
  <2>4. AtFile(t)'
    <3>1. CASE LoadBegin(t) \/ LoadEnd(t)
      BY <1>a, <3>1 DEF LoadBegin, LoadEnd, AtFile, Begin
    <3>2. CASE CheckParams(t) \/ GetCaps(t)
      BY <1>a, <3>2 DEF CheckParams, GetCaps, AtFile
    <3>3. CASE Device(t)
      BY <1>a, <3>3 DEF Device, AtFile
    <3> QED
      BY <1>2, <3>1, <3>2, <3>3 DEF BeforeLock
  <2> QED
    BY <1>d, <2>1, <2>3, <2>4 DEF FileInv
<1>3. ASSUME NEW t \in Threads, InOpenLock(t) \/ InsideLock(t)
      PROVE  FileInv'
  <2>1. ASSUME NEW u \in Threads, u # t
        PROVE  /\ pc'[u] = pc[u] /\ req'[u] = req[u] /\ sets'[u] = sets[u]
               /\ at'[u] = at[u] /\ fd'[u] = fd[u]
    <3>1. CASE Locking(t) \/ Unlocking(t)
      BY <1>a, <2>1, <3>1
      DEF Locking, Unlocking, LockMutex, MkLock, CloseFile, LockTypeOK, clientVars
    <3>2. CASE Locked(t) \/ Unlocked(t)
      BY <1>a, <2>1, <3>2 DEF Locked, Unlocked, OpenAndLock, UnlockMutex
    <3>3. CASE ReadForSetup(t) \/ ReadForEnable(t)
      BY <1>a, <2>1, <3>3 DEF ReadForSetup, ReadForEnable, lockVars
    <3>4. CASE Truncate(t) \/ Write(t) \/ Reset(t) \/ Arm(t)
      BY <1>a, <2>1, <3>4 DEF Truncate, Write, Reset, Arm, lockVars
    <3> QED
      BY <1>3, <3>1, <3>2, <3>3, <3>4 DEF InOpenLock, InsideLock
  <2>2. UNCHANGED <<file, saved>> \/ Working(t)
    <3>1. CASE Truncate(t) \/ Write(t) \/ Reset(t)
      BY <1>b, <1>e, <3>1 DEF Truncate, Write, Reset, AtFile
    <3>2. CASE ~(Truncate(t) \/ Write(t) \/ Reset(t))
      BY <1>3, <3>2
      DEF InOpenLock, InsideLock, Locking, Locked, ReadForSetup, ReadForEnable, Arm, Unlocking, Unlocked
    <3> QED
      BY <3>1, <3>2
  <2>3. ASSUME NEW u \in Threads, u # t PROVE AtFile(u)'
    BY <1>b, <2>1, <2>2, <2>3, OthersStay
  <2>4. AtFile(t)' /\ Stored'
    <3>1. CASE Locking(t)
      BY <1>a, <1>b, <1>d, <3>1 DEF Locking, clientVars, AtFile
    <3>2. CASE Locked(t)
      BY <1>a, <1>b, <1>d, <3>2 DEF Locked, OpenAndLock, AtFile
    <3>3. CASE ReadForSetup(t)
      <4> DEFINE s == IF Open(t) THEN Lines(file) ELSE <<>>
      <4>1. ParamsOK(req[t]) /\ req[t] \in Requests /\ at[t] = "in"
        BY <1>a, <1>b, <3>3 DEF ReadForSetup, AtFile, CallsKnown
      <4>2. Entry(req[t]) \in Entries /\ Entry(req[t]).stage = 0
        BY <4>1, EntryType DEF ParamsOK, Entry
      <4>3. s = <<>> \/ (s \in Seq(Entries) /\ Len(s) = 1 /\ s[1].stage = 0)
        <5>1. saved = <<>> \/ \E e \in Entries : saved = <<e>> /\ e.stage = 0
          BY <1>b DEF Stored, ParamsOK
        <5> QED
          BY <1>c, <5>1
      <4>4. UpdateWdtSetup(s, Entry(req[t])) = <<Entry(req[t])>>
        <5>1. s \in Seq(Entries)
          <6>1. <<>> \in Seq(Entries)
            OBVIOUS
          <6> QED
            BY <4>3, <6>1
        <5> HIDE DEF s
        <5> QED
          BY <4>2, <4>3, <5>1, OneStays
      <4>5. /\ pc' = [pc EXCEPT ![t] = "truncate"]
            /\ sets' = [sets EXCEPT ![t] = <<Entry(req[t])>>]
            /\ UNCHANGED <<req, lockVars, file, saved>>
        BY <3>3, <4>4 DEF ReadForSetup
      <4>6. /\ pc'[t] = "truncate" /\ sets'[t] = <<Entry(req'[t])>>
            /\ req'[t] = req[t] /\ at'[t] = at[t]
        BY <1>a, <4>5 DEF lockVars
      <4>7. AtFile(t)'
        BY <4>1, <4>6 DEF AtFile, ParamsOK
      <4>8. UNCHANGED <<file, saved>>
        BY <4>5
      <4> QED
        BY <1>d, <4>7, <4>8
    <3>4. CASE Truncate(t)
      <4>1. CASE UNCHANGED <<file, saved>> /\ GoTo(t, "closeUnlock")
        BY <1>a, <1>d, <3>4, <4>1 DEF Truncate, AtFile
      <4>2. CASE Open(t) /\ file' = <<>> /\ saved' = <<>>
        <5>1. Working(t)
          BY <1>b, <1>e, <3>4, <4>2 DEF Truncate, AtFile
        <5> QED
          BY <1>a, <1>b, <3>4, <4>2, <5>1 DEF Truncate, AtFile, Working, lockVars, Stored
      <4> QED
        BY <3>4, <4>1, <4>2 DEF Truncate
    <3>5. CASE Write(t)
      <4> DEFINE e == Entry(req[t])
      <4>1. /\ ParamsOK(req[t]) /\ sets[t] = <<e>> /\ file = <<>> /\ saved = <<>>
            /\ req[t] \in Requests /\ off[t] \in Nat
        BY <1>a, <1>b, <3>5 DEF Write, AtFile, CallsKnown, WdTypeOK
      <4>2. e \in Entries /\ ParamsOK(e)
        BY <4>1, EntryType DEF ParamsOK, Entry
      <4>3. PICK n \in 0 .. Len(sets[t]) :
              /\ file' = WriteAt(file, off[t], SubSeq(sets[t], 1, n))
              /\ saved' = IF n = Len(sets[t]) THEN <<e>> ELSE <<>>
        BY <3>5 DEF Write
      <4>4. AtFile(t)'
        BY <1>a, <3>5 DEF Write, AtFile
      <4>5. CASE n = 0
        <5>1. file' = WriteAt(<<>>, off[t], <<>>)
          BY <4>1, <4>3, <4>5, PartsOfOne
        <5>2. file' = <<>> /\ saved' = <<>>
          BY <4>1, <4>3, <4>5, <5>1, NothingWritten
        <5> QED
          BY <4>4, <5>2 DEF Stored
      <4>6. CASE n = 1
        <5>2. file' = WriteAt(<<>>, off[t], <<e>>) /\ saved' = <<e>>
          BY <4>1, <4>3, <4>6, PartsOfOne
        <5>3. /\ off[t] + 1 \in DOMAIN file' /\ file'[off[t] + 1] = e
              /\ \A i \in DOMAIN file' : i # off[t] + 1 => file'[i] = Hole
          BY <4>1, <5>2, OneWritten
        <5> HIDE DEF e
        <5>4. Stored'
          BY <4>2, <5>2, <5>3 DEF Stored, ParamsOK
        <5> QED
          BY <4>4, <5>4
      <4>7. Len(sets[t]) = 1
        BY <4>1
      <4>8. n = 0 \/ n = 1
        BY <4>3, <4>7
      <4> QED
        BY <4>5, <4>6, <4>8
    <3>6. CASE ReadForEnable(t)
      <4> DEFINE s == IF Open(t) THEN Lines(file) ELSE <<>>
      <4>1. /\ sets' = [sets EXCEPT ![t] = s]
            /\ pc' = [pc EXCEPT ![t] = IF Len(s) # 1 \/ s[1].stage # 0 THEN "reset"
                                       ELSE IF s[1].mode = "disable" THEN "closeUnlock"
                                       ELSE "arm"]
            /\ pc[t] = "read" /\ UNCHANGED <<req, lockVars, file, saved>>
        BY <3>6 DEF ReadForEnable
      <4>2. at[t] = "in"
        BY <1>b, <4>1 DEF AtFile
      <4>3. pc'[t] = "arm" => s # <<>> /\ s[1].mode # "disable"
        BY <1>a, <4>1
      <4>4. s # <<>> => Open(t) /\ s = saved
        BY <1>c
      <4> HIDE DEF s
      <4>5. pc'[t] = "arm" =>
              /\ Working(t) /\ sets'[t] = saved
              /\ saved # <<>> /\ saved[1].mode # "disable"
        BY <1>a, <1>e, <4>1, <4>2, <4>3, <4>4
      <4> QED
        BY <1>a, <1>d, <4>1, <4>2, <4>5 DEF AtFile, Working, lockVars
    <3>7. CASE Reset(t)
      BY <1>a, <1>d, <3>7 DEF Reset, AtFile, Stored
    <3>8. CASE Arm(t)
      BY <1>a, <1>d, <3>8 DEF Arm, AtFile
    <3>9. CASE Unlocking(t)
      BY <1>a, <1>d, <3>9 DEF Unlocking, clientVars, AtFile
    <3>10. CASE Unlocked(t)
      BY <1>a, <1>d, <3>10 DEF Unlocked, AtFile
    <3> QED
      BY <1>3, <3>1, <3>2, <3>3, <3>4, <3>5, <3>6, <3>7, <3>8, <3>9, <3>10 DEF InOpenLock, InsideLock
  <2> QED
    BY <2>3, <2>4 DEF FileInv
<1>4. ASSUME NEW p \in Procs, Die(p)
      PROVE  FileInv'
  <2>1. UNCHANGED <<file, saved>>
    BY <1>4 DEF Die
  <2>2. ASSUME NEW u \in Threads, ProcOf[u] = p PROVE AtFile(u)'
    BY <1>a, <1>4, <2>2 DEF Die, AtFile
  <2>3. ASSUME NEW u \in Threads, ProcOf[u] # p PROVE AtFile(u)'
    BY <1>a, <1>b, <1>4, <2>1, <2>3 DEF Die, Death, AtFile, Working
  <2> QED
    BY <1>d, <2>1, <2>2, <2>3 DEF FileInv
<1>5. CASE UNCHANGED wdVars
  BY <1>b, <1>5 DEF wdVars, clientVars, lockVars, FileInv, Stored, AtFile, Working
<1> QED
  BY StepKinds, <1>1, <1>2, <1>3, <1>4, <1>5

LEMMA FileInvariant == ~LockMayFail => (WdSpec => []FileInv)
<1> SUFFICES ASSUME ~LockMayFail PROVE WdSpec => []FileInv
  OBVIOUS
<1>1. WdTyped /\ LockInv => WorkingAlone
  BY AloneFromInv DEF WdTyped, WdTypeOK
<1>2. WdTyped /\ LockInv /\ FileInv /\ [WdNext]_wdVars => FileInv'
  BY <1>1, FileInvStep
<1>3. WdTyped /\ LockInv /\ [WdNext]_wdVars => LockInv'
  BY WdLockStep, LockInvStep DEF WdTyped, WdTypeOK
<1>4. WdInit => LockInv
  BY WdLockInit, LockInvInit
<1> QED
  BY WdTypedInit, WdTypedStep, FileInvInit, <1>2, <1>3, <1>4, PTL DEF WdSpec

\* The file, holes aside, is the last Setup of all processes and nothing else,
\* whoever dies in the middle of writing it (src/wd.c:203-207, 706-721).
THEOREM LastSetupStored == ~LockMayFail => (WdSpec => []FileIsLastSetup)
<1>1. WdTyped /\ FileInv => FileIsLastSetup
  BY StoredLines DEF WdTyped, FileInv, FileIsLastSetup
<1> QED
  BY WdTypedInit, WdTypedStep, FileInvariant, <1>1, PTL DEF WdSpec

LEMMA ArmStep ==
  ASSUME WdTyped, FileInv, WdNext, card' \notin {card, Off}
  PROVE  /\ saved # <<>>
         /\ saved[1].mode = "reset"
         /\ saved[1].timeout \in MinTimeout .. MaxTimeout
         /\ card' = Granted[saved[1].timeout \div 1000]
<1>1. PICK t \in Threads : Arm(t) /\ card' # card
  <2>1. ~(\E t \in Threads : \E r \in Requests : Call(t, r)) /\ ~(\E p \in Procs : Die(p))
    BY DEF Call, Die
  <2>2. \A t \in Threads : ~BeforeLock(t)
    BY DEF BeforeLock, LoadBegin, LoadEnd, CheckParams, GetCaps, Device
  <2>3. PICK t \in Threads : InOpenLock(t) \/ InsideLock(t)
    BY StepKinds, <2>1, <2>2
  <2>4. Arm(t)
    BY <2>3 DEF InOpenLock, InsideLock, Locking, Locked, ReadForSetup, Truncate, Write,
                ReadForEnable, Reset, Unlocking, Unlocked
  <2> QED
    BY <2>4
<1>2. sets[t] = saved /\ saved # <<>> /\ saved[1].mode # "disable"
  BY <1>1 DEF Arm, FileInv, AtFile
<1>3. ParamsOK(saved[1])
  BY <1>2 DEF FileInv, Stored
<1> QED
  BY <1>1, <1>2, <1>3 DEF Arm, ParamsOK

\* The card gets the timeout of the last Setup of all processes, only if that
\* asked for RESET within the limits (src/wd.c:378-429).
THEOREM LastSetupArmed == ~LockMayFail => (WdSpec => ArmsLastSetup)
<1> SUFFICES ASSUME ~LockMayFail PROVE WdSpec => ArmsLastSetup
  OBVIOUS
<1> DEFINE Right ==
      card' \notin {card, Off} =>
        /\ saved # <<>>
        /\ saved[1].mode = "reset"
        /\ saved[1].timeout \in MinTimeout .. MaxTimeout
        /\ card' = Granted[saved[1].timeout \div 1000]
<1>1. WdTyped /\ FileInv /\ [WdNext]_wdVars => [Right]_wdVars
  BY ArmStep
<1> QED
  BY WdTypedInit, WdTypedStep, FileInvariant, <1>1, PTL DEF WdSpec, ArmsLastSetup

-----------------------------------------------------------------------------
\* The register.  Its setup is what the file's lines are, which is what saved
\* remembers, before a step and after it.

LEMMA RegisterInit == WdInit => Register!Init
<1>1. WdInit => Lines(file) = <<>>
  BY LinesOfEmpty DEF WdInit
<1> QED
  BY <1>1 DEF WdInit, Register!Init, Off, Register!Off

LEMMA RegisterStep ==
  ASSUME WdTyped, FileInv, Lines(file) = saved, Lines(file)' = saved', [WdNext]_wdVars
  PROVE  [Register!Next]_<<Lines(file), card>>
<1> DEFINE Same == saved' = saved /\ card' = card
<1>a. Same => UNCHANGED <<Lines(file), card>>
  OBVIOUS
<1>1. ASSUME NEW t \in Threads, NEW r \in Requests, Call(t, r)
      PROVE  Same
  BY <1>1 DEF Call
<1>2. ASSUME NEW t \in Threads, BeforeLock(t)
      PROVE  Same \/ Register!Disarm
  <2>1. CASE LoadBegin(t) \/ LoadEnd(t) \/ CheckParams(t) \/ GetCaps(t)
    BY <2>1 DEF LoadBegin, LoadEnd, CheckParams, GetCaps
  <2>2. ASSUME Device(t), card' # card PROVE Register!Disarm
    <3>1. card' = Off /\ saved' = saved BY <2>2 DEF Device
    <3> QED BY <3>1 DEF Register!Disarm, Off, Register!Off
  <2>3. Device(t) => saved' = saved
    BY DEF Device
  <2> QED
    BY <1>2, <2>1, <2>2, <2>3 DEF BeforeLock
<1>3. ASSUME NEW t \in Threads, InOpenLock(t) \/ InsideLock(t)
      PROVE  Same \/ Register!Next
  <2>1. CASE Locking(t) \/ Locked(t) \/ Unlocking(t) \/ Unlocked(t)
    BY <2>1 DEF Locking, Locked, Unlocking, Unlocked
  <2>2. CASE ReadForSetup(t) \/ ReadForEnable(t)
    BY <2>2 DEF ReadForSetup, ReadForEnable
  <2>3. CASE Truncate(t) \/ Reset(t)
    <3>1. card' = card /\ (saved' = saved \/ saved' = <<>>)
      BY <2>3 DEF Truncate, Reset
    <3> QED
      BY <3>1 DEF Register!Next, Register!Clear
  <2>4. CASE Write(t)
    <3>1. /\ card' = card /\ saved = <<>> /\ ParamsOK(req[t]) /\ req[t] \in Requests
          /\ saved' = <<>> \/ saved' = <<Entry(req[t])>>
      BY <2>4 DEF Write, FileInv, AtFile, WdTyped, CallsKnown
    <3>2. Entry(req[t]) \in {e \in Entries : ParamsOK(e)}
      BY <3>1, EntryType DEF Entry, ParamsOK
    <3>3. saved' = <<Entry(req[t])>> => Register!Store
      BY <3>1, <3>2 DEF Register!Store
    <3> QED
      BY <3>1, <3>3 DEF Register!Next
  <2>5. CASE Arm(t)
    <3>1. saved' = saved /\ (card' = card \/ card' = Granted[sets[t][1].timeout \div 1000])
      BY <2>5 DEF Arm
    <3>2. sets[t] = saved /\ saved # <<>> /\ saved[1].mode # "disable"
      BY <2>5 DEF Arm, FileInv, AtFile
    <3>3. PICK e \in Entries : saved = <<e>> /\ ParamsOK(e)
      BY <3>2 DEF FileInv, Stored
    <3>4. e.mode = "reset" /\ (card' = card \/ card' = Granted[e.timeout \div 1000])
      BY <3>1, <3>2, <3>3 DEF ParamsOK
    <3>5. card' = Granted[e.timeout \div 1000] => Register!Arm
      BY <3>1, <3>3, <3>4 DEF Register!Arm
    <3> QED
      BY <3>1, <3>4, <3>5 DEF Register!Next
  <2> QED
    BY <1>3, <2>1, <2>2, <2>3, <2>4, <2>5 DEF InOpenLock, InsideLock
<1>4. ASSUME NEW p \in Procs, Die(p)
      PROVE  Same
  BY <1>4 DEF Die
<1>5. CASE UNCHANGED wdVars
  BY <1>5 DEF wdVars
<1> QED
  BY StepKinds, <1>a, <1>1, <1>2, <1>3, <1>4, <1>5 DEF Register!Next

\* The temporary file and the card implement one setup and a card armed from it,
\* for any processes and threads, through failures and deaths
\* (src/wd.c:185-435, 660-751).
THEOREM WatchdogRefines == ~LockMayFail => (WdSpec => ImplementsRegister)
<1> SUFFICES ASSUME ~LockMayFail PROVE WdSpec => Register!Spec
  BY DEF ImplementsRegister
<1>1. WdTyped /\ FileInv => Lines(file) = saved
  BY StoredLines DEF WdTyped, FileInv
<1>2. WdTyped /\ FileInv /\ Lines(file) = saved /\ (Lines(file) = saved)' /\ [WdNext]_wdVars
        => [Register!Next]_<<Lines(file), card>>
  BY RegisterStep
<1> QED
  BY WdTypedInit, WdTypedStep, FileInvariant, RegisterInit, <1>1, <1>2, PTL
  DEF WdSpec, Register!Spec
=============================================================================
