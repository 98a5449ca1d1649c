------------------------- MODULE WatchdogKomProofs -------------------------
(***************************************************************************)
(* The watchdog calls for a kontron-like-kom card: they misuse the lock by  *)
(* keeping it, never by working without it.                                 *)
(***************************************************************************)
EXTENDS WatchdogKom, SetupLockProofs, SequenceTheorems

LEMMA KomLockInit == KomInit => LockInit
  BY DEF KomInit

\* A thread that fails without closeUnlock closes the descriptor or does nothing.
LEMMA FailLockStep ==
  ASSUME NEW t \in Threads, FailWithoutUnlock(t)
  PROVE  LockStep(t) \/ UNCHANGED lockVars
  BY DEF FailWithoutUnlock, LockStep

LEMMA KomLockStep == [KomNext]_komVars => [LockNext]_lockVars
<1> SUFFICES ASSUME [KomNext]_komVars PROVE [LockNext]_lockVars
  OBVIOUS
<1>1. ASSUME NEW t \in Threads, NEW r \in Requests, Call(t, r)
      PROVE  UNCHANGED lockVars
  BY <1>1 DEF Call
<1>2. ASSUME NEW t \in Threads, Run(t)
      PROVE  LockStep(t) \/ UNCHANGED lockVars
  <2>1. CASE CheckParams(t) \/ Disable(t) \/ SetTime(t) \/ Route(t) \/ Start(t)
    BY <2>1 DEF CheckParams, Disable, SetTime, Route, Start
  <2>2. CASE Locking(t)
    BY <2>2 DEF Locking, LockStep
  <2>3. CASE Locked(t)
    BY <2>3 DEF Locked, LockStep
  <2>4. CASE Forget(t)
    BY <2>4, FailLockStep DEF Forget
  <2>5. CASE Cascade(t)
    BY <2>5, FailLockStep DEF Cascade
  <2>6. CASE Store(t)
    BY <2>6, FailLockStep DEF Store
  <2>7. CASE ReadRoute(t)
    BY <2>7, FailLockStep DEF ReadRoute
  <2>8. CASE Unlocking(t)
    BY <2>8 DEF Unlocking, LockStep
  <2>9. CASE Unlocked(t)
    BY <2>9 DEF Unlocked, LockStep
  <2> QED
    BY <1>2, <2>1, <2>2, <2>3, <2>4, <2>5, <2>6, <2>7, <2>8, <2>9 DEF Run
<1>3. ASSUME NEW p \in Procs, Die(p)
      PROVE  Death(p)
  BY <1>3 DEF Die
<1>4. CASE UNCHANGED komVars
  BY <1>4 DEF komVars, lockVars
<1> QED
  BY <1>1, <1>2, <1>3, <1>4 DEF KomNext, LockNext

LEMMA KomUsesLock == KomSpec => LockSpec
  BY KomLockInit, KomLockStep, PTL DEF KomSpec, LockSpec

-----------------------------------------------------------------------------
\* Type correctness.

LEMMA KomTypeInit == KomInit => KomTypeOK
  BY LockTypeInit, NoneAssumption
  DEF KomInit, KomTypeOK, CallsMatch, Places, Routes

LEMMA SetupMode ==
  ASSUME NEW r \in Requests, r.op = "setup"
  PROVE  r.mode \in Modes
  BY RequestsAssumption DEF AllRequests

LEMMA GoToType ==
  ASSUME KomTypeOK, NEW t \in Threads, NEW l \in Places, GoTo(t, l),
         l \in {"params", "setTime", "store"} => req[t].op = "setup"
  PROVE  pc' \in [Threads -> Places] /\ req' \in [Threads -> Requests \cup {NoCall}]
         /\ CallsMatch'
  BY DEF GoTo, KomTypeOK, CallsMatch

LEMMA ReturnType ==
  ASSUME KomTypeOK, NEW t \in Threads, Return(t)
  PROVE  pc' \in [Threads -> Places] /\ req' \in [Threads -> Requests \cup {NoCall}]
         /\ CallsMatch'
  BY DEF Return, KomTypeOK, CallsMatch, Places

LEMMA SetEvtType ==
  ASSUME KomTypeOK, NEW t \in Threads, NEW v \in Routes,
         NEW g \in Routes \cup {"none"}, SetEvt(t, v, g)
  PROVE  /\ keapiEvtconfig' \in [Procs -> Routes]
         /\ got' \in [Threads -> Routes \cup {"none"}]
  BY ProcOfAssumption DEF SetEvt, KomTypeOK

LEMMA MeantType ==
  ASSUME KomTypeOK
  PROVE  Meant(stages) \in Routes
<1>1. CASE Len(stages) = 1
  <2>0. stages \in Seq(Modes) /\ 1 \in DOMAIN stages
    BY <1>1 DEF KomTypeOK
  <2>1. stages # <<>> /\ stages[1] \in Modes
    BY <1>1, <2>0
  <2> QED
    BY <1>1, <2>1 DEF Meant, RouteOf, Modes, Routes
<1>2. CASE Len(stages) # 1
  BY <1>2 DEF Meant, Routes
<1> QED
  BY <1>1, <1>2

LEMMA ReadValueType ==
  ASSUME KomTypeOK, NEW t \in Threads
  PROVE  ReadValue(t) \in Routes /\ Evt(t) \in Routes
  BY ProcOfAssumption DEF KomTypeOK, ReadValue, Evt

LEMMA KomTypeStep == KomTypeOK /\ [KomNext]_komVars => KomTypeOK'
<1> SUFFICES ASSUME KomTypeOK, [KomNext]_komVars PROVE KomTypeOK'
  OBVIOUS
<1>0. LockTypeOK'
  BY LockTypeStep, KomLockStep DEF KomTypeOK
<1>a. \A v \in {"0", "RES", "IRQ", "TIMEOUT", "IRQ_RES"} : v \in Routes
  BY DEF Routes
<1>1. ASSUME NEW t \in Threads, NEW r \in Requests, Call(t, r)
      PROVE  KomTypeOK'
  BY <1>0, <1>1 DEF Call, KomTypeOK, CallsMatch, Places
<1>2. ASSUME NEW t \in Threads, CheckParams(t)
      PROVE  KomTypeOK'
  BY <1>0, <1>2, GoToType, ReturnType DEF CheckParams, KomTypeOK, Places
<1>3. ASSUME NEW t \in Threads, Disable(t)
      PROVE  KomTypeOK'
  <2>1. card' \in [route : Routes \cup {"none"}, on : BOOLEAN]
    BY <1>3 DEF Disable, KomTypeOK
  <2> QED
    BY <1>0, <1>3, <2>1, GoToType, ReturnType DEF Disable, KomTypeOK, Places
<1>4. ASSUME NEW t \in Threads, Locking(t)
      PROVE  KomTypeOK'
  BY <1>0, <1>4 DEF Locking, callVars, KomTypeOK, CallsMatch
<1>5. ASSUME NEW t \in Threads, Locked(t)
      PROVE  KomTypeOK'
  BY <1>0, <1>5, GoToType DEF Locked, KomTypeOK, Places
<1>6. ASSUME NEW t \in Threads, Forget(t)
      PROVE  KomTypeOK'
  <2>1. keapiEvtconfig' \in [Procs -> Routes] /\ got' \in [Threads -> Routes \cup {"none"}]
    BY <1>6, <1>a, SetEvtType DEF Forget
  <2>2. file' \in Routes \cup {"none"}
    BY <1>6, <1>a DEF Forget, KomTypeOK
  <2>3. stages' \in Seq(Modes)
    <3>1. stages' = <<>> \/ stages' = stages
      BY <1>6 DEF Forget
    <3>2. <<>> \in Seq(Modes) /\ stages \in Seq(Modes)
      BY DEF KomTypeOK
    <3> QED
      BY <3>1, <3>2
  <2> QED
    BY <1>0, <1>6, <2>1, <2>2, <2>3, GoToType, ReturnType
    DEF Forget, FailWithoutUnlock, KomTypeOK, Places
<1>7. ASSUME NEW t \in Threads, SetTime(t)
      PROVE  KomTypeOK'
  <2>1. req[t].op = "setup" /\ req[t].mode \in Modes
    BY <1>7, SetupMode DEF SetTime, KomTypeOK, CallsMatch, NoCall
  <2>2. keapiEvtconfig' \in [Procs -> Routes] /\ got' \in [Threads -> Routes \cup {"none"}]
    <3>1. CASE UNCHANGED <<keapiEvtconfig, got>>
      BY <3>1 DEF KomTypeOK
    <3>2. CASE req[t].mode # "disable" /\ SetEvt(t, RouteOf[req[t].mode], "none")
      <4>1. RouteOf[req[t].mode] \in Routes
        BY <2>1, <3>2 DEF RouteOf, Modes, Routes
      <4> QED
        BY <3>2, <4>1, SetEvtType
    <3> QED
      BY <1>7, <3>1, <3>2 DEF SetTime
  <2>3. pc' \in [Threads -> Places] /\ req' \in [Threads -> Requests \cup {NoCall}]
        /\ CallsMatch'
    BY <1>7, <2>1, GoToType, ReturnType DEF SetTime, Places
  <2> QED
    BY <1>0, <1>7, <2>2, <2>3 DEF SetTime, KomTypeOK
<1>8. ASSUME NEW t \in Threads, Cascade(t)
      PROVE  KomTypeOK'
  <2>1. keapiEvtconfig' \in [Procs -> Routes] /\ got' \in [Threads -> Routes \cup {"none"}]
    <3>1. CASE UNCHANGED <<keapiEvtconfig, got>>
      BY <3>1 DEF KomTypeOK
    <3>2. CASE SetEvt(t, "IRQ_RES", "none") \/ SetEvt(t, ReadValue(t), "none")
      BY <3>2, <1>a, SetEvtType, ReadValueType
    <3> QED
      BY <1>8, <3>1, <3>2 DEF Cascade
  <2> QED
    BY <1>0, <1>8, <2>1, GoToType, ReturnType
    DEF Cascade, FailWithoutUnlock, KomTypeOK, Places
<1>9. ASSUME NEW t \in Threads, Store(t)
      PROVE  KomTypeOK'
  <2>1. req[t].mode \in Modes
    BY <1>9, SetupMode DEF Store, KomTypeOK, CallsMatch, NoCall
  <2>2. file' \in Routes \cup {"none"}
    BY <1>9, ReadValueType DEF Store, KomTypeOK
  <2>3. stages' \in Seq(Modes)
    <3>1. stages' = Append(stages, req[t].mode) \/ stages' = stages
      BY <1>9 DEF Store
    <3> QED
      BY <2>1, <3>1 DEF KomTypeOK
  <2> QED
    BY <1>0, <1>9, <2>2, <2>3, GoToType, ReturnType
    DEF Store, FailWithoutUnlock, KomTypeOK, Places
<1>10. ASSUME NEW t \in Threads, ReadRoute(t)
      PROVE  KomTypeOK'
  <2>1. ReadValue(t) \in Routes
    BY ReadValueType
  <2>2. keapiEvtconfig' \in [Procs -> Routes] /\ got' \in [Threads -> Routes \cup {"none"}]
    BY <1>10, <2>1, SetEvtType, MeantType DEF ReadRoute, KomTypeOK
  <2> QED
    BY <1>0, <1>10, <2>2, GoToType, ReturnType
    DEF ReadRoute, FailWithoutUnlock, KomTypeOK, Places
<1>11. ASSUME NEW t \in Threads, Unlocking(t)
      PROVE  KomTypeOK'
  BY <1>0, <1>11 DEF Unlocking, callVars, KomTypeOK, CallsMatch
<1>12. ASSUME NEW t \in Threads, Unlocked(t)
      PROVE  KomTypeOK'
  BY <1>0, <1>12, GoToType, ReturnType DEF Unlocked, KomTypeOK, Places
<1>13. ASSUME NEW t \in Threads, Route(t)
      PROVE  KomTypeOK'
  <2>1. card' \in [route : Routes \cup {"none"}, on : BOOLEAN]
    BY <1>13, ReadValueType DEF Route, KomTypeOK
  <2>2. got' \in [Threads -> Routes \cup {"none"}]
    BY <1>13 DEF Route, KomTypeOK
  <2> QED
    BY <1>0, <1>13, <2>1, <2>2, GoToType, ReturnType DEF Route, KomTypeOK, Places
<1>14. ASSUME NEW t \in Threads, Start(t)
      PROVE  KomTypeOK'
  <2>1. card' \in [route : Routes \cup {"none"}, on : BOOLEAN]
    BY <1>14 DEF Start, KomTypeOK
  <2> QED
    BY <1>0, <1>14, <2>1, ReturnType DEF Start, KomTypeOK
<1>15. ASSUME NEW p \in Procs, Die(p)
      PROVE  KomTypeOK'
  BY <1>0, <1>15, <1>a DEF Die, KomTypeOK, CallsMatch, Places
<1>16. CASE UNCHANGED komVars
  BY <1>0, <1>16 DEF komVars, callVars, KomTypeOK, CallsMatch
<1> QED
  BY <1>1, <1>2, <1>3, <1>4, <1>5, <1>6, <1>7, <1>8, <1>9, <1>10, <1>11, <1>12,
     <1>13, <1>14, <1>15, <1>16
  DEF KomNext, Run

\* The variables of the calls keep their types.
THEOREM KomTypeCorrect == KomSpec => []KomTypeOK
  BY KomTypeInit, KomTypeStep, PTL DEF KomSpec
-----------------------------------------------------------------------------
\* FileIsStages.

\* A step of one thread leaves the lock's own variables of the others alone.
LEMMA LockLocal ==
  ASSUME LockTypeOK, NEW t \in Threads, LockStep(t) \/ UNCHANGED lockVars,
         NEW s \in Threads, s # t
  PROVE  at'[s] = at[s] /\ fd'[s] = fd[s]
  BY DEF LockTypeOK, LockStep, LockMutex, MkLock, OpenAndLock, CloseFile,
         UnlockMutex, lockVars

LEMMA ReadyKept ==
  ASSUME NEW s \in Threads, Ready(s), pc'[s] = pc[s], req'[s] = req[s],
         at'[s] = at[s], fd'[s] = fd[s],
         pc[s] \in {"setTime", "store"} =>
           Evt(s)' = Evt(s) /\ stages' = stages /\ file' = file
  PROVE  Ready(s)'
  BY DEF Ready, Working

LEMMA ReadyElsewhere ==
  ASSUME NEW s \in Threads, pc'[s] \notin {"read", "setTime", "store"}
  PROVE  Ready(s)'
  BY DEF Ready

\* Thread t moves, perhaps in the lock, and touches no shared value.
LEMMA QuietStep ==
  ASSUME KomTypeOK, KomInv, NEW t \in Threads,
         LockStep(t) \/ UNCHANGED lockVars,
         \A s \in Threads \ {t} : pc'[s] = pc[s] /\ req'[s] = req[s],
         UNCHANGED <<keapiEvtconfig, file, stages>>,
         Ready(t)'
  PROVE  KomInv'
<1>1. ASSUME NEW s \in Threads, s # t PROVE Ready(s)'
  BY <1>1, LockLocal, ReadyKept DEF KomInv, Prepared, KomTypeOK, Evt
<1> QED
  BY <1>1 DEF KomInv, Prepared, FileIsStages, EmptyIsFresh

\* Thread t is inside the lock and changes the variable of its process, and the
\* file if it works on it: the others are not about to store anything that
\* depends on either.
LEMMA InsideStep ==
  ASSUME ~LockMayFail, KomTypeOK, LockInv, KomInv,
         NEW t \in Threads, at[t] = "in",
         LockStep(t) \/ UNCHANGED lockVars,
         \A s \in Threads \ {t} : pc'[s] = pc[s] /\ req'[s] = req[s],
         \A p \in Procs \ {ProcOf[t]} : keapiEvtconfig'[p] = keapiEvtconfig[p],
         Working(t) \/ UNCHANGED <<file, stages>>
  PROVE  \A s \in Threads \ {t} : Ready(s)'
<1> SUFFICES ASSUME NEW s \in Threads, s # t PROVE Ready(s)'
  OBVIOUS
<1>1. CASE pc[s] \notin {"setTime", "store"}
  BY <1>1, LockLocal, ReadyKept DEF KomInv, Prepared, KomTypeOK
<1>2. CASE pc[s] \in {"setTime", "store"}
  <2>1. Working(s)
    BY <1>2 DEF KomInv, Prepared, Ready
  <2>2. ProcOf[s] # ProcOf[t]
    BY <2>1, OneInside DEF Working, LockInv, KomTypeOK
  <2>3. ~Working(t)
    BY <2>1, AloneFromInv DEF WorkingAlone, KomTypeOK
  <2> QED
    BY <2>2, <2>3, LockLocal, ReadyKept, ProcOfAssumption
    DEF KomInv, Prepared, KomTypeOK, Evt
<1> QED
  BY <1>1, <1>2

LEMMA KomInvInit == KomInit => KomInv
  BY DEF KomInit, KomInv, FileIsStages, Prepared, Ready, EmptyIsFresh

LEMMA EvtSet ==
  ASSUME KomTypeOK, NEW t \in Threads, NEW v, NEW g, SetEvt(t, v, g)
  PROVE  /\ Evt(t)' = v
         /\ \A p \in Procs \ {ProcOf[t]} : keapiEvtconfig'[p] = keapiEvtconfig[p]
  BY ProcOfAssumption DEF SetEvt, Evt, KomTypeOK

LEMMA FreshRead ==
  ASSUME KomTypeOK, KomInv, NEW t \in Threads, file = "none"
  PROVE  ReadValue(t) = "0"
  BY ProcOfAssumption DEF KomInv, EmptyIsFresh, ReadValue, Evt, KomTypeOK

LEMMA ForgetKeepsInv ==
  ASSUME ~LockMayFail, KomTypeOK, LockInv, KomInv, NEW t \in Threads, Forget(t)
  PROVE  KomInv'
<1> DEFINE Others == \A s \in Threads \ {t} : Ready(s)'
<1>1. at[t] = "in" /\ (Working(t) \/ UNCHANGED <<file, stages>>)
  BY DEF Forget, KomInv, Prepared, Ready, Working, Open
<1>2. LockStep(t) \/ UNCHANGED lockVars
  BY FailLockStep DEF Forget
<1>3. Others
  BY <1>1, <1>2, EvtSet, InsideStep DEF Forget, GoTo, FailWithoutUnlock, Return, KomTypeOK
<1>4. Ready(t)'
  <2>1. CASE Open(t) /\ file' = "0" /\ stages' = <<>> /\ GoTo(t, "setTime") /\ UNCHANGED lockVars
    BY <1>1, <2>1 DEF Ready, Working, GoTo, Forget, KomTypeOK, LockTypeOK, Open, lockVars
  <2>2. CASE Return(t)
    BY <2>2, ReadyElsewhere DEF Return, KomTypeOK
  <2> QED
    BY <2>1, <2>2 DEF Forget, FailWithoutUnlock
<1>5. FileIsStages'
  BY DEF Forget, KomInv, FileIsStages
<1>6. EmptyIsFresh'
  BY EvtSet, ProcOfAssumption DEF Forget, KomInv, EmptyIsFresh, SetEvt, KomTypeOK
<1> QED
  BY <1>3, <1>4, <1>5, <1>6 DEF KomInv, Prepared

LEMMA SetTimeKeepsInv ==
  ASSUME ~LockMayFail, KomTypeOK, LockInv, KomInv, NEW t \in Threads, SetTime(t)
  PROVE  KomInv'
<1>1. Working(t) /\ at[t] = "in" /\ file = "0" /\ stages = <<>> /\ req[t].stage = 0
  BY DEF SetTime, KomInv, Prepared, Ready, Working
<1>2. UNCHANGED <<lockVars, file, stages>>
  BY DEF SetTime
<1>3. \A s \in Threads \ {t} : Ready(s)'
  <2>1. \A p \in Procs \ {ProcOf[t]} : keapiEvtconfig'[p] = keapiEvtconfig[p]
    BY EvtSet DEF SetTime
  <2>2. \A s \in Threads \ {t} : pc'[s] = pc[s] /\ req'[s] = req[s]
    BY DEF SetTime, GoTo, Return, KomTypeOK
  <2> QED
    BY <1>1, <1>2, <2>1, <2>2, InsideStep
<1>4. Ready(t)'
  <2>1. CASE req[t].mode # "disable" /\ SetEvt(t, RouteOf[req[t].mode], "none") /\ GoTo(t, "store")
    <3>1. Evt(t)' = RouteOf[req[t].mode]
      BY <2>1, EvtSet
    <3>2. pc'[t] = "store" /\ req'[t] = req[t]
      BY <2>1 DEF GoTo, KomTypeOK
    <3> QED
      BY <1>1, <1>2, <2>1, <3>1, <3>2 DEF Ready, Working, lockVars
  <2>2. CASE Return(t)
    BY <2>2, ReadyElsewhere DEF Return, KomTypeOK
  <2> QED
    BY <2>1, <2>2 DEF SetTime
<1> QED
  BY <1>1, <1>2, <1>3, <1>4 DEF KomInv, Prepared, FileIsStages, EmptyIsFresh

LEMMA CascadeKeepsInv ==
  ASSUME ~LockMayFail, KomTypeOK, LockInv, KomInv, NEW t \in Threads, Cascade(t)
  PROVE  KomInv'
<1>1. at[t] = "in" /\ UNCHANGED <<file, stages>>
  BY DEF Cascade, KomInv, Prepared, Ready
<1>2. LockStep(t) \/ UNCHANGED lockVars
  BY FailLockStep DEF Cascade
<1>3. \A s \in Threads \ {t} : Ready(s)'
  <2>1. \A p \in Procs \ {ProcOf[t]} : keapiEvtconfig'[p] = keapiEvtconfig[p]
    BY EvtSet DEF Cascade
  <2>2. \A s \in Threads \ {t} : pc'[s] = pc[s] /\ req'[s] = req[s]
    BY DEF Cascade, GoTo, FailWithoutUnlock, Return, KomTypeOK
  <2> QED
    BY <1>1, <1>2, <2>1, <2>2, InsideStep
<1>4. CASE /\ req[t].mode = "reset" /\ Open(t) /\ ReadValue(t) = "IRQ"
           /\ SetEvt(t, "IRQ_RES", "none") /\ GoTo(t, "store") /\ UNCHANGED lockVars
  <2>1. file = "IRQ"
    BY <1>4, FreshRead DEF ReadValue
  <2>2. stages = <<"interrupt">>
    BY <2>1 DEF KomInv, FileIsStages, RouteOf, Modes
  <2>3. Evt(t)' = "IRQ_RES" /\ pc'[t] = "store" /\ req'[t] = req[t]
    BY <1>4, EvtSet DEF GoTo, KomTypeOK
  <2>4. Ready(t)'
    BY <1>1, <1>4, <2>2, <2>3 DEF Ready, Working, Open, Cascade, lockVars
  <2> QED
    BY <1>1, <1>3, <2>1, <2>4 DEF KomInv, Prepared, FileIsStages, EmptyIsFresh
<1>5. CASE SetEvt(t, ReadValue(t), "none") /\ GoTo(t, "closeUnlock")
  <2>1. Ready(t)'
    BY <1>5, ReadyElsewhere DEF GoTo, KomTypeOK
  <2>2. EmptyIsFresh'
    BY <1>1, <1>5, FreshRead, ProcOfAssumption DEF KomInv, EmptyIsFresh, SetEvt, KomTypeOK
  <2> QED
    BY <1>1, <1>3, <2>1, <2>2 DEF KomInv, Prepared, FileIsStages
<1>6. CASE UNCHANGED keapiEvtconfig /\ (Return(t) \/ GoTo(t, "closeUnlock"))
  <2>1. Ready(t)'
    BY <1>6, ReadyElsewhere DEF Return, GoTo, KomTypeOK
  <2> QED
    BY <1>1, <1>3, <1>6, <2>1 DEF KomInv, Prepared, FileIsStages, EmptyIsFresh
<1> QED
  BY <1>4, <1>5, <1>6 DEF Cascade, FailWithoutUnlock

\* A sequence of one with one more is a sequence of two.
LEMMA AppendToOne ==
  ASSUME NEW S, NEW x \in S, NEW y \in S
  PROVE  Append(<<x>>, y) = <<x, y>>
<1>1. <<x>> \in Seq(S) /\ <<x, y>> \in Seq(S)
  OBVIOUS
<1>2. Len(<<x>>) = 1 /\ Len(<<x, y>>) = 2
  OBVIOUS
<1>3. <<x>>[1] = x /\ <<x, y>>[1] = x /\ <<x, y>>[2] = y
  OBVIOUS
<1>4. Append(<<x>>, y) \in Seq(S) /\ Len(Append(<<x>>, y)) = 2
  BY <1>1, <1>2, AppendProperties
<1>5. Append(<<x>>, y)[1] = x /\ Append(<<x>>, y)[2] = y
  BY <1>1, <1>2, <1>3, AppendProperties
<1>6. \A i \in 1 .. Len(<<x, y>>) : <<x, y>>[i] = Append(<<x>>, y)[i]
  BY <1>2, <1>3, <1>5
<1>7. Len(<<x, y>>) = Len(Append(<<x>>, y))
  BY <1>2, <1>4
<1> QED
  BY <1>1, <1>4, <1>6, <1>7, SeqEqual, Zenon

LEMMA StoreKeepsInv ==
  ASSUME ~LockMayFail, KomTypeOK, LockInv, KomInv, NEW t \in Threads, Store(t)
  PROVE  KomInv'
<1>1. Working(t) /\ at[t] = "in"
  BY DEF Store, KomInv, Prepared, Ready, Working
<1>2. LockStep(t) \/ UNCHANGED lockVars
  BY FailLockStep DEF Store
<1>3. \A s \in Threads \ {t} : Ready(s)'
  <2>1. \A s \in Threads \ {t} : pc'[s] = pc[s] /\ req'[s] = req[s]
    BY DEF Store, GoTo, FailWithoutUnlock, Return, KomTypeOK
  <2>2. UNCHANGED keapiEvtconfig
    BY DEF Store
  <2> QED
    BY <1>1, <1>2, <2>1, <2>2, InsideStep
<1>4. Ready(t)'
  BY ReadyElsewhere DEF Store, GoTo, FailWithoutUnlock, Return, KomTypeOK
<1>5. FileIsStages' /\ EmptyIsFresh'
  <2>1. CASE UNCHANGED <<file, stages>>
    BY <2>1 DEF Store, KomInv, FileIsStages, EmptyIsFresh
  <2>2. CASE file' = Evt(t) /\ stages' = Append(stages, req[t].mode)
    <3>1. req[t].mode \in Modes
      BY SetupMode DEF Store, KomTypeOK, CallsMatch, NoCall
    <3>2. FileIsStages'
      <4>1. Ready(t) /\ pc[t] = "store"
        BY DEF Store, KomInv, Prepared
      <4>2. CASE req[t].mode # "disable" /\ Evt(t) = RouteOf[req[t].mode] /\ stages = <<>>
        <5>1. stages' = <<req[t].mode>> /\ file' = RouteOf[req[t].mode]
          BY <2>2, <4>2
        <5>2. req[t].mode \in Modes \ {"disable"}
          BY <3>1, <4>2
        <5>3. \E m \in Modes \ {"disable"} : stages' = <<m>> /\ file' = RouteOf[m]
          BY <5>1, <5>2
        <5> QED
          BY <5>3 DEF FileIsStages
      <4>3. CASE req[t].mode = "reset" /\ Evt(t) = "IRQ_RES" /\ stages = <<"interrupt">>
        <5>1. stages' = <<"interrupt", "reset">> /\ file' = "IRQ_RES"
          <6>1. Append(<<"interrupt">>, "reset") = <<"interrupt", "reset">>
            <7>1. "interrupt" \in Modes /\ "reset" \in Modes
              BY DEF Modes
            <7> QED
              BY <7>1, AppendToOne, Zenon
          <6>2. stages' = Append(<<"interrupt">>, "reset") /\ file' = "IRQ_RES"
            BY <2>2, <4>3, Zenon
          <6> QED
            BY <6>1, <6>2, Zenon
        <5> QED
          BY <5>1 DEF FileIsStages
      <4> QED
        BY <4>1, <4>2, <4>3 DEF Ready
    <3>3. file' # "none"
      BY <2>2, ReadValueType DEF Routes
    <3> QED
      BY <3>2, <3>3 DEF EmptyIsFresh
  <2> QED
    BY <2>1, <2>2 DEF Store
<1> QED
  BY <1>3, <1>4, <1>5 DEF KomInv, Prepared

LEMMA ReadRouteKeepsInv ==
  ASSUME ~LockMayFail, KomTypeOK, LockInv, KomInv, NEW t \in Threads, ReadRoute(t)
  PROVE  KomInv'
<1>1. at[t] = "in" /\ UNCHANGED <<file, stages>>
  BY DEF ReadRoute, KomInv, Prepared, Ready
<1>2. LockStep(t) \/ UNCHANGED lockVars
  BY FailLockStep DEF ReadRoute
<1>3. \A s \in Threads \ {t} : Ready(s)'
  <2>1. \A p \in Procs \ {ProcOf[t]} : keapiEvtconfig'[p] = keapiEvtconfig[p]
    BY EvtSet DEF ReadRoute
  <2>2. \A s \in Threads \ {t} : pc'[s] = pc[s] /\ req'[s] = req[s]
    BY DEF ReadRoute, GoTo, FailWithoutUnlock, Return, KomTypeOK
  <2> QED
    BY <1>1, <1>2, <2>1, <2>2, InsideStep
<1>4. Ready(t)'
  BY ReadyElsewhere DEF ReadRoute, GoTo, FailWithoutUnlock, Return, KomTypeOK
<1>5. EmptyIsFresh'
  BY <1>1, FreshRead, ProcOfAssumption
  DEF ReadRoute, KomInv, EmptyIsFresh, SetEvt, KomTypeOK
<1> QED
  BY <1>1, <1>3, <1>4, <1>5 DEF KomInv, Prepared, FileIsStages

\* The steps of t that touch no shared value and leave it where Ready asks for
\* nothing, or just inside the lock.
LEMMA QuietKeepsInv ==
  ASSUME KomTypeOK, KomInv, NEW t \in Threads,
         \/ \E r \in Requests : Call(t, r)
         \/ CheckParams(t) \/ Disable(t) \/ Locking(t) \/ Locked(t)
         \/ Unlocking(t) \/ Unlocked(t) \/ Route(t) \/ Start(t)
  PROVE  KomInv'
<1>1. CASE \E r \in Requests : Call(t, r)
  <2>1. Ready(t)'
    BY <1>1, ReadyElsewhere DEF Call, KomTypeOK
  <2> QED
    BY <1>1, <2>1, QuietStep DEF Call, KomTypeOK
<1>2. CASE CheckParams(t) \/ Disable(t)
  <2>1. Ready(t)'
    BY <1>2, ReadyElsewhere DEF CheckParams, Disable, GoTo, Return, KomTypeOK
  <2>2. UNCHANGED <<lockVars, keapiEvtconfig, file, stages>>
    BY <1>2 DEF CheckParams, Disable
  <2>3. \A s \in Threads \ {t} : pc'[s] = pc[s] /\ req'[s] = req[s]
    BY <1>2 DEF CheckParams, Disable, GoTo, Return, KomTypeOK
  <2> QED
    BY <2>1, <2>2, <2>3, QuietStep
<1>3. CASE Locking(t)
  <2>1. Ready(t)'
    BY <1>3, ReadyElsewhere DEF Locking, callVars, KomTypeOK
  <2> QED
    BY <1>3, <2>1, QuietStep DEF Locking, callVars, LockStep
<1>4. CASE Locked(t)
  <2>1. pc'[t] = "read" /\ at'[t] = "in"
    BY <1>4 DEF Locked, GoTo, OpenAndLock, KomTypeOK, LockTypeOK
  <2>2. Ready(t)'
    BY <2>1 DEF Ready
  <2> QED
    BY <1>4, <2>2, QuietStep DEF Locked, GoTo, LockStep, KomTypeOK
<1>5. CASE Unlocking(t)
  <2>1. Ready(t)'
    BY <1>5, ReadyElsewhere DEF Unlocking, callVars, KomTypeOK
  <2> QED
    BY <1>5, <2>1, QuietStep DEF Unlocking, callVars, LockStep
<1>6. CASE Unlocked(t)
  <2>1. Ready(t)'
    BY <1>6, ReadyElsewhere DEF Unlocked, GoTo, Return, KomTypeOK
  <2>2. \A s \in Threads \ {t} : pc'[s] = pc[s] /\ req'[s] = req[s]
    BY <1>6 DEF Unlocked, GoTo, Return, KomTypeOK
  <2> QED
    BY <1>6, <2>1, <2>2, QuietStep DEF Unlocked, LockStep
<1>7. CASE Route(t) \/ Start(t)
  <2>1. Ready(t)'
    BY <1>7, ReadyElsewhere DEF Route, Start, GoTo, Return, KomTypeOK
  <2>2. UNCHANGED <<lockVars, keapiEvtconfig, file, stages>>
    BY <1>7 DEF Route, Start
  <2>3. \A s \in Threads \ {t} : pc'[s] = pc[s] /\ req'[s] = req[s]
    BY <1>7 DEF Route, Start, GoTo, Return, KomTypeOK
  <2> QED
    BY <2>1, <2>2, <2>3, QuietStep
<1> QED
  BY <1>1, <1>2, <1>3, <1>4, <1>5, <1>6, <1>7

LEMMA DieKeepsInv ==
  ASSUME KomTypeOK, KomInv, NEW p \in Procs, Die(p)
  PROVE  KomInv'
<1>1. ASSUME NEW s \in Threads, ProcOf[s] = p PROVE Ready(s)'
  BY <1>1, ReadyElsewhere DEF Die
<1>2. ASSUME NEW s \in Threads, ProcOf[s] # p PROVE Ready(s)'
  <2>1. pc'[s] = pc[s] /\ req'[s] = req[s] /\ at'[s] = at[s] /\ fd'[s] = fd[s]
    BY <1>2 DEF Die, Death
  <2>2. Evt(s)' = Evt(s) /\ UNCHANGED <<file, stages>>
    BY <1>2, ProcOfAssumption DEF Die, Evt, KomTypeOK
  <2> QED
    BY <2>1, <2>2, ReadyKept DEF KomInv, Prepared
<1>3. FileIsStages' /\ EmptyIsFresh'
  BY DEF Die, KomInv, FileIsStages, EmptyIsFresh, KomTypeOK
<1> QED
  BY <1>1, <1>2, <1>3 DEF KomInv, Prepared

LEMMA KomInvStep ==
  ~LockMayFail /\ KomTypeOK /\ LockInv /\ KomInv /\ [KomNext]_komVars => KomInv'
<1> SUFFICES ASSUME ~LockMayFail, KomTypeOK, LockInv, KomInv, [KomNext]_komVars
             PROVE  KomInv'
  OBVIOUS
<1>1. CASE UNCHANGED komVars
  BY <1>1 DEF komVars, callVars, lockVars, KomInv, FileIsStages, Prepared, Ready,
              Working, Evt, EmptyIsFresh
<1> QED
  BY <1>1, QuietKeepsInv, ForgetKeepsInv, SetTimeKeepsInv, CascadeKeepsInv,
     StoreKeepsInv, ReadRouteKeepsInv, DieKeepsInv
  DEF KomNext, Run

\* The file means the stages stored last, for any number of processes and
\* threads, through every failure and death, as long as lockf does not fail.
THEOREM KomFileIsStages == ~LockMayFail => (KomSpec => []FileIsStages)
<1> SUFFICES ASSUME ~LockMayFail PROVE KomSpec => []FileIsStages
  OBVIOUS
<1>1. KomTypeOK /\ LockInv /\ KomInv /\ [KomNext]_komVars => KomInv'
  BY KomInvStep
<1>2. KomSpec => []LockInv
  BY KomUsesLock, LockInvariant
<1>3. KomInv => FileIsStages
  BY DEF KomInv
<1> QED
  BY KomInvInit, KomTypeCorrect, <1>1, <1>2, <1>3, PTL DEF KomSpec

-----------------------------------------------------------------------------
\* What Enable read is what the stages meant, and it is in keapiEvtconfig until
\* somebody of the process writes that again.
GotInv == \A t \in Threads : got[t] # "none" => Evt(t) = got[t]

LEMMA ReadIsMeant ==
  ASSUME KomTypeOK, KomInv, NEW t \in Threads
  PROVE  ReadValue(t) = Meant(stages)
<1>1. CASE stages = <<>> /\ file \in {"none", "0"}
  BY <1>1, FreshRead DEF ReadValue, Meant
<1>2. ASSUME NEW m \in Modes \ {"disable"}, stages = <<m>>, file = RouteOf[m]
      PROVE  ReadValue(t) = Meant(stages)
  <2>1. stages # <<>> /\ Len(stages) = 1 /\ stages[1] = m
    BY <1>2
  <2>2. file # "none"
    BY <1>2 DEF RouteOf, Modes
  <2> QED
    BY <1>2, <2>1, <2>2 DEF ReadValue, Meant
<1>3. CASE stages = <<"interrupt", "reset">> /\ file = "IRQ_RES"
  <2>1. stages # <<>> /\ Len(stages) = 2
    BY <1>3
  <2> QED
    BY <1>3, <2>1 DEF ReadValue, Meant
<1> QED
  BY <1>1, <1>2, <1>3 DEF KomInv, FileIsStages

LEMMA GotSet ==
  ASSUME KomTypeOK, GotInv, NEW t \in Threads, NEW v, NEW g, SetEvt(t, v, g),
         g \in {"none", v}
  PROVE  GotInv'
<1> SUFFICES ASSUME NEW u \in Threads, got'[u] # "none" PROVE Evt(u)' = got'[u]
  BY DEF GotInv
<1>1. CASE u = t
  <2>1. got'[t] = g
    BY DEF SetEvt
  <2> QED
    BY <1>1, <2>1, EvtSet
<1>2. CASE u # t
  <2>1. ProcOf[u] # ProcOf[t] /\ got'[u] = got[u]
    BY <1>2 DEF SetEvt
  <2>2. Evt(u)' = Evt(u)
    BY <2>1, EvtSet, ProcOfAssumption DEF Evt
  <2> QED
    BY <2>1, <2>2 DEF GotInv
<1> QED
  BY <1>1, <1>2

LEMMA GotInvStep ==
  ASSUME KomTypeOK, KomInv, GotInv, [KomNext]_komVars
  PROVE  GotInv'
<1>1. ASSUME UNCHANGED <<keapiEvtconfig, got>>
      PROVE  GotInv'
  BY <1>1 DEF GotInv, Evt
<1>2. ASSUME NEW t \in Threads, NEW r \in Requests, Call(t, r)
      PROVE  GotInv'
  BY <1>1, <1>2 DEF Call
<1>3. ASSUME NEW t \in Threads, Run(t)
      PROVE  GotInv'
  <2>1. CASE CheckParams(t) \/ Disable(t) \/ Locking(t) \/ Locked(t) \/ Store(t)
    BY <1>1, <2>1 DEF CheckParams, Disable, Locking, Locked, Store
  <2>2. CASE Unlocking(t) \/ Unlocked(t) \/ Start(t)
    BY <1>1, <2>2 DEF Unlocking, Unlocked, Start
  <2>3. CASE Forget(t) \/ SetTime(t) \/ Cascade(t)
    BY <1>1, <2>3, GotSet DEF Forget, SetTime, Cascade
  <2>4. CASE ReadRoute(t)
    BY <1>1, <2>4, GotSet, ReadIsMeant DEF ReadRoute
  <2>5. CASE Route(t)
    BY <2>5 DEF Route, GotInv, Evt, KomTypeOK
  <2> QED
    BY <1>3, <2>1, <2>2, <2>3, <2>4, <2>5 DEF Run
<1>4. ASSUME NEW p \in Procs, Die(p)
      PROVE  GotInv'
  BY <1>4, ProcOfAssumption DEF Die, GotInv, Evt, KomTypeOK
<1>5. CASE UNCHANGED komVars
  BY <1>1, <1>5 DEF komVars
<1> QED
  BY <1>2, <1>3, <1>4, <1>5 DEF KomNext

LEMMA RouteStep ==
  ASSUME KomTypeOK, GotInv, [KomNext]_komVars,
         NEW t \in Threads, pc[t] = "route", pc'[t] = "start", got[t] # "none"
  PROVE  card'.route = got[t]
<1>1. Route(t)
  <2>1. ~(\E s \in Threads : \E r \in Requests : Call(s, r)) /\ ~(\E p \in Procs : Die(p))
    BY DEF Call, Die, KomTypeOK
  <2>2. PICK s \in Threads : Run(s)
    BY <2>1 DEF KomNext, komVars, callVars
  <2>3. s = t
    BY <2>2
    DEF Run, CheckParams, Disable, Locking, Locked, Forget, SetTime, Cascade, Store, ReadRoute,
        Unlocking, Unlocked, Route, Start, FailWithoutUnlock, GoTo, Return, callVars, KomTypeOK
  <2> QED
    BY <2>2, <2>3
    DEF Run, CheckParams, Disable, Locking, Locked, Forget, SetTime, Cascade, Store, ReadRoute,
        Unlocking, Unlocked, Start
<1>2. card'.route = Evt(t)
  BY <1>1 DEF Route, Return, KomTypeOK
<1> QED
  BY <1>2 DEF GotInv

\* The card gets the routing the stored stages meant while Enable had the lock, for
\* any processes and threads, unless another thread of the process wrote the
\* variable since (src/wd.c:438-449).
THEOREM StoredIsRouted == ~LockMayFail => (KomSpec => RoutesStored)
<1> SUFFICES ASSUME ~LockMayFail PROVE KomSpec => RoutesStored
  OBVIOUS
<1> DEFINE Right == \A t \in Threads :
                      pc[t] = "route" /\ pc'[t] = "start" /\ got[t] # "none"
                        => card'.route = got[t]
<1>1. KomTypeOK /\ LockInv /\ KomInv /\ [KomNext]_komVars => KomInv'
  BY KomInvStep
<1>2. KomSpec => []LockInv
  BY KomUsesLock, LockInvariant
<1>3. KomInit => GotInv
  BY DEF KomInit, GotInv
<1>4. KomTypeOK /\ KomInv /\ GotInv /\ [KomNext]_komVars => GotInv'
  BY GotInvStep
<1>5. KomTypeOK /\ GotInv /\ [KomNext]_komVars => [Right]_komVars
  BY RouteStep
<1> QED
  BY KomInvInit, KomTypeCorrect, <1>1, <1>2, <1>3, <1>4, <1>5, PTL
  DEF KomSpec, RoutesStored

-----------------------------------------------------------------------------
(* What a call that returns without closeUnlock leaves behind.              *)

PhaseFits(t) ==
  /\ pc[t] \in Inner => at[t] \in {"in", "unlock"}
  /\ pc[t] \in {"route", "start"} => at[t] = "out"
  /\ at[t] \in {"mkLock", "lockf"} => pc[t] = "openLock"

PhasesFit == \A t \in Threads : PhaseFits(t)

\* A step of one thread moves no other one, in its call or in the lock.
LEMMA RunLocal ==
  ASSUME KomTypeOK, NEW t \in Threads, Run(t) \/ (\E r \in Requests : Call(t, r)),
         NEW s \in Threads, s # t
  PROVE  pc'[s] = pc[s] /\ at'[s] = at[s] /\ fd'[s] = fd[s]
<1> USE DEF KomTypeOK, LockTypeOK, GoTo, Return, lockVars, callVars
<1>1. CASE CheckParams(t) \/ Disable(t) \/ SetTime(t) \/ Route(t) \/ Start(t)
  BY <1>1 DEF CheckParams, Disable, SetTime, Route, Start
<1>2. CASE Locking(t)
  BY <1>2 DEF Locking, LockMutex, MkLock
<1>3. CASE Locked(t)
  BY <1>3 DEF Locked, OpenAndLock
<1>4. CASE Forget(t) \/ Cascade(t) \/ Store(t) \/ ReadRoute(t)
  BY <1>4 DEF Forget, Cascade, Store, ReadRoute, FailWithoutUnlock, CloseFile
<1>5. CASE Unlocking(t) \/ Unlocked(t)
  BY <1>5 DEF Unlocking, Unlocked, CloseFile, UnlockMutex
<1>6. CASE \E r \in Requests : Call(t, r)
  BY <1>6 DEF Call
<1> QED BY <1>1, <1>2, <1>3, <1>4, <1>5, <1>6 DEF Run

LEMMA PhasesFitStep == KomTypeOK /\ PhasesFit /\ [KomNext]_komVars => PhasesFit'
<1> SUFFICES ASSUME KomTypeOK, PhasesFit, [KomNext]_komVars PROVE PhasesFit'
  OBVIOUS
<1>1. ASSUME NEW t \in Threads, Run(t) \/ (\E r \in Requests : Call(t, r))
      PROVE  PhasesFit'
  <2>1. \A s \in Threads \ {t} : PhaseFits(s)'
    BY <1>1, RunLocal DEF PhasesFit, PhaseFits
  <2>2. PhaseFits(t)'
    <3> USE DEF KomTypeOK, LockTypeOK, PhasesFit, PhaseFits, Inner, GoTo, Return, lockVars, callVars
    <3>1. CASE CheckParams(t) BY <3>1 DEF CheckParams
    <3>2. CASE Disable(t) BY <3>2 DEF Disable
    <3>3. CASE Locking(t) BY <3>3 DEF Locking, LockMutex, MkLock
    <3>4. CASE Locked(t) BY <3>4 DEF Locked, OpenAndLock
    <3>5. CASE Forget(t) BY <3>5 DEF Forget, FailWithoutUnlock, CloseFile
    <3>6. CASE SetTime(t) BY <3>6 DEF SetTime
    <3>7. CASE Cascade(t) BY <3>7 DEF Cascade, FailWithoutUnlock, CloseFile
    <3>8. CASE Store(t) BY <3>8 DEF Store, FailWithoutUnlock, CloseFile
    <3>9. CASE ReadRoute(t) BY <3>9 DEF ReadRoute, FailWithoutUnlock, CloseFile
    <3>10. CASE Unlocking(t) BY <3>10 DEF Unlocking, CloseFile
    <3>11. CASE Unlocked(t) BY <3>11 DEF Unlocked, UnlockMutex
    <3>12. CASE Route(t) \/ Start(t) BY <3>12 DEF Route, Start
    <3>13. CASE \E r \in Requests : Call(t, r) BY <3>13 DEF Call
    <3> QED
      BY <1>1, <3>1, <3>2, <3>3, <3>4, <3>5, <3>6, <3>7, <3>8, <3>9, <3>10, <3>11, <3>12, <3>13 DEF Run
  <2> QED BY <2>1, <2>2 DEF PhasesFit
<1>2. ASSUME NEW p \in Procs, Die(p) PROVE PhasesFit'
  BY <1>2 DEF Die, Death, PhasesFit, PhaseFits, Inner, KomTypeOK, LockTypeOK
<1>3. CASE UNCHANGED komVars
  BY <1>3 DEF komVars, lockVars, callVars, PhasesFit, PhaseFits
<1> QED BY <1>1, <1>2, <1>3 DEF KomNext

LEMMA KomLockInvariant == KomSpec => [](LockInv /\ KomTypeOK)
  BY KomUsesLock, LockInvariant, KomTypeCorrect, PTL

\* Setup and Enable return without closeUnlock when a system call fails
\* (src/wd.c:234-297, 436-442): from then on no thread of that process works on the
\* file, and none of any process if the descriptor was left open too.
THEOREM LeakKeepsOut == KomSpec => []LeakBlocks
<1>1. KomInit => PhasesFit
  BY DEF KomInit, LockInit, PhasesFit, PhaseFits, Inner
<1>2. KomTypeOK /\ LockInv /\ PhasesFit => LeakBlocks
  <2> SUFFICES ASSUME KomTypeOK, LockInv, PhasesFit, NEW t \in Threads, Leaked(t),
                      NEW s \in Threads, s # t
               PROVE  /\ ProcOf[s] = ProcOf[t] => at[s] = "out" /\ pc[s] \notin Inner
                      /\ fd[t] = "locked" => fd[s] # "locked"
    BY DEF LeakBlocks
  <2>1. ProcOf[s] = ProcOf[t] => at[s] = "out"
    BY OneInside DEF LockInv, KomTypeOK, Leaked
  <2>2. at[s] = "out" => pc[s] \notin Inner
    BY DEF PhasesFit, PhaseFits
  <2>3. fd[t] = "locked" => fd[s] # "locked"
    BY ExclusiveFromInv DEF Exclusive, KomTypeOK
  <2> QED BY <2>1, <2>2, <2>3
<1> QED BY <1>1, <1>2, PhasesFitStep, KomLockInvariant, KomTypeCorrect, PTL DEF KomSpec

\* And that lasts until the process ends: the next call waits in openLock for ever
\* (src/linux_support.c:60-64).
THEOREM LeakIsForGood == KomSpec => LeakStays
<1> DEFINE Stays == \A t \in Threads : Leaked(t) =>
                      (Leaked(t)' /\ at'[t] = at[t] /\ fd'[t] = fd[t]) \/ Die(ProcOf[t])
<1>1. ASSUME KomTypeOK, KomNext PROVE Stays
  <2> SUFFICES ASSUME NEW t \in Threads, Leaked(t)
               PROVE  (Leaked(t)' /\ at'[t] = at[t] /\ fd'[t] = fd[t]) \/ Die(ProcOf[t])
    OBVIOUS
  <2>1. ASSUME NEW s \in Threads, Run(s) \/ (\E r \in Requests : Call(s, r))
        PROVE  Leaked(t)' /\ at'[t] = at[t] /\ fd'[t] = fd[t]
    <3>1. CASE s # t BY <1>1, <2>1, <3>1, RunLocal DEF Leaked
    <3>2. CASE s = t
      <4> USE DEF Leaked, GoTo, Return, lockVars
      <4>1. CASE CheckParams(t) \/ Disable(t)
        BY <1>1, <4>1 DEF CheckParams, Disable, KomTypeOK
      <4>2. ~Locking(t) /\ ~Locked(t) BY DEF Locking, LockMutex, MkLock, Locked, OpenAndLock
      <4>3. /\ ~Forget(t) /\ ~SetTime(t) /\ ~Cascade(t) /\ ~Store(t) /\ ~ReadRoute(t)
            /\ ~Unlocking(t) /\ ~Unlocked(t) /\ ~Route(t) /\ ~Start(t)
        BY DEF Forget, SetTime, Cascade, Store, ReadRoute, Unlocking, Unlocked, Route, Start
      <4>4. CASE \E r \in Requests : Call(t, r) BY <1>1, <4>4 DEF Call, KomTypeOK
      <4> QED BY <2>1, <3>2, <4>1, <4>2, <4>3, <4>4 DEF Run
    <3> QED BY <3>1, <3>2
  <2>2. ASSUME NEW p \in Procs, Die(p), p # ProcOf[t]
        PROVE  Leaked(t)' /\ at'[t] = at[t] /\ fd'[t] = fd[t]
    BY <2>2 DEF Die, Death, Leaked
  <2> QED BY <1>1, <2>1, <2>2 DEF KomNext
<1>2. KomTypeOK /\ [KomNext]_komVars => [Stays]_komVars BY <1>1
<1> QED BY <1>2, KomTypeCorrect, PTL DEF KomSpec, LeakStays
=============================================================================
