----------------------- MODULE PlatformThreadsProofs -----------------------
(***************************************************************************)
(* Why a thread that is joined has answered, and why only a cancelled one   *)
(* meets a closed event.                                                    *)
(***************************************************************************)
EXTENDS PlatformThreads, TLAPS

\* The owner has created the thread and has not begun to close its events.
Attached == {"run", "set", "wait", "asleep", "awake", "join"}
Ended == {"none", "returned", "killed"}

\* The events live as long as the owner is attached, and a thread that has not ended
\* after that has been cancelled.
Lifetime ==
  /\ pc["owner"] = "idle" => pc["thread"] = "none"
  /\ pc["owner"] \in Attached => alive = Events
  /\ pc["owner"] \notin Attached => pc["thread"] \in Ended \/ cancelled

\* Who waits on an event sleeps, and waits on the one meant for it.
WaitersSleep ==
  \A e \in Events : \A p \in waiters[e] : e = Awaited(p) /\ pc[p] = "asleep"

\* A wait of the owner that its time did not end was ended by the thread.
WokenByAnswer ==
  pc["owner"] = "awake" =>
    why["owner"] = "timeout" \/ (why["owner"] = "signal" /\ (answered \/ spurious))

ThreadsInv ==
  TypeOK /\ Lifetime /\ WaitersSleep /\ WokenByAnswer /\ JoinedHasAnswered /\ UsedWhileAlive

LEMMA Named ==
  /\ "owner" \in Procs /\ "thread" \in Procs /\ "owner" # "thread"
  /\ "stop" \in Events /\ "stopped" \in Events
  /\ \A p \in Procs : Awaited(p) \in Events /\ Given(p) \in Events
  /\ Awaited("owner") = "stopped" /\ Awaited("thread") = "stop"
  /\ Given("owner") = "stop" /\ Given("thread") = "stopped"
  /\ \A p \in Procs : p = "owner" \/ p = "thread"
BY DEF Procs, Events, Awaited, Given

LEMMA ThreadsInit == Init => ThreadsInv
BY Named DEF Init, ThreadsInv, TypeOK, Lifetime, WaitersSleep, WokenByAnswer, JoinedHasAnswered,
   UsedWhileAlive, Attached, Ended

\* Setting an event wakes nobody but the one who waits for it.
LEMMA SetStep ==
  ASSUME ThreadsInv, NEW p \in Procs, SetEvent(p)
  PROVE  ThreadsInv'
<1> USE Named DEF ThreadsInv, TypeOK, GoTo
<1> DEFINE e == Given(p)
           next == IF p = "owner" THEN "wait" ELSE "returned"
<1>1. /\ pc[p] = "set" /\ UNCHANGED <<alive, holder, cancelled, spurious>>
      /\ misused' = (misused \/ e \notin alive) /\ answered' = (answered \/ p = "thread")
      /\ \/ \E w \in waiters[e] :
              /\ e \in alive
              /\ waiters' = [waiters EXCEPT ![e] = @ \ {w}]
              /\ why' = [why EXCEPT ![w] = "signal"]
              /\ pc' = [pc EXCEPT ![p] = next, ![w] = "awake"]
         \/ pc' = [pc EXCEPT ![p] = next] /\ UNCHANGED <<waiters, why>>
  BY DEF SetEvent
<1>2. ASSUME NEW w \in waiters[e]
      PROVE  w \in Procs /\ w # p /\ pc[w] = "asleep" /\ e = Awaited(w)
  BY <1>1, <1>2 DEF WaitersSleep
<1>3. misused' => cancelled'
  BY <1>1 DEF Lifetime, Attached, Ended, UsedWhileAlive
<1>4. CASE pc' = [pc EXCEPT ![p] = next] /\ UNCHANGED <<waiters, why>>
  <2>1. TypeOK' BY <1>1, <1>4
  <2>2. Lifetime' BY <1>1, <1>4 DEF Lifetime, Attached, Ended
  <2>3. WaitersSleep' BY <1>1, <1>4 DEF WaitersSleep
  <2>4. WokenByAnswer' /\ JoinedHasAnswered' BY <1>1, <1>4 DEF WokenByAnswer, JoinedHasAnswered
  <2> QED BY <1>3, <2>1, <2>2, <2>3, <2>4 DEF UsedWhileAlive
<1>5. ASSUME NEW w \in waiters[e], e \in alive,
             waiters' = [waiters EXCEPT ![e] = @ \ {w}],
             why' = [why EXCEPT ![w] = "signal"],
             pc' = [pc EXCEPT ![p] = next, ![w] = "awake"]
      PROVE  ThreadsInv'
  <2>0. w \in Procs /\ w # p /\ pc[w] = "asleep" /\ e = Awaited(w) BY <1>2
  <2>1. TypeOK' BY <1>1, <1>5, <2>0
  <2>2. Lifetime' BY <1>1, <1>5, <2>0 DEF Lifetime, Attached, Ended
  <2>3. WaitersSleep' BY <1>1, <1>5, <2>0 DEF WaitersSleep
  <2>4. WokenByAnswer' /\ JoinedHasAnswered'
    BY <1>1, <1>5, <2>0 DEF WokenByAnswer, JoinedHasAnswered
  <2> QED BY <1>3, <2>1, <2>2, <2>3, <2>4 DEF UsedWhileAlive
<1> QED BY <1>1, <1>4, <1>5

LEMMA WaitStep ==
  ASSUME ThreadsInv, NEW p \in Procs, WaitForSingleObject(p)
  PROVE  ThreadsInv'
<1> USE Named DEF ThreadsInv, TypeOK, GoTo
<1>1. CASE Awaited(p) \in alive
  BY <1>1 DEF WaitForSingleObject, Lifetime, WaitersSleep, WokenByAnswer, JoinedHasAnswered,
     UsedWhileAlive, Attached, Ended
<1>2. CASE Awaited(p) \notin alive
  <2>1. p = "thread" /\ cancelled
    BY <1>2 DEF WaitForSingleObject, Lifetime, Attached, Ended
  <2> QED
    BY <1>2, <2>1 DEF WaitForSingleObject, Lifetime, WaitersSleep, WokenByAnswer,
       JoinedHasAnswered, UsedWhileAlive, Attached, Ended
<1> QED BY <1>1, <1>2

\* A wait that ends without the event.
LEMMA WakeStep ==
  ASSUME ThreadsInv, NEW p \in Procs, EndOfWait(p) \/ Spurious(p)
  PROVE  ThreadsInv'
<1> USE Named DEF ThreadsInv, TypeOK, GoTo
<1>1. PICK r \in {"signal", "timeout", "cancel"} :
        /\ WakeUp(p, r)
        /\ p = "owner" => r = "timeout" \/ (r = "signal" /\ spurious')
        /\ spurious' \in BOOLEAN /\ (spurious => spurious')
  BY DEF EndOfWait, Spurious, WithoutEvent
<1>2. /\ pc[p] = "asleep" /\ waiters' = [waiters EXCEPT ![Awaited(p)] = @ \ {p}]
      /\ why' = [why EXCEPT ![p] = r] /\ pc' = [pc EXCEPT ![p] = "awake"]
      /\ UNCHANGED <<alive, holder, cancelled, answered, misused>>
  BY <1>1 DEF WakeUp
<1>3. TypeOK' BY <1>1, <1>2
<1>4. Lifetime' BY <1>2 DEF Lifetime, Attached, Ended
<1>5. WaitersSleep' BY <1>2 DEF WaitersSleep
<1>6. WokenByAnswer' /\ JoinedHasAnswered'
  BY <1>1, <1>2 DEF WokenByAnswer, JoinedHasAnswered
<1> QED BY <1>2, <1>3, <1>4, <1>5, <1>6 DEF UsedWhileAlive

\* A wait is over and its mutex taken again.
LEMMA RelockStep ==
  ASSUME ThreadsInv, NEW p \in Procs, Relocks(p)
  PROVE  (misused' => cancelled) /\ misused' \in BOOLEAN
  BY Named DEF Relocks, ThreadsInv, TypeOK, Lifetime, UsedWhileAlive, Attached, Ended

LEMMA ThreadStep == ASSUME ThreadsInv, Works \/ StopAwaited \/ Killed PROVE ThreadsInv'
<1> USE Named DEF ThreadsInv, TypeOK, GoTo
<1>1. CASE Works
  BY <1>1 DEF Works, Lifetime, WaitersSleep, WokenByAnswer, JoinedHasAnswered, UsedWhileAlive,
     Attached, Ended
<1>2. CASE StopAwaited
  <2>1. (misused' => cancelled) /\ misused' \in BOOLEAN BY <1>2, RelockStep DEF StopAwaited
  <2> QED
    BY <1>2, <2>1 DEF StopAwaited, Relocks, Lifetime, WaitersSleep, WokenByAnswer,
       JoinedHasAnswered, UsedWhileAlive, Attached, Ended
<1>3. CASE Killed
  <2>1. (misused' => cancelled) /\ misused' \in BOOLEAN BY <1>3, RelockStep DEF Killed
  <2> QED
    BY <1>3, <2>1 DEF Killed, Relocks, Lifetime, WaitersSleep, WokenByAnswer,
       JoinedHasAnswered, UsedWhileAlive, Attached, Ended
<1> QED BY <1>1, <1>2, <1>3

LEMMA OwnerStep ==
  ASSUME ThreadsInv,
         \/ CreateThread \/ DestroyThread \/ AnswerAwaited \/ Join
         \/ \E e \in Events : Broadcast(e) \/ Drain(e) \/ Destroy(e)
  PROVE  ThreadsInv'
<1> USE Named DEF ThreadsInv, TypeOK, GoTo
<1>1. CASE CreateThread
  BY <1>1 DEF CreateThread, Lifetime, WaitersSleep, WokenByAnswer, JoinedHasAnswered,
     UsedWhileAlive, Attached, Ended
<1>2. CASE DestroyThread \/ Join
  BY <1>2 DEF DestroyThread, Join, Lifetime, WaitersSleep, WokenByAnswer, JoinedHasAnswered,
     UsedWhileAlive, Attached, Ended
<1>3. CASE AnswerAwaited
  <2>1. pc["owner"] = "awake" /\ alive = Events BY <1>3 DEF AnswerAwaited, Relocks, Lifetime, Attached
  <2>2. (misused' => cancelled) /\ misused' \in BOOLEAN BY <1>3, RelockStep DEF AnswerAwaited
  <2>3. CASE TimedOut("owner")
    BY <1>3, <2>1, <2>2, <2>3 DEF AnswerAwaited, Relocks, CancelOrJoin, Lifetime, WaitersSleep,
       WokenByAnswer, JoinedHasAnswered, UsedWhileAlive, Attached, Ended
  <2>4. CASE ~TimedOut("owner")
    <3>1. answered \/ spurious BY <2>1, <2>4 DEF TimedOut, WokenByAnswer
    <3> QED
      BY <1>3, <2>1, <2>2, <2>4, <3>1 DEF AnswerAwaited, Relocks, CancelOrJoin, Lifetime,
         WaitersSleep, WokenByAnswer, JoinedHasAnswered, UsedWhileAlive, Attached, Ended
  <2> QED BY <2>3, <2>4
<1>4. ASSUME NEW e \in Events, Broadcast(e) PROVE ThreadsInv'
  <2>1. /\ pc["owner"] = "broadcast"
        /\ pc' = [p \in Procs |-> IF p = "owner" THEN "drain"
                                  ELSE IF p \in waiters[e] THEN "awake" ELSE pc[p]]
        /\ why' = [p \in Procs |-> IF p \in waiters[e] THEN "signal" ELSE why[p]]
        /\ waiters' = [waiters EXCEPT ![e] = {}]
        /\ UNCHANGED <<alive, holder, cancelled, answered, spurious, misused>>
    BY <1>4 DEF Broadcast
  <2>2. "thread" \in waiters[e] => pc["thread"] = "asleep" BY DEF WaitersSleep
  <2>3. TypeOK' BY <2>1
  <2>4. Lifetime' BY <2>1, <2>2 DEF Lifetime, Attached, Ended
  <2>5. WaitersSleep' BY <2>1 DEF WaitersSleep
  <2> QED BY <2>1, <2>3, <2>4, <2>5 DEF WokenByAnswer, JoinedHasAnswered, UsedWhileAlive
<1>5. ASSUME NEW e \in Events, Drain(e) PROVE ThreadsInv'
  BY <1>5 DEF Drain, Lifetime, WaitersSleep, WokenByAnswer, JoinedHasAnswered, UsedWhileAlive,
     Attached, Ended
<1>6. ASSUME NEW e \in Events, Destroy(e) PROVE ThreadsInv'
  BY <1>6 DEF Destroy, Lifetime, WaitersSleep, WokenByAnswer, JoinedHasAnswered, UsedWhileAlive,
     Attached, Ended
<1> QED BY <1>1, <1>2, <1>3, <1>4, <1>5, <1>6

\* The inductive invariant of an owner and its thread.
THEOREM ThreadsInvariant == Spec => []ThreadsInv
<1>1. ASSUME ThreadsInv, [Next]_vars PROVE ThreadsInv'
  <2>1. CASE UNCHANGED vars
    BY <1>1, <2>1 DEF vars, ThreadsInv, TypeOK, Lifetime, WaitersSleep, WokenByAnswer,
       JoinedHasAnswered, UsedWhileAlive
  <2>2. CASE Next
    BY <1>1, <2>2, Named, SetStep, WaitStep, WakeStep, ThreadStep, OwnerStep DEF Next, Owner, Thread
  <2> QED BY <1>1, <2>1, <2>2
<1> QED BY ThreadsInit, <1>1, PTL DEF Spec

\* The owner joins nobody who was not heard (src/PlatformDependence.c:163-189).
THEOREM OnlyAnswersJoined == Spec => []JoinedHasAnswered
<1>1. ThreadsInv => JoinedHasAnswered BY DEF ThreadsInv
<1> QED BY <1>1, ThreadsInvariant, PTL

\* Only a cancelled thread comes upon an event that has been closed
\* (src/PlatformDependence.c:56-66, 163-189).
THEOREM OnlyCancelledMisuse == Spec => []UsedWhileAlive
<1>1. ThreadsInv => UsedWhileAlive BY DEF ThreadsInv
<1> QED BY <1>1, ThreadsInvariant, PTL
=============================================================================
