-------------------------- MODULE PlatformThreads --------------------------
(***************************************************************************)
(* Threads with a stop event and a stopped event (src/PlatformDependence.c: *)
(* 35-189, Linux): an owner creates a thread, and later tells it to stop,   *)
(* waits for its answer for some time, then joins or cancels it and closes  *)
(* the events.  An event is a mutex and a condition, without a memory: to   *)
(* set it wakes one of those who wait now, and nobody who waits later.      *)
(*                                                                          *)
(* The function of the thread is the caller's: it works, waits for stop for *)
(* some time, works again when that time is over, and otherwise sets        *)
(* stopped and ends, as include/PlatformDependence.h:55-57 means it to.     *)
(***************************************************************************)
EXTENDS Integers

Procs == {"owner", "thread"}
Events == {"stop", "stopped"}
Nobody == "nobody"

VARIABLES
  pc,         \* where each is
  alive,      \* the events that exist
  holder,     \* who has the mutex of an event between two steps
  waiters,    \* who waits on its condition
  why,        \* why the wait of each is over
  cancelled,  \* the thread is to end at its next cancellation point
  answered,   \* history: the thread has set stopped
  spurious,   \*   a wait has ended for no reason
  misused     \*   an event was used when it did not exist

vars == <<pc, alive, holder, waiters, why, cancelled, answered, spurious, misused>>

TypeOK ==
  /\ DOMAIN pc = Procs
  /\ pc["owner"] \in {"idle", "run", "set", "wait", "asleep", "awake", "join",
                      "broadcast", "drain", "destroy", "done", "aborted"}
  /\ pc["thread"] \in {"none", "run", "wait", "asleep", "awake", "set", "returned", "killed"}
  /\ alive \subseteq Events
  /\ holder \in [Events -> Procs \cup {Nobody}]
  /\ waiters \in [Events -> SUBSET Procs]
  /\ why \in [Procs -> {"none", "signal", "timeout", "cancel", "error"}]
  /\ cancelled \in BOOLEAN /\ answered \in BOOLEAN
  /\ spurious \in BOOLEAN /\ misused \in BOOLEAN

Init ==
  /\ pc = [p \in Procs |-> IF p = "owner" THEN "idle" ELSE "none"]
  /\ alive = {}
  /\ holder = [e \in Events |-> Nobody]
  /\ waiters = [e \in Events |-> {}]
  /\ why = [p \in Procs |-> "none"]
  /\ cancelled = FALSE
  /\ answered = FALSE /\ spurious = FALSE /\ misused = FALSE
-----------------------------------------------------------------------------
(* Events *)

GoTo(p, l) == pc' = [pc EXCEPT ![p] = l]

\* What each waits for, and what it sets.
Awaited(p) == IF p = "owner" THEN "stopped" ELSE "stop"
Given(p) == IF p = "owner" THEN "stop" ELSE "stopped"

Free(e) == holder[e] = Nobody

\* The mutex of an event that does not exist cannot be locked, which nobody
\* looks at but waitForSingleObject.
SetEvent(p) ==
  LET e == Given(p) IN
  /\ pc[p] = "set"
  /\ Free(e) \/ e \notin alive
  /\ misused' = (misused \/ e \notin alive)
  /\ answered' = (answered \/ p = "thread")
  /\ LET next == IF p = "owner" THEN "wait" ELSE "returned" IN
     IF e \in alive /\ waiters[e] # {}
     THEN \E w \in waiters[e] :
            /\ waiters' = [waiters EXCEPT ![e] = @ \ {w}]
            /\ why' = [why EXCEPT ![w] = "signal"]
            /\ pc' = [pc EXCEPT ![p] = next, ![w] = "awake"]
     ELSE GoTo(p, next) /\ UNCHANGED <<waiters, why>>
  /\ UNCHANGED <<alive, holder, cancelled, spurious>>

WaitForSingleObject(p) ==
  LET e == Awaited(p) IN
  /\ pc[p] = "wait"
  /\ IF e \in alive
     THEN /\ Free(e)
          /\ waiters' = [waiters EXCEPT ![e] = @ \cup {p}]
          /\ GoTo(p, "asleep")
          /\ UNCHANGED <<why, misused>>
     ELSE /\ misused' = TRUE
          /\ why' = [why EXCEPT ![p] = "error"]
          /\ GoTo(p, "awake")
          /\ UNCHANGED waiters
  /\ UNCHANGED <<alive, holder, cancelled, answered, spurious>>

\* Broken: the owner waits for the answer however long it takes.
WhenAnswered(p, r) == p = "thread" /\ (r = "cancel" => cancelled)

\* Why a wait is over without the event: its time is, or the thread is cancelled.
WithoutEvent(p, r) == r = "timeout" \/ (p = "thread" /\ cancelled)

WakeUp(p, r) ==
  /\ pc[p] = "asleep"
  /\ waiters' = [waiters EXCEPT ![Awaited(p)] = @ \ {p}]
  /\ why' = [why EXCEPT ![p] = r]
  /\ GoTo(p, "awake")
  /\ UNCHANGED <<alive, holder, cancelled, answered, misused>>

EndOfWait(p) ==
  /\ \E r \in {"timeout", "cancel"} : WithoutEvent(p, r) /\ WakeUp(p, r)
  /\ UNCHANGED spurious

\* pthread_cond_timedwait may return as if the event had been set.
Spurious(p) == WakeUp(p, "signal") /\ spurious' = TRUE

\* The mutex is taken again before pthread_cond_timedwait returns.
Relocks(p) ==
  /\ pc[p] = "awake"
  /\ Free(Awaited(p)) \/ Awaited(p) \notin alive
  /\ misused' = (misused \/ Awaited(p) \notin alive)
  /\ why' = [why EXCEPT ![p] = "none"]
  /\ UNCHANGED <<alive, waiters, answered, spurious>>

\* A thread that is cancelled there ends with the mutex locked.
Killed ==
  /\ Relocks("thread")
  /\ why["thread"] = "cancel"
  /\ holder' = IF Awaited("thread") \in alive
               THEN [holder EXCEPT ![Awaited("thread")] = "thread"] ELSE holder
  /\ GoTo("thread", "killed")
  /\ UNCHANGED cancelled

TimedOut(p) == why[p] = "timeout" /\ Awaited(p) \in alive
-----------------------------------------------------------------------------
(* The thread *)

Works ==
  /\ pc["thread"] = "run"
  /\ \/ \E l \in {"wait", "set"} : GoTo("thread", l)
     \/ cancelled /\ GoTo("thread", "killed")
  /\ UNCHANGED <<alive, holder, waiters, why, cancelled, answered, spurious, misused>>

StopAwaited ==
  /\ Relocks("thread")
  /\ why["thread"] # "cancel"
  /\ GoTo("thread", IF TimedOut("thread") THEN "run" ELSE "set")
  /\ UNCHANGED <<holder, cancelled>>

Thread ==
  \/ Works \/ WaitForSingleObject("thread") \/ StopAwaited \/ Killed \/ SetEvent("thread")
  \/ EndOfWait("thread")
-----------------------------------------------------------------------------
(* The owner *)

\* pthread_create may fail, which ends the process.
CreateThread ==
  /\ pc["owner"] = "idle"
  /\ \/ pc' = [p \in Procs |-> "run"]
     \/ GoTo("owner", "aborted")
  /\ alive' = Events
  /\ UNCHANGED <<holder, waiters, why, cancelled, answered, spurious, misused>>

DestroyThread ==
  /\ pc["owner"] = "run"
  /\ GoTo("owner", "set")
  /\ UNCHANGED <<alive, holder, waiters, why, cancelled, answered, spurious, misused>>

\* Broken: who got no answer closes the events of a thread that goes on.
LeaveAlone ==
  /\ GoTo("owner", IF TimedOut("owner") THEN "broadcast" ELSE "join")
  /\ UNCHANGED cancelled

\* Broken: the thread is cancelled when it has answered, and joined when not.
Swapped ==
  IF TimedOut("owner") THEN GoTo("owner", "join") /\ UNCHANGED cancelled
  ELSE GoTo("owner", "broadcast") /\ cancelled' = TRUE

\* Whoever has not answered in time is cancelled and not waited for.
CancelOrJoin ==
  IF TimedOut("owner") THEN GoTo("owner", "broadcast") /\ cancelled' = TRUE
  ELSE GoTo("owner", "join") /\ UNCHANGED cancelled

AnswerAwaited == Relocks("owner") /\ CancelOrJoin /\ UNCHANGED holder

Join ==
  /\ pc["owner"] = "join"
  /\ pc["thread"] \in {"returned", "killed"}
  /\ GoTo("owner", "broadcast")
  /\ UNCHANGED <<alive, holder, waiters, why, cancelled, answered, spurious, misused>>

\* The event that destroyThread closes now: stop first.
ToClose == IF "stop" \in alive THEN "stop" ELSE "stopped"

\* closeEvent: everybody is woken, ...
Broadcast(e) ==
  /\ pc["owner"] = "broadcast" /\ e = ToClose
  /\ Free(e)
  /\ pc' = [p \in Procs |-> IF p = "owner" THEN "drain"
                            ELSE IF p \in waiters[e] THEN "awake" ELSE pc[p]]
  /\ why' = [p \in Procs |-> IF p \in waiters[e] THEN "signal" ELSE why[p]]
  /\ waiters' = [waiters EXCEPT ![e] = {}]
  /\ UNCHANGED <<alive, holder, cancelled, answered, spurious, misused>>

\* ... the mutex is locked and unlocked once more, ...
Drain(e) ==
  /\ pc["owner"] = "drain" /\ e = ToClose
  /\ Free(e)
  /\ GoTo("owner", "destroy")
  /\ UNCHANGED <<alive, holder, waiters, why, cancelled, answered, spurious, misused>>

\* ... and destroyed, which asserts that nobody has it.
Destroy(e) ==
  /\ pc["owner"] = "destroy" /\ e = ToClose
  /\ IF Free(e)
     THEN /\ alive' = alive \ {e}
          /\ GoTo("owner", IF e = "stop" THEN "broadcast" ELSE "done")
     ELSE GoTo("owner", "aborted") /\ UNCHANGED alive
  /\ UNCHANGED <<holder, waiters, why, cancelled, answered, spurious, misused>>

Owner ==
  \/ SetEvent("owner") \/ WaitForSingleObject("owner") \/ AnswerAwaited \/ Join
  \/ EndOfWait("owner")
  \/ \E e \in Events : Broadcast(e) \/ Drain(e) \/ Destroy(e)

Next ==
  /\ pc["owner"] # "aborted"
  /\ CreateThread \/ DestroyThread \/ Owner \/ Thread \/ \E p \in Procs : Spurious(p)

Spec == Init /\ [][Next]_vars

\* Both are scheduled, and time passes.
Fairness ==
  /\ WF_vars(pc["owner"] # "aborted" /\ Owner)
  /\ WF_vars(pc["owner"] # "aborted" /\ Thread)

FairSpec == Spec /\ Fairness
-----------------------------------------------------------------------------
(* Properties *)

\* The answer that destroyThread joins upon is one: a thread that missed the
\* stop, or that is between two waits, is never joined, unless a wait has ended
\* for no reason.
JoinedHasAnswered == pc["owner"] = "join" => answered \/ spurious

\* No event is used after closeEvent, by a thread late with its answer or woken
\* by the close, unless the thread was cancelled: nobody waits for the end of
\* that one.
UsedWhileAlive == misused => cancelled

\* destroyThread returns, whether the thread sees the stop or misses it, answers
\* in time, too late or before it is asked; but not when the thread was cancelled
\* while it waited for stop and has ended with the mutex, nor perhaps when a wait
\* has ended for no reason.
DestroyReturns ==
  pc["owner"] = "set" ~> \/ pc["owner"] = "done"
                         \/ pc["thread"] = "killed" /\ ~Free("stop")
                         \/ spurious
=============================================================================
