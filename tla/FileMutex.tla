----------------------------- MODULE FileMutex -----------------------------
(***************************************************************************)
(* What openLock and closeUnlock promise their callers                     *)
(* (src/linux_support.c:39-42): between the two calls nobody else, in this *)
(* process or in another one, has the temporary file locked.               *)
(***************************************************************************)
CONSTANT Threads

VARIABLE users    \* the threads that have the file locked

Init == users = {}

Enter(t) == users = {} /\ users' = {t}

\* closeUnlock, or the end of the process the user lived in.
Leave(t) == users = {t} /\ users' = {}

Next == \E t \in Threads : Enter(t) \/ Leave(t)

Spec == Init /\ [][Next]_users
=============================================================================
