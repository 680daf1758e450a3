----------------------------- MODULE LaunchSync -----------------------------
(***************************************************************************)
(* What launch and sync promise to ispc code, whatever the task system     *)
(* behind ISPCLaunch and ISPCSync does: every task that a function         *)
(* launches is started once by some thread and finishes, and a sync        *)
(* returns only when no task launched through the same handle is waiting   *)
(* or running.  A handle is given to one function at a time.               *)
(***************************************************************************)
CONSTANT Handles  \* what ISPCLaunch may store through its handle pointer

VARIABLES
    inUse,    \* handles that some function holds
    waiting,  \* waiting[h]: tasks launched through h and not started
    running   \* running[h]: tasks launched through h, started, not finished

vars == <<inUse, waiting, running>>

Init ==
    /\ inUse = {}
    /\ waiting = [h \in Handles |-> {}]
    /\ running = [h \in Handles |-> {}]

\* A function gets a handle that no function holds.
Acquire(h) ==
    /\ h \notin inUse
    /\ inUse' = inUse \cup {h}
    /\ UNCHANGED <<waiting, running>>

\* A launch adds tasks that are neither waiting nor running already.
Launch(h) ==
    /\ h \in inUse
    /\ waiting[h] \subseteq waiting'[h]
    /\ waiting'[h] \cap running[h] = {}
    /\ waiting' = [waiting EXCEPT ![h] = waiting'[h]]
    /\ UNCHANGED <<inUse, running>>

\* A thread starts a waiting task: no other thread can start it again.
Start(h) ==
    \E k \in waiting[h] :
      /\ waiting' = [waiting EXCEPT ![h] = @ \ {k}]
      /\ running' = [running EXCEPT ![h] = @ \cup {k}]
      /\ UNCHANGED inUse

\* A running task finishes.
Finish(h) ==
    \E k \in running[h] :
      /\ running' = [running EXCEPT ![h] = @ \ {k}]
      /\ UNCHANGED <<inUse, waiting>>

\* The sync of the function that holds h returns.
Sync(h) ==
    /\ h \in inUse
    /\ waiting[h] = {} /\ running[h] = {}
    /\ inUse' = inUse \ {h}
    /\ UNCHANGED <<waiting, running>>

Next == \E h \in Handles : Acquire(h) \/ Launch(h) \/ Start(h) \/ Finish(h) \/ Sync(h)

Spec == Init /\ [][Next]_vars
=============================================================================
