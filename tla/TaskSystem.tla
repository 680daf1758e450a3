----------------------------- MODULE TaskSystem -----------------------------
(***************************************************************************)
(* The pthreads task system of ispc (ispc_tasking.cpp): the shared state   *)
(* behind ISPCAlloc, ISPCLaunch and ISPCSync, the worker threads that run  *)
(* lTaskEntry and the application threads that call ispc functions.        *)
(*                                                                         *)
(* Each thread has a call stack of ispc functions.  A function on it is    *)
(* one the application called or a task; it may execute launch and sync    *)
(* statements, each any number of times, and syncs when it returns.  A     *)
(* thread that waits in TaskGroup::Sync runs tasks on top of the waiting   *)
(* function, and those may launch and sync in turn.                        *)
(*                                                                         *)
(* A section of the code under taskSysMutex is one action: what it touches *)
(* is touched only under the mutex.  numUnfinishedTasks and the semaphore  *)
(* are accessed outside it, so every access to them is a step of its own.  *)
(* AllocTaskGroup and FreeTaskGroup are atomic here; TaskGroupPool models  *)
(* their individual steps and says when that is justified.                 *)
(***************************************************************************)
EXTENDS Integers, Sequences, FiniteSets

CONSTANTS
    nThreads,    \* number of worker threads (processors - 1; may be 0)
    Clients,     \* application threads that call ispc functions
    Groups,      \* TaskGroup objects
    Null,        \* null handle
    Counts,      \* the task counts that launch statements may have
    MaxLaunches  \* bound: launch statements executed in a behaviour

Workers == 0 .. nThreads - 1
Threads == Workers \cup Clients

ASSUME TaskSystemAssumption ==
    /\ nThreads \in Nat
    /\ Clients \cap Workers = {}
    /\ Null \notin Groups
    /\ Counts \subseteq Nat
    /\ MaxLaunches \in Nat

VARIABLES
    stack,              \* stack[t]: the ispc functions thread t is running
    awake,              \* workers between their sem_wait and taking a task
    freeGroups,         \* groups that AllocTaskGroup may return
    nextTaskInfoIndex,  \* TaskGroupBase::nextTaskInfoIndex
    waitingTasks,       \* TaskGroup::waitingTasks
    inActiveList,       \* TaskGroup::inActiveList
    numUnfinishedTasks, \* TaskGroup::numUnfinishedTasks
    activeTaskGroups,   \* the global list of groups with waiting tasks
    workerSemaphore,    \* value of the semaphore
    outstanding,        \* history: tasks launched and not yet finished
    launches            \* number of launch statements so far

groupVars == <<nextTaskInfoIndex, waitingTasks, inActiveList,
               numUnfinishedTasks, activeTaskGroups>>
vars == <<stack, awake, freeGroups, groupVars, workerSemaphore, outstanding, launches>>

(***************************************************************************)
(* An activation of an ispc function: the task it is (group, num), or      *)
(* group = Null for a function called by the application; its              *)
(* launchGroupHandle; where it is; and the count of the launch in progress *)
(* (for "post", of the sem_posts still to do).                             *)
(***************************************************************************)
Labels == {"body",     \* between two statements
           "launch",   \* ISPCAlloc returned; ISPCLaunch is about to enqueue
           "count",    \* tasks enqueued; numUnfinishedTasks not yet raised
           "post",     \* sem_post calls still to make
           "sync",     \* at the loop test of TaskGroup::Sync
           "help",     \* saw unfinished tasks; about to lock and take one
           "running",  \* running a task on top of this function
           "free"}     \* Sync returned; FreeTaskGroup is next

Frame == [group : Groups \cup {Null}, num : Nat, tg : Groups \cup {Null},
          pc : Labels, n : Nat]

NewFrame(g, k) == [group |-> g, num |-> k, tg |-> Null, pc |-> "body", n |-> 0]

Top(t) == stack[t][Len(stack[t])]
At(t, label) == stack[t] # <<>> /\ Top(t).pc = label

Pop(s) == SubSeq(s, 1, Len(s) - 1)
SetTop(t, f) == [stack EXCEPT ![t] = Append(Pop(@), f)]
Goto(t, label) == SetTop(t, [Top(t) EXCEPT !.pc = label])

TypeOK ==
    /\ stack \in [Threads -> Seq(Frame)]
    /\ awake \subseteq Workers
    /\ freeGroups \subseteq Groups
    /\ nextTaskInfoIndex \in [Groups -> Nat]
    /\ waitingTasks \in [Groups -> Seq(Nat)]
    /\ inActiveList \in [Groups -> BOOLEAN]
    /\ numUnfinishedTasks \in [Groups -> Int]
    /\ activeTaskGroups \in Seq(Groups)
    /\ workerSemaphore \in Nat
    /\ outstanding \in [Groups -> SUBSET Nat]
    /\ launches \in Nat

Init ==
    /\ stack = [t \in Threads |-> <<>>]
    /\ awake = {}
    /\ freeGroups = Groups
    /\ nextTaskInfoIndex = [g \in Groups |-> 0]
    /\ waitingTasks = [g \in Groups |-> <<>>]
    /\ inActiveList = [g \in Groups |-> FALSE]
    /\ numUnfinishedTasks = [g \in Groups |-> 0]
    /\ activeTaskGroups = <<>>
    /\ workerSemaphore = 0
    /\ outstanding = [g \in Groups |-> {}]
    /\ launches = 0

(***************************************************************************)
(* Calls and returns of ispc functions                                     *)
(***************************************************************************)

\* The application calls an ispc function.
Call(t) ==
    /\ t \in Clients
    /\ stack[t] = <<>>
    /\ stack' = [stack EXCEPT ![t] = <<NewFrame(Null, 0)>>]
    /\ UNCHANGED <<awake, freeGroups, groupVars, workerSemaphore, outstanding, launches>>

\* A function that the application called returns: it has synced (its handle
\* is null), as ReturnInst does in a function that launches tasks.  (A return
\* statement that stands before the first launch in the text is not given a
\* sync; this module leaves out functions that reach one with a handle.)
ReturnToClient(t) ==
    /\ At(t, "body") /\ Top(t).tg = Null
    /\ Top(t).group = Null
    /\ stack' = [stack EXCEPT ![t] = Pop(@)]
    /\ UNCHANGED <<awake, freeGroups, groupVars, workerSemaphore, outstanding, launches>>

\* A task returns to lTaskEntry or to the Sync below it, which decrements the
\* counter of the task's group.
FinishTask(t) ==
    LET g == Top(t).group IN
    /\ At(t, "body") /\ Top(t).tg = Null
    /\ g # Null
    /\ numUnfinishedTasks' = [numUnfinishedTasks EXCEPT ![g] = @ - 1]
    /\ outstanding' = [outstanding EXCEPT ![g] = @ \ {Top(t).num}]
    /\ LET below == Pop(stack[t]) IN
       stack' = [stack EXCEPT ![t] =
                   IF below = <<>> THEN <<>>
                   ELSE Append(Pop(below), [below[Len(below)] EXCEPT !.pc = "sync"])]
    /\ UNCHANGED <<awake, freeGroups, nextTaskInfoIndex, waitingTasks, inActiveList,
                   activeTaskGroups, workerSemaphore, launches>>

(***************************************************************************)
(* launch statements                                                       *)
(***************************************************************************)

\* ISPCAlloc for the argument block: the first one of a function, or the
\* first after a sync, finds a null handle and takes a group.
ISPCAlloc(t) ==
    /\ At(t, "body")
    /\ launches < MaxLaunches
    /\ launches' = launches + 1
    /\ \/ /\ Top(t).tg # Null
          /\ stack' = Goto(t, "launch")
          /\ UNCHANGED freeGroups
       \/ /\ Top(t).tg = Null
          /\ \E g \in freeGroups :
               /\ stack' = SetTop(t, [Top(t) EXCEPT !.tg = g, !.pc = "launch"])
               /\ freeGroups' = freeGroups \ {g}
    /\ UNCHANGED <<awake, groupVars, workerSemaphore, outstanding>>

\* Mutant: AllocTaskInfo returns the same index again.
LaunchEnqueueReusesIndex(t, count) ==
    LET g == Top(t).tg IN
    /\ At(t, "launch")
    /\ waitingTasks' = [waitingTasks EXCEPT ![g] = @ \o [j \in 1 .. count |-> j - 1]]
    /\ activeTaskGroups' = IF inActiveList[g] THEN activeTaskGroups
                           ELSE Append(activeTaskGroups, g)
    /\ inActiveList' = [inActiveList EXCEPT ![g] = TRUE]
    /\ outstanding' = [outstanding EXCEPT ![g] = @ \cup (0 .. count - 1)]
    /\ stack' = SetTop(t, [Top(t) EXCEPT !.pc = "count", !.n = count])
    /\ UNCHANGED <<nextTaskInfoIndex, awake, freeGroups, numUnfinishedTasks,
                   workerSemaphore, launches>>

\* ISPCLaunch up to the mutex unlock of TaskGroup::Launch: reserve count
\* TaskInfos, queue them and put the group on the active list.
LaunchEnqueue(t, count) ==
    LET g == Top(t).tg
        base == nextTaskInfoIndex[g] IN
    /\ At(t, "launch")
    /\ nextTaskInfoIndex' = [nextTaskInfoIndex EXCEPT ![g] = base + count]
    /\ waitingTasks' = [waitingTasks EXCEPT ![g] = @ \o [j \in 1 .. count |-> base + j - 1]]
    /\ IF inActiveList[g]
         THEN UNCHANGED activeTaskGroups
         ELSE activeTaskGroups' = Append(activeTaskGroups, g)
    /\ inActiveList' = [inActiveList EXCEPT ![g] = TRUE]
    /\ outstanding' = [outstanding EXCEPT ![g] = @ \cup (base .. base + count - 1)]
    /\ stack' = SetTop(t, [Top(t) EXCEPT !.pc = "count", !.n = count])
    /\ UNCHANGED <<awake, freeGroups, numUnfinishedTasks, workerSemaphore, launches>>

\* Mutant: the launch counts as one task.
LaunchCountsOne(t) ==
    /\ At(t, "count")
    /\ numUnfinishedTasks' = [numUnfinishedTasks EXCEPT ![Top(t).tg] = @ + 1]
    /\ stack' = Goto(t, "post")
    /\ UNCHANGED <<awake, freeGroups, nextTaskInfoIndex, waitingTasks, inActiveList,
                   activeTaskGroups, workerSemaphore, outstanding, launches>>

\* lAtomicAdd(&numUnfinishedTasks, count): only now, when a worker may have
\* run some of the tasks already.
LaunchCount(t) ==
    /\ At(t, "count")
    /\ numUnfinishedTasks' = [numUnfinishedTasks EXCEPT ![Top(t).tg] = @ + Top(t).n]
    /\ stack' = Goto(t, "post")
    /\ UNCHANGED <<awake, freeGroups, nextTaskInfoIndex, waitingTasks, inActiveList,
                   activeTaskGroups, workerSemaphore, outstanding, launches>>

\* Mutant: one sem_post per launch instead of one per task.
LaunchPostsOnce(t) ==
    /\ At(t, "post")
    /\ workerSemaphore' = workerSemaphore + 1
    /\ stack' = SetTop(t, [Top(t) EXCEPT !.pc = "body", !.n = 0])
    /\ UNCHANGED <<awake, freeGroups, groupVars, outstanding, launches>>

\* One sem_post of the loop; after the last one the statement is done.
LaunchPost(t) ==
    /\ At(t, "post")
    /\ \/ /\ Top(t).n > 0
          /\ workerSemaphore' = workerSemaphore + 1
          /\ stack' = SetTop(t, [Top(t) EXCEPT !.n = @ - 1])
       \/ /\ Top(t).n = 0
          /\ stack' = Goto(t, "body")
          /\ UNCHANGED workerSemaphore
    /\ UNCHANGED <<awake, freeGroups, groupVars, outstanding, launches>>

(***************************************************************************)
(* Taking a task, under taskSysMutex                                       *)
(***************************************************************************)

\* Mutant: inActiveList is not cleared with the group's last task.
TakeFromKeepsFlag(g, list) ==
    LET rest == Pop(waitingTasks[g]) IN
    /\ waitingTasks' = [waitingTasks EXCEPT ![g] = rest]
    /\ activeTaskGroups' = IF rest = <<>> THEN list ELSE activeTaskGroups
    /\ UNCHANGED <<inActiveList, nextTaskInfoIndex, numUnfinishedTasks>>

\* Remove the last task of group g and, if it was the only one, one
\* occurrence of g from the active list (list is activeTaskGroups without it).
TakeFrom(g, list) ==
    LET rest == Pop(waitingTasks[g]) IN
    /\ waitingTasks' = [waitingTasks EXCEPT ![g] = rest]
    /\ activeTaskGroups' = IF rest = <<>> THEN list ELSE activeTaskGroups
    /\ inActiveList' = [inActiveList EXCEPT ![g] = (rest # <<>>)]
    /\ UNCHANGED <<nextTaskInfoIndex, numUnfinishedTasks>>

LastWaiting(g) == waitingTasks[g][Len(waitingTasks[g])]
LastActive == activeTaskGroups[Len(activeTaskGroups)]

\* Mutant: pop_back instead of erase(find(..., g)).
EraseLast(g) == Pop(activeTaskGroups)

\* activeTaskGroups.erase(find(..., g)): the list without the first g.
Erase(g) ==
    LET k == CHOOSE j \in 1 .. Len(activeTaskGroups) :
               /\ activeTaskGroups[j] = g
               /\ \A i \in 1 .. j - 1 : activeTaskGroups[i] # g
    IN  SubSeq(activeTaskGroups, 1, k - 1)
          \o SubSeq(activeTaskGroups, k + 1, Len(activeTaskGroups))

(***************************************************************************)
(* sync statements                                                         *)
(***************************************************************************)

\* A sync statement, or the sync at return, of a function with a handle.
ISPCSync(t) ==
    /\ At(t, "body") /\ Top(t).tg # Null
    /\ stack' = Goto(t, "sync")
    /\ UNCHANGED <<awake, freeGroups, groupVars, workerSemaphore, outstanding, launches>>

\* Mutant: the loop ends when no task of the group is waiting to be started.
SyncTestsWaiting(t) ==
    /\ At(t, "sync")
    /\ stack' = Goto(t, IF waitingTasks[Top(t).tg] # <<>> THEN "help" ELSE "free")
    /\ UNCHANGED <<awake, freeGroups, groupVars, workerSemaphore, outstanding, launches>>

\* while (numUnfinishedTasks > 0)
SyncTest(t) ==
    /\ At(t, "sync")
    /\ stack' = Goto(t, IF numUnfinishedTasks[Top(t).tg] > 0 THEN "help" ELSE "free")
    /\ UNCHANGED <<awake, freeGroups, groupVars, workerSemaphore, outstanding, launches>>

\* Run task LastWaiting(g) on top of the waiting function of thread t.
RunOnTop(t, g) ==
    stack' = [stack EXCEPT ![t] =
                Append(Append(Pop(@), [Top(t) EXCEPT !.pc = "running"]),
                       NewFrame(g, LastWaiting(g)))]

\* Mutant: a waiting thread leaves all tasks to the workers.
SyncOnlyWaits(t) ==
    /\ At(t, "help")
    /\ stack' = Goto(t, "sync")
    /\ UNCHANGED <<awake, freeGroups, groupVars, workerSemaphore, outstanding, launches>>

\* The locked part of the loop: take a task of this group; else one of the
\* group at the back of the active list; else sleep and test again.
SyncTake(t) ==
    LET g == Top(t).tg IN
    /\ At(t, "help")
    /\ \/ /\ waitingTasks[g] # <<>>
          /\ RunOnTop(t, g)
          /\ TakeFrom(g, Erase(g))
       \/ /\ waitingTasks[g] = <<>> /\ activeTaskGroups # <<>>
          /\ RunOnTop(t, LastActive)
          /\ TakeFrom(LastActive, Pop(activeTaskGroups))
       \/ /\ waitingTasks[g] = <<>> /\ activeTaskGroups = <<>>
          /\ stack' = Goto(t, "sync")
          /\ UNCHANGED groupVars
    /\ UNCHANGED <<awake, freeGroups, workerSemaphore, outstanding, launches>>

\* FreeTaskGroup: Reset the group and give it back; the compiled code then
\* clears the function's handle.
SyncFree(t) ==
    LET g == Top(t).tg IN
    /\ At(t, "free")
    /\ nextTaskInfoIndex' = [nextTaskInfoIndex EXCEPT ![g] = 0]
    /\ numUnfinishedTasks' = [numUnfinishedTasks EXCEPT ![g] = 0]
    /\ freeGroups' = freeGroups \cup {g}
    /\ stack' = SetTop(t, [Top(t) EXCEPT !.tg = Null, !.pc = "body"])
    /\ UNCHANGED <<awake, waitingTasks, inActiveList, activeTaskGroups,
                   workerSemaphore, outstanding, launches>>

(***************************************************************************)
(* lTaskEntry                                                              *)
(***************************************************************************)

\* Mutant: the worker goes on when sem_wait would block.
WorkerWakeNoWait(t) ==
    /\ t \in Workers \ awake
    /\ stack[t] = <<>>
    /\ workerSemaphore' = workerSemaphore - 1
    /\ awake' = awake \cup {t}
    /\ UNCHANGED <<stack, freeGroups, groupVars, outstanding, launches>>

\* sem_wait returns in an idle worker.
WorkerWake(t) ==
    /\ t \in Workers \ awake
    /\ stack[t] = <<>>
    /\ workerSemaphore > 0
    /\ workerSemaphore' = workerSemaphore - 1
    /\ awake' = awake \cup {t}
    /\ UNCHANGED <<stack, freeGroups, groupVars, outstanding, launches>>

\* The locked part: take a task of the group at the back of the active list,
\* or go back to sem_wait if there is none.
WorkerTake(t) ==
    /\ t \in awake
    /\ awake' = awake \ {t}
    /\ \/ /\ activeTaskGroups # <<>>
          /\ stack' = [stack EXCEPT ![t] = <<NewFrame(LastActive, LastWaiting(LastActive))>>]
          /\ TakeFrom(LastActive, Pop(activeTaskGroups))
       \/ /\ activeTaskGroups = <<>>
          /\ UNCHANGED <<stack, groupVars>>
    /\ UNCHANGED <<freeGroups, workerSemaphore, outstanding, launches>>

-----------------------------------------------------------------------------

\* A step of a thread inside the task system or a compiled function.
Step(t) ==
    \/ ReturnToClient(t) \/ FinishTask(t)
    \/ ISPCAlloc(t) \/ LaunchCount(t) \/ LaunchPost(t)
    \/ \E count \in Counts : LaunchEnqueue(t, count)
    \/ ISPCSync(t) \/ SyncTest(t) \/ SyncTake(t) \/ SyncFree(t)
    \/ WorkerWake(t) \/ WorkerTake(t)

Next == \E t \in Threads : Call(t) \/ Step(t)

Spec == Init /\ [][Next]_vars

\* Threads are scheduled fairly and the mutex is granted to every thread that
\* waits for it; the application need not call anything.
FairSpec == Spec /\ \A t \in Threads : WF_vars(Step(t))

(***************************************************************************)
(* Properties                                                              *)
(***************************************************************************)

\* The activations on the stacks: thread t, d functions up.
Activations == UNION {{t} \X (1 .. Len(stack[t])) : t \in Threads}
Fn(a) == stack[a[1]][a[2]]

\* The tasks of group g that a thread has taken and not finished.
Running(g) == {Fn(a).num : a \in {b \in Activations : Fn(b).group = g}}
Waiting(g) == {waitingTasks[g][j] : j \in 1 .. Len(waitingTasks[g])}

\* ISPCSync gives a group back (and the function goes on, or returns) only
\* when every task launched through the handle has finished, although the
\* loop tests a counter that Launch raises after the tasks became visible.
SyncWaitsForAll ==
    \A a \in Activations :
      Fn(a).pc = "free" =>
        /\ outstanding[Fn(a).tg] = {}
        /\ Waiting(Fn(a).tg) = {} /\ Running(Fn(a).tg) = {}

\* assert(inActiveList == false) in TaskGroup::Reset, which FreeTaskGroup
\* calls on the group: the active list does not keep a pointer to it.
ResetAssertion ==
    \A a \in Activations : Fn(a).pc = "free" => ~inActiveList[Fn(a).tg]

\* No task is lost or run twice: a launched, unfinished task is in its
\* group's waitingTasks once or is run by one activation, never both.
EveryTaskOnce ==
    \A g \in Groups :
      /\ outstanding[g] = Waiting(g) \cup Running(g)
      /\ Waiting(g) \cap Running(g) = {}
      /\ Cardinality(Waiting(g)) = Len(waitingTasks[g])
      /\ \A a, b \in Activations :
           Fn(a).group = g /\ Fn(b).group = g /\ Fn(a).num = Fn(b).num => a = b

\* A group on the free list (or deleted) is not touched again: no thread
\* runs one of its tasks and will decrement its counter, no list refers to it
\* and no function holds it.
FreeGroupsUntouched ==
    \A g \in freeGroups :
      /\ numUnfinishedTasks[g] = 0 /\ outstanding[g] = {}
      /\ \A j \in 1 .. Len(activeTaskGroups) : activeTaskGroups[j] # g
      /\ \A a \in Activations : Fn(a).group # g /\ Fn(a).tg # g

\* The active list holds the groups with waiting tasks, each once, as its
\* users assume: lTaskEntry and Sync take a task of the last group without
\* looking (their assertions), and Sync erases "the" entry of its group.
ActiveListExact ==
    /\ \A g \in Groups :
         /\ inActiveList[g] <=> waitingTasks[g] # <<>>
         /\ inActiveList[g] <=> \E j \in 1 .. Len(activeTaskGroups) : activeTaskGroups[j] = g
    /\ \A j, k \in 1 .. Len(activeTaskGroups) :
         activeTaskGroups[j] = activeTaskGroups[k] => j = k

\* The tasks of a launch in progress that numUnfinishedTasks does not count yet.
Uncounted(f) == IF f.pc = "count" THEN f.n ELSE 0

\* numUnfinishedTasks is exact for the function that tests it, between its
\* launches: it is never left above the tasks there are (its sync would spin
\* forever) nor below them (it would return early).
CounterExact ==
    \A a \in Activations :
      Fn(a).tg # Null =>
        numUnfinishedTasks[Fn(a).tg] + Uncounted(Fn(a)) = Cardinality(outstanding[Fn(a).tg])

\* f[x] tokens for every x, to be counted together.
Tokens(f) == UNION {{x} \X (1 .. f[x]) : x \in DOMAIN f}

\* The tasks of each group that wait, and the sem_posts that each thread's
\* launch still owes.
Waits == [g \in Groups |-> Len(waitingTasks[g])]
PostsOwed(f) == IF f.pc \in {"count", "post"} THEN f.n ELSE 0
Owed == [t \in Threads |-> IF stack[t] = <<>> THEN 0 ELSE PostsOwed(Top(t))]

\* No wake-up is lost: each waiting task has a post in the semaphore, a worker
\* that left sem_wait and has not taken a task, or a post its launch still owes.
WakeupsSuffice ==
    Cardinality(Tokens(Waits))
      <= workerSemaphore + Cardinality(awake) + Cardinality(Tokens(Owed))

\* Every call of an ispc function returns: no sync waits forever, however
\* launches nest and whatever other tasks the waiting threads run meanwhile.
CallsReturn ==
    \A t \in Clients : stack[t] # <<>> ~> stack[t] = <<>>

\* The task system implements launch and sync: the groups out of the free
\* list are the handles in use, a group's waitingTasks the tasks not started.
LS == INSTANCE LaunchSync WITH
        Handles <- Groups,
        inUse <- Groups \ freeGroups,
        waiting <- [g \in Groups |-> Waiting(g)],
        running <- [g \in Groups |-> Running(g)]

\* Every step is a step of the promise of launch and sync, or changes nothing
\* that ispc code can see.
ImplementsLaunchSync == LS!Spec
=============================================================================
