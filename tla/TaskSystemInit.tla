--------------------------- MODULE TaskSystemInit ---------------------------
(***************************************************************************)
(* InitTaskSystem of the pthreads task system, called by every thread      *)
(* whose ISPCLaunch or ISPCAlloc finds a null handle, and the first use    *)
(* each thread makes of what it set up: TaskGroup::Launch, which adds a    *)
(* group to activeTaskGroups under taskSysMutex.                           *)
(*                                                                         *)
(* The initialisation is guarded by a spin lock, but the outer test of     *)
(* `threads` is made without it. Each read or write of shared state is a   *)
(* step. activeTaskGroups.reserve(64) reads the vector and then replaces   *)
(* it, without the mutex.                                                  *)
(***************************************************************************)
EXTENDS Naturals, FiniteSets

CONSTANTS
    AppThreads,   \* application threads, each launching one task group
    nThreads,  \* worker threads to create (processors - 1)
    SemTries   \* attempts to open a semaphore (10 in the code)

ASSUME InitAssumption ==
    /\ nThreads \in Nat
    /\ SemTries \in Nat \ {0}

VARIABLES
    lock,             \* the spin lock
    threads,          \* threads != nullptr
    mutexInits,       \* how often pthread_mutex_init ran
    tries,            \* failed sem_open attempts
    semaphores,       \* semaphores that were opened
    created,          \* worker threads created
    active,           \* groups in activeTaskGroups (named by their threads)
    copied,           \* the contents that reserve copied to the new buffer
    initPc,           \* initPc[t]: where thread t is
    initExited        \* the process called exit(1)

initVars ==
    <<lock, threads, mutexInits, tries, semaphores, created, active, copied, initPc, initExited>>

SystemLabels == {"start", "cas", "recheck", "mutex", "semaphore", "malloc", "create",
           "reserve", "replace", "unlock", "ready", "launched"}

SystemTypeOK ==
    /\ lock \in {0, 1}
    /\ threads \in BOOLEAN /\ initExited \in BOOLEAN
    /\ mutexInits \in Nat /\ semaphores \in Nat
    /\ tries \in 0 .. SemTries
    /\ created \in 0 .. nThreads
    /\ active \subseteq AppThreads /\ copied \subseteq AppThreads
    /\ initPc \in [AppThreads -> SystemLabels]

SystemInit ==
    /\ lock = 0
    /\ threads = FALSE /\ initExited = FALSE
    /\ mutexInits = 0 /\ semaphores = 0 /\ tries = 0 /\ created = 0
    /\ active = {} /\ copied = {}
    /\ initPc = [t \in AppThreads |-> "start"]

Goto(t, from, to) == ~initExited /\ initPc[t] = from /\ initPc' = [initPc EXCEPT ![t] = to]

\* The unlocked test: if (threads == nullptr).
Test(t) ==
    /\ Goto(t, "start", IF threads THEN "ready" ELSE "cas")
    /\ UNCHANGED <<lock, threads, mutexInits, tries, semaphores, created, active, copied, initExited>>

\* The compare-and-swap that takes the lock; a thread that fails spins.
TakeLock(t) ==
    /\ lock = 0
    /\ Goto(t, "cas", "recheck")
    /\ lock' = 1
    /\ UNCHANGED <<threads, mutexInits, tries, semaphores, created, active, copied, initExited>>

\* Mutant: the test is not repeated under the lock.
NoRecheck(t) ==
    /\ Goto(t, "recheck", "mutex")
    /\ UNCHANGED <<lock, threads, mutexInits, tries, semaphores, created, active, copied, initExited>>

\* The test repeated under the lock.
Recheck(t) ==
    /\ Goto(t, "recheck", IF threads THEN "unlock" ELSE "mutex")
    /\ UNCHANGED <<lock, threads, mutexInits, tries, semaphores, created, active, copied, initExited>>

\* pthread_mutex_init, which may fail.
InitMutex(t) ==
    /\ Goto(t, "mutex", "semaphore")
    /\ \/ mutexInits' = mutexInits + 1 /\ UNCHANGED initExited
       \/ initExited' = TRUE /\ UNCHANGED mutexInits
    /\ UNCHANGED <<lock, threads, tries, semaphores, created, active, copied>>

\* sem_open succeeds, or is tried again under another name, or exit(1).
OpenSemaphore(t) ==
    /\ \/ /\ Goto(t, "semaphore", "malloc")
          /\ semaphores' = semaphores + 1
          /\ UNCHANGED <<tries, initExited>>
       \/ /\ Goto(t, "semaphore", "semaphore")
          /\ tries' = tries + 1
          /\ initExited' = (tries' = SemTries)
          /\ UNCHANGED semaphores
    /\ UNCHANGED <<lock, threads, mutexInits, created, active, copied>>

\* threads = malloc(...): from now on the unlocked test lets threads through.
AllocThreads(t) ==
    /\ Goto(t, "malloc", "create")
    /\ \/ threads' = TRUE /\ UNCHANGED initExited
       \/ initExited' = TRUE /\ UNCHANGED threads
    /\ UNCHANGED <<lock, mutexInits, tries, semaphores, created, active, copied>>

\* One pthread_create of the loop, or its end.
CreateWorker(t) ==
    /\ \/ /\ created < nThreads
          /\ Goto(t, "create", "create")
          /\ \/ created' = created + 1 /\ UNCHANGED initExited
             \/ initExited' = TRUE /\ UNCHANGED created
       \/ /\ created = nThreads
          /\ Goto(t, "create", "reserve")
          /\ UNCHANGED <<created, initExited>>
    /\ UNCHANGED <<lock, threads, mutexInits, tries, semaphores, active, copied>>

\* activeTaskGroups.reserve(64) copies the elements to a larger buffer ...
ReserveCopy(t) ==
    /\ Goto(t, "reserve", "replace")
    /\ copied' = active
    /\ UNCHANGED <<lock, threads, mutexInits, tries, semaphores, created, active, initExited>>

\* ... and makes it the vector's buffer.
ReserveReplace(t) ==
    /\ Goto(t, "replace", "unlock")
    /\ active' = copied
    /\ UNCHANGED <<lock, threads, mutexInits, tries, semaphores, created, copied, initExited>>

\* lock = 0
ReleaseLock(t) ==
    /\ Goto(t, "unlock", "ready")
    /\ lock' = 0
    /\ UNCHANGED <<threads, mutexInits, tries, semaphores, created, active, copied, initExited>>

\* The thread's first Launch: activeTaskGroups.push_back under taskSysMutex.
FirstLaunch(t) ==
    /\ Goto(t, "ready", "launched")
    /\ active' = active \cup {t}
    /\ UNCHANGED <<lock, threads, mutexInits, tries, semaphores, created, copied, initExited>>

InitTaskSystem(t) ==
    \/ Test(t) \/ TakeLock(t) \/ Recheck(t) \/ InitMutex(t) \/ OpenSemaphore(t)
    \/ AllocThreads(t) \/ CreateWorker(t) \/ ReserveCopy(t) \/ ReserveReplace(t)
    \/ ReleaseLock(t)

SystemNext == \E t \in AppThreads : InitTaskSystem(t) \/ FirstLaunch(t)

SystemSpec == SystemInit /\ [][SystemNext]_initVars

\* Every thread keeps running; each takes the lock at most once, so a spinning
\* thread finds it free for good in the end and needs no stronger fairness.
SystemFairSpec == SystemSpec /\ \A t \in AppThreads : WF_initVars(InitTaskSystem(t)) /\ WF_initVars(FirstLaunch(t))

(***************************************************************************)
(* Properties                                                              *)
(***************************************************************************)

\* A thread that InitTaskSystem returned to finds a mutex and a semaphore it
\* can use, initialised by exactly one thread, even if it went through the
\* unlocked test while another thread was still initialising.
ReadyToLaunch ==
    (\E t \in AppThreads : initPc[t] \in {"ready", "launched"}) =>
        threads /\ mutexInits = 1 /\ semaphores = 1

\* The initialisation runs at most once: one mutex, one semaphore and, when no
\* thread is initialising any more, exactly nThreads workers.
InitialisedOnce ==
    /\ mutexInits <= 1 /\ semaphores <= 1
    /\ (threads /\ lock = 0 /\ ~initExited) => created = nThreads

\* Everything InitTaskSystem writes is written before another thread uses the
\* task system: in particular no group is lost from activeTaskGroups.
LaunchedGroupsActive ==
    \A t \in AppThreads : initPc[t] = "launched" => t \in active

\* The task system is initialised by one thread, once, before any thread
\* launches.
InitSound == ReadyToLaunch /\ InitialisedOnce
=============================================================================
