----------------------------- MODULE MC_Progress -----------------------------
(***************************************************************************)
(* Three components that must come to an end, for TLC: the initialisation  *)
(* of the task system, the GPU task queue's sync, and the loops of         *)
(* foreach.  They share no state: a behaviour is one of one of them, and   *)
(* the others stay in an initial state.                                    *)
(***************************************************************************)
EXTENDS TaskSystemInit, GpuTaskQueue, Foreach

CONSTANTS
    Parts,          \* the components that are explored
    MaxExtent1,     \* the longest range of a loop of one dimension,
    MaxExtent2,     \* of two,
    MaxExtent3      \* and of three

CONSTANTS t1, t2, t3

VARIABLE part       \* the component that takes the steps of the behaviour

\* GpuTaskQueue: one command list; three lists on one queue; a copy engine and
\* a program that copies in, launches and copies out.
MCConfigs == {[engine |-> FALSE, multi |-> FALSE, phased |-> FALSE],
              [engine |-> FALSE, multi |-> TRUE, phased |-> FALSE],
              [engine |-> TRUE, multi |-> TRUE, phased |-> TRUE]}

MCPoolSize == [p \in Pools |-> 2]

\* Foreach: every loop of n dimensions; the first one starts below zero.
\* Xe loops of two dimensions are also tried without the option.
Loops(width, n, maxExtent, xe) ==
    {[width |-> width, isTiled |-> isTiled, oldMask |-> IF unmask THEN {0} ELSE 0 .. width - 1,
      xe |-> xe, unmask |-> unmask,
      startVals |-> [i \in 1 .. n |-> IF i = 1 THEN -3 ELSE 0],
      endVals |-> [i \in 1 .. n |-> (IF i = 1 THEN -3 ELSE 0) + extent[i]]] :
         isTiled \in BOOLEAN, unmask \in {TRUE, ~xe \/ n # 2}, extent \in [1 .. n -> 0 .. maxExtent]}

\* Domains of up to three dimensions with ranges from none to several vectors,
\* for gangs of 8 (tiles of 2 x 4 and 2 x 2 x 2) and of 16 (tiles of 4 x 4), on
\* CPUs and on Xe.
MCDomains ==
    UNION {Loops(8, 1, MaxExtent1, xe) \cup Loops(8, 2, MaxExtent2, xe)
               \cup Loops(8, 3, MaxExtent3, xe) : xe \in BOOLEAN}
        \cup Loops(16, 2, MaxExtent2, FALSE)

\* Where the components are that a behaviour is not about.
AConfig == CHOOSE c \in Configs : TRUE
ALoop == CHOOSE d \in Domains : TRUE

MCInit ==
    /\ part \in Parts
    /\ SystemInit /\ GpuInit /\ LoopInit
    /\ part # "queue" => config = AConfig /\ clock = 0
    /\ part # "loop" => loop = ALoop

InitStep == part = "init" /\ SystemNext /\ UNCHANGED <<part, gpuVars, loopVars>>
QueueStep == part = "queue" /\ GpuNext /\ UNCHANGED <<part, initVars, loopVars>>
LoopStep == part = "loop" /\ LoopNext /\ UNCHANGED <<part, initVars, gpuVars>>

MCNext == InitStep \/ QueueStep \/ LoopStep

MCVars == <<part, initVars, gpuVars, loopVars>>

\* The fairness of each component's own specification: every thread keeps
\* running, the device runs what it can and sync returns from its wait, and a
\* loop's thread goes on.
MCFairness ==
    /\ \A t \in AppThreads :
         WF_initVars(part = "init" /\ (InitTaskSystem(t) \/ FirstLaunch(t)))
    /\ WF_gpuVars(part = "queue" /\ Device) /\ WF_gpuVars(part = "queue" /\ SyncFinish)
    /\ WF_loopVars(part = "loop" /\ LoopNext)

MCSpec == MCInit /\ [][MCNext]_MCVars /\ MCFairness

\* The variables of the three components keep their types.
TypesOK == SystemTypeOK /\ GpuTypeOK /\ LoopTypeOK

\* Each component ends what it has begun: every thread gets through
\* InitTaskSystem, unless the process exits; sync returns; a foreach loop ends.
PartsEnd ==
    /\ part = "init" ~> (initExited \/ \A t \in AppThreads : initPc[t] = "launched")
    /\ SyncReturns
    /\ part = "loop" ~> At("end")
==============================================================================
