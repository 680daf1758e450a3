------------------------------ MODULE MC_Memory ------------------------------
(***************************************************************************)
(* Who owns what in the two run times, for TLC: the free list of task      *)
(* groups, the argument memory of one group, its TaskInfo table, the       *)
(* reference-counted objects of ISPCRT and the chunked memory pool of its  *)
(* GPU device.  They share no state: a behaviour is one of one of them,    *)
(* and the others stay in an initial state.                                *)
(***************************************************************************)
EXTENDS TaskGroupPool, TaskGroupMemory, TaskInfoTable, RuntimeObjects, GpuMemory

CONSTANTS t1, t2, g1, g2, g3, g4, o1, o2, o3, v1, v2, v3

\* Views are all alike.
Symmetry == Permutations(Views)

VARIABLE part   \* the component that takes the steps of the behaviour

MCBufferSize == [k \in 1 .. NUM_MEM_BUFFERS |-> 2 ^ (2 + k)]

MCCounts == {<<2, 3, 2>>, <<1, 2, 1>>, <<3, 1, 1>>, <<0, 1, 1>>}

\* On the CPU device, futures are released before their queue.
MCPrograms == {[device |-> "gpu", futuresFirst |-> FALSE],
               [device |-> "cpu", futuresFirst |-> TRUE]}

Parts == {"pool", "memory", "table", "objects", "views"}

MCInit ==
    /\ part \in Parts
    /\ PoolInit /\ MemoryInit /\ TableInit /\ ObjInit /\ MemInit
    /\ part # "objects" => program = CHOOSE p \in Programs : TRUE

\* The program stopped, at an assertion or at exit(1), a bound is reached, or
\* the application has no handle left.
Ended ==
    /\ \/ stopped \/ exited \/ allocatedBuffers = MaxBuffers
       \/ part = "views"
       \/ part = "objects" /\ \A o \in Objects : app[o] = 0
    /\ UNCHANGED <<part, poolVars, memoryVars, tableVars, objVars, memVars>>

PoolStep == part = "pool" /\ PoolNext /\ UNCHANGED <<part, memoryVars, tableVars, objVars, memVars>>
MemoryStep == part = "memory" /\ MemoryNext /\ UNCHANGED <<part, poolVars, tableVars, objVars, memVars>>
TableStep == part = "table" /\ TableNext /\ UNCHANGED <<part, poolVars, memoryVars, objVars, memVars>>
ObjectStep == part = "objects" /\ ObjNext /\ UNCHANGED <<part, poolVars, memoryVars, tableVars, memVars>>
ViewStep == part = "views" /\ MemNext /\ UNCHANGED <<part, poolVars, memoryVars, tableVars, objVars>>

MCNext == PoolStep \/ MemoryStep \/ TableStep \/ ObjectStep \/ ViewStep \/ Ended

MCSpec == MCInit /\ [][MCNext]_<<part, poolVars, memoryVars, tableVars, objVars, memVars>>

\* The variables of the five components keep their types.
TypesOK == PoolTypeOK /\ MemoryTypeOK /\ TableTypeOK /\ ObjTypeOK /\ MemTypeOK
==============================================================================
