---------------------------- MODULE TaskInfoTable ----------------------------
(***************************************************************************)
(* The TaskInfo table of a task group (TaskGroupBase of ispc_tasking.cpp), *)
(* as ISPCLaunch fills it in and Reset empties it, and the indices that a  *)
(* task is given. A table is an array of chunks, allocated when needed and *)
(* never moved or freed, since other threads read TaskInfos while the      *)
(* function that holds the group launches more.                            *)
(***************************************************************************)
EXTENDS Integers

CONSTANTS
    TASK_QUEUE_CHUNK_SIZE,  \* TaskInfos per chunk (2^14)
    MAX_TASK_QUEUE_CHUNKS,  \* length of taskInfo[] (128)
    Counts                  \* task counts <<count0, count1, count2>> of launches

ASSUME TableAssumption ==
    /\ TASK_QUEUE_CHUNK_SIZE \in Nat \ {0}
    /\ MAX_TASK_QUEUE_CHUNKS \in Nat \ {0}
    /\ Counts \subseteq Nat \X Nat \X Nat

VARIABLES
    nextTaskInfoIndex,
    taskInfo,           \* indices of the chunks that are allocated
    tasks,              \* the TaskInfos filled in since the last ResetTable
    exited              \* the process called exit(1)

tableVars == <<nextTaskInfoIndex, taskInfo, tasks, exited>>

TaskInfo == [index : Nat, taskIndex : Nat, taskCount3d : Nat \X Nat \X Nat]

TableTypeOK ==
    /\ nextTaskInfoIndex \in Nat
    /\ taskInfo \subseteq Nat
    /\ tasks \subseteq TaskInfo
    /\ exited \in BOOLEAN

TableInit ==
    /\ nextTaskInfoIndex = 0
    /\ taskInfo = {}
    /\ tasks = {}
    /\ exited = FALSE

\* index >> LOG_TASK_QUEUE_CHUNK_SIZE and index & (TASK_QUEUE_CHUNK_SIZE - 1)
Chunk(index) == index \div TASK_QUEUE_CHUNK_SIZE
Offset(index) == index % TASK_QUEUE_CHUNK_SIZE

TaskCount(c) == c[1] * c[2] * c[3]

\* Mutant: the table's limit is tested for the first index only.
LaunchTestsFirst(count3d) ==
    LET base == nextTaskInfoIndex
        indices == base .. base + TaskCount(count3d) - 1
    IN
    /\ ~exited
    /\ nextTaskInfoIndex' = base + TaskCount(count3d)
    /\ taskInfo' = taskInfo \cup {Chunk(k) : k \in indices}
    /\ tasks' = tasks \cup {[index |-> k, taskIndex |-> k - base, taskCount3d |-> count3d]
                              : k \in indices}
    /\ exited' = (Chunk(base) = MAX_TASK_QUEUE_CHUNKS)

\* AllocTaskInfo: the caller gets the indices from the old value on.
AllocTaskInfo(count) == nextTaskInfoIndex' = nextTaskInfoIndex + count

\* GetTaskInfo for each of the indices in turn: a chunk is allocated when its
\* first TaskInfo is needed, and the process exits at the first index whose
\* chunk is MAX_TASK_QUEUE_CHUNKS.  The indices it returned for are found.
GetTaskInfos(indices, found) ==
    /\ found = {k \in indices : \A j \in indices : j <= k => Chunk(j) # MAX_TASK_QUEUE_CHUNKS}
    /\ taskInfo' = taskInfo \cup {Chunk(k) : k \in found}
    /\ exited' = (found # indices)

\* ISPCLaunch fills in a TaskInfo for each task.
ISPCLaunch(count3d) ==
    LET base == nextTaskInfoIndex
        indices == base .. base + TaskCount(count3d) - 1
    IN
    /\ ~exited
    /\ AllocTaskInfo(TaskCount(count3d))
    /\ \E found \in {base .. k : k \in base - 1 .. base + TaskCount(count3d) - 1} :
         /\ GetTaskInfos(indices, found)
         /\ tasks' = tasks \cup {[index |-> k, taskIndex |-> k - base, taskCount3d |-> count3d]
                                   : k \in found}

\* Reset, when the function has synced: the chunks are kept.
ResetTable ==
    /\ ~exited
    /\ nextTaskInfoIndex' = 0
    /\ tasks' = {}
    /\ UNCHANGED <<taskInfo, exited>>

TableNext == ResetTable \/ \E count3d \in Counts : ISPCLaunch(count3d)

TableSpec == TableInit /\ [][TableNext]_tableVars

\* The position of a task in the three-dimensional launch.
TaskIndex0(ti) == ti.taskIndex % ti.taskCount3d[1]

TaskIndex1(ti) == (ti.taskIndex \div ti.taskCount3d[1]) % ti.taskCount3d[2]
TaskIndex2(ti) == ti.taskIndex \div (ti.taskCount3d[1] * ti.taskCount3d[2])

(***************************************************************************)
(* Properties                                                              *)
(***************************************************************************)

\* The table is never indexed out of bounds, although GetTaskInfo tests only
\* for the chunk that is exactly one too far: a launch that starts below the
\* limit and ends far above it exits before it writes there.
TaskInfosInBounds ==
    /\ taskInfo \subseteq 0 .. MAX_TASK_QUEUE_CHUNKS - 1
    /\ \A ti \in tasks : Chunk(ti.index) \in taskInfo

\* The tasks of a function that have not been synced have TaskInfos of their
\* own, so no launch overwrites the arguments of an earlier one.
TaskInfosDistinct ==
    \A ti, tj \in tasks :
      Chunk(ti.index) = Chunk(tj.index) /\ Offset(ti.index) = Offset(tj.index) => ti = tj

\* The three indices of a task lie in the launch's ranges and determine its
\* taskIndex, so the tasks of a launch have different ones.
TaskIndicesAgree ==
    \A ti \in tasks :
      LET c == ti.taskCount3d IN
      /\ TaskIndex0(ti) \in 0 .. c[1] - 1
      /\ TaskIndex1(ti) \in 0 .. c[2] - 1
      /\ TaskIndex2(ti) \in 0 .. c[3] - 1
      /\ ti.taskIndex = TaskIndex0(ti) + c[1] * (TaskIndex1(ti) + c[2] * TaskIndex2(ti))

\* Every task has a TaskInfo of its own inside the table, from which it
\* computes its place in the launch.
TaskInfosSound == TaskInfosInBounds /\ TaskInfosDistinct /\ TaskIndicesAgree
==============================================================================
