# Verification of ISPC

This directory models and checks ISPC, the compiler and run-time library for
single-program multiple-data code: the CPU task system with its shared memory,
locks and worker threads; the code the compiler emits so that one program
counter and an execution mask run a function for a whole gang of program
instances; the front end's types, names, calls, expressions and initialisers;
the optimiser's memory passes; targets, dispatch and multi-target output; and
the two devices of the ISPCRT run time. Paths below are relative to the
repository's root. `PROJECT.json` maps every definition to its source lines.

## Inventory

| Component | State it keeps | Operations | Hard behaviour |
|---|---|---|---|
| Task system, pthreads (`ispcrt/detail/cpu/ispc_tasking.cpp` 542-829, 976-1017) | `activeTaskGroups`, `taskSysMutex`, `workerSemaphore`; per group `waitingTasks`, `inActiveList`, `numUnfinishedTasks`, `nextTaskInfoIndex` | `ISPCAlloc`, `ISPCLaunch`, `ISPCSync` by compiled code; `lTaskEntry` by workers | workers, application threads and nested syncs interleave; the counter is raised after the tasks are visible; waiting threads run other groups' tasks |
| Free list of task groups (943-972) | `freeTaskGroups[64]` | `AllocTaskGroup`, `FreeTaskGroup` | lock-free, compare-and-swap per slot |
| Initialisation (627-689) | `lock`, `threads`, mutex, semaphore | `InitTaskSystem` | double-checked test, spin lock, failures half way |
| Argument memory of a group (221-297) | `memBuffers`, `curMemBuffer`, `curMemBufferOffset` | `AllocMemory`, `Reset`, destructor | alignment, growth, reuse after `Reset` |
| TaskInfo table (144-160, 250-274) | `taskInfo[128]`, `nextTaskInfoIndex` | `AllocTaskInfo`, `GetTaskInfo` | limit of the table, reuse after `Reset` |
| Compiler: execution masks (`src/ctx.cpp`, `src/stmt.cpp`) | internal, full and function mask; break, continue and return lanes; control-flow stack | `if`, loops, `foreach_*`, `switch`, jumps in varying control flow | lanes leave and rejoin; coherent and mixed copies of the same statement |
| Compiler: functions and calls (`src/func.cpp`, `src/ctx.cpp`) | versions of a function, the mask each starts with, denormal flags | calls, calls through varying pointers, launches | one body emitted several times under other assumptions |
| Compiler: `foreach`, `foreach_tiled` (`src/stmt.cpp` 1475-2188) | counters, extras masks, varying indices | the blocks of the loop nest | ragged ends in any combination of dimensions |
| Compiler: types, declarations, overloads, templates (`src/type.cpp`, `src/decl.cpp`, `src/module.cpp`, `src/func.cpp`, `src/expr.cpp`) | symbols, instances, mangled names | declare, specialise, instantiate, resolve a call | any order of declarations; sums of conversion costs |
| Compiler: symbol table and globals (`src/sym.cpp`, `src/module.cpp`) | scopes, reused maps, LLVM globals | push, pop, add, look up | stale entries in reused maps; redeclarations |
| Compiler: expressions and initialisers (`src/expr.cpp`, `src/stmt.cpp`) | AST nodes | type check, optimise, emit | unmasked evaluation, folding, blends, short lists |
| Compiler: optimisation passes (`src/opt/`, `src/llvmutil.cpp`) | LLVM IR | rewrites of gathers and scatters | analyses through phis, narrow offsets |
| Compiler: targets, multi-target output, dispatch (`src/ispc.cpp`, `src/isa.h`, `src/module.cpp`, `builtins/dispatch.c`) | target, modules per target, cached ISA | resolve, compile, merge, select the best ISA | racing threads, order of ISAs, merged globals |
| Compiler library and JIT (`src/ispc_impl.cpp`) | global compiler state, engines | create, compile, look up, clear | global state shared by engines |
| ISPCRT API (`ispcrt/ispcrt.cpp`, `ispcrt.hpp`, `detail/IntrusivePtr.h`) and CPU device | reference counts | retain, release, every API call | lifetimes across objects |
| ISPCRT GPU device: queue (`detail/gpu/GPUDevice.cpp`) | three command lists, two queues, event pools, futures | copy, launch, barrier, sync | asynchronous engines ordered by events only |
| ISPCRT GPU device: memory | bulks, chunked pools, views, context | allocate, free in any order | failures half way, reused chunks |
| Other task systems (OpenMP, TBB, GCD, ConcRT, HPX) | handles of those libraries | same three entry points | scheduling is external; not modelled |
| Options, driver, preprocessing, parsing; standard library and builtins | - | text processing; pure functions | not modelled |

How they interact: a compiled ispc function keeps a handle, null at entry. For
each `launch` it calls `ISPCAlloc` (which gives it a task group if the handle is
null, after `InitTaskSystem`), stores the arguments and calls `ISPCLaunch`,
which fills in TaskInfos, queues them and wakes workers. A `sync` or a return
calls `ISPCSync`, which waits, helps by running tasks, and gives the group
back. A task is itself a compiled function and may launch and sync. Every
compiled function runs under the masks that `FunctionEmitContext` maintains;
`foreach` replaces them by its own. The front end turns source into typed
expressions whose code uses those masks; the memory passes rewrite the gathers
and scatters of that code; with several targets the functions are compiled once
per target and reached through dispatch functions. Applications reach compiled
code directly, through the JIT of an engine, or through ISPCRT, whose CPU device
runs kernels on the task system and whose GPU device records them into command
lists.

What makes each part correct:

- launch and sync: a sync is a barrier, every task runs once, no call hangs, a
  group is not used after it is given back, no wake-up is lost;
- the free list: a group has one owner, none is lost or used after `delete`;
- initialisation: once, before any use, and everyone gets through;
- a group's memory and table: blocks aligned, inside their buffer, disjoint;
  TaskInfos in bounds, distinct, with consistent indices;
- masks and calls: at each statement the lanes that are on are those whose own,
  serial execution is at that statement, in every version of a function, and
  no lane is left behind at the end;
- foreach: the body runs once for each element of the domain, and the loop ends;
- front end: lookups are lexical, a call is converted and is the best one,
  instances run the code written for them, names tell types apart, and the code
  of an expression or a declaration, folded or not, computes what it means;
- optimiser: what an analysis claims holds, and a rewritten access touches the
  same elements; the rewriting ends;
- targets: what is resolved is consistent, what is written is complete, and a
  dispatched call runs the best variant the machine can run;
- run-time objects: counts equal references; copies and kernels take effect in
  the order of the program; chunks are neither lost, shared nor free twice.

`PROJECT.json` lists the hazards at their lines.

## Modules

| Module | Models | Composition |
|---|---|---|
| `LaunchSync` | abstract: what launch and sync promise | |
| `TaskSystem` | Launch, Sync, worker loop, nested functions | implements `LaunchSync` |
| `TaskGroupPool` | AllocTaskGroup, FreeTaskGroup step by step | `TaskSystem` uses it as atomic |
| `TaskSystemInit` | InitTaskSystem and every thread's first launch | |
| `TaskGroupMemory`, `TaskInfoTable` | AllocMemory, Reset, destructor; AllocTaskInfo, GetTaskInfo, ISPCLaunch's loop, task indices | one group |
| `SpmdStatements`, `MaskedControlFlow` | the statements with the analyses the code generator relies on; the masks and the control-flow stack as the emitted code uses them | the second extends the first |
| `FunctionCalls` | the versions of a function, the masks of calls, calls through function pointers, launches and task entries | |
| `Foreach` | the loop nests of ForeachStmt::EmitCode and EmitCodeForXe | one statement of `MaskedControlFlow` |
| `Types`, `TypeConversion`, `FunctionOverloads` | types, variability, mangled names; conversions; declarations and overload resolution | each extends the one before |
| `FunctionTemplates` | a template from its declaration to code | |
| `ModuleSymbols` | scopes, lookup, redeclared globals | |
| `ExpressionTypes`, `ExpressionCode`, `ExpressionMeaning`, `Expressions` | type checking; emitted code; meaning for each program instance; building, checking, folding and running an expression | each extends the one before; on `TypeConversion` |
| `Initializers` | variables with initialisers of every form | extends `Expressions` |
| `VectorAnalysis`, `MemoryOps`, `GatherCoalesce` | analyses of vectors; the passes that rewrite gathers and scatters; coalescing of gathers | the second extends the first |
| `X86Isa`, `Dispatch` | detection of the ISA; dispatch functions and their caches | the second extends the first |
| `Targets`, `MultiTarget` | resolution of a target; compilation for several targets | on `X86Isa`, in this order |
| `Engine` | the compiler library's engines and globals | |
| `RuntimeObjects` | reference counts of both ISPCRT devices | |
| `GpuTaskQueue` | command lists, queues, events, futures | |
| `GpuMemory` | memory views, chunked pools, bulks, the context | |
| `MC_TaskSystem`, `MC_Memory`, `MC_Progress`, `MC_CodeGeneration`, `MC_Frontend`, and for the violation runs `MC_MaskedControlFlow`, `MC_FunctionCalls` | instances for TLC | extend the above |
| `TaskSystemProofs`, `TaskSystemRefinement` | theorems about `TaskSystem` | the second extends the first |
| `TaskGroupProofs`, `GpuMemoryProofs`, `GpuTaskQueueProofs`, `CompilerProofs`, `FunctionCallsProofs`, `ForeachProofs` | theorems about `TaskGroupMemory`, `TaskInfoTable`, `TaskGroupPool` and `TaskSystemInit`; `GpuMemory`; `GpuTaskQueue`; `Engine`, `ModuleSymbols`, `Dispatch`, `FunctionTemplates` and `MultiTarget`; `FunctionCalls`; `Foreach` | |

An MC module that instantiates several components explores them one at a time:
they share no state, and `part` (or "at rest" conditions) selects the one that
takes the steps of a behaviour, with the others in an initial state. This is a
union of specifications and not a product.

**TaskSystem.** `stack[t]` is the call stack of ispc functions of thread `t`. A
frame records which task it is (`group`, `num`), its handle `tg`, where in the
launch or sync code it is (`pc`), and the count `n` of the launch under way. The
other variables have the names they have in the code; `outstanding` is a history
variable (tasks launched and not finished), `launches` counts towards the bound
`MaxLaunches`. One action is one critical section under `taskSysMutex` or one
access to a shared variable outside it:

| Action | Code |
|---|---|
| `Call`, `ReturnToClient` | the application's call; the return after the sync |
| `ISPCAlloc` | `ISPCAlloc_cpu`: a group if the handle is null |
| `LaunchEnqueue`, `LaunchCount`, `LaunchPost` | `ISPCLaunch_cpu` and `Launch`: under the mutex; the atomic add; each `sem_post` |
| `ISPCSync`, `SyncTest`, `SyncTake`, `SyncFree` | `Sync`: loop test, critical section with its three cases, `FreeTaskGroup` with `Reset` |
| `FinishTask` | return of a task and the atomic decrement |
| `WorkerWake`, `WorkerTake` | `lTaskEntry`: `sem_wait`; critical section |

The sleep in `Sync` when there is nothing to run is the third case of
`SyncTake` (back to the test). Task functions are arbitrary: after any statement
they may launch, sync or return. Allocation and release of groups are atomic
here; `TaskGroupPool` shows that a group has one owner when functions do not
nest, and where the code departs from it when they do.

**TaskGroupPool.** `handles[t]` is the stack of groups held by the nested
functions of `t`. Each read of a slot and each compare-and-swap is an action; a
swap returns what the slot held, as the intrinsic does.

**TaskSystemInit.** Each read or write of shared state in `InitTaskSystem` is an
action; calls that can fail may end the process. `reserve(64)` is two steps (copy,
replace) since it runs without `taskSysMutex`, and `Launch` may happen between
them.

**TaskGroupMemory, TaskInfoTable.** Sequential: only the function that holds the
handle calls them. Buffers have a size and a base address; sizes and limits are
constants so that a small instance meets every limit. `AllocMemory`'s recursion
is a pending call that takes `Fits` or `Grow` steps.

**SpmdStatements, MaskedControlFlow.** A statement is a record with what the
compiler knows of it before it emits code (uniform or varying, contains a
varying `break` or `continue`, safe to run with the mask all off). `work` is the
code left to run; besides statements it holds the code that the end of each
construct emits, which, read from the front, is also the compiler's
`controlFlowInfo` stack. `internal`, `function`, `returned` are the masks of the
function; `ctx` holds the break and continue lanes and the entry mask of the
innermost loop, switch or foreach, saved and restored with the stack as
`popCFState` does. `kont[lane]` is not in the code: it is what the lane has left
to do if it ran the function by itself, and it advances only when the gang runs
the lane's next statement with the lane on.

| Action | Code |
|---|---|
| `ExprStep` | a statement without control flow |
| `UniformIf`, `VaryingIf`, `Else`, `EndIf` | `IfStmt::EmitCode`, `emitVaryingIf` with its flat, all-on and mixed forms; `EndIf` |
| `ForLoop`, `DoLoop`, `LoopNext`, `EndLoop` | `ForStmt::EmitCode`, `DoStmt::EmitCode`; continue target, step and test; `EndLoop` |
| `BreakJump`, `BreakMask`, `ContinueJump`, `ContinueMask` | the two ways of `Break` and `Continue` |
| `ReturnJump`, `ReturnMask` | `CurrentLanesReturned` |
| `Switch`, `Label`, `SwitchDone`, `EndSwitch` | `SwitchInst`, `EmitCaseLabel`, `EmitDefaultLabel`, `EndSwitch` |
| `ForeachLanes`, `CheckForMore` | `ForeachActiveStmt::EmitCode`, `ForeachUniqueStmt::EmitCode` |

The values of tests are arbitrary, for lanes that are off too. `cfor`, `cwhile`
and `cdo` run the code of the plain loops for a mask known to be all on and are
not told apart.

**FunctionCalls.** `frames` is the call stack of an application thread; a frame
of C++ code is at its bottom and wherever ispc code calls C++. Functions branch,
call and launch anything their source may name. `wants` is not in the code: the
instances that, for the source program, execute the function at this point.

**Foreach.** `block` is the basic block to run next. The counters, the mask of
each dimension and the flag `stepIndexAfterMaskedBody` have the code's names;
`done` (the elements processed so far) is not in the code. The body runs for the
lanes of the mask in one step. On Xe targets (`XeStart` to `XeBody`) each lane
has counters of its own (`varying`), and the hardware's execution mask, which the
code relies on, is modelled by what it does: a lane that fails a dimension's test
is off (`parked`) until all lanes that are on reach the same reset block.

**Front end.** `FunctionOverloads` declares functions of one name
(`Declare`, `RejectDeclaration`) and resolves calls (`CallFunction`);
`FunctionTemplates` declares, defines, specialises, instantiates and calls a
template in any order and then generates code; `ModuleSymbols` opens and closes
scopes (`PushScope`, `PopScope`, `PopInnerScopes`) around additions, with the
lexical environment as a history variable. `Expressions` builds an expression
from its leaves up, as the parser does; `Run` type checks it and runs the code
that `ExpressionCode` gives for it, before and after `Optimize`, next to what
`ExpressionMeaning` says each program instance computes. Memory is a row of
cells with gaps, so that a store to a wrong place shows. `Initializers` declares
a local, static or global variable in the same memory.

**Optimiser.** A value is a small tree of LLVM operations over vectors of
integers of two widths. `MemoryOps` takes one gather or scatter of a loop
through the passes in the order of `Optimize`, each pass an action that rewrites
the instruction, then runs the loop; what the instruction does is a function of
the loop's values, so the rewritten access can be compared with the source's at
each iteration. `GatherCoalesce` does the same for a block of gathers.

**Targets, MultiTarget, Dispatch, Engine.** `Targets` resolves a request (os,
architecture, cpu, target, host) into a target or a rejection. `MultiTarget`
compiles a file for the targets of a build in the code's order and merges their
globals. `Dispatch` has threads that call exported functions, each load and
store of a cache an action. `Engine` has the globals `g` that all engines share.

**RuntimeObjects, GpuTaskQueue, GpuMemory.** `RuntimeObjects` counts the
application's handles and the references objects hold to one another. A C++
handle is copied (`CopyHandle`), destroyed (`ReleaseHandle`) or assigned over, by
copy or by move (`AssignHandle`, `MoveHandle`). The assignments do not release
what the handle referred to; the history `lost` of an object counts the
references that were lost so. `ObjectsCounted` says that the counter of an object
is the number of its handles, of the objects that hold it and of these, so that
an object without any of the three is deleted.
In `GpuTaskQueue` `host` says what the host thread is doing, `queue[q]` what the
device still has to run; `Device` runs any submitted command that its wait events
and the barriers allow (Level Zero is external). In `GpuMemory` a chunk is a
record of size, bulk and index; any call of `zeMemAllocShared` may fail.

## Runs

All states within the bounds are explored.

| Run | Checks | Shows |
|---|---|---|
| `tasks_safety` | `TypeOK`, `SyncWaitsForAll`, `ResetAssertion`, `EveryTaskOnce`, `FreeGroupsUntouched`, `ActiveListExact`, `CounterExact`, `WakeupsSuffice` | one worker, two application threads, three launches of one or two tasks, nested or not: sync is a barrier, each task runs once, list, counters and semaphore agree with the tasks there are |
| `tasks_liveness` | `CallsReturn`, `ImplementsLaunchSync` | every call returns; each step is a step of `LaunchSync` |
| `memory` | `TypesOK`, `GroupsOwned`, `BlocksSound`, `TaskInfosSound`, `ObjectsCounted`, `ViewsSound` | who owns what: task groups on the free list, argument blocks, TaskInfos, reference-counted objects, chunks of the GPU's pool |
| `progress` | `TypesOK`, `InitSound`, `CommandsOrdered`, `EventsSound`, `IterationsExact`, `PartsEnd` | initialisation once and for all; GPU commands in the program's order, events and futures exact; foreach covers its domain once; all three end |
| `code_generation` | `MaskExact`, `NoLaneLeftBehind`, `CallsExact`, `ClaimsHold`, `AccessesSound`, `GathersKept`, `TargetsSound`, `OutputsSound`, `VariantRuns`, `EnginesSound`, `RewritesEnd` | masks, calls, memory passes, targets, multi-target output, dispatch, engines |
| `frontend` | `TypesOK`, `NamesTellTypesApart`, `CallsConvert`, `CallsRunTheirCode`, `NamesConsistent`, `CodeMeansSource`, `SafeWhenAllOff` | overloads, templates, scopes, expressions, initialisers |

Runs that show a disagreement between the code and what a document, comment or
assertion says of it (quoted in `PROJECT.json`, "findings"):

| Run | Property | What happens |
|---|---|---|
| `pool_nested` | `UniqueHandle` | `AllocTaskGroup` takes any non-null result of its compare-and-swap for success. Thread 1 reads group A in a slot; thread 2 takes A and frees another group B into the slot; thread 1's swap fails but returns B, which stays on the free list. Thread 2 needs two groups for this, hence nesting (or a third thread). |
| `init_race` | `LaunchedGroupsActive` | a thread that passes the unlocked test pushes a group while the other's `reserve` replaces the vector |
| `masks_break` | `MaskExact` | `for (varying) { if (varying) continue; if (uniform) break; }`: the lanes that did not continue break by a jump, and the lanes that continued, off at that moment, leave the loop with them |
| `foreach_unique_nan` | `FunctionReturns` | `foreach_unique` over floats: a NaN equals no lane's value, its lane stays among those that remain, the loop never ends |
| `dispatch_vnni` | `VariantRuns` | a build for AVX2VNNI and an older ISA is dispatched to AVX2VNNI on a Skylake server, which lacks AVX-VNNI: the enumerant's order is not one of capability |
| `task_mask` | `TaskLanesAsLaunched` | a task launched under a partial mask starts with all lanes on |

**Bounds.** `MaxLaunches = 3` with two application threads and one worker allows
a launch inside a task that a waiting thread runs, a second launch in the same
function before and after a sync, and three groups at once on the active list,
which makes `erase(find(...))` differ from `pop_back`. Two tasks per launch make
the counter negative, and a group stay on the list after a task was taken.

`memory`: one free-list slot makes both the empty and the full list happen, with
one thread losing each kind of race (two threads, `MaxDepth = 1`). A block fits,
needs a doubled buffer, and is larger than that, in up to two buffers. A launch
of twelve crosses the limit of sixteen TaskInfos from every fill level. Three
objects with two handles, lost ones included, form every chain of two references
and lose either end of it. Three views (a
symmetry set), chunks of two sizes and a request over the limit, two bulks of
each size and one failure: a bulk gets full, rotates in its list, and is reused.

`progress`: three threads initialise, so that two wait for the lock. Up to three
commands between syncs with two events per pool (events are reused, a pool runs
out), any number of syncs, one failed call, a counter that wraps after one tick;
one list, three lists on one queue, and a copy engine with a program that copies
in, launches and copies out. For `foreach`, ranges of 0 to 25 (one dimension),
0 to 9 (two) and 0 to 4 (three) elements with gangs of 8 and 16 give no, one and
several whole spans with every rest, tiled or not, and starts below zero;
those of gangs of 8 also as Xe code, in two dimensions with and without the
option that allows `foreach` in varying control flow.

`code_generation`: the grammar of masks has every pair of jumps in a loop, each
under none, one or two levels of uniform and varying ifs in the plain, flat and
coherent forms; loops in loops and in ifs; switches with fall through, with and
without `default` and mask checks; foreach_active and foreach_unique alone, in an
if, and in a loop that lanes leave. Only `continue` followed by a common `break`
is kept apart, in `masks_break`. Three lanes let one break, one continue and one
go on. A loop may iterate any number of times: the state after an iteration is
one seen before. Calls: a function of each kind, a gang of two, four frames, one
call or launch per body, the default options and their opposites. Accesses:
vectors of four, offsets of 6 and 8 bits (so that they wrap), three iterations,
every index of a family of leaves, sums, differences, multiples and soa slices.
Dispatch: all sets of one or two ISAs without AVX2VNNI and every machine, two
threads. Engines: one at a time of two.

`frontend`: two functions of the name at a time, each with one of some thirty
signatures; five template operations; two names and symbols in three scopes;
a gang of two, a variable of each kind and families of operators with 4 to 6
nodes. The constraint `Worthwhile` stops an expression that type checking
rejects or that cannot be completed within its nodes. Declarations are made with
all lanes on.

**Deadlock** is checked where the system must be able to go on. It is not in
`progress` and `frontend`, whose behaviours end (an exit, a destroyed queue,
a launched thread, generated code). In `memory` and `code_generation` ended
parts stutter explicitly (and so may the views, whose bulks are bounded), so that
any other state without a step is reported.

**Fairness.** `TaskSystem!FairSpec` has weak fairness of each thread's steps: the
operating system schedules every runnable thread. A thread waiting for
`taskSysMutex` is, in the model, a thread whose critical section is enabled, so
weak fairness also says that the mutex is granted in the end. The application is
not assumed to call anything. The bound on launches stands for the assumption
that ispc functions end. `MC_Progress!MCFairness` is the conjunction of the three
components' own: each thread of `TaskSystemInit` (the spin lock needs no more, as
each thread takes it at most once); the device and the host's return from its
wait, not the application's calls, for `GpuTaskQueue`; the single thread that
runs a loop for `Foreach`. `MaskedControlFlow!FairSpec` has weak fairness of
`Next`; `FunctionReturns` is checked only for functions without `for` and `do`,
whose tests may keep a loop going.

**Symmetry** (application threads and groups in `tasks_safety`, views in
`memory`, lanes in `code_generation`) is used in runs with invariants and
action properties only.

## Departures without a run

Met while modelling, where the code differs from what a document says or from
what its own neighbours assume; the runs keep away from them (by the instance's
inputs) and a definition in the module often states them:

- *Task system.* `launch[0]` puts a group without tasks on the active list (with
  0 in `Counts`, TLC finds `ResetAssertion` violated). A task that `Sync` runs
  gets `threadIndex` 0 like one that worker 0 runs, and worker tasks run without
  the denormal flags of the launcher. After `Reset` the group's buffers are
  allocated over the pointers of earlier ones, which leaks them.
- *ISPCRT.* A GPU sync waits for the kernels only through the copy queue when
  something was copied to the host (GPUDevice.cpp:1624, against
  docs/ispc_for_xe.rst:168; `ComputationCompleted`). A CPU task queue deletes its
  futures whatever their counts (CPUDevice.cpp:355-361, against
  docs/ispc_for_xe.rst:221-223). The assignment operators of the C++ handles do
  not release the object that the handle referred to (ispcrt.hpp:60-72, against
  the same lines), nor do they test for an assignment to itself: the object is
  never released. Such assignments are in the model, and `ObjectsCounted` counts
  the lost references (`lost`); without them it does not hold.
- *Engines.* With two engines at a time, the options of one are those of the
  other (ispc_impl.cpp:538-560); `EnginesSound` needs `MaxEngines = 1`.
- *Declarations.* An exported function may take a reference to varying data
  (type.cpp:2386, against docs/ispc.rst:7969; `ExportsTakeUniform`). Functions
  that differ only in what mangling drops share one LLVM function
  (module.cpp:1267-1274; `OwnLLVMFunction`). A specialisation may follow a use
  (module.cpp:1518-1523, against docs/ispc.rst:5288; `NoSpecializationAfterUse`).
  After `extern int x;` the code accepts `static int x = 1;`, with external
  linkage, and any number of definitions, of which the first initialises
  (module.cpp:773-805); so a redeclared const global may disagree with the value
  used before (`ConstantsAgree`). Equality of function types ignores
  `external_only` (type.cpp:3465).
- *Expressions.* A cheap right operand of `&&` is evaluated without a branch and
  its stores are not masked for the lanes that skip it (expr.cpp:2031, against
  docs/ispc.rst:4169). A variable assigned at the depth of varying control flow
  where it is declared is stored for all lanes (expr.cpp:1188), so that lanes that
  are off get values too, against docs/ispc.rst:2338-2342.
- *Initialisers.* The rest of a partly initialised uniform short vector with
  non-constant elements is undefined (expr.cpp:896); the only initialiser of its
  type in such a list is evaluated twice if it is converted (expr.cpp:961); initialisers of a vector are
  evaluated grouped by type. Fatal errors or invalid IR: a list or a varying value
  inside the list of a uniform short vector, a varying constant for a uniform
  aggregate, a list for a reference (stmt.cpp:157), a static variable whose
  initialiser cannot be converted (stmt.cpp:214). A row of a global array is
  taken for the array (expr.cpp:8404).
- *Optimiser.* Assumptions about phis leak between claims (`lAllDivBaseEqual`,
  llvmutil.cpp:891; `requiredAlignment` and `lVectorIsLinear`, llvmutil.cpp:1404);
  constants are taken out of a sum under a zero extension
  (ImproveMemoryOps.cpp:315); undefined elements of a mask count as either value;
  wide gathers read past what the program reads (GatherCoalescePass.cpp:680).
- *Targets.* A `--cpu` of another architecture than `--target` is accepted; a
  build for several targets checks for two of one ISA after their files were
  written; APX left enabled in variants is not part of the dispatch test
  (docs/ispc.rst:1441-1448).

## Proofs

Every theorem is for all values of the constants that its module's assumptions
allow, and TLC evaluates these assumptions in the runs.

| Theorem | Module | States |
|---|---|---|
| `TypeCorrect` | `TaskSystemProofs` | `TypeOK` always; in particular the semaphore never goes below zero |
| `SyncIsABarrier` | | `SyncWaitsForAll` |
| `ResetAssertionHolds` | | `ResetAssertion` |
| `TasksRunOnce` | | `EveryTaskOnce` |
| `NoUseAfterFree` | | `FreeGroupsUntouched` |
| `ActiveListIsExact` | | `ActiveListExact` |
| `CounterIsExact` | | `CounterExact` |
| `NoWakeupLost` | | `WakeupsSuffice` |
| `Refinement` | `TaskSystemRefinement` | `TaskSystem` implements `LaunchSync` |
| `BlocksAreSound` | `TaskGroupProofs` | `BlocksSound` |
| `TaskInfosAreSound` | | `TaskInfosSound` |
| `GroupsAreOwned` | | `GroupsOwned`, for two threads that do not nest (`NoThirdGroup`) |
| `SystemTypeCorrect`, `InitIsSound` | | `SystemTypeOK`; `InitSound` |
| `MemoryTypeCorrect`, `ViewsAreSound` | `GpuMemoryProofs` | `MemTypeOK`; `ViewsSound` |
| `QueueTypeCorrect`, `EventsAreSound` | `GpuTaskQueueProofs` | `GpuTypeOK`; `EventsSound`, on every device |
| `CommandsAreOrdered` | | `CommandsOrdered`, with a copy engine only for programs in phases (`Orderly`) |
| `EnginesAreSound` | `CompilerProofs` | `EnginesSound`, with one engine at a time |
| `NamesAreConsistent` | | `NamesConsistent`; after a first `extern` without one storage class and one definition |
| `BestVariantRuns` | | `VariantRuns`, with exact dispatch tests (`TestsExact`) |
| `TemplateCallsAreRight` | | `CallsRunTheirCode` |
| `OutputsAreSound` | | `OutputsSound` |
| `CallsAreExact` | `FunctionCallsProofs` | `CallsExact` |
| `LoopTypeCorrect`, `IterationsAreExact` | `ForeachProofs` | `LoopTypeOK`; `IterationsExact` |

**Task system** (any number of workers, application threads, groups, launches;
`TaskSystemAssumption`). All assume `0 \notin Counts`, that is no launch of zero
tasks, without which `ResetAssertion` does not hold. The argument is one
inductive invariant `Inv`, with a lemma per action. The properties are not
inductive by themselves. `SyncWaitsForAll` needs that the counter is right when
it is tested; that the counter plus the launch in progress equals the tasks there
are (`CountInv`) needs that only one function launches through a handle
(`HandleInv`) and that a decrement belongs to one unfinished task (`TaskInv`);
taking from the back of the active list is right because the list holds exactly
the groups with waiting tasks, each once (`ListInv`); and a function below the
top of a stack does not move while the ones above run (`StackInv`).
The lemmas at its start turn stacks into sets of activations and queues into sets
without repetitions, so that the action lemmas need no sequence reasoning.

`NoWakeupLost` compares sums over all groups and all threads. A sum is stated as
the cardinality of a set of tokens, so that a step changes it by adding or
removing the tokens of one group or thread (`MoreTokens`, `OneTokenLess`) and no
induction over the summands is needed. The strengthening is `Inv` itself,
with the finiteness of the tokens (`WakeInv`). The one step that uses a wake-up
without taking a task, a worker that finds the active list empty, is harmless
because the list is exact: then nothing waits (`NothingWaits`).

`TaskSystemRefinement` maps `waiting` and `running` to the contents of the queues
and stacks and shows for each action which step of `LaunchSync` it is.

**Initialisation** (any threads, any number of workers and of attempts to open
the semaphore; `InitAssumption`). `InitInv`: one thread at most is between the
compare-and-swap and the release (`LockInv`); while the lock is free everything
or nothing is initialised, and while it is held the label of its holder tells
what is (`StageInv`); what is usable stays usable, also when the process exits
(`UsableInv`). The double-checked test needs the last: a thread that skips the
lock relies on what the holder did before it set `threads`.

**Argument memory and TaskInfo table** (any sizes, alignments, base addresses,
limits and counts; `MemoryAssumption`, `TableAssumption`). `MemoryInv`: buffers
in use are on the heap and their identities are below the next one; the blocks of
the current buffer end before the offset, so that a new one is disjoint from
them; and a call that has grown the memory finds an empty buffer large enough, so
that it grows once. `TableInv`: indices of unsynced tasks are below
`nextTaskInfoIndex`, which stays within the table unless the process exits. That
the three task indices are the digits of the task number in the mixed base of the
launch's counts is arithmetic of division with remainder, in lemmas of its own.

**Free list of task groups** (any length of `freeTaskGroups[]`, any heap;
`PoolAssumption`, and `NoThirdGroup`: two threads, whose functions do not nest).
`AllocTaskGroup` returns whatever its compare-and-swap found, and takes it out of
the list only if it is the group it read. So what has to be shown is that a slot
never holds another group by then (`ReadGroupOrNull`). If the slot is empty, the
other thread took the group; it did so because all slots before were empty
(`ScanEmpty`: while both scan, nobody fills a slot), so it puts the group back
into the first slot, from where it takes it again: it never has another group to
put where the first thread looks. With a third group in play this fails, which
`pool_nested` shows. `PoolInv` adds that a group is in one slot or has one thread
(`GroupsApart`), and that these are the groups on the heap (`HeapExact`).

**GPU memory** (any finite set of views, any requests, all chunk sizes that the
environment variables admit - `MinPow2` and `MaxPow2` in 1..30, the code's own
test at GPUDevice.cpp:731-737 - and failures of any allocation;
`GpuMemoryAssumption`). `MemInv`: the list of a size has every bulk once, also
after bulks rotate in it (`ListInv`); in a bulk the free list, the chunks in use
and the part never used split its chunks (`BulksInv`); the chunks in use are the
ones `m_allocated` has (`UsedInv`); every one of these is the pointer of one
view (`OwnerInv`); the size of a view, which is all the destructor looks at,
tells rightly whether its memory is from the pool (`SizeInv`); and the reference
count of the context is the number of live views, and one for the application
(`RefInv`). Two facts need induction over data: that the rounding loop ends at a
power of two that is a chunk size, and which bulk the rotation ends with. Both
are got from a least element of a nonempty set of numbers (`LeastExists`, from
well-foundedness of `<`). The proof system knows no arithmetic of `2^i`;
`PowersOfTwo` states the three facts used, for exponents up to 30, and TLC
evaluates them.

**GPU task queue** (any configurations, pool sizes, width of the timestamps,
number of commands, syncs and failed calls; `GpuQueueAssumption`). `QueueInv` is
the invariant for `EventsSound`. Its parts: the indices of a pool are shared out
between its free list and the list of events in use, each once (`PoolsShared`;
the lemmas `IndexTaken`, `IndexRotated` and `AllFreed` say what one operation
does); a command that is recorded or submitted and has not run owns an entry of
the list of events in use, and its event is not signalled (`SignalsSound`), so
that the event which `getEvent` reuses because it is signalled, or takes because
it is free, is no other command's; a signalled event of the compute list has the
timestamps of its own kernel, whose difference is the kernel's time also across a
wrap (`Stamped`, `TimeFacts`); and where commands are by what the host does
(`Placed`), which is needed because with a copy engine `sync` may leave copies in
a queue, and may fail after it has set some of the futures. `CommandsOrdered`
does not hold with a copy engine for a program that copies and launches in any
order, because `sync` then waits for one of the two queues and the other may still
run: `CommandsAreOrdered` assumes `Orderly`, that a device with a copy engine is
given programs in phases (copy in, launch, copy out).
Its invariant `OrderInv` adds to `QueueInv` that numbers grow with recording
(`Numbered`), that a kernel waits for the events of all copies with smaller
numbers and a copy to the host for those of all kernels with smaller numbers
(`WaitsRecorded`), and that in `sync` what has run has found its events signalled
(`Submission`): a command that is still queued has an event that is not
signalled, so no one that waits for it has run. `SyncIdle` is the heart of the
rest: the one queue that `sync` waits for is enough, by cases of `SyncQueue`.
From it follows that `sync` never fails on these devices, and that the next batch
starts on an idle device, which makes the argument inductive.

**Engines** (any finite set of engines, command lines and runtime functions, with
`MaxEngines = 1`: with two engines the property does not hold, as said above).
`OwnGlobals`: while an engine lives, the compiler's globals have its options, a
target that is unset or its own, and the context of its JIT modules; nothing
replaces them before the engine is destroyed.

**Symbol table** (any names, types, initialisers, scopes and symbols; no
assumption). `ScopesInv`: every map belongs to one open scope or is free, once
(`MapsApart`), so that an addition to a scope, or the clearing of a map for a new
one, changes no other scope; then the maps hold what the scopes declare.
`GlobalsInv`: the LLVM variables are what the outermost scope declares, and for
each `GlobalKnown`: its symbol has the type of every declaration and the storage
class of the first, it has an initializer if it was defined, internal linkage if
the first was static, and the constant of a variable defined once. A declaration
after one that is not extern is always an error, so that such a variable has one
declaration; after an extern one the code accepts static declarations, which
leave the linkage external, and further definitions, whose initializers are
dropped while the constant is the last. After an extern declaration
the theorem claims only the common type, external linkage, and that the variable
has an initializer exactly if it was defined. The invariant needs `ScopesInv`, since
`AddGlobalVariable` finds an earlier declaration by a lookup. A map that was
freed may hold anything: that it is cleared when it is used again is enough.

**Dispatch** (any threads, exported functions, machines and sets of variants for
which `TestsExact` holds). `TestsExact` says that the test of a candidate tells
whether the machine can run the variant. It is about tables, of processors and
of enumerants, and TLC evaluates it, as an assumption of `MC_CodeGeneration`, for
every machine of `Machines` and, without APX, every ISA but AVX2VNNI, for which it is false
(`dispatch_vnni`). What is left to prove is the concurrency: `DispatchInv` says
that what the caches hold is empty or depends on the machine and the variants
alone (`CachesInv`), so that it does not matter which of several threads that
find them empty writes last, and what each thread knows by where it is
(`CallerOK`).

**Function templates** (any argument lists, any number and order of declarations,
definitions, instantiations, specializations and calls; no assumption).
`TemplateInv`: every symbol is that of an instantiation (`SymbolsUsed`); an
instantiation in the list of a definition has a symbol for its arguments, with a
body of this definition or a specialization's (`InstantiationsFit`); and the
symbol of a call is in the list of the definition that the call saw (`UsesFit`).
A call may have bound the template before a specialization for its arguments is
declared, or the definition may have been replaced since; then two instantiations
have one LLVM function. `GenerateIR` reports an error for the second one, so in a
program that compiles no two have the same function (`GenerateStep`): the
function that a call names has the body of its symbol, and no specialization for
its arguments exists beside it.

**Compilations for several targets** (any builds of x86 targets;
`BuildsAssumption`: a build has a target, and the globals of its sources are among
`Globals`). `BuildInv` follows the steps of the compilation. The target of a module
is a function of the arguments alone (`TargetOf`), which is why the observers
`g->target` and `m` do not matter to what is compiled. Each module that is done has
the globals of its source back (`Compiled`), although its own file was written
without them, and its file is there, or one that has the same name (`Written`):
`avx1-i32x4` and `avx1-i32x8` have one. `lCheckAndFillISAIndices` lets only
targets through whose ISAs, and therefore whose names, differ (`Distinct`,
`NamesDiffer`; `sse41` and `sse42` are one), so no file was written over another.
`Extracted`: the dispatch module has the globals of the first target, to which later
targets may add none, each with an alignment that suffices for the targets so far
and with a warning if one of them lays it out differently. That there is one file
for each target and one more (`FilesCounted`) follows from the names by a bijection.

**Function calls** (any gang that is not empty, functions, settings and depth of
the call stack; `CallAssumption`: what the declaration of a function may combine,
as `decl.cpp` refuses the rest). `CallInv` is said of the stack of frames, so
that each step is a change of its top (`FrameStep`), a frame more (`EnterStep`)
or one less (`LeaveStep`). Of a frame of ispc code (`CodeOK`): its version is
emitted, its function mask is the set of instances that the source asks it to run
for, and these, cut down by the `if`s around, are the lanes that are on outside a
varying call. While a varying call goes on, the lanes that have called have
the value of their function, and no lane still to call has the same function
(`CallOK`), which is why calling every lane with the first one's function calls
each lane once. A frame that waits has above it the function it called, run for
at least the lanes of the call (`Serves`), so that the value it returns is right
for each of them. Of the flags (`FlagsOK`): the first version on the stack that
saves them saved the application's and set them, every other one saved set flags.

**Foreach** (widths 1, 2, 4 to 64, any number of dimensions, any integer ranges
with start at most end, tiled or not, CPU and Xe; `DomainsAssumption`). The
counters point at a vector: a box whose sides are the spans. That the lanes of a
vector are the elements of this box, each once, is number theory and comes first:
the product of the spans is the width (`SpanFacts`), because a span that
`lGetSpans` chooses divides what is left of the width (`SpanDivides`; a logarithm
is here the number of powers of two above 1 up to a width), and a lane's offsets
are its digits in the mixed base of the spans. `Before` and `Through` are the elements that come before
the vector at the counters, and before or in it, when only the dimensions up to
the i-th count. `LoopInv` gives, for each block, what has been done as one of the
two: the test of a dimension finds `Before`, its step `Through`, its reset
`Through` of the dimension around it. It adds what the code keeps beside the
counters: the outer masks are the lanes that pass the tests so far and the flags
tell whether one of the dimensions so far is ragged (`Outer`), which is why the
full body needs no mask (`AtFullBody`), and why after the masked body either the
counter goes on by a span, in a row of an outer ragged end, or the dimension is
through (`AtMaskedBody`). On Xe there is no common counter, so the invariant has
one behind an existential quantifier (`XeInv`): the lanes that are on have it, plus
their offset; those parked in a dimension passed the tests of the dimensions
around and failed its own (`ParkedUpTo`), and their inner counters are at the
start again (`LaneCounters`), so they join without being set.

**Only model-checked.**

- Liveness (`CallsReturn`, `PartsEnd`): outside what the proof system handles.
- Modules with RECURSIVE operators, where it has no SMT backend:
  `ObjectsCounted`; `NamesTellTypesApart`, `CallsConvert`; `CodeMeansSource`,
  `SafeWhenAllOff`; `ClaimsHold`, `AccessesSound`, `GathersKept`, `RewritesEnd`.
  Types, expressions, initialisers and values are trees, and what is said of them
  is about recursive functions over all trees.
- `MaskExact`, which holds for the programs of the run and not for all, because
  the code departs from it for the form of `masks_break`.
- `NoLaneLeftBehind`, `TargetsSound`: not proved.

## Not modelled

The task systems that hand tasks to OpenMP, TBB, GCD, ConcRT or HPX (the
scheduling is theirs); the `ISPC_IS_WINDOWS` and fully subscribed variants (the
latter does not compile); weak memory (compare-and-swap, atomic add and the mutex
are full barriers on the platforms supported, but plain reads of `threads` and
`numUnfinishedTasks` are modelled as sequentially consistent); `goto`, `unmasked`
and the Xe targets' hardware mask outside `foreach`; the 32-bit width of `foreach` counters, and
reversed ranges, which the language excludes; the emission order of launch, sync
and return; arguments and results of calls (their masks are modelled); `new`,
`alloca`, floating-point values and operator overloads in expressions; SOA types
in initialisers; the passes that need a semantics of whole functions; headers,
object files and targets other than x86 beyond their tables; the driver, the
preprocessor and the parser (text), and the standard library and target builtins
(pure functions over vectors).

## What is left

1. `NoLaneLeftBehind` for every program of `MaskedControlFlow`; the lead is that a
   lane that left a construct is in one of the sets that its end puts back.
2. `TargetsSound`, by cases of the ISA.
3. The properties of expressions, types and values, with recursion stated by
   functions on indexed nodes in place of RECURSIVE operators.
4. In the models: the expressions and statements listed above as left out.
