--------------------------- MODULE RuntimeObjects ---------------------------
(***************************************************************************)
(* Reference counting of ISPCRT objects: RefCounted (IntrusivePtr.h), the  *)
(* handles of the C++ API (GenericObject, ispcrt.hpp), ispcrtRetain and    *)
(* ispcrtRelease, and the objects that hold references to others in the    *)
(* CPU device and in the GPU device.  A task queue holds its futures, a    *)
(* command list its futures and fences, a command queue its command lists, *)
(* a kernel its module.  The handle that an assignment overwrites is not   *)
(* released: the object's lost counts such handles.                        *)
(***************************************************************************)
EXTENDS Integers, FiniteSets, TLC

CONSTANTS
    Objects,        \* identities of objects
    Programs,       \* see Program
    MaxHandles      \* bound: handles of the application to an object, with lost ones

\* The device, and whether the application releases the futures of a task
\* queue before the queue.
Program == [device : {"cpu", "gpu"}, futuresFirst : BOOLEAN]

Kinds == {"TaskQueue", "CommandQueue", "CommandList", "Module", "Kernel", "Future", "Fence"}

VARIABLES
    program,
    object,     \* object[o]: kind, reference counter and objects held of live
                \* object o; history: its handles lost in assignments
    app,        \* app[o]: handles that the application has to o
    misused     \* a counter of a deleted object was touched

objVars == <<program, object, app, misused>>

ObjTypeOK ==
    /\ program \in Programs
    /\ DOMAIN object \subseteq Objects
    /\ \A o \in DOMAIN object :
         /\ object[o].kind \in Kinds
         /\ object[o].refs \in 1 .. MaxHandles + Cardinality(Objects)
         /\ object[o].holds \subseteq Objects
         /\ object[o].lost \in 0 .. MaxHandles
    /\ app \in [Objects -> 0 .. MaxHandles]
    /\ misused \in BOOLEAN

ObjInit ==
    /\ program \in Programs
    /\ object = <<>>
    /\ app = [o \in Objects |-> 0]
    /\ misused = FALSE

-----------------------------------------------------------------------------

\* Mutant: a queue's destructor does not release what it holds.
DeleteKeepsHeld(obj, o) == {}

\* Objects that the destructor of o deletes whatever their counter
\* (~TaskQueue of the CPU device), and objects whose counter it decrements.
Deletes(obj, o) ==
    IF program.device = "cpu" /\ obj[o].kind = "TaskQueue" THEN obj[o].holds ELSE {}
DecrementedBy(obj, o) == obj[o].holds \ Deletes(obj, o)

\* The objects after refDec of each of set S, with what their destructors do.
RECURSIVE RefDec(_, _)
RefDec(obj, S) ==
    IF S = {} THEN obj
    ELSE LET o == CHOOSE x \in S : TRUE
             rest == S \ {o}
         IN IF o \notin DOMAIN obj THEN RefDec(obj, rest)
            ELSE IF obj[o].refs > 1 THEN RefDec([obj EXCEPT ![o].refs = @ - 1], rest)
            ELSE LET held == DecrementedBy(obj, o)
                     gone == {o} \cup Deletes(obj, o)
                     left == [p \in DOMAIN obj \ gone |-> obj[p]]
                 IN RefDec(RefDec(left, held), rest)

Fresh == {o \in Objects : o \notin DOMAIN object /\ app[o] = 0}

\* A new object starts with one reference, which its maker has.
Create(o, kind, refs, holds) == o :> [kind |-> kind, refs |-> refs, holds |-> holds, lost |-> 0]

Usable(o, kind) == o \in DOMAIN object /\ app[o] > 0 /\ object[o].kind = kind

\* ispcrtNewTaskQueue, ispcrtNewCommandQueue, ispcrtLoadModule: the handle
\* takes over the reference.
NewObject(o, kind) ==
    /\ kind \in {"TaskQueue", "CommandQueue", "Module"}
    /\ object' = Create(o, kind, 1, {}) @@ object
    /\ app' = [app EXCEPT ![o] = 1]
    /\ UNCHANGED <<program, misused>>

\* ispcrtNewKernel: the kernel retains its module.
NewKernel(o, m) ==
    /\ Usable(m, "Module")
    /\ object' = Create(o, "Kernel", 1, {m}) @@ [object EXCEPT ![m].refs = @ + 1]
    /\ app' = [app EXCEPT ![o] = 1]
    /\ UNCHANGED <<program, misused>>

\* The owner keeps the reference of a new object, and the C++ handle that the
\* application gets retains it.
Hand(o, kind, owner) ==
    /\ object' = Create(o, kind, 2, {}) @@ [object EXCEPT ![owner].holds = @ \cup {o}]
    /\ app' = [app EXCEPT ![o] = 1]
    /\ UNCHANGED <<program, misused>>

CreateCommandList(o, q) == Usable(q, "CommandQueue") /\ Hand(o, "CommandList", q)

\* Copies and launches of a command list, and its submission.
RecordCommand(o, l) == Usable(l, "CommandList") /\ Hand(o, "Future", l)
SubmitList(o, l) == Usable(l, "CommandList") /\ Hand(o, "Fence", l)

LaunchKernel(o, q) == Usable(q, "TaskQueue") /\ Hand(o, "Future", q)

\* The owner gives up what it holds: reset of a command list, and sync of a
\* task queue of the GPU device.
LetGo(owner) == RefDec([object EXCEPT ![owner].holds = {}], object[owner].holds)

ResetList(l) ==
    /\ Usable(l, "CommandList")
    /\ object' = LetGo(l)
    /\ UNCHANGED <<program, app, misused>>

SyncTaskQueue(q) ==
    /\ Usable(q, "TaskQueue")
    /\ object' = IF program.device = "gpu" THEN LetGo(q) ELSE object
    /\ UNCHANGED <<program, app, misused>>

\* refInc.
Retained(o) == IF o \in DOMAIN object THEN [object EXCEPT ![o].refs = @ + 1] ELSE object

\* A handle to p is overwritten; its reference is not released.
Overwritten(obj, p) == IF p \in DOMAIN obj THEN [obj EXCEPT ![p].lost = @ + 1] ELSE obj

\* One more handle to o is within the bound.
MoreHandles(o) == app[o] > 0 /\ app[o] + (IF o \in DOMAIN object THEN object[o].lost ELSE 0) < MaxHandles

\* A handle is copied: the copy constructor retains.  The move constructor
\* takes the reference over, and there are as many handles as before.
CopyHandle(o) ==
    /\ MoreHandles(o)
    /\ object' = Retained(o)
    /\ misused' = (misused \/ o \notin DOMAIN object)
    /\ app' = [app EXCEPT ![o] = @ + 1]
    /\ UNCHANGED program

\* Copy assignment of a handle to o over a handle to p, which may be the same.
AssignHandle(o, p) ==
    /\ MoreHandles(o) /\ app[p] > 0
    /\ {o, p} \subseteq DOMAIN object => object[o].kind = object[p].kind
    /\ object' = Overwritten(Retained(o), p)
    /\ misused' = (misused \/ o \notin DOMAIN object)
    /\ app' = [[app EXCEPT ![o] = @ + 1] EXCEPT ![p] = @ - 1]
    /\ UNCHANGED program

\* Move assignment over a handle to p; the handle that is moved may be empty.
MoveHandle(p) ==
    /\ app[p] > 0
    /\ object' = Overwritten(object, p)
    /\ app' = [app EXCEPT ![p] = @ - 1]
    /\ UNCHANGED <<program, misused>>

\* A program that releases futures first does not release a queue before them.
MayRelease(o) ==
    program.futuresFirst /\ o \in DOMAIN object /\ object[o].kind = "TaskQueue"
        => \A f \in object[o].holds : app[f] = 0

\* ispcrtRelease: a handle is destroyed.
ReleaseHandle(o) ==
    /\ app[o] > 0 /\ MayRelease(o)
    /\ object' = RefDec(object, {o})
    /\ misused' = (misused \/ o \notin DOMAIN object)
    /\ app' = [app EXCEPT ![o] = @ - 1]
    /\ UNCHANGED program

ObjNext ==
    \/ \E o \in Fresh :
         \/ \E kind \in Kinds : NewObject(o, kind)
         \/ \E p \in Objects :
              \/ NewKernel(o, p) \/ CreateCommandList(o, p) \/ RecordCommand(o, p)
              \/ SubmitList(o, p) \/ LaunchKernel(o, p)
    \/ \E o \in Objects :
         \/ ResetList(o) \/ SyncTaskQueue(o) \/ CopyHandle(o) \/ MoveHandle(o) \/ ReleaseHandle(o)
         \/ \E p \in Objects : AssignHandle(o, p)

ObjSpec == ObjInit /\ [][ObjNext]_objVars

-----------------------------------------------------------------------------
(***************************************************************************)
(* Properties                                                              *)
(***************************************************************************)

\* Every object that the application, or a live object, has a handle to is
\* alive, and no counter of a deleted object is touched
\* (docs/ispc_for_xe.rst: "The objects will be released once they are not
\* used").
HandlesLive ==
    /\ ~misused
    /\ \A o \in Objects : app[o] > 0 => o \in DOMAIN object
    /\ \A o \in DOMAIN object : object[o].holds \subseteq DOMAIN object

\* The counter of a live object is the number of its holders and of the
\* handles to it that were assigned over: an object that nobody holds, and
\* nobody lost, is deleted, with everything that only it held.
CountsExact ==
    \A o \in DOMAIN object :
        /\ object[o].refs = app[o] + object[o].lost
                               + Cardinality({p \in DOMAIN object : o \in object[p].holds})
        /\ object[o].refs > 0

\* Objects live exactly as long as somebody has a handle to them or had one
\* that an assignment lost (ispcrt.hpp:60-72): such an object is never released
\* by counting, however many of its other handles are.
ObjectsCounted == HandlesLive /\ CountsExact
=============================================================================
