---------------------------- MODULE GpuTaskQueue ----------------------------
(***************************************************************************)
(* The task queue of the ISPCRT GPU device (TaskQueue, CommandList,        *)
(* EventPool, Event and Future of GPUDevice.cpp).  One host thread records *)
(* commands into three command lists (copies to the device, kernels,       *)
(* copies to the host), orders them with events, and submits them all in   *)
(* sync(), which waits for the device and then reads the kernels' times.   *)
(*                                                                         *)
(* The device (Level Zero) is external.  Commands run in any order that    *)
(* their wait events and the list's barriers allow: the runtime asks for   *)
(* nothing more (asynchronous queues, no in-order flag).                   *)
(***************************************************************************)
EXTENDS Integers, Sequences, FiniteSets, SequencesExt

CONSTANTS
    Configs,        \* configurations: see Config
    PoolSize,       \* PoolSize[p]: events of pool p (m_poolSize)
    TimestampMax,   \* m_timestampMaxValue
    MaxCommands,    \* bound: commands recorded between two syncs
    MaxFailures     \* bound: Level Zero calls that fail

\* engine: the device has a copy engine, so that copies have a queue of their
\* own (useCopyEngine); multi: copies have command lists of their own; phased:
\* the host's program between two syncs copies to the device, then launches,
\* then copies to the host.
Config == [engine : BOOLEAN, multi : BOOLEAN, phased : BOOLEAN]

Pools == {"compute", "copy"}
Lists == {"h2d", "compute", "d2h"}

ASSUME GpuQueueAssumption ==
    /\ Configs \subseteq Config
    /\ \A c \in Configs : c.engine => c.multi
    /\ PoolSize \in [Pools -> Nat]
    /\ TimestampMax \in Nat /\ MaxCommands \in Nat /\ MaxFailures \in Nat

VARIABLES
    config,
    list,           \* list[l]: the CommandList that m_cl_* points to
    freeList,       \* freeList[p]: m_freeList of event pool p
    events_pool,    \* m_events_pool of the copy pool
    events_compute_list,    \* m_events_compute_list: events, each with its future
    future,         \* future[k]: the Future of kernel or copy k
    host,           \* what the host is doing
    queue,          \* queue[q]: commands submitted to queue q and not run
    signalled,      \* events that are signalled
    stamp,          \* stamp[e]: kernelStart and kernelEnd of event e's kernel
    taken,          \* history: taken[k]: how long kernel k ran
    clock,          \* the device's timestamp counter
    ran,            \* commands that the device has run since the last sync
    next,           \* number of the next command; numbers restart after a sync
    failures        \* calls that failed

hostVars == <<list, freeList, events_pool, events_compute_list, future, host, next, failures>>
deviceVars == <<queue, signalled, stamp, taken, clock, ran>>
gpuVars == <<config, hostVars, deviceVars>>

Ids == 1 .. MaxCommands
Events == UNION {{p} \X (1 .. PoolSize[p]) : p \in Pools}
NoEvent == <<"none", 0>>
Ticks == 0 .. TimestampMax

\* waits: wait events; signal: the event the command signals; after: commands
\* that a barrier of the list orders before it.
Command == [id : Ids, kind : {"h2d", "d2h", "kernel", "copy"}, waits : SUBSET Events,
            signal : Events \cup {NoEvent}, after : SUBSET Ids]

Future == [valid : BOOLEAN, time : Int]

\* "failed": sync threw; "destroyed": the queue is gone.
PCs == {"record", "sync", "read", "failed", "destroyed"}

GpuTypeOK ==
    /\ config \in Configs
    /\ \A l \in Lists :
         /\ list[l].cmds \subseteq Command
         /\ list[l].floor \subseteq Ids
         /\ ToSet(list[l].events) \subseteq Events
         /\ list[l].submitted \in BOOLEAN
    /\ \A p \in Pools : ToSet(freeList[p]) \subseteq 1 .. PoolSize[p]
    /\ ToSet(events_pool) \subseteq Events
    /\ \A k \in DOMAIN events_compute_list : events_compute_list[k] \in Events \X Ids
    /\ \A k \in DOMAIN future : k \in Ids /\ future[k] \in Future
    /\ host \in PCs
    /\ \A q \in Pools : queue[q] \subseteq Command
    /\ signalled \subseteq Events /\ ran \subseteq Command
    /\ clock \in Ticks
    /\ next \in 1 .. MaxCommands + 1
    /\ failures \in 0 .. MaxFailures

\* The list that m_cl_mem_h2d, m_cl_compute or m_cl_mem_d2h points to, and the
\* queue that it is submitted to.
CL(l) == IF config.multi THEN l ELSE "compute"
Q(l) == IF config.engine /\ l # "compute" THEN "copy" ELSE "compute"

EmptyList == [cmds |-> {}, floor |-> {}, events |-> <<>>, submitted |-> FALSE]

GpuInit ==
    /\ config \in Configs
    /\ list = [l \in Lists |-> EmptyList]
    /\ freeList = [p \in Pools |-> [i \in 1 .. PoolSize[p] |-> i]]
    /\ events_pool = <<>> /\ events_compute_list = <<>>
    /\ future = <<>>
    /\ host = "record"
    /\ queue = [q \in Pools |-> {}]
    /\ signalled = {} /\ stamp = <<>> /\ taken = <<>>
    /\ clock \in Ticks
    /\ ran = {} /\ next = 1 /\ failures = 0

-----------------------------------------------------------------------------
(***************************************************************************)
(* Command lists                                                           *)
(***************************************************************************)

\* Mutant: a command waits for the event that it signals, too.
RecordWaitingForItself(l, kind, waits, signal, events) ==
    [list EXCEPT ![CL(l)] =
        [cmds |-> @.cmds \cup {[id |-> next, kind |-> kind, waits |-> waits \cup ({signal} \ {NoEvent}),
                                signal |-> signal, after |-> @.floor]},
         floor |-> @.floor, events |-> @.events \o events, submitted |-> FALSE]]

\* zeCommandListAppend..., inc() and, for each of events, addEvent().
Record(l, kind, waits, signal, events) ==
    [list EXCEPT ![CL(l)] =
        [cmds |-> @.cmds \cup {[id |-> next, kind |-> kind, waits |-> waits,
                                signal |-> signal, after |-> @.floor]},
         floor |-> @.floor, events |-> @.events \o events, submitted |-> FALSE]]

Count(l) == Cardinality(list[CL(l)].cmds)

\* reset() of every list: an empty list is only cleared, so that a barrier
\* stays in it.
ResetLists == [l \in Lists |-> IF list[l].cmds # {} THEN EmptyList
                               ELSE [EmptyList EXCEPT !.floor = list[l].floor]]

\* submit() of every list: a list is executed if it has commands.
Submitted(l) == ~list[CL(l)].submitted /\ list[CL(l)].cmds # {}
SubmitQueues ==
    [q \in Pools |-> queue[q] \cup UNION {list[CL(l)].cmds : l \in {m \in Lists : Q(m) = q /\ Submitted(m)}}]
SubmitLists == [l \in Lists |-> [list[l] EXCEPT !.submitted = list[l].cmds # {}]]

\* f with the value v for k.
Extended(f, k, v) == [x \in DOMAIN f \cup {k} |-> IF x = k THEN v ELSE f[x]]

-----------------------------------------------------------------------------
(***************************************************************************)
(* Event pools                                                             *)
(***************************************************************************)

\* Mutant: an event is reused without resetEvent().
GetEventStale(event) == signalled' = signalled

\* The first event of m_events_pool that isReady(), or the next free one.
ReadyEvents == {i \in DOMAIN events_pool : events_pool[i] \in signalled}
GetEventAvailable == ReadyEvents # {} \/ freeList["copy"] # <<>>
GetEvent == IF ReadyEvents # {} THEN events_pool[Min(ReadyEvents)] ELSE <<"copy", Head(freeList["copy"])>>

\* resetEvent(), or zeEventCreate for a new one: the event is not signalled.
GetEventReset(event) == signalled' = signalled \ {event}

\* createEvent: pop_front of m_freeList.
CreateEvent == <<"compute", Head(freeList["compute"])>>
PopEvent(p) == freeList' = [freeList EXCEPT ![p] = Tail(@)]

\* Mutant: the index after the event's is put back.
ShiftEvents(free, events) == free \o [i \in DOMAIN events |-> events[i][2] + 1]

\* deleteEvent: push_back of the index.
DeleteEvents(free, events) == free \o [i \in DOMAIN events |-> events[i][2]]

-----------------------------------------------------------------------------
(***************************************************************************)
(* Recording of commands                                                   *)
(***************************************************************************)
Recording == host = "record" /\ next <= MaxCommands

\* A phased program records no command of an earlier phase, and only launches
\* between the copies.
InPhase(kind) ==
    config.phased =>
        CASE kind = "h2d" -> Count("compute") = 0 /\ Count("d2h") = 0
          [] kind = "kernel" -> Count("d2h") = 0
          [] kind = "copy" -> FALSE
          [] OTHER -> TRUE

\* Waits for the kernels and copies recorded so far.
CopyToHost ==
    /\ Recording /\ InPhase("d2h")
    /\ LET waits == {p[1] : p \in ToSet(events_compute_list)} IN
         list' = Record("d2h", "d2h", waits, NoEvent, <<>>)
    /\ next' = next + 1
    /\ UNCHANGED <<config, freeList, events_pool, events_compute_list, future, host, failures,
                   deviceVars>>

\* getEvent takes an event and keeps it in m_events_pool, also when the copy
\* cannot be recorded and the call throws.
CopyToDevice(fails) ==
    /\ Recording /\ InPhase("h2d") /\ GetEventAvailable
    /\ fails => failures < MaxFailures
    /\ LET event == GetEvent IN
         /\ GetEventReset(event)
         /\ IF ReadyEvents # {}
              THEN UNCHANGED <<freeList, events_pool>>
              ELSE PopEvent("copy") /\ events_pool' = Append(events_pool, event)
         /\ IF fails
              THEN failures' = failures + 1 /\ UNCHANGED <<list, next>>
              ELSE /\ list' = Record("h2d", "h2d", {}, event, <<event>>)
                   /\ next' = next + 1
                   /\ UNCHANGED failures
    /\ UNCHANGED <<config, events_compute_list, future, host, queue, stamp, taken, clock, ran>>

\* createEvent, then the append: if it fails, deleteEvent and rethrow.
RecordCompute(kind, waits, fails) ==
    /\ Recording /\ InPhase(kind) /\ freeList["compute"] # <<>>
    /\ LET event == CreateEvent
           free == Tail(freeList["compute"])
       IN
       IF fails
       THEN /\ failures < MaxFailures /\ failures' = failures + 1
            /\ freeList' = [freeList EXCEPT !["compute"] = DeleteEvents(free, <<event>>)]
            /\ UNCHANGED <<list, events_compute_list, future, next, signalled>>
       ELSE /\ freeList' = [freeList EXCEPT !["compute"] = free]
            /\ signalled' = signalled \ {event}
            /\ list' = Record("compute", kind, waits, event, <<>>)
            /\ events_compute_list' = Append(events_compute_list, <<event, next>>)
            /\ future' = Extended(future, next, [valid |-> FALSE, time |-> 0])
            /\ next' = next + 1
            /\ UNCHANGED failures
    /\ UNCHANGED <<config, events_pool, host, queue, stamp, taken, clock, ran>>

\* Mutant: the kernel waits for the last copy only.
LaunchWaitsForLast(fails) ==
    LET events == list[CL("h2d")].events IN
    RecordCompute("kernel", IF events = <<>> THEN {} ELSE {Last(events)}, fails)

\* A kernel waits for every copy recorded in the list of copies to the device.
Launch(fails) == RecordCompute("kernel", ToSet(list[CL("h2d")].events), fails)

CopyMemoryView(fails) == RecordCompute("copy", {}, fails)

\* A barrier is not counted as a command of the compute list.
Barrier ==
    /\ Recording
    /\ list' = [list EXCEPT !["compute"].floor = {c.id : c \in list["compute"].cmds}]
    /\ UNCHANGED <<config, freeList, events_pool, events_compute_list, future, host, next,
                   failures, deviceVars>>

-----------------------------------------------------------------------------
(***************************************************************************)
(* The device                                                              *)
(***************************************************************************)

\* A command whose waits are over runs; a kernel takes up to TimestampMax.
Execute(q, c, duration) ==
    /\ c.waits \subseteq signalled /\ c.after \subseteq {r.id : r \in ran}
    /\ queue' = [queue EXCEPT ![q] = @ \ {c}]
    /\ ran' = ran \cup {c}
    /\ signalled' = signalled \cup ({c.signal} \ {NoEvent})
    /\ IF c.kind \in {"kernel", "copy"}
         THEN LET end == (clock + duration) % (TimestampMax + 1) IN
              /\ stamp' = Extended(stamp, c.signal, [start |-> clock, end |-> end])
              /\ taken' = Extended(taken, c.id, duration)
              /\ clock' = end
         ELSE duration = 0 /\ UNCHANGED <<stamp, taken, clock>>
    /\ UNCHANGED <<config, hostVars>>

Device == \E q \in Pools : \E c \in queue[q] : \E duration \in Ticks : Execute(q, c, duration)

-----------------------------------------------------------------------------
(***************************************************************************)
(* sync                                                                    *)
(***************************************************************************)

\* submit().
SyncSubmit ==
    /\ host = "record"
    /\ queue' = SubmitQueues
    /\ list' = SubmitLists
    /\ host' = "sync"
    /\ UNCHANGED <<config, freeList, events_pool, events_compute_list, future, next, failures,
                   signalled, stamp, taken, clock, ran>>

\* The queue whose commands sync waits for.
SyncQueue ==
    CASE config.engine /\ Count("d2h") > 0 -> "copy"
      [] config.engine /\ Count("d2h") = 0 /\ events_compute_list # <<>> -> "compute"
      [] config.engine /\ Count("d2h") = 0 /\ events_compute_list = <<>> /\ Count("h2d") > 0 -> "copy"
      [] ~config.engine /\ (Count("d2h") > 0 \/ Count("h2d") > 0 \/ events_compute_list # <<>>) -> "compute"
      [] OTHER -> "none"

Synchronized == SyncQueue # "none" => queue[SyncQueue] = {}

FutureTime(s) ==
    IF s.end >= s.start THEN s.end - s.start ELSE (TimestampMax - s.start) + s.end + 1

\* The events whose timestamps can be read: up to the first that is not
\* signalled, for which zeEventQueryKernelTimestamp fails.
Completed ==
    LET n == Len(events_compute_list) IN
    SubSeq(events_compute_list, 1,
           Max({k \in 0 .. n : \A i \in 1 .. k : events_compute_list[i][1] \in signalled}))

\* The lists are reset, and the futures of the events set, in order.  A failed
\* query throws: the rest of sync is not done.
SyncFinish ==
    /\ host = "sync" /\ Synchronized
    /\ list' = ResetLists
    /\ freeList' = [freeList EXCEPT
                      !["compute"] = DeleteEvents(@, [i \in DOMAIN Completed |-> Completed[i][1]])]
    /\ future' = [k \in DOMAIN future |->
                     IF \E p \in ToSet(Completed) : p[2] = k
                     THEN LET e == (CHOOSE p \in ToSet(Completed) : p[2] = k)[1] IN
                          [valid |-> TRUE, time |-> FutureTime(stamp[e])]
                     ELSE future[k]]
    /\ signalled' = signalled \ {p[1] : p \in ToSet(Completed)}
    /\ IF Completed = events_compute_list
         THEN host' = "read" /\ events_compute_list' = <<>>
         ELSE host' = "failed" /\ UNCHANGED events_compute_list
    /\ next' = 1 /\ ran' = {} /\ stamp' = <<>>
    /\ UNCHANGED <<config, events_pool, failures, queue, taken, clock>>

\* The host reads the times and releases its futures.
ReadFutures ==
    /\ host = "read" /\ host' = "record"
    /\ future' = <<>> /\ taken' = <<>>
    /\ UNCHANGED <<config, list, freeList, events_pool, events_compute_list, next, failures,
                   queue, signalled, stamp, clock, ran>>

\* ~TaskQueue and the pools' destructors: pending futures are marked invalid.
Destroy ==
    /\ host = "record"
    /\ freeList' = [p \in Pools |->
                      IF p = "compute"
                      THEN DeleteEvents(freeList[p], [i \in DOMAIN events_compute_list |->
                                                         events_compute_list[i][1]])
                      ELSE DeleteEvents(freeList[p], events_pool)]
    /\ future' = [k \in DOMAIN future |->
                     IF \E p \in ToSet(events_compute_list) : p[2] = k
                     THEN [future[k] EXCEPT !.valid = FALSE] ELSE future[k]]
    /\ events_compute_list' = <<>> /\ events_pool' = <<>>
    /\ host' = "destroyed"
    /\ UNCHANGED <<config, list, next, failures, deviceVars>>

GpuNext ==
    \/ CopyToHost \/ Barrier
    \/ \E fails \in BOOLEAN : CopyToDevice(fails) \/ Launch(fails) \/ CopyMemoryView(fails)
    \/ SyncSubmit \/ SyncFinish \/ ReadFutures \/ Destroy
    \/ Device

\* The device runs what it can, and the host thread returns from its wait.
GpuFairness == WF_gpuVars(Device) /\ WF_gpuVars(SyncFinish)

GpuSpec == GpuInit /\ [][GpuNext]_gpuVars /\ GpuFairness

-----------------------------------------------------------------------------
(***************************************************************************)
(* Properties                                                              *)
(***************************************************************************)

AllCommands == (UNION {list[l].cmds : l \in Lists}) \cup queue["compute"] \cup queue["copy"]

\* A kernel starts only when every copy to the device that was recorded before
\* it is complete, also when the copies' events are reused from an earlier
\* batch (docs/ispc_for_xe.rst: "All memory scheduled to be copied before the
\* kernel execution will complete before the kernel start").  Equivalently, no
\* copy is left to run that is older than a kernel that has run.
KernelsSeeCopies ==
    \A c \in AllCommands \ ran, k \in ran :
        c.kind = "h2d" /\ k.kind = "kernel" => k.id < c.id

\* A copy to the host runs after every kernel and every copy between views that
\* was recorded before it.
ResultsCopiedLast ==
    \A c \in AllCommands \ ran, d \in ran :
        c.kind \in {"kernel", "copy"} /\ d.kind = "d2h" => d.id < c.id

\* When sync returns, the device has run everything that was submitted: the
\* lists that it resets and the buffers that the host may now reuse are idle.
SyncCompletes == host \in {"record", "read"} => \A q \in Pools : queue[q] = {}

\* When sync returns or fails, the kernels have run (docs/ispc_for_xe.rst: "sync
\* method stops the host thread until GPU computation completed").
ComputationCompleted == host \in {"record", "read", "failed"} => queue["compute"] = {}

\* No event is lost or handed out twice: an index is free, or belongs to a
\* pending kernel, or is kept for reuse (the assertion of ~EventPool).
EventsAccounted ==
    host # "failed" =>
    \A p \in Pools :
        LET used == IF p = "compute" THEN [i \in DOMAIN events_compute_list |-> events_compute_list[i][1]]
                    ELSE events_pool
            all == freeList[p] \o [i \in DOMAIN used |-> used[i][2]]
        IN Len(all) = PoolSize[p] /\ ToSet(all) = 1 .. PoolSize[p]

\* No two commands that are still to run signal the same event, and none
\* signals an event that is signalled already.
EventsFresh ==
    \A c, d \in {x \in AllCommands \ ran : x.signal # NoEvent} :
        /\ c.signal \notin signalled
        /\ c.signal = d.signal => c = d

\* A valid future has the time its kernel took, across a wrap of the device's
\* counter, and after sync every future is valid.
FuturesExact ==
    /\ \A k \in DOMAIN future : future[k].valid => k \in DOMAIN taken /\ future[k].time = taken[k]
    /\ host = "read" => \A k \in DOMAIN future : future[k].valid

\* sync returns: no command waits for an event that nothing will signal.
SyncReturns == (host = "sync") ~> (host # "sync")

\* The device keeps to the order in which the host recorded copies in, kernels
\* and copies out, and sync returns after all of them.
CommandsOrdered == KernelsSeeCopies /\ ResultsCopiedLast /\ SyncCompletes

\* The events of both pools are neither lost nor shared nor stale, and what
\* they timed is what the futures tell.
EventsSound == EventsAccounted /\ EventsFresh /\ FuturesExact
=============================================================================
