---------------------------- MODULE TaskGroupPool ----------------------------
(***************************************************************************)
(* The lock-free free list of task groups of the pthreads task system:     *)
(* AllocTaskGroup and FreeTaskGroup of ispc_tasking.cpp, at the            *)
(* granularity of the individual reads and compare-and-swaps of            *)
(* freeTaskGroups[].                                                       *)
(*                                                                         *)
(* A thread runs ispc functions, which nest: each function that launches   *)
(* tasks owns one task group, from the ISPCLaunch/ISPCAlloc that found a   *)
(* null handle to the ISPCSync that frees it, and an inner function frees  *)
(* its group before the outer one does.  So the handles of a thread form   *)
(* a stack.                                                                *)
(***************************************************************************)
EXTENDS Naturals, Sequences, SequencesExt

CONSTANTS
    Threads,              \* threads that run ispc functions
    Groups,               \* the TaskGroup objects the heap can hold
    Null,                 \* the null pointer
    MAX_FREE_TASK_GROUPS, \* length of freeTaskGroups[] (64 in the code)
    MaxDepth              \* bound: nested ispc functions that launch, per thread

ASSUME PoolAssumption ==
    /\ MAX_FREE_TASK_GROUPS \in Nat \ {0}
    /\ MaxDepth \in Nat \ {0}
    /\ Null \notin Groups

VARIABLES
    freeTaskGroups,  \* the shared array of free groups
    heap,            \* the TaskGroup objects that are allocated
    handles,         \* handles[t]: the groups thread t got, innermost last
    pc,              \* where in AllocTaskGroup/FreeTaskGroup thread t is
    i,               \* the loop index of thread t
    tg               \* the local pointer tg of thread t

poolVars == <<freeTaskGroups, heap, handles, pc, i, tg>>

SlotIndex == 1 .. MAX_FREE_TASK_GROUPS

PoolLabels == {"idle", "allocRead", "allocCAS", "freeRead", "freeCAS"}

PoolTypeOK ==
    /\ freeTaskGroups \in [SlotIndex -> Groups \cup {Null}]
    /\ heap \subseteq Groups
    /\ handles \in [Threads -> Seq(Groups)]
    /\ pc \in [Threads -> PoolLabels]
    /\ i \in [Threads -> Nat]
    /\ tg \in [Threads -> Groups \cup {Null}]

PoolInit ==
    /\ freeTaskGroups = [s \in SlotIndex |-> Null]
    /\ heap = {}
    /\ handles = [t \in Threads |-> <<>>]
    /\ pc = [t \in Threads |-> "idle"]
    /\ i = [t \in Threads |-> 1]
    /\ tg = [t \in Threads |-> Null]

(***************************************************************************)
(* AllocTaskGroup                                                          *)
(***************************************************************************)

\* The function's handle is null: enter AllocTaskGroup.
AllocEnter(t) ==
    /\ pc[t] = "idle"
    /\ Len(handles[t]) < MaxDepth
    /\ pc' = [pc EXCEPT ![t] = "allocRead"]
    /\ i' = [i EXCEPT ![t] = 1]
    /\ UNCHANGED <<freeTaskGroups, heap, handles, tg>>

\* tg = freeTaskGroups[i]; if (tg != nullptr) go on to the compare-and-swap.
AllocRead(t) ==
    /\ pc[t] = "allocRead"
    /\ i[t] \in SlotIndex
    /\ tg' = [tg EXCEPT ![t] = freeTaskGroups[i[t]]]
    /\ IF freeTaskGroups[i[t]] # Null
         THEN pc' = [pc EXCEPT ![t] = "allocCAS"] /\ UNCHANGED i
         ELSE i' = [i EXCEPT ![t] = @ + 1] /\ UNCHANGED pc
    /\ UNCHANGED <<freeTaskGroups, heap, handles>>

\* The compare-and-swap returns what the slot held, whether or not that was
\* tg; any non-null result is returned to the caller.
AllocCAS(t) ==
    LET ptr == freeTaskGroups[i[t]] IN
    /\ pc[t] = "allocCAS"
    /\ freeTaskGroups' = IF ptr = tg[t]
                           THEN [freeTaskGroups EXCEPT ![i[t]] = Null]
                           ELSE freeTaskGroups
    /\ IF ptr # Null
         THEN /\ handles' = [handles EXCEPT ![t] = Append(@, ptr)]
              /\ pc' = [pc EXCEPT ![t] = "idle"]
              /\ UNCHANGED i
         ELSE /\ i' = [i EXCEPT ![t] = @ + 1]
              /\ pc' = [pc EXCEPT ![t] = "allocRead"]
              /\ UNCHANGED handles
    /\ UNCHANGED <<heap, tg>>

\* The scan found nothing: return new TaskGroup.
AllocNew(t) ==
    /\ pc[t] = "allocRead"
    /\ i[t] \notin SlotIndex
    /\ \E g \in Groups \ heap :
         /\ heap' = heap \cup {g}
         /\ handles' = [handles EXCEPT ![t] = Append(@, g)]
    /\ pc' = [pc EXCEPT ![t] = "idle"]
    /\ UNCHANGED <<freeTaskGroups, i, tg>>

(***************************************************************************)
(* FreeTaskGroup, on the group of the innermost function.                  *)
(***************************************************************************)

\* ISPCSync's FreeTaskGroup starts to scan for an empty slot.
FreeEnter(t) ==
    /\ pc[t] = "idle"
    /\ handles[t] # <<>>
    /\ tg' = [tg EXCEPT ![t] = Last(handles[t])]
    /\ handles' = [handles EXCEPT ![t] = Front(@)]
    /\ pc' = [pc EXCEPT ![t] = "freeRead"]
    /\ i' = [i EXCEPT ![t] = 1]
    /\ UNCHANGED <<freeTaskGroups, heap>>

\* if (freeTaskGroups[i] == nullptr) go on to the compare-and-swap.
FreeRead(t) ==
    /\ pc[t] = "freeRead"
    /\ i[t] \in SlotIndex
    /\ IF freeTaskGroups[i[t]] = Null
         THEN pc' = [pc EXCEPT ![t] = "freeCAS"] /\ UNCHANGED i
         ELSE i' = [i EXCEPT ![t] = @ + 1] /\ UNCHANGED pc
    /\ UNCHANGED <<freeTaskGroups, heap, handles, tg>>

\* Mutant: a plain store instead of a compare-and-swap.
FreeCASOverwrites(t) ==
    /\ pc[t] = "freeCAS"
    /\ freeTaskGroups' = [freeTaskGroups EXCEPT ![i[t]] = tg[t]]
    /\ pc' = [pc EXCEPT ![t] = "idle"]
    /\ UNCHANGED <<heap, handles, i, tg>>

\* The compare-and-swap that puts tg into an empty slot, unless another
\* thread filled the slot first.
FreeCAS(t) ==
    /\ pc[t] = "freeCAS"
    /\ IF freeTaskGroups[i[t]] = Null
         THEN /\ freeTaskGroups' = [freeTaskGroups EXCEPT ![i[t]] = tg[t]]
              /\ pc' = [pc EXCEPT ![t] = "idle"]
              /\ UNCHANGED i
         ELSE /\ i' = [i EXCEPT ![t] = @ + 1]
              /\ pc' = [pc EXCEPT ![t] = "freeRead"]
              /\ UNCHANGED freeTaskGroups
    /\ UNCHANGED <<heap, handles, tg>>

\* The free list is full: delete tg.
FreeDelete(t) ==
    /\ pc[t] = "freeRead"
    /\ i[t] \notin SlotIndex
    /\ heap' = heap \ {tg[t]}
    /\ pc' = [pc EXCEPT ![t] = "idle"]
    /\ UNCHANGED <<freeTaskGroups, handles, i, tg>>

AllocTaskGroup(t) == AllocEnter(t) \/ AllocRead(t) \/ AllocCAS(t) \/ AllocNew(t)

FreeTaskGroup(t) == FreeEnter(t) \/ FreeRead(t) \/ FreeCAS(t) \/ FreeDelete(t)

PoolNext == \E t \in Threads : AllocTaskGroup(t) \/ FreeTaskGroup(t)

PoolSpec == PoolInit /\ [][PoolNext]_poolVars

(***************************************************************************)
(* Properties                                                              *)
(***************************************************************************)

\* Every place that refers to group g: a handle of a running function, a
\* slot of the free list, or the local variable of a FreeTaskGroup in
\* progress.
Places(g) ==
    (UNION {{<<"handle", t, k>> : k \in {n \in DOMAIN handles[t] : handles[t][n] = g}}
              : t \in Threads})
      \cup {<<"slot", s, 0>> : s \in {n \in SlotIndex : freeTaskGroups[n] = g}}
      \cup {<<"freeing", t, 0>> : t \in {u \in Threads :
              pc[u] \in {"freeRead", "freeCAS"} /\ tg[u] = g}}

\* A handle is unique: a task group that one ispc function holds is held by
\* no other function and is not on the free list, where a third could find
\* it.  (AllocTaskGroup must take a group out of freeTaskGroups[] exactly when
\* it returns it.)
UniqueHandle ==
    \A g \in Groups : \A p, q \in Places(g) : p = q

\* No group is lost and none is used after delete: the TaskGroup objects that
\* are allocated are the ones some handle, slot or FreeTaskGroup refers to,
\* whichever compare-and-swap lost its race.
NoGroupLostOrDangling ==
    \A g \in Groups : g \in heap <=> Places(g) # {}

\* Every TaskGroup object has exactly one owner as long as it exists.
GroupsOwned == UniqueHandle /\ NoGroupLostOrDangling
=============================================================================
