------------------------------ MODULE GpuMemory ------------------------------
(***************************************************************************)
(* Shared memory views of a GPU context with ISPCRT_MEM_POOL set           *)
(* (MemoryView, ChunkedPool, Bulk and the reference count of GPUContext in *)
(* GPUDevice.cpp), used by one thread.  A pool keeps, for each power of    *)
(* two, a list of bulks; a bulk is one allocation of Level Zero cut into   *)
(* chunks of that size.  A request larger than the largest chunk gets an   *)
(* allocation of its own.  Addresses are pairs of an allocation and an     *)
(* index in it.                                                            *)
(***************************************************************************)
EXTENDS Integers, Sequences, FiniteSets, SequencesExt

CONSTANTS
    MinPow2, MaxPow2,       \* m_minPow2 and m_maxPow2 of the pool
    Requests,               \* sizes that views are created with
    Views,                  \* the views
    MaxAllocFailures,       \* bound: calls of zeMemAllocShared that fail
    MaxBulks                \* bound: bulks of a chunk size

ASSUME GpuMemoryAssumption ==
    /\ MinPow2 \in 1 .. 30 /\ MaxPow2 \in MinPow2 .. 30
    /\ Requests \subseteq Nat /\ IsFiniteSet(Views)
    /\ MaxAllocFailures \in Nat /\ MaxBulks \in Nat \ {0}

\* The powers of two that a chunk size may be: each is twice the one before.
ASSUME PowersOfTwo ==
    /\ 2 ^ 0 = 1
    /\ \A i \in 0 .. 30 : 2 ^ i \in Nat \ {0}
    /\ \A i \in 1 .. 30 : 2 ^ i = 2 * 2 ^ (i - 1)

minChunkSize == 2 ^ MinPow2
maxChunkSize == 2 ^ MaxPow2
ChunkSizes == {2 ^ i : i \in MinPow2 .. MaxPow2}
NumChunks(size) == maxChunkSize \div size

VARIABLES
    bulks,          \* m_bulks[size]: the bulks in the order of the list
    bulk,           \* bulk[size][b]: Bulk b of a chunk size
    allocated,      \* m_allocated: chunks handed out
    large,          \* views with an allocation of their own
    view,           \* view[v]: MemoryView v
    ctxRefs,        \* reference count of the context; 0: destroyed
    appHasContext,  \* the application holds a reference to the context
    allocFailures

memVars == <<bulks, bulk, allocated, large, view, ctxRefs, appHasContext, allocFailures>>

\* A chunk: the size and number of its bulk and its index in the bulk.
ChunkAddresses == [size : ChunkSizes, bulk : 1 .. MaxBulks, index : Nat]
NullPtr == [size |-> 0, bulk |-> 0, index |-> 0]
LargePtr == [size |-> 0, bulk |-> 1, index |-> 0]

NoView == [state |-> "none", requested |-> 0, size |-> 0, ptr |-> NullPtr]

NewBulk == [mapped |-> FALSE, initFreeChunks |-> 0, freeChunks |-> <<>>, usedChunks |-> {}]

MemTypeOK ==
    /\ DOMAIN bulks = ChunkSizes /\ DOMAIN bulk = ChunkSizes
    /\ \A s \in ChunkSizes :
         /\ ToSet(bulks[s]) = DOMAIN bulk[s]
         /\ \A b \in DOMAIN bulk[s] :
              /\ bulk[s][b].initFreeChunks \in 0 .. NumChunks(s)
              /\ ToSet(bulk[s][b].freeChunks) \cup bulk[s][b].usedChunks \subseteq 0 .. NumChunks(s) - 1
    /\ allocated \subseteq ChunkAddresses /\ large \subseteq Views
    /\ \A v \in Views :
         /\ view[v].state \in {"none", "live"}
         /\ view[v].ptr \in ChunkAddresses \cup {NullPtr, LargePtr}
    /\ ctxRefs \in 0 .. Cardinality(Views) + 1
    /\ appHasContext \in BOOLEAN

\* GPUContext(), which creates the pool with one empty bulk per chunk size.
MemInit ==
    /\ bulks = [s \in ChunkSizes |-> <<1>>]
    /\ bulk = [s \in ChunkSizes |-> <<NewBulk>>]
    /\ allocated = {} /\ large = {}
    /\ view = [v \in Views |-> NoView]
    /\ ctxRefs = 1 /\ appHasContext = TRUE
    /\ allocFailures = 0

\* round_up_pow2 for the sizes in use.
RoundUpPow2(x) == IF x < 2 THEN x ELSE CHOOSE p \in {2 ^ i : i \in 1 .. 30} : p >= x /\ p < 2 * x

-----------------------------------------------------------------------------
(***************************************************************************)
(* Bulk                                                                    *)
(***************************************************************************)

\* Mutant: the linear part is used up before freed chunks are looked at, and
\* the index is taken from the list without removing it.
AllocChunkKeepsFree(s, b) ==
    IF b.initFreeChunks < NumChunks(s)
    THEN <<b.initFreeChunks, [b EXCEPT !.initFreeChunks = @ + 1, !.usedChunks = @ \cup {b.initFreeChunks}]>>
    ELSE <<Head(b.freeChunks), [b EXCEPT !.usedChunks = @ \cup {Head(b.freeChunks)}]>>

\* Index of the chunk and the bulk after allocChunk: linear at first, then
\* from the list of free chunks.  Called on a bulk that is not full.
AllocChunk(s, b) ==
    IF b.freeChunks = <<>> /\ b.initFreeChunks < NumChunks(s)
    THEN <<b.initFreeChunks, [b EXCEPT !.initFreeChunks = @ + 1, !.usedChunks = @ \cup {b.initFreeChunks}]>>
    ELSE <<Head(b.freeChunks), [b EXCEPT !.freeChunks = Tail(@), !.usedChunks = @ \cup {Head(b.freeChunks)}]>>

FreeChunk(b, index) ==
    [b EXCEPT !.freeChunks = Append(@, index), !.usedChunks = @ \ {index}]

Full(s, b) == ~(b.initFreeChunks < NumChunks(s)) /\ b.freeChunks = <<>>

-----------------------------------------------------------------------------
(***************************************************************************)
(* ChunkedPool                                                             *)
(***************************************************************************)

\* The loop of allocate: full bulks move from the front to the back, until one
\* is not full or all have moved; whether all are full.
Rotated(s) ==
    LET seq == bulks[s]
        n == Len(seq)
        notFull == {i \in 1 .. n : ~Full(s, bulk[s][seq[i]])}
    IN IF notFull = {} THEN <<seq, TRUE>>
       ELSE LET i == CHOOSE k \in notFull : \A j \in notFull : k <= j
            IN <<SubSeq(seq, i, n) \o SubSeq(seq, 1, i - 1), FALSE>>

\* allocate(size) for view v, which gets the chunk.  A bulk allocates its
\* memory with its first chunk; when that fails, the bulk stays in the list.
PoolAllocate(v, s, fails) ==
    LET r == Rotated(s)
        fresh == Len(bulks[s]) + 1
        b == IF r[2] THEN fresh ELSE Head(r[1])
        old == IF r[2] THEN NewBulk ELSE bulk[s][b]
        a == AllocChunk(s, old)
        after == IF fails THEN old ELSE [a[2] EXCEPT !.mapped = TRUE]
    IN
    /\ r[2] => fresh <= MaxBulks
    /\ fails => ~old.mapped /\ allocFailures < MaxAllocFailures
    /\ bulks' = [bulks EXCEPT ![s] = IF r[2] THEN Append(r[1], b) ELSE r[1]]
    /\ bulk' = [bulk EXCEPT ![s] = IF r[2] THEN Append(@, after) ELSE [@ EXCEPT ![b] = after]]
    /\ IF fails
         THEN allocFailures' = allocFailures + 1 /\ UNCHANGED allocated
         ELSE /\ allocated' = allocated \cup {[size |-> s, bulk |-> b, index |-> a[1]]}
              /\ UNCHANGED allocFailures
    /\ view' = [view EXCEPT ![v].size = s,
                            ![v].ptr = IF fails THEN NullPtr ELSE [size |-> s, bulk |-> b, index |-> a[1]]]

PoolDeallocate(ptr) ==
    /\ allocated' = allocated \ {ptr}
    /\ bulk' = [bulk EXCEPT ![ptr.size][ptr.bulk] = FreeChunk(@, ptr.index)]

-----------------------------------------------------------------------------
(***************************************************************************)
(* MemoryView                                                              *)
(***************************************************************************)

\* The constructor takes a reference to the context.
NewMemoryView(v, requested) ==
    /\ appHasContext /\ view[v].state = "none"
    /\ view' = [view EXCEPT ![v] = [state |-> "live", requested |-> requested, size |-> requested,
                                    ptr |-> NullPtr]]
    /\ ctxRefs' = ctxRefs + 1
    /\ UNCHANGED <<bulks, bulk, allocated, large, appHasContext, allocFailures>>

\* devicePtr(): the first call allocates.
DevicePtr(v, fails) ==
    /\ view[v].state = "live" /\ view[v].ptr = NullPtr
    /\ IF view[v].size <= maxChunkSize
         THEN LET size == RoundUpPow2(view[v].requested)
                  s == IF size < minChunkSize THEN minChunkSize ELSE size
              IN PoolAllocate(v, s, fails) /\ UNCHANGED large
         ELSE IF fails
              THEN /\ allocFailures < MaxAllocFailures /\ allocFailures' = allocFailures + 1
                   /\ UNCHANGED <<bulks, bulk, allocated, large, view>>
              ELSE /\ large' = large \cup {v}
                   /\ view' = [view EXCEPT ![v].ptr = LargePtr]
                   /\ UNCHANGED <<bulks, bulk, allocated, allocFailures>>
    /\ UNCHANGED <<ctxRefs, appHasContext>>

\* Whether the destructor gives the memory back to the pool.
FromPool(v) == view[v].size <= maxChunkSize

\* ~MemoryView.
DeleteMemoryView(v) ==
    /\ view[v].state = "live"
    /\ IF view[v].ptr = NullPtr THEN UNCHANGED <<bulk, allocated, large>>
       ELSE IF FromPool(v)
            THEN PoolDeallocate(view[v].ptr) /\ UNCHANGED large
            ELSE large' = large \ {v} /\ UNCHANGED <<bulk, allocated>>
    /\ view' = [view EXCEPT ![v] = NoView]
    /\ ctxRefs' = ctxRefs - 1
    /\ UNCHANGED <<bulks, appHasContext, allocFailures>>

\* The application releases the context, which is deleted with its pools when
\* no view holds a reference.
ReleaseContext ==
    /\ appHasContext /\ appHasContext' = FALSE
    /\ ctxRefs' = ctxRefs - 1
    /\ UNCHANGED <<bulks, bulk, allocated, large, view, allocFailures>>

MemNext ==
    \/ \E v \in Views :
         \/ \E requested \in Requests : NewMemoryView(v, requested)
         \/ \E fails \in BOOLEAN : DevicePtr(v, fails)
         \/ DeleteMemoryView(v)
    \/ ReleaseContext

MemSpec == MemInit /\ [][MemNext]_memVars

-----------------------------------------------------------------------------
(***************************************************************************)
(* Properties                                                              *)
(***************************************************************************)

PoolViews == {v \in Views : view[v].ptr \notin {NullPtr, LargePtr}}

\* No two views share memory, and each has as many bytes as it asked for,
\* inside its bulk, whatever was freed and allocated again before.
ViewsDisjoint ==
    \A v \in PoolViews :
        LET p == view[v].ptr IN
        /\ p.size >= view[v].requested
        /\ p.index < NumChunks(p.size)
        /\ bulk[p.size][p.bulk].mapped
        /\ \A w \in PoolViews \ {v} : view[w].ptr # p

\* The pool knows exactly the chunks that views have (the assertions of
\* deallocate and freeChunk), and every other chunk can be handed out again.
ChunksAccounted ==
    /\ allocated = {view[v].ptr : v \in PoolViews}
    /\ large = {v \in Views : view[v].ptr = LargePtr}
    /\ \A s \in ChunkSizes : \A b \in DOMAIN bulk[s] :
         LET k == bulk[s][b] IN
         /\ k.usedChunks = {c.index : c \in {d \in allocated : d.size = s /\ d.bulk = b}}
         /\ IsInjective(k.freeChunks)
         /\ ToSet(k.freeChunks) = (0 .. k.initFreeChunks - 1) \ k.usedChunks

\* The context, whose destruction frees the pools, lives as long as the
\* application or a view needs it.
ContextOutlivesViews ==
    (appHasContext \/ \E v \in Views : view[v].state = "live") <=> ctxRefs > 0

\* Memory views have memory of their own, the pool's books are exact, and the
\* pools live as long as the views.
ViewsSound == ViewsDisjoint /\ ChunksAccounted /\ ContextOutlivesViews
=============================================================================
