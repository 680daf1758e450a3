--------------------------- MODULE TaskGroupMemory ---------------------------
(***************************************************************************)
(* The argument memory of a task group (TaskGroupBase of                   *)
(* ispc_tasking.cpp), over its uses by one function after another: each    *)
(* ends with Reset, when FreeTaskGroup puts the group on the free list.    *)
(* Only the function that holds the group's handle calls these operations: *)
(* they do not interleave.                                                 *)
(*                                                                         *)
(* A buffer is an object with a size and a base address; addresses in      *)
(* different buffers are never compared, so only the base address's        *)
(* remainder for the alignments in use matters.                            *)
(***************************************************************************)
EXTENDS Integers, FiniteSets

CONSTANTS
    NUM_MEM_BUFFERS,        \* length of memBuffers[] (16)
    MemSize,                \* sizeof(mem), the buffer inside the group (256)
    BufferSize,             \* BufferSize[k] = 1 << (12 + k)
    Sizes,                  \* sizes that ISPCAlloc is called with
    Alignments,             \* alignments (powers of two)
    BaseAddresses,          \* addresses of buffers
    MaxBuffers              \* bound: buffers allocated in a behaviour

BufferIndex == 0 .. NUM_MEM_BUFFERS - 1

ASSUME MemoryAssumption ==
    /\ NUM_MEM_BUFFERS \in Nat \ {0}
    /\ MemSize \in Nat
    /\ BufferSize \in [1 .. NUM_MEM_BUFFERS -> Nat]
    /\ Sizes \subseteq Nat /\ BaseAddresses \subseteq Nat
    /\ Alignments \subseteq Nat \ {0}
    /\ MaxBuffers \in Nat

NoBuffer == [size |-> 0, base |-> 0, id |-> -1]   \* the null pointer in memBuffers[]

VARIABLES
    curMemBuffer, curMemBufferOffset,
    memBuffers,         \* memBuffers[k], with its memBufferSize[k]
    bufferHeap,         \* buffers that new[] returned and nobody deleted
    allocatedBuffers,   \* number of buffers that were allocated
    call,               \* the pending AllocMemory(size, alignment), or NoCall
    grown,              \* history: buffers the pending call has allocated
    blocks,             \* history: blocks returned since the last ResetMemory
    stopped             \* an assertion failed

memoryVars == <<curMemBuffer, curMemBufferOffset, memBuffers, bufferHeap, allocatedBuffers,
             call, grown, blocks, stopped>>

NoCall == [size |-> 0, alignment |-> 0]

Buffer == [size : Nat, base : Nat, id : Int]
Block == [buffer : Buffer, start : Nat, size : Nat, alignment : Nat]

MemoryTypeOK ==
    /\ curMemBuffer \in 0 .. NUM_MEM_BUFFERS
    /\ curMemBufferOffset \in Nat
    /\ memBuffers \in [BufferIndex -> Buffer]
    /\ bufferHeap \subseteq Buffer
    /\ allocatedBuffers \in Nat
    /\ call \in [size : Nat, alignment : Nat]
    /\ grown \in Nat
    /\ blocks \subseteq Block
    /\ stopped \in BOOLEAN

\* TaskGroupBase(): memBuffers[0] is the array inside the object.
MemoryInit ==
    /\ curMemBuffer = 0 /\ curMemBufferOffset = 0
    /\ \E base \in BaseAddresses :
         memBuffers = [k \in BufferIndex |->
                         IF k = 0 THEN [size |-> MemSize, base |-> base, id |-> 0] ELSE NoBuffer]
    /\ bufferHeap = {} /\ allocatedBuffers = 0
    /\ call = NoCall /\ grown = 0
    /\ blocks = {}
    /\ stopped = FALSE

(***************************************************************************)
(* AllocMemory                                                             *)
(***************************************************************************)

\* Mutant: rounds down.
AlignDown(addr, alignment) == (addr \div alignment) * alignment

\* (addr + (alignment - 1)) & ~(alignment - 1)
AlignUp(addr, alignment) == ((addr + (alignment - 1)) \div alignment) * alignment

Current == memBuffers[curMemBuffer]

\* iptr - basePtr, and newOffset, in the current buffer.
Start == AlignUp(Current.base + curMemBufferOffset, call.alignment) - Current.base
NewOffset == Start + call.size

\* ISPCAlloc calls AllocMemory.
AllocMemory(size, alignment) ==
    /\ ~stopped /\ call = NoCall
    /\ call' = [size |-> size, alignment |-> alignment]
    /\ UNCHANGED <<curMemBuffer, curMemBufferOffset, memBuffers, bufferHeap, allocatedBuffers,
                   grown, blocks, stopped>>

\* Mutant: the space that the alignment skipped is not added to the offset.
FitsForgetsPadding ==
    /\ ~stopped /\ call # NoCall
    /\ NewOffset < Current.size
    /\ curMemBufferOffset' = curMemBufferOffset + call.size
    /\ blocks' = blocks \cup {[buffer |-> Current, start |-> Start,
                               size |-> call.size, alignment |-> call.alignment]}
    /\ call' = NoCall /\ grown' = 0
    /\ UNCHANGED <<curMemBuffer, memBuffers, bufferHeap, allocatedBuffers, stopped>>

\* The block fits into the current buffer: return it.
Fits ==
    /\ ~stopped /\ call # NoCall
    /\ NewOffset < Current.size
    /\ curMemBufferOffset' = NewOffset
    /\ blocks' = blocks \cup {[buffer |-> Current, start |-> Start,
                               size |-> call.size, alignment |-> call.alignment]}
    /\ call' = NoCall /\ grown' = 0
    /\ UNCHANGED <<curMemBuffer, memBuffers, bufferHeap, allocatedBuffers, stopped>>

\* It does not: go to the next buffer, which is allocated anew, and start
\* again (the recursive call).  The assertion stops the program when there
\* are no more buffers.
Grow ==
    LET k == curMemBuffer + 1 IN
    /\ ~stopped /\ call # NoCall
    /\ NewOffset >= Current.size
    /\ curMemBuffer' = k /\ curMemBufferOffset' = 0
    /\ \/ /\ k = NUM_MEM_BUFFERS
          /\ stopped' = TRUE
          /\ UNCHANGED <<memBuffers, bufferHeap, allocatedBuffers, grown>>
       \/ /\ k < NUM_MEM_BUFFERS
          /\ allocatedBuffers < MaxBuffers
          /\ allocatedBuffers' = allocatedBuffers + 1
          /\ \E base \in BaseAddresses :
               LET atLeast == call.size + call.alignment
                   new == [size |-> IF atLeast > BufferSize[k] THEN atLeast ELSE BufferSize[k],
                           base |-> base, id |-> allocatedBuffers + 1]
               IN  /\ memBuffers' = [memBuffers EXCEPT ![k] = new]
                   /\ bufferHeap' = bufferHeap \cup {new}
          /\ grown' = grown + 1
          /\ UNCHANGED stopped
    /\ UNCHANGED <<call, blocks>>

(***************************************************************************)
(* The end of a function's use of the group                                *)
(***************************************************************************)

\* Reset: the buffers and chunks are kept.
ResetMemory ==
    /\ ~stopped /\ call = NoCall
    /\ curMemBuffer' = 0 /\ curMemBufferOffset' = 0
    /\ blocks' = {}
    /\ UNCHANGED <<memBuffers, bufferHeap, allocatedBuffers, call, grown, stopped>>

\* FreeTaskGroup found the free list full, so the group is deleted after its
\* Reset: ~TaskGroupBase deletes memBuffers[1..].  The next function gets a
\* new TaskGroup.
DeleteAndNew ==
    /\ ~stopped /\ call = NoCall
    /\ blocks = {} /\ curMemBuffer = 0 /\ curMemBufferOffset = 0
    /\ bufferHeap' = bufferHeap \ {memBuffers[k] : k \in BufferIndex \ {0}}
    /\ memBuffers' = [k \in BufferIndex |-> IF k = 0 THEN memBuffers[0] ELSE NoBuffer]
    /\ UNCHANGED <<curMemBuffer, curMemBufferOffset, allocatedBuffers, call, grown, blocks, stopped>>

MemoryNext ==
    \/ \E size \in Sizes, alignment \in Alignments : AllocMemory(size, alignment)
    \/ Fits \/ Grow
    \/ ResetMemory \/ DeleteAndNew

MemorySpec == MemoryInit /\ [][MemoryNext]_memoryVars

(***************************************************************************)
(* Properties                                                              *)
(***************************************************************************)

\* AllocMemory returns what was asked for: the block is aligned, it ends
\* within its buffer, and the buffer is still one of the group's and not
\* deleted, so that the tasks can read their arguments until the sync.
BlocksUsable ==
    \A b \in blocks :
      /\ (b.buffer.base + b.start) % b.alignment = 0
      /\ b.start + b.size <= b.buffer.size
      /\ \E k \in 0 .. curMemBuffer : k \in BufferIndex /\ memBuffers[k] = b.buffer
      /\ b.buffer \in bufferHeap \cup {memBuffers[0]}

\* The argument blocks of the tasks of one function do not overlap, in
\* particular after the group's offset went back to 0 in a new buffer.
BlocksDisjoint ==
    \A b, c \in blocks :
      b # c /\ b.buffer = c.buffer =>
        b.start + b.size <= c.start \/ c.start + c.size <= b.start

\* The recursion of AllocMemory ends: a new buffer is large enough for the
\* block that did not fit, whatever its base address.
GrowsAtMostOnce == grown <= 1

\* What the launches of a function rely on: the memory that AllocMemory gives
\* to a task is its own and usable until the sync, after one new buffer at most.
BlocksSound == BlocksUsable /\ BlocksDisjoint /\ GrowsAtMostOnce
=============================================================================
