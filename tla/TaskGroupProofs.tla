--------------------------- MODULE TaskGroupProofs ---------------------------
(***************************************************************************)
(* The memory of a task group is safe for every length of memBuffers[] and *)
(* of the TaskInfo table, every size, alignment and base address, and      *)
(* every sequence of launches: the argument blocks (BlocksSound) and the   *)
(* TaskInfos (TaskInfosSound).  And two threads share the free list of     *)
(* task groups, of every length, without losing or doubling one            *)
(* (GroupsOwned).  Last, the task system these groups belong to is         *)
(* initialised once, by any number of threads that race for it             *)
(* (InitSound).                                                            *)
(***************************************************************************)
EXTENDS TaskGroupMemory, TaskInfoTable, TaskGroupPool, TaskSystemInit, TLAPS

(***************************************************************************)
(* Division                                                                *)
(***************************************************************************)

\* Quotient and remainder by a positive number.
LEMMA DivMod ==
    ASSUME NEW n \in Nat, NEW d \in Nat \ {0}
    PROVE  /\ n \div d \in Nat /\ n % d \in 0 .. d - 1
           /\ n = d * (n \div d) + (n % d)
  <1>1. n \div d \in Int /\ n % d \in 0 .. d - 1
    OBVIOUS
  <1>2. n = d * (n \div d) + (n % d)
    OBVIOUS
  <1>3. n \div d >= 0
    OBVIOUS
  <1> QED BY <1>1, <1>2, <1>3

\* A number has one quotient.
LEMMA DivUnique ==
    ASSUME NEW n \in Nat, NEW d \in Nat \ {0}, NEW q \in Nat, d * q <= n, n < d * (q + 1)
    PROVE  n \div d = q
  OBVIOUS

\* The quotient is below m exactly when the number is below d * m.
LEMMA DivBelow ==
    ASSUME NEW n \in Nat, NEW d \in Nat \ {0}, NEW m \in Nat
    PROVE  n \div d < m <=> n < d * m
  OBVIOUS

\* Division by a product is division by its factors in turn.
LEMMA DivProduct ==
    ASSUME NEW n \in Nat, NEW a \in Nat \ {0}, NEW b \in Nat \ {0}
    PROVE  n \div (a * b) = (n \div a) \div b
  OBVIOUS

\* AlignUp gives the next multiple of the alignment.
LEMMA AlignUpFacts ==
    ASSUME NEW addr \in Nat, NEW alignment \in Nat \ {0}
    PROVE  /\ AlignUp(addr, alignment) \in Nat
           /\ AlignUp(addr, alignment) % alignment = 0
           /\ addr <= AlignUp(addr, alignment)
           /\ AlignUp(addr, alignment) < addr + alignment
  <1> DEFINE n == addr + (alignment - 1)
             q == n \div alignment
  <1>1. n \in Nat
    OBVIOUS
  <1> HIDE DEF n
  <1>2. q \in Nat /\ n % alignment \in 0 .. alignment - 1 /\ n = alignment * q + (n % alignment)
    BY <1>1, DivMod
  <1> HIDE DEF q
  <1>3. AlignUp(addr, alignment) = q * alignment
    BY DEF AlignUp, q, n
  <1>4. q * alignment = alignment * q /\ alignment * q \in Nat
    BY <1>2
  <1>5. (alignment * q) % alignment = 0
    BY <1>2
  <1>6. addr <= alignment * q /\ alignment * q < addr + alignment
    BY <1>2, <1>4 DEF n
  <1> QED BY <1>3, <1>4, <1>5, <1>6

-----------------------------------------------------------------------------
(***************************************************************************)
(* The TaskInfo table                                                      *)
(***************************************************************************)

\* TaskInfos are below nextTaskInfoIndex, which does not pass the end of the
\* table unless the process exits; none is filled in twice.
TableInv ==
    /\ TableTypeOK /\ TaskInfosInBounds
    /\ ~exited => nextTaskInfoIndex <= TASK_QUEUE_CHUNK_SIZE * MAX_TASK_QUEUE_CHUNKS
    /\ \A ti \in tasks :
         ti.index < nextTaskInfoIndex /\ ti.taskIndex < TaskCount(ti.taskCount3d)
    /\ \A ti, tj \in tasks : ti.index = tj.index => ti = tj

\* The indices that GetTaskInfo returned for lie inside the table, and the
\* launch ends inside it unless the process exits.
LEMMA FoundInBounds ==
    ASSUME NEW base \in Nat, NEW count \in Nat, NEW found,
           base <= TASK_QUEUE_CHUNK_SIZE * MAX_TASK_QUEUE_CHUNKS,
           GetTaskInfos(base .. base + count - 1, found)
    PROVE  /\ \A k \in found : k \in base .. base + count - 1 /\ Chunk(k) \in 0 .. MAX_TASK_QUEUE_CHUNKS - 1
           /\ exited' \in BOOLEAN
           /\ ~exited' => base + count <= TASK_QUEUE_CHUNK_SIZE * MAX_TASK_QUEUE_CHUNKS
  <1> USE TableAssumption
  <1> DEFINE limit == TASK_QUEUE_CHUNK_SIZE * MAX_TASK_QUEUE_CHUNKS
             indices == base .. base + count - 1
  <1>1. limit \in Nat /\ Chunk(limit) = MAX_TASK_QUEUE_CHUNKS
    BY DivUnique DEF Chunk
  <1>2. found = {k \in indices : \A j \in indices : j <= k => Chunk(j) # MAX_TASK_QUEUE_CHUNKS}
    BY DEF GetTaskInfos
  <1>3. exited' \in BOOLEAN /\ (exited' <=> found # indices)
    BY Zenon DEF GetTaskInfos
  <1> HIDE DEF limit
  <1>4. ASSUME NEW k \in found PROVE k \in indices /\ k < limit
    <2>1. k \in indices /\ \A j \in indices : j <= k => Chunk(j) # MAX_TASK_QUEUE_CHUNKS
      BY <1>2, <1>4
    <2> SUFFICES ASSUME k >= limit PROVE FALSE
      BY <2>1, <1>1
    <2>2. limit \in indices /\ limit <= k
      BY <2>1, <1>1 DEF limit
    <2> QED BY <2>1, <2>2, <1>1
  <1>5. ASSUME NEW k \in found PROVE Chunk(k) \in 0 .. MAX_TASK_QUEUE_CHUNKS - 1
    <2>1. k \in Nat /\ k < limit
      BY <1>4
    <2>2. Chunk(k) \in Nat
      BY <2>1, DivMod DEF Chunk
    <2>3. Chunk(k) < MAX_TASK_QUEUE_CHUNKS
      BY <2>1, DivBelow DEF Chunk, limit
    <2> QED BY <2>2, <2>3
  <1>6. ASSUME ~exited' PROVE base + count <= limit
    <2>1. CASE count = 0
      BY <2>1 DEF limit
    <2>2. CASE count > 0
      <3>1. base + count - 1 \in found
        BY <2>2, <1>3, <1>6
      <3> QED BY <3>1, <1>1, <1>4
    <2> QED BY <2>1, <2>2
  <1> QED BY <1>3, <1>4, <1>5, <1>6 DEF limit

\* A launch preserves the invariant.
LEMMA ISPCLaunchStep ==
    ASSUME TableInv, NEW count3d \in Counts, ISPCLaunch(count3d)
    PROVE  TableInv'
  <1> DEFINE base == nextTaskInfoIndex
             count == TaskCount(count3d)
             Info(k) == [index |-> k, taskIndex |-> k - base, taskCount3d |-> count3d]
  <1>1. /\ base \in Nat /\ count \in Nat /\ count3d \in Nat \X Nat \X Nat
        /\ base <= TASK_QUEUE_CHUNK_SIZE * MAX_TASK_QUEUE_CHUNKS
    BY TableAssumption, SMTT(30) DEF ISPCLaunch, TableInv, TableTypeOK, TaskCount
  <1>2. PICK found : GetTaskInfos(base .. base + count - 1, found) /\ tasks' = tasks \cup {Info(k) : k \in found}
    BY DEF ISPCLaunch
  <1>3. nextTaskInfoIndex' = base + count
    BY DEF ISPCLaunch, AllocTaskInfo
  <1>4. taskInfo' = taskInfo \cup {Chunk(k) : k \in found}
    BY <1>2 DEF GetTaskInfos
  <1>5. /\ \A k \in found : k \in base .. base + count - 1 /\ Chunk(k) \in 0 .. MAX_TASK_QUEUE_CHUNKS - 1
        /\ exited' \in BOOLEAN
        /\ ~exited' => base + count <= TASK_QUEUE_CHUNK_SIZE * MAX_TASK_QUEUE_CHUNKS
    BY <1>1, <1>2, FoundInBounds
  <1>6. \A ti \in tasks' : ti \in tasks \/ \E k \in found : ti = Info(k)
    BY <1>2
  <1>7. ASSUME NEW k \in found
        PROVE  /\ Info(k) \in TaskInfo /\ Info(k).index = k /\ k >= base /\ k < base + count
               /\ Info(k).taskIndex < TaskCount(Info(k).taskCount3d)
    BY <1>1, <1>5 DEF TaskInfo
  <1> HIDE DEF Info, base
  <1>8. \A ti \in tasks : ti \in TaskInfo /\ ti.index < base /\ ti.index \in Nat
    BY DEF TableInv, TableTypeOK, TaskInfo, base
  <1> HIDE DEF count
  <1>9. TableTypeOK'
    <2>1. taskInfo' \subseteq Nat
      <3>1. \A k \in found : Chunk(k) \in Nat
        BY <1>5
      <3> QED BY <3>1, <1>4 DEF TableInv, TableTypeOK
    <2>2. tasks' \subseteq TaskInfo
      BY <1>6, <1>7, <1>8
    <2>3. nextTaskInfoIndex' \in Nat
      BY <1>1, <1>3
    <2> QED BY <2>1, <2>2, <2>3, <1>5 DEF TableTypeOK
  <1>10. TaskInfosInBounds'
    <2>1. taskInfo' \subseteq 0 .. MAX_TASK_QUEUE_CHUNKS - 1
      BY <1>4, <1>5 DEF TableInv, TaskInfosInBounds
    <2>2. \A ti \in tasks' : Chunk(ti.index) \in taskInfo'
      BY <1>4, <1>6, <1>7 DEF TableInv, TaskInfosInBounds
    <2> QED BY <2>1, <2>2 DEF TaskInfosInBounds, Chunk
  <1>11. \A ti \in tasks' :
           ti.index < nextTaskInfoIndex' /\ ti.taskIndex < TaskCount(ti.taskCount3d)
    BY <1>1, <1>3, <1>6, <1>7, <1>8 DEF TableInv
  <1>12. \A ti, tj \in tasks' : ti.index = tj.index => ti = tj
    BY <1>1, <1>5, <1>6, <1>7, <1>8 DEF TableInv
  <1> QED BY <1>3, <1>5, <1>9, <1>10, <1>11, <1>12 DEF TableInv, TaskCount

\* Every step preserves the invariant, which holds initially.
LEMMA TableInvariant == TableSpec => []TableInv
  <1>1. ASSUME TableInit PROVE TableInv
    <2>1. exited \in BOOLEAN
      BY <1>1, Zenon DEF TableInit
    <2>2. TASK_QUEUE_CHUNK_SIZE * MAX_TASK_QUEUE_CHUNKS \in Nat
      BY TableAssumption
    <2> QED BY <1>1, <2>1, <2>2 DEF TableInit, TableInv, TableTypeOK, TaskInfosInBounds
  <1>2. ASSUME TableInv, [TableNext]_tableVars PROVE TableInv'
    <2>1. CASE UNCHANGED tableVars
      BY <1>2, <2>1 DEF tableVars, TableInv, TableTypeOK, TaskInfosInBounds, Chunk, TaskCount
    <2>2. CASE ResetTable
      BY <1>2, <2>2, TableAssumption DEF ResetTable, TableInv, TableTypeOK, TaskInfosInBounds
    <2>3. ASSUME NEW count3d \in Counts, ISPCLaunch(count3d) PROVE TableInv'
      BY <1>2, <2>3, ISPCLaunchStep
    <2> QED BY <1>2, <2>1, <2>2, <2>3 DEF TableNext
  <1> QED BY <1>1, <1>2, PTL DEF TableSpec

\* Two TaskInfos at the same place have the same index.
LEMMA PlaceIsIndex ==
    ASSUME NEW m \in Nat, NEW n \in Nat, Chunk(m) = Chunk(n), Offset(m) = Offset(n)
    PROVE  m = n
  <1> DEFINE d == TASK_QUEUE_CHUNK_SIZE
  <1>1. d \in Nat \ {0}
    BY TableAssumption
  <1>2. m = d * (m \div d) + (m % d) /\ n = d * (n \div d) + (n % d)
    BY <1>1, DivMod
  <1> QED BY <1>2 DEF Chunk, Offset

\* n % a, (n \div a) % b and n \div (a * b) are the digits of n in a number
\* system with the radices a, b and c.
Digits(n, a, b, c) ==
    /\ n % a \in 0 .. a - 1
    /\ (n \div a) % b \in 0 .. b - 1
    /\ n \div (a * b) \in 0 .. c - 1
    /\ n = (n % a) + a * (((n \div a) % b) + b * (n \div (a * b)))

\* A number below a * b * c has such digits.
LEMMA MixedRadix ==
    ASSUME NEW n \in Nat, NEW a \in Nat, NEW b \in Nat, NEW c \in Nat, n < a * b * c
    PROVE  Digits(n, a, b, c)
  <1>1. a \in Nat \ {0} /\ b \in Nat \ {0}
    OBVIOUS
  <1>2. n % a \in 0 .. a - 1 /\ n \div a \in Nat /\ n = a * (n \div a) + (n % a)
    BY <1>1, DivMod
  <1> DEFINE q == n \div a
  <1> HIDE DEF q
  <1>3. q % b \in 0 .. b - 1 /\ q \div b \in Nat /\ q = b * (q \div b) + (q % b)
    BY <1>1, <1>2, DivMod DEF q
  <1>4. n \div (a * b) = q \div b
    <2>1. n \div (a * b) = (n \div a) \div b
      BY <1>1, DivProduct
    <2> QED BY <2>1 DEF q
  <1>5. n \div (a * b) < c
    <2>1. a * b \in Nat \ {0}
      BY <1>1
    <2> QED BY <2>1, DivBelow
  <1>6. n = a * (b * (q \div b) + (q % b)) + (n % a)
    BY <1>2, <1>3 DEF q
  <1>7. a * (b * (q \div b) + (q % b)) = a * ((q % b) + b * (q \div b))
    BY <1>3
  <1>8. n = (n % a) + a * ((q % b) + b * (q \div b))
    BY <1>2, <1>3, <1>6, <1>7
  <1>9. n \div (a * b) \in 0 .. c - 1
    BY <1>3, <1>4, <1>5
  <1>10. n = (n % a) + a * ((q % b) + b * (n \div (a * b)))
    BY <1>4, <1>8
  <1> QED BY <1>2, <1>3, <1>9, <1>10 DEF q, Digits

\* The invariant says that the tasks have places and indices of their own.
LEMMA TableInvSound == TableInv => TaskInfosSound
  <1> SUFFICES ASSUME TableInv PROVE TaskInfosSound
    OBVIOUS
  <1>1. \A ti \in tasks : ti.index \in Nat /\ ti.taskIndex \in Nat /\ ti.taskCount3d \in Nat \X Nat \X Nat
    BY DEF TableInv, TableTypeOK, TaskInfo
  <1>2. TaskInfosDistinct
    BY <1>1, PlaceIsIndex DEF TableInv, TaskInfosDistinct
  <1>3. TaskIndicesAgree
    <2> SUFFICES ASSUME NEW ti \in tasks
                 PROVE  LET c == ti.taskCount3d IN
                        /\ TaskIndex0(ti) \in 0 .. c[1] - 1
                        /\ TaskIndex1(ti) \in 0 .. c[2] - 1
                        /\ TaskIndex2(ti) \in 0 .. c[3] - 1
                        /\ ti.taskIndex = TaskIndex0(ti) + c[1] * (TaskIndex1(ti) + c[2] * TaskIndex2(ti))
      BY DEF TaskIndicesAgree
    <2> DEFINE c == ti.taskCount3d
               n == ti.taskIndex
    <2>1. n \in Nat /\ c[1] \in Nat /\ c[2] \in Nat /\ c[3] \in Nat /\ n < c[1] * c[2] * c[3]
      BY <1>1 DEF TableInv, TaskCount
    <2> HIDE DEF c, n
    <2>2. Digits(n, c[1], c[2], c[3])
      BY <2>1, MixedRadix
    <2>3. /\ TaskIndex0(ti) = n % c[1] /\ TaskIndex1(ti) = (n \div c[1]) % c[2]
          /\ TaskIndex2(ti) = n \div (c[1] * c[2])
      BY DEF TaskIndex0, TaskIndex1, TaskIndex2, c, n
    <2> QED BY <2>2, <2>3 DEF c, n, Digits
  <1> QED BY <1>2, <1>3 DEF TaskInfosSound, TableInv

\* GetTaskInfo never goes past taskInfo[], although it tests for one chunk
\* only, no launch overwrites a TaskInfo of a task that is not synced, and the
\* three indices of a task are the digits of its taskIndex.
THEOREM TaskInfosAreSound == TableSpec => []TaskInfosSound
  BY TableInvariant, TableInvSound, PTL

-----------------------------------------------------------------------------
(***************************************************************************)
(* The argument memory                                                     *)
(***************************************************************************)

\* The buffers up to the current one are allocated, and an id is used once.
BuffersInv ==
    /\ ~stopped => curMemBuffer \in BufferIndex
    /\ \A k \in BufferIndex :
         /\ memBuffers[k].id <= allocatedBuffers
         /\ k \in 1 .. curMemBuffer => memBuffers[k] \in bufferHeap

\* The blocks of the current buffer end before the offset of the next one.
OffsetInv ==
    \A b \in blocks :
      /\ b.buffer.id <= allocatedBuffers
      /\ ~stopped /\ b.buffer = Current => b.start + b.size <= curMemBufferOffset

\* A call that has allocated a buffer finds it empty and large enough.
CallInv ==
    /\ call = NoCall => grown = 0
    /\ call # NoCall => call.alignment # 0
    /\ grown # 0 => /\ grown = 1
                    /\ ~stopped => /\ curMemBufferOffset = 0
                                   /\ Current.size >= call.size + call.alignment

MemoryInv ==
    /\ MemoryTypeOK /\ BuffersInv /\ OffsetInv /\ CallInv
    /\ BlocksUsable /\ BlocksDisjoint

\* Where the block of a pending call starts and ends in the current buffer.
LEMMA StartFacts ==
    ASSUME MemoryInv, ~stopped, call # NoCall
    PROVE  /\ curMemBuffer \in BufferIndex /\ Current \in Buffer
           /\ call.size \in Nat /\ call.alignment \in Nat \ {0}
           /\ Start \in Nat /\ curMemBufferOffset <= Start
           /\ Start < curMemBufferOffset + call.alignment
           /\ (Current.base + Start) % call.alignment = 0
           /\ NewOffset = Start + call.size
  <1>1. curMemBuffer \in BufferIndex /\ Current \in Buffer
    BY DEF MemoryInv, MemoryTypeOK, BuffersInv, Current
  <1>2. call.size \in Nat /\ call.alignment \in Nat \ {0}
    BY DEF MemoryInv, MemoryTypeOK, CallInv
  <1>3. Current.base \in Nat /\ curMemBufferOffset \in Nat
    BY <1>1 DEF MemoryInv, MemoryTypeOK, Buffer
  <1> DEFINE addr == Current.base + curMemBufferOffset
             up == AlignUp(addr, call.alignment)
  <1>4. addr \in Nat
    BY <1>3
  <1>5. up \in Nat /\ up % call.alignment = 0 /\ addr <= up /\ up < addr + call.alignment
    BY <1>2, <1>4, AlignUpFacts
  <1>6. Start = up - Current.base
    BY DEF Start
  <1> HIDE DEF up
  <1>7. Current.base + Start = up
    BY <1>3, <1>5, <1>6
  <1> QED BY <1>1, <1>2, <1>3, <1>5, <1>6, <1>7 DEF NewOffset

\* A block that fits is new, aligned and disjoint from the others.
LEMMA FitsStep ==
    ASSUME MemoryInv, Fits
    PROVE  MemoryInv'
  <1> DEFINE new == [buffer |-> Current, start |-> Start, size |-> call.size,
                     alignment |-> call.alignment]
  <1>1. ~stopped /\ call # NoCall /\ NewOffset < Current.size
    BY DEF Fits
  <1>2. /\ curMemBufferOffset' = NewOffset /\ blocks' = blocks \cup {new}
        /\ call' = NoCall /\ grown' = 0
        /\ curMemBuffer' = curMemBuffer /\ memBuffers' = memBuffers /\ bufferHeap' = bufferHeap
        /\ allocatedBuffers' = allocatedBuffers /\ stopped' = stopped
    BY DEF Fits
  <1>3. /\ curMemBuffer \in BufferIndex /\ Current \in Buffer
        /\ call.size \in Nat /\ call.alignment \in Nat \ {0}
        /\ Start \in Nat /\ curMemBufferOffset <= Start
        /\ (Current.base + Start) % call.alignment = 0
        /\ NewOffset = Start + call.size
    BY <1>1, StartFacts
  <1>4. /\ new.buffer = Current /\ new.start = Start /\ new.size = call.size
        /\ new.alignment = call.alignment /\ new \in Block
    BY <1>3 DEF Block
  <1> HIDE DEF new
  <1>5. Current' = Current
    BY <1>2 DEF Current
  <1>6. \A b \in blocks : b \in Block /\ b.start \in Nat /\ b.size \in Nat
    BY DEF MemoryInv, MemoryTypeOK, Block
  <1>7. NewOffset \in Nat /\ curMemBufferOffset \in Nat /\ curMemBufferOffset <= NewOffset
    BY <1>3 DEF MemoryInv, MemoryTypeOK
  <1>8. MemoryTypeOK'
    <2>1. NoCall \in [size : Nat, alignment : Nat]
      BY DEF NoCall
    <2> QED BY <1>2, <1>4, <1>6, <1>7, <2>1 DEF MemoryInv, MemoryTypeOK
  <1>9. BuffersInv'
    BY <1>2 DEF MemoryInv, BuffersInv
  <1>10. OffsetInv'
    <2>1. Current.id <= allocatedBuffers
      BY <1>3 DEF MemoryInv, BuffersInv, Current
    <2>2. ASSUME NEW b \in blocks, b.buffer = Current PROVE b.start + b.size <= NewOffset
      <3>1. b.start + b.size <= curMemBufferOffset
        BY <1>1, <2>2 DEF MemoryInv, OffsetInv
      <3> QED BY <3>1, <1>6, <1>7
    <2> QED BY <1>2, <1>3, <1>4, <1>5, <2>1, <2>2 DEF MemoryInv, OffsetInv
  <1>11. CallInv'
    BY <1>2 DEF CallInv
  <1>12. BlocksUsable'
    <2>1. memBuffers[curMemBuffer] = Current /\ curMemBuffer \in 0 .. curMemBuffer
      BY <1>3 DEF Current, BufferIndex
    <2>2. Current \in bufferHeap \cup {memBuffers[0]}
      BY <1>3, <2>1 DEF MemoryInv, BuffersInv, BufferIndex
    <2>3. Start + call.size <= Current.size
      BY <1>1, <1>3 DEF Buffer
    <2> QED BY <1>2, <1>3, <1>4, <2>1, <2>2, <2>3 DEF MemoryInv, BlocksUsable
  <1>13. BlocksDisjoint'
    <2>1. ASSUME NEW b \in blocks, b.buffer = new.buffer PROVE b.start + b.size <= new.start
      <3>1. b.start + b.size <= curMemBufferOffset
        BY <1>1, <1>4, <2>1 DEF MemoryInv, OffsetInv
      <3> QED BY <3>1, <1>3, <1>4, <1>6, <1>7
    <2> QED BY <1>2, <2>1 DEF MemoryInv, BlocksDisjoint
  <1> QED BY <1>8, <1>9, <1>10, <1>11, <1>12, <1>13 DEF MemoryInv

\* Going to a new buffer, or past the last one, keeps the blocks where they
\* are; the buffer is large enough for the block that did not fit.
LEMMA GrowStep ==
    ASSUME MemoryInv, Grow
    PROVE  MemoryInv'
  <1> USE MemoryAssumption
  <1> DEFINE k == curMemBuffer + 1
  <1>1. /\ ~stopped /\ call # NoCall /\ NewOffset >= Current.size
        /\ curMemBuffer' = k /\ curMemBufferOffset' = 0 /\ call' = call /\ blocks' = blocks
    BY DEF Grow
  <1>2. /\ curMemBuffer \in BufferIndex /\ Current \in Buffer
        /\ call.size \in Nat /\ call.alignment \in Nat \ {0}
        /\ Start \in Nat /\ Start < curMemBufferOffset + call.alignment
        /\ NewOffset = Start + call.size
    BY <1>1, StartFacts
  <1>3. k \in 1 .. NUM_MEM_BUFFERS
    BY <1>2 DEF BufferIndex
  <1>4. grown = 0
    <2> SUFFICES ASSUME grown # 0 PROVE FALSE
      OBVIOUS
    <2>1. curMemBufferOffset = 0 /\ Current.size >= call.size + call.alignment
      BY <1>1 DEF MemoryInv, CallInv
    <2> QED BY <1>1, <1>2, <2>1, SMTT(30) DEF Buffer
  <1>5. \A b \in blocks : b \in Block /\ b.buffer \in Buffer /\ b.buffer.id \in Int
    BY DEF MemoryInv, MemoryTypeOK, Block, Buffer
  <1>6. CASE k = NUM_MEM_BUFFERS
    <2>1. /\ stopped' = TRUE /\ memBuffers' = memBuffers /\ bufferHeap' = bufferHeap
          /\ allocatedBuffers' = allocatedBuffers /\ grown' = grown
      BY <1>6 DEF Grow
    <2>2. stopped' \in BOOLEAN /\ stopped'
      BY <2>1, Zenon
    <2>3. MemoryTypeOK'
      BY <1>1, <1>3, <2>1, <2>2 DEF MemoryInv, MemoryTypeOK
    <2>4. BuffersInv'
      BY <1>1, <1>2, <1>3, <1>6, <2>1, <2>2 DEF MemoryInv, BuffersInv, BufferIndex
    <2>5. OffsetInv' /\ CallInv'
      BY <1>1, <1>4, <2>1, <2>2 DEF MemoryInv, OffsetInv, CallInv
    <2>6. BlocksUsable'
      BY <1>1, <1>2, <2>1 DEF MemoryInv, BlocksUsable, BufferIndex
    <2>7. BlocksDisjoint'
      BY <1>1 DEF MemoryInv, BlocksDisjoint
    <2> QED BY <2>3, <2>4, <2>5, <2>6, <2>7 DEF MemoryInv
  <1>7. CASE k < NUM_MEM_BUFFERS
    <2>1. PICK new \in Buffer :
            /\ new.size >= call.size + call.alignment /\ new.id = allocatedBuffers + 1
            /\ memBuffers' = [memBuffers EXCEPT ![k] = new]
            /\ bufferHeap' = bufferHeap \cup {new}
      <3> DEFINE atLeast == call.size + call.alignment
                 New(base) == [size |-> IF atLeast > BufferSize[k] THEN atLeast ELSE BufferSize[k],
                               base |-> base, id |-> allocatedBuffers + 1]
      <3>0. k # NUM_MEM_BUFFERS
        BY <1>3, <1>7
      <3>1. PICK base \in BaseAddresses :
              memBuffers' = [memBuffers EXCEPT ![k] = New(base)] /\ bufferHeap' = bufferHeap \cup {New(base)}
        BY <3>0, Zenon DEF Grow
      <3>2. atLeast \in Nat /\ BufferSize[k] \in Nat /\ base \in Nat /\ allocatedBuffers \in Nat
        BY <1>2, <1>3 DEF MemoryInv, MemoryTypeOK
      <3>3. New(base) \in Buffer /\ New(base).size >= atLeast /\ New(base).id = allocatedBuffers + 1
        BY <3>2 DEF Buffer
      <3> QED BY <3>1, <3>3
    <2>2. /\ allocatedBuffers' = allocatedBuffers + 1 /\ grown' = grown + 1 /\ stopped' = stopped
      BY <1>7 DEF Grow
    <2>3. k \in BufferIndex
      BY <1>3, <1>7 DEF BufferIndex
    <2>4. allocatedBuffers \in Nat /\ memBuffers \in [BufferIndex -> Buffer]
      BY DEF MemoryInv, MemoryTypeOK
    <2>5. memBuffers'[k] = new /\ \A j \in BufferIndex \ {k} : memBuffers'[j] = memBuffers[j]
      BY <2>1, <2>3, <2>4
    <2>6. Current' = new
      BY <1>1, <2>5 DEF Current
    <2>7. MemoryTypeOK'
      <3>1. memBuffers' \in [BufferIndex -> Buffer] /\ bufferHeap' \subseteq Buffer
        BY <2>1, <2>4 DEF MemoryInv, MemoryTypeOK
      <3>2. curMemBuffer' \in 0 .. NUM_MEM_BUFFERS /\ grown' \in Nat /\ allocatedBuffers' \in Nat
        BY <1>1, <1>3, <1>4, <2>2, <2>4
      <3> QED BY <1>1, <2>2, <3>1, <3>2 DEF MemoryInv, MemoryTypeOK
    <2>8. BuffersInv'
      <3>1. ~stopped' => curMemBuffer' \in BufferIndex
        BY <1>1, <2>3
      <3>2. ASSUME NEW j \in BufferIndex
            PROVE  /\ memBuffers'[j].id <= allocatedBuffers'
                   /\ j \in 1 .. curMemBuffer' => memBuffers'[j] \in bufferHeap'
        <4>1. CASE j = k
          BY <2>1, <2>2, <2>4, <2>5, <4>1
        <4>2. CASE j # k
          <5>1. memBuffers'[j] = memBuffers[j] /\ memBuffers[j] \in Buffer /\ memBuffers[j].id \in Int
            BY <2>4, <2>5, <4>2 DEF Buffer
          <5>2. memBuffers[j].id <= allocatedBuffers + 1
            BY <5>1, <2>4 DEF MemoryInv, BuffersInv
          <5>3. j \in 1 .. k => j \in 1 .. curMemBuffer
            BY <1>2, <4>2 DEF BufferIndex
          <5> QED BY <5>1, <5>2, <5>3, <1>1, <2>1, <2>2 DEF MemoryInv, BuffersInv
        <4> QED BY <4>1, <4>2
      <3> QED BY <3>1, <3>2 DEF BuffersInv
    <2>9. \A b \in blocks : b.buffer.id <= allocatedBuffers /\ b.buffer # new
      BY <1>5, <2>1, <2>4 DEF MemoryInv, OffsetInv
    <2>10. OffsetInv'
      BY <1>1, <1>5, <2>2, <2>4, <2>6, <2>9 DEF OffsetInv
    <2>11. CallInv'
      BY <1>1, <1>4, <2>1, <2>2, <2>6 DEF MemoryInv, CallInv
    <2>12. BlocksUsable'
      <3> SUFFICES ASSUME NEW b \in blocks
                   PROVE  /\ (b.buffer.base + b.start) % b.alignment = 0
                          /\ b.start + b.size <= b.buffer.size
                          /\ \E j \in 0 .. curMemBuffer' : j \in BufferIndex /\ memBuffers'[j] = b.buffer
                          /\ b.buffer \in bufferHeap' \cup {memBuffers'[0]}
        BY <1>1 DEF BlocksUsable, BufferIndex
      <3>1. PICK j \in 0 .. curMemBuffer : j \in BufferIndex /\ memBuffers[j] = b.buffer
        BY DEF MemoryInv, BlocksUsable
      <3>2. j \in 0 .. curMemBuffer' /\ memBuffers'[j] = b.buffer
        BY <3>1, <1>1, <1>2, <2>5 DEF BufferIndex
      <3>3. memBuffers'[0] = memBuffers[0]
        <4>1. 0 \in BufferIndex /\ 0 # k
          BY <1>2 DEF BufferIndex
        <4> HIDE DEF k
        <4> QED BY <4>1, <2>5
      <3> QED BY <3>1, <3>2, <3>3, <2>1 DEF MemoryInv, BlocksUsable
    <2>13. BlocksDisjoint'
      BY <1>1 DEF MemoryInv, BlocksDisjoint
    <2> QED BY <2>7, <2>8, <2>10, <2>11, <2>12, <2>13 DEF MemoryInv
  <1> QED BY <1>3, <1>6, <1>7

\* Every step preserves the invariant, which holds initially.
LEMMA MemoryInvariant == MemorySpec => []MemoryInv
  <1> USE MemoryAssumption
  <1>1. ASSUME MemoryInit PROVE MemoryInv
    <2>1. stopped \in BOOLEAN /\ ~stopped
      BY <1>1, Zenon DEF MemoryInit
    <2>2. memBuffers \in [BufferIndex -> Buffer] /\ \A k \in BufferIndex : memBuffers[k].id <= 0
      BY <1>1 DEF MemoryInit, Buffer, NoBuffer, BufferIndex
    <2>3. MemoryTypeOK
      BY <1>1, <2>1, <2>2 DEF MemoryInit, MemoryTypeOK, NoCall
    <2>4. BuffersInv
      BY <1>1, <2>2 DEF MemoryInit, BuffersInv, BufferIndex
    <2>5. OffsetInv /\ CallInv /\ BlocksUsable /\ BlocksDisjoint
      BY <1>1 DEF MemoryInit, OffsetInv, CallInv, BlocksUsable, BlocksDisjoint
    <2> QED BY <2>3, <2>4, <2>5 DEF MemoryInv
  <1>2. ASSUME MemoryInv, [MemoryNext]_memoryVars PROVE MemoryInv'
    <2>1. CASE UNCHANGED memoryVars
      BY <1>2, <2>1 DEF memoryVars, MemoryInv, MemoryTypeOK, BuffersInv, OffsetInv, CallInv, Current,
                        BlocksUsable, BlocksDisjoint
    <2>2. ASSUME NEW size \in Sizes, NEW alignment \in Alignments, AllocMemory(size, alignment)
          PROVE  MemoryInv'
      <3>1. call' \in [size : Nat, alignment : Nat] /\ call'.alignment # 0 /\ grown = 0
        BY <1>2, <2>2 DEF AllocMemory, MemoryInv, CallInv
      <3>2. /\ call = NoCall /\ curMemBuffer' = curMemBuffer /\ curMemBufferOffset' = curMemBufferOffset
            /\ memBuffers' = memBuffers /\ bufferHeap' = bufferHeap /\ grown' = grown
            /\ allocatedBuffers' = allocatedBuffers /\ blocks' = blocks /\ stopped' = stopped
        BY <2>2 DEF AllocMemory
      <3>3. MemoryTypeOK' /\ BuffersInv'
        BY <1>2, <3>1, <3>2 DEF MemoryInv, MemoryTypeOK, BuffersInv
      <3>4. OffsetInv' /\ BlocksUsable' /\ BlocksDisjoint'
        BY <1>2, <3>2 DEF MemoryInv, OffsetInv, Current, BlocksUsable, BlocksDisjoint
      <3>5. CallInv'
        BY <3>1, <3>2 DEF CallInv
      <3> QED BY <3>3, <3>4, <3>5 DEF MemoryInv
    <2>3. CASE ResetMemory
      <3>1. MemoryTypeOK'
        BY <1>2, <2>3 DEF ResetMemory, MemoryInv, MemoryTypeOK
      <3>2. BuffersInv' /\ OffsetInv' /\ CallInv'
        BY <1>2, <2>3 DEF ResetMemory, MemoryInv, BuffersInv, OffsetInv, CallInv, BufferIndex
      <3>3. BlocksUsable' /\ BlocksDisjoint'
        BY <2>3 DEF ResetMemory, BlocksUsable, BlocksDisjoint
      <3> QED BY <3>1, <3>2, <3>3 DEF MemoryInv
    <2>4. CASE DeleteAndNew
      <3>1. /\ blocks = {} /\ blocks' = {} /\ curMemBuffer = 0 /\ curMemBuffer' = 0 /\ call = NoCall
            /\ call' = call /\ grown' = grown /\ stopped' = stopped /\ allocatedBuffers' = allocatedBuffers
            /\ curMemBufferOffset' = curMemBufferOffset /\ bufferHeap' \subseteq bufferHeap
            /\ memBuffers' = [k \in BufferIndex |-> IF k = 0 THEN memBuffers[0] ELSE NoBuffer]
        BY <2>4 DEF DeleteAndNew
      <3>2. memBuffers' \in [BufferIndex -> Buffer] /\ \A k \in BufferIndex : memBuffers'[k].id <= allocatedBuffers
        BY <1>2, <3>1 DEF MemoryInv, MemoryTypeOK, BuffersInv, NoBuffer, Buffer, BufferIndex
      <3>3. MemoryTypeOK'
        BY <1>2, <3>1, <3>2 DEF MemoryInv, MemoryTypeOK
      <3>4. BuffersInv'
        BY <1>2, <3>1, <3>2 DEF MemoryInv, BuffersInv, BufferIndex
      <3>5. OffsetInv' /\ BlocksUsable' /\ BlocksDisjoint'
        BY <3>1 DEF OffsetInv, BlocksUsable, BlocksDisjoint
      <3>6. CallInv'
        BY <1>2, <3>1 DEF MemoryInv, CallInv
      <3> QED BY <3>3, <3>4, <3>5, <3>6 DEF MemoryInv
    <2> QED BY <1>2, <2>1, <2>2, <2>3, <2>4, FitsStep, GrowStep DEF MemoryNext
  <1> QED BY <1>1, <1>2, PTL DEF MemorySpec

\* AllocMemory gives every task memory of its own, aligned and large enough,
\* that stays allocated until the sync; its recursion ends after one buffer.
THEOREM BlocksAreSound == MemorySpec => []BlocksSound
  <1>1. ASSUME MemoryInv PROVE BlocksSound
    <2>1. GrowsAtMostOnce
      BY <1>1 DEF MemoryInv, CallInv, GrowsAtMostOnce
    <2> QED BY <1>1, <2>1 DEF MemoryInv, BlocksSound
  <1> QED BY <1>1, MemoryInvariant, PTL

(***************************************************************************)
(* The free list of task groups                                            *)
(***************************************************************************)

\* At most two threads launch tasks, from functions that do not nest.  With a
\* third thread, or a second handle of a thread, the compare-and-swap of
\* AllocTaskGroup may find another group than the one it read, and returns that
\* one and leaves it in the list.
NoThirdGroup ==
    /\ MaxDepth = 1
    /\ \A t, u, w \in Threads : t = u \/ t = w \/ u = w

Allocating(t) == pc[t] \in {"allocRead", "allocCAS"}
Freeing(t) == pc[t] \in {"freeRead", "freeCAS"}

\* Thread t has group g: as the handle of its function, or to free it.
HasGroup(t, g) == handles[t] = <<g>> \/ (Freeing(t) /\ tg[t] = g)

\* A thread has a handle only outside AllocTaskGroup and FreeTaskGroup, and one
\* at most.
ThreadShape(t) ==
    /\ i[t] > 0
    /\ handles[t] = <<>> \/ (pc[t] = "idle" /\ \E g \in Groups : handles[t] = <<g>>)
    /\ pc[t] \in {"allocCAS", "freeRead", "freeCAS"} => tg[t] \in Groups
    /\ pc[t] \in {"allocCAS", "freeCAS"} => i[t] \in SlotIndex

PoolShape == PoolTypeOK /\ \A t \in Threads : ThreadShape(t)

\* A group is in one slot, or has one thread.
GroupsApart ==
    /\ \A a, b \in SlotIndex : freeTaskGroups[a] = freeTaskGroups[b] /\ freeTaskGroups[a] # Null => a = b
    /\ \A t, u \in Threads : \A g \in Groups : HasGroup(t, g) /\ HasGroup(u, g) => t = u
    /\ \A t \in Threads : \A s \in SlotIndex : freeTaskGroups[s] # Null => ~HasGroup(t, freeTaskGroups[s])

\* The heap has the groups that are in a slot or have a thread.
HeapExact ==
    \A g \in Groups : g \in heap <=>
        (\E s \in SlotIndex : freeTaskGroups[s] = g) \/ (\E t \in Threads : HasGroup(t, g))

\* While both threads scan for a group, nobody fills a slot: the slots that the
\* one behind has passed are empty.
ScanEmpty ==
    \A t, u \in Threads :
        t # u /\ Allocating(t) /\ Allocating(u) /\ i[t] <= i[u] =>
            \A s \in SlotIndex : s < i[t] => freeTaskGroups[s] = Null

\* The slot that a compare-and-swap of AllocTaskGroup is about has the group
\* that was read, or it is empty.  Then the other thread took the group, from
\* the first slot that was not empty: it still has it, or put it into the first
\* slot, where it also looks for it first.
ReadGroupOrNull ==
    \A t \in Threads :
        pc[t] = "allocCAS" /\ freeTaskGroups[i[t]] # tg[t] =>
            /\ freeTaskGroups[i[t]] = Null
            /\ \A s \in SlotIndex : 1 < s /\ s <= i[t] => freeTaskGroups[s] = Null
            /\ \A u \in Threads \ {t} :
                 \/ freeTaskGroups[1] = Null /\ HasGroup(u, tg[t]) /\ (Freeing(u) => i[u] = 1)
                 \/ /\ freeTaskGroups[1] = tg[t] /\ handles[u] = <<>>
                    /\ pc[u] = "idle" \/ (Allocating(u) /\ i[u] = 1)

\* The inductive invariant of the free list.
PoolInv == PoolShape /\ GroupsApart /\ HeapExact /\ ScanEmpty /\ ReadGroupOrNull

\* Sequences of one element.
LEMMA SingletonFacts ==
    ASSUME NEW g
    PROVE  /\ Append(<<>>, g) = <<g>> /\ Last(<<g>>) = g /\ Front(<<g>>) = <<>>
           /\ <<g>> # <<>> /\ Len(<<g>>) = 1 /\ <<g>>[1] = g
  BY DEF Last, Front

\* What a step of thread t leaves alone.
OthersStay(t) ==
    \A u \in Threads \ {t} :
        handles'[u] = handles[u] /\ pc'[u] = pc[u] /\ i'[u] = i[u] /\ tg'[u] = tg[u]

\* The groups and the progress of another thread are the same after a step.
LEMMA OtherThread ==
    ASSUME NEW t \in Threads, NEW u \in Threads \ {t}, OthersStay(t)
    PROVE  /\ \A g : HasGroup(u, g)' <=> HasGroup(u, g)
           /\ ThreadShape(u)' <=> ThreadShape(u)
           /\ Allocating(u)' <=> Allocating(u)
           /\ Freeing(u)' <=> Freeing(u)
  BY DEF OthersStay, HasGroup, ThreadShape, Allocating, Freeing, SlotIndex

\* The list is empty and no thread has a group.
LEMMA PoolInitial == PoolInit => PoolInv
  <1> SUFFICES ASSUME PoolInit PROVE PoolInv
    OBVIOUS
  <1> USE PoolAssumption DEF PoolInit
  <1>1. PoolShape
    BY DEF PoolShape, PoolTypeOK, ThreadShape, SlotIndex, PoolLabels
  <1>2. \A t \in Threads : \A g : ~HasGroup(t, g)
    BY SingletonFacts DEF HasGroup, Freeing
  <1>3. GroupsApart /\ HeapExact
    BY <1>2 DEF GroupsApart, HeapExact
  <1>4. ScanEmpty /\ ReadGroupOrNull
    BY DEF ScanEmpty, ReadGroupOrNull, Allocating
  <1> QED BY <1>1, <1>3, <1>4 DEF PoolInv

\* A step that moves no group keeps them apart.
LEMMA GroupsStay ==
    ASSUME PoolInv, freeTaskGroups' = freeTaskGroups, heap' = heap,
           \A u \in Threads : \A h \in Groups : HasGroup(u, h)' <=> HasGroup(u, h)
    PROVE  GroupsApart' /\ HeapExact'
  <1>1. \A s \in SlotIndex : freeTaskGroups[s] # Null => freeTaskGroups[s] \in Groups
    BY DEF PoolInv, PoolShape, PoolTypeOK
  <1>2. GroupsApart'
    BY <1>1 DEF GroupsApart, PoolInv
  <1>3. HeapExact'
    BY DEF HeapExact, PoolInv
  <1> QED BY <1>2, <1>3

\* The shape of the other threads stays.
LEMMA ShapeStays ==
    ASSUME PoolInv, NEW t \in Threads, OthersStay(t), PoolTypeOK', ThreadShape(t)'
    PROVE  PoolShape'
  BY OtherThread DEF PoolInv, PoolShape

\* A step of t that is not one of AllocTaskGroup, or ends it, leaves one thread
\* at most in it.
LEMMA ScanAlone ==
    ASSUME NoThirdGroup, NEW t \in Threads, ~Allocating(t)'
    PROVE  ScanEmpty'
  BY DEF NoThirdGroup, ScanEmpty

\* What is to be shown of ReadGroupOrNull when t takes a step: of t, that it has
\* read the group if it goes on to the compare-and-swap, and of the other thread.
LEMMA ReadByOther ==
    ASSUME NoThirdGroup, PoolInv, NEW t \in Threads, OthersStay(t),
           pc'[t] = "allocCAS" => freeTaskGroups'[i'[t]] = tg'[t],
           \A u \in Threads \ {t} :
               pc[u] = "allocCAS" /\ freeTaskGroups'[i[u]] # tg[u] =>
                   /\ freeTaskGroups'[i[u]] = Null
                   /\ \A s \in SlotIndex : 1 < s /\ s <= i[u] => freeTaskGroups'[s] = Null
                   /\ \/ freeTaskGroups'[1] = Null /\ HasGroup(t, tg[u])' /\ (Freeing(t)' => i'[t] = 1)
                      \/ /\ freeTaskGroups'[1] = tg[u] /\ handles'[t] = <<>>
                         /\ pc'[t] = "idle" \/ (Allocating(t)' /\ i'[t] = 1)
    PROVE  ReadGroupOrNull'
  <1> SUFFICES ASSUME NEW u \in Threads, pc'[u] = "allocCAS", freeTaskGroups'[i'[u]] # tg'[u]
               PROVE  /\ freeTaskGroups'[i'[u]] = Null
                      /\ \A s \in SlotIndex : 1 < s /\ s <= i'[u] => freeTaskGroups'[s] = Null
                      /\ \A w \in Threads \ {u} :
                           \/ freeTaskGroups'[1] = Null /\ HasGroup(w, tg[u])' /\ (Freeing(w)' => i'[w] = 1)
                           \/ /\ freeTaskGroups'[1] = tg'[u] /\ handles'[w] = <<>>
                              /\ pc'[w] = "idle" \/ (Allocating(w)' /\ i'[w] = 1)
                      /\ tg'[u] = tg[u]
    BY DEF ReadGroupOrNull, HasGroup, SlotIndex
  <1>1. u # t
    OBVIOUS
  <1>2. pc[u] = "allocCAS" /\ i'[u] = i[u] /\ tg'[u] = tg[u]
    BY <1>1 DEF OthersStay
  <1>3. \A w \in Threads \ {u} : w = t
    BY <1>1 DEF NoThirdGroup
  <1> QED BY <1>1, <1>2, <1>3

\* What the invariant says of a thread that is in a compare-and-swap of
\* AllocTaskGroup, and of the other one.
LEMMA ReadByOtherBefore ==
    ASSUME PoolInv, NEW t \in Threads, NEW u \in Threads \ {t}, pc[u] = "allocCAS"
    PROVE  /\ i[u] \in SlotIndex /\ tg[u] \in Groups
           /\ freeTaskGroups[i[u]] # tg[u] =>
                   /\ freeTaskGroups[i[u]] = Null
                   /\ \A s \in SlotIndex : 1 < s /\ s <= i[u] => freeTaskGroups[s] = Null
                   /\ \/ freeTaskGroups[1] = Null /\ HasGroup(t, tg[u]) /\ (Freeing(t) => i[t] = 1)
                      \/ /\ freeTaskGroups[1] = tg[u] /\ handles[t] = <<>>
                         /\ pc[t] = "idle" \/ (Allocating(t) /\ i[t] = 1)
  BY DEF PoolInv, ReadGroupOrNull, PoolShape, ThreadShape

\* AllocTaskGroup is entered: no group moves.
LEMMA AllocEnterStep ==
    ASSUME NoThirdGroup, PoolInv, NEW t \in Threads, AllocEnter(t)
    PROVE  PoolInv'
  <1> USE PoolAssumption
  <1>0. /\ OthersStay(t) /\ pc'[t] = "allocRead" /\ i'[t] = 1 /\ pc[t] = "idle" /\ handles[t] = <<>>
        /\ freeTaskGroups' = freeTaskGroups /\ heap' = heap /\ handles' = handles /\ tg' = tg
    BY SingletonFacts DEF AllocEnter, OthersStay, PoolInv, PoolShape, PoolTypeOK, ThreadShape, NoThirdGroup
  <1>1. PoolShape'
    <2>1. PoolTypeOK'
      BY <1>0, SingletonFacts DEF PoolInv, PoolShape, PoolTypeOK, AllocEnter, PoolLabels
    <2>2. ThreadShape(t)'
      BY <1>0 DEF ThreadShape, SlotIndex
    <2> QED BY <1>0, <2>1, <2>2, ShapeStays
  <1>2. \A u \in Threads : \A h \in Groups : HasGroup(u, h)' <=> HasGroup(u, h)
    BY <1>0, SingletonFacts DEF HasGroup, Freeing, OthersStay
  <1>3. GroupsApart' /\ HeapExact'
    BY <1>0, <1>2, GroupsStay
  <1>4. ScanEmpty'
    <2> SUFFICES ASSUME NEW u \in Threads, NEW w \in Threads, u # w, Allocating(u)', Allocating(w)', i'[u] <= i'[w],
                        NEW s \in SlotIndex, s < i'[u]
                 PROVE  freeTaskGroups'[s] = Null
      BY DEF ScanEmpty, SlotIndex
    <2>1. u # t /\ w # t
      BY <1>0, <1>1 DEF PoolShape, PoolTypeOK, ThreadShape, SlotIndex
    <2> QED BY <1>0, <2>1, OtherThread DEF PoolInv, ScanEmpty, OthersStay, SlotIndex
  <1>5. ReadGroupOrNull'
    <2> SUFFICES ASSUME NEW u \in Threads \ {t}, pc[u] = "allocCAS", freeTaskGroups'[i[u]] # tg[u]
                 PROVE  /\ freeTaskGroups'[i[u]] = Null
                        /\ \A s \in SlotIndex : 1 < s /\ s <= i[u] => freeTaskGroups'[s] = Null
                        /\ \/ freeTaskGroups'[1] = Null /\ HasGroup(t, tg[u])' /\ (Freeing(t)' => i'[t] = 1)
                           \/ /\ freeTaskGroups'[1] = tg[u] /\ handles'[t] = <<>>
                              /\ pc'[t] = "idle" \/ (Allocating(t)' /\ i'[t] = 1)
      BY <1>0, ReadByOther
    <2>1. /\ i[u] \in SlotIndex /\ tg[u] \in Groups
          /\ freeTaskGroups[i[u]] # tg[u] =>
                 /\ freeTaskGroups[i[u]] = Null
                 /\ \A s \in SlotIndex : 1 < s /\ s <= i[u] => freeTaskGroups[s] = Null
                 /\ \/ freeTaskGroups[1] = Null /\ HasGroup(t, tg[u]) /\ (Freeing(t) => i[t] = 1)
                    \/ /\ freeTaskGroups[1] = tg[u] /\ handles[t] = <<>>
                       /\ pc[t] = "idle" \/ (Allocating(t) /\ i[t] = 1)
      BY ReadByOtherBefore
    <2> QED BY <1>0, <2>1, <1>2, SingletonFacts DEF HasGroup, Freeing, Allocating
  <1> QED BY <1>1, <1>3, <1>4, <1>5 DEF PoolInv

\* A slot is read: no group moves.
LEMMA AllocReadStep ==
    ASSUME NoThirdGroup, PoolInv, NEW t \in Threads, AllocRead(t)
    PROVE  PoolInv'
  <1> USE PoolAssumption
  <1>0. /\ OthersStay(t) /\ pc[t] = "allocRead" /\ handles[t] = <<>> /\ i[t] \in SlotIndex /\ i[t] \in Nat /\ i[t] > 0
        /\ \/ pc'[t] = "allocCAS" /\ i'[t] = i[t] /\ freeTaskGroups[i[t]] \in Groups /\ freeTaskGroups[i[t]] # Null
           \/ pc'[t] = "allocRead" /\ i'[t] = i[t] + 1 /\ freeTaskGroups[i[t]] = Null
        /\ tg'[t] = freeTaskGroups[i[t]]
        /\ freeTaskGroups' = freeTaskGroups /\ heap' = heap /\ handles' = handles
    BY SingletonFacts DEF AllocRead, OthersStay, PoolInv, PoolShape, PoolTypeOK, ThreadShape
  <1>1. PoolShape'
    <2>1. PoolTypeOK'
      <3>1. freeTaskGroups[i[t]] \in Groups \cup {Null} /\ i[t] + 1 \in Nat
        BY <1>0
      <3>2. pc' \in [Threads -> PoolLabels] /\ i' \in [Threads -> Nat] /\ tg' \in [Threads -> Groups \cup {Null}]
        BY <3>1 DEF PoolInv, PoolShape, PoolTypeOK, AllocRead, PoolLabels
      <3> QED BY <1>0, <3>2 DEF PoolInv, PoolShape, PoolTypeOK
    <2>2. ThreadShape(t)'
      BY <1>0 DEF ThreadShape, SlotIndex
    <2> QED BY <1>0, <2>1, <2>2, ShapeStays
  <1>2. \A u \in Threads : \A h \in Groups : HasGroup(u, h)' <=> HasGroup(u, h)
    BY <1>0, SingletonFacts DEF HasGroup, Freeing, OthersStay
  <1>3. GroupsApart' /\ HeapExact'
    BY <1>0, <1>2, GroupsStay
  <1>4. ScanEmpty'
    <2> SUFFICES ASSUME NEW u \in Threads, NEW w \in Threads, u # w, Allocating(u)', Allocating(w)', i'[u] <= i'[w],
                        NEW s \in SlotIndex, s < i'[u]
                 PROVE  freeTaskGroups'[s] = Null
      BY DEF ScanEmpty, SlotIndex
    <2>1. Allocating(u) /\ Allocating(w)
      BY <1>0, OtherThread DEF Allocating
    <2>2. i[u] \in Nat /\ i[w] \in Nat /\ s \in Nat
      BY DEF PoolInv, PoolShape, PoolTypeOK, SlotIndex
    <2>3. u = t \/ w = t
      BY DEF NoThirdGroup
    <2>4. u # t => i'[u] = i[u]
      BY <1>0 DEF OthersStay
    <2>5. w # t => i'[w] = i[w]
      BY <1>0 DEF OthersStay
    <2>6. i[u] <= i[w] => \A r \in SlotIndex : r < i[u] => freeTaskGroups[r] = Null
      BY <2>1 DEF PoolInv, ScanEmpty
    <2>7. i[w] <= i[u] => \A r \in SlotIndex : r < i[w] => freeTaskGroups[r] = Null
      BY <2>1 DEF PoolInv, ScanEmpty
    <2> QED BY <1>0, <2>2, <2>3, <2>4, <2>5, <2>6, <2>7
  <1>5. ReadGroupOrNull'
    <2> SUFFICES ASSUME NEW u \in Threads \ {t}, pc[u] = "allocCAS", freeTaskGroups'[i[u]] # tg[u]
                 PROVE  /\ freeTaskGroups'[i[u]] = Null
                        /\ \A s \in SlotIndex : 1 < s /\ s <= i[u] => freeTaskGroups'[s] = Null
                        /\ \/ freeTaskGroups'[1] = Null /\ HasGroup(t, tg[u])' /\ (Freeing(t)' => i'[t] = 1)
                           \/ /\ freeTaskGroups'[1] = tg[u] /\ handles'[t] = <<>>
                              /\ pc'[t] = "idle" \/ (Allocating(t)' /\ i'[t] = 1)
      BY <1>0, ReadByOther
    <2>1. /\ i[u] \in SlotIndex /\ tg[u] \in Groups
          /\ freeTaskGroups[i[u]] # tg[u] =>
                 /\ freeTaskGroups[i[u]] = Null
                 /\ \A s \in SlotIndex : 1 < s /\ s <= i[u] => freeTaskGroups[s] = Null
                 /\ \/ freeTaskGroups[1] = Null /\ HasGroup(t, tg[u]) /\ (Freeing(t) => i[t] = 1)
                    \/ /\ freeTaskGroups[1] = tg[u] /\ handles[t] = <<>>
                       /\ pc[t] = "idle" \/ (Allocating(t) /\ i[t] = 1)
      BY ReadByOtherBefore
    <2>2. ~HasGroup(t, tg[u]) /\ Allocating(t)'
      BY <1>0, SingletonFacts DEF HasGroup, Freeing, Allocating
    <2> QED BY <1>0, <2>1, <2>2
  <1> QED BY <1>1, <1>3, <1>4, <1>5 DEF PoolInv

\* The compare-and-swap of AllocTaskGroup, when the slot has a group: the one
\* that was read.
LEMMA AllocTakes ==
    ASSUME NoThirdGroup, PoolInv, NEW t \in Threads, AllocCAS(t), freeTaskGroups[i[t]] # Null
    PROVE  PoolInv'
  <1> USE PoolAssumption
  <1> DEFINE g == tg[t]
  <1>0. /\ OthersStay(t) /\ pc[t] = "allocCAS" /\ handles[t] = <<>> /\ i[t] \in SlotIndex /\ i[t] \in Nat /\ i[t] > 0
        /\ g \in Groups /\ g # Null /\ freeTaskGroups[i[t]] = g
        /\ pc' = [pc EXCEPT ![t] = "idle"] /\ pc'[t] = "idle"
        /\ handles'[t] = <<g>> /\ heap' = heap /\ tg' = tg /\ i' = i
        /\ freeTaskGroups' = [freeTaskGroups EXCEPT ![i[t]] = Null]
        /\ freeTaskGroups \in [SlotIndex -> Groups \cup {Null}]
    BY SingletonFacts DEF AllocCAS, OthersStay, PoolInv, PoolShape, PoolTypeOK, ThreadShape, ReadGroupOrNull
  <1> HIDE DEF g
  <1>1. PoolShape'
    <2>1. PoolTypeOK'
      <3>1. handles' = [handles EXCEPT ![t] = <<g>>] /\ <<g>> \in Seq(Groups)
        BY <1>0, SingletonFacts DEF AllocCAS
      <3>2. handles' \in [Threads -> Seq(Groups)]
        BY <3>1 DEF PoolInv, PoolShape, PoolTypeOK
      <3>3. pc' \in [Threads -> PoolLabels]
        BY <1>0 DEF PoolInv, PoolShape, PoolTypeOK, PoolLabels
      <3> QED BY <1>0, <3>2, <3>3 DEF PoolInv, PoolShape, PoolTypeOK
    <2>2. ThreadShape(t)'
      BY <1>0 DEF ThreadShape, SlotIndex
    <2> QED BY <1>0, <2>1, <2>2, ShapeStays
  <1>2. /\ \A h \in Groups : ~HasGroup(t, h) /\ (HasGroup(t, h)' <=> h = g)
        /\ \A u \in Threads \ {t} : \A h \in Groups : HasGroup(u, h)' <=> HasGroup(u, h)
    <2>1. \A h \in Groups : ~HasGroup(t, h) /\ (HasGroup(t, h)' <=> h = g)
      BY <1>0, SingletonFacts DEF HasGroup, Freeing
    <2> QED BY <1>0, <2>1, OtherThread
  <1>3. GroupsApart' /\ HeapExact'
    <2>1. \A s \in SlotIndex : freeTaskGroups'[s] = IF s = i[t] THEN Null ELSE freeTaskGroups[s]
      BY <1>0
    <2>2. \A u \in Threads : ~HasGroup(u, g)
      BY <1>0 DEF PoolInv, GroupsApart
    <2>3. \A s \in SlotIndex : freeTaskGroups[s] = g => s = i[t]
      BY <1>0 DEF PoolInv, GroupsApart
    <2>4. \A s \in SlotIndex : freeTaskGroups'[s] # Null => freeTaskGroups'[s] \in Groups \ {g}
      BY <1>0, <2>1, <2>3
    <2>5. GroupsApart'
      <3>1. \A a, b \in SlotIndex : freeTaskGroups'[a] = freeTaskGroups'[b] /\ freeTaskGroups'[a] # Null => a = b
        BY <1>0, <2>1 DEF PoolInv, GroupsApart
      <3>2. ASSUME NEW u \in Threads, NEW w \in Threads, NEW h \in Groups, HasGroup(u, h)', HasGroup(w, h)'
            PROVE  u = w
        BY <1>2, <2>2, <3>2 DEF PoolInv, GroupsApart
      <3>3. ASSUME NEW u \in Threads, NEW s \in SlotIndex, NEW h \in Groups, h # Null, freeTaskGroups'[s] = h
            PROVE  ~HasGroup(u, h)'
        <4>1. freeTaskGroups[s] = h /\ h # g
          BY <2>1, <2>4, <3>3
        <4> QED BY <1>2, <3>3, <4>1 DEF PoolInv, GroupsApart
      <3>4. \A u \in Threads : \A s \in SlotIndex : freeTaskGroups'[s] # Null => ~HasGroup(u, freeTaskGroups[s])'
        BY <3>3, <2>4 DEF HasGroup, Freeing
      <3> QED BY <3>1, <3>2, <3>4 DEF GroupsApart
    <2>6. HeapExact'
      <3> SUFFICES ASSUME NEW h \in Groups
                   PROVE  h \in heap <=> \/ \E s \in SlotIndex : freeTaskGroups'[s] = h
                                         \/ \E u \in Threads : HasGroup(u, h)'
        BY <1>0 DEF HeapExact
      <3>1. h \in heap <=> \/ \E s \in SlotIndex : freeTaskGroups[s] = h
                           \/ \E u \in Threads : HasGroup(u, h)
        BY DEF PoolInv, HeapExact
      <3>2. CASE h = g
        BY <1>0, <1>2, <3>1, <3>2
      <3>3. CASE h # g
        <4>1. (\E s \in SlotIndex : freeTaskGroups[s] = h) <=> (\E s \in SlotIndex : freeTaskGroups'[s] = h)
          BY <1>0, <2>1, <3>3
        <4>2. \A u \in Threads : HasGroup(u, h)' <=> HasGroup(u, h)
          BY <1>2, <3>3
        <4> QED BY <3>1, <4>1, <4>2
      <3> QED BY <3>2, <3>3
    <2> QED BY <2>5, <2>6
  <1>4. ScanEmpty'
    BY <1>0, ScanAlone DEF Allocating
  <1>5. ReadGroupOrNull'
    <2> SUFFICES ASSUME NEW u \in Threads \ {t}, pc[u] = "allocCAS", freeTaskGroups'[i[u]] # tg[u]
                 PROVE  /\ freeTaskGroups'[i[u]] = Null
                        /\ \A s \in SlotIndex : 1 < s /\ s <= i[u] => freeTaskGroups'[s] = Null
                        /\ \/ freeTaskGroups'[1] = Null /\ HasGroup(t, tg[u])' /\ (Freeing(t)' => i'[t] = 1)
                           \/ /\ freeTaskGroups'[1] = tg[u] /\ handles'[t] = <<>>
                              /\ pc'[t] = "idle" \/ (Allocating(t)' /\ i'[t] = 1)
      BY <1>0, ReadByOther
    <2>1. /\ i[u] \in SlotIndex /\ tg[u] \in Groups
          /\ freeTaskGroups[i[u]] # tg[u] =>
                 /\ freeTaskGroups[i[u]] = Null
                 /\ \A s \in SlotIndex : 1 < s /\ s <= i[u] => freeTaskGroups[s] = Null
                 /\ \/ freeTaskGroups[1] = Null /\ HasGroup(t, tg[u]) /\ (Freeing(t) => i[t] = 1)
                    \/ /\ freeTaskGroups[1] = tg[u] /\ handles[t] = <<>>
                       /\ pc[t] = "idle" \/ (Allocating(t) /\ i[t] = 1)
      BY ReadByOtherBefore
    <2>2. \A s \in SlotIndex : freeTaskGroups'[s] = IF s = i[t] THEN Null ELSE freeTaskGroups[s]
      BY <1>0
    <2>3. ~HasGroup(t, tg[u]) /\ ~Freeing(t)' /\ 1 \in SlotIndex
      BY <1>0, <1>2, <2>1 DEF Freeing, SlotIndex
    <2>4. CASE freeTaskGroups[i[u]] = tg[u]
      <3>1. i[u] = i[t] /\ tg[u] = g
        BY <1>0, <2>1, <2>2, <2>4
      <3>2. \A s \in SlotIndex : s < i[t] => freeTaskGroups[s] = Null
        BY <1>0, <3>1 DEF PoolInv, ScanEmpty, Allocating
      <3>3. \A s \in SlotIndex : s <= i[t] => freeTaskGroups'[s] = Null
        BY <1>0, <2>2, <3>2 DEF SlotIndex
      <3> QED BY <1>0, <1>2, <2>1, <2>3, <3>1, <3>3
    <2>5. CASE freeTaskGroups[i[u]] # tg[u]
      <3>1. i[t] = 1 /\ tg[u] = g
        BY <1>0, <2>1, <2>3, <2>5
      <3> QED BY <1>0, <1>2, <2>1, <2>2, <2>3, <2>5, <3>1
    <2> QED BY <2>4, <2>5
  <1> QED BY <1>1, <1>3, <1>4, <1>5 DEF PoolInv

\* The compare-and-swap of AllocTaskGroup, when the slot is empty by now.
LEMMA AllocMisses ==
    ASSUME NoThirdGroup, PoolInv, NEW t \in Threads, AllocCAS(t), freeTaskGroups[i[t]] = Null
    PROVE  PoolInv'
  <1> USE PoolAssumption
  <1>0. /\ OthersStay(t) /\ pc[t] = "allocCAS" /\ handles[t] = <<>> /\ i[t] \in SlotIndex /\ i[t] \in Nat /\ i[t] > 0
        /\ pc'[t] = "allocRead" /\ i'[t] = i[t] + 1 /\ freeTaskGroups[i[t]] = Null
        /\ freeTaskGroups' = freeTaskGroups /\ heap' = heap /\ handles' = handles /\ tg' = tg
    BY SingletonFacts DEF AllocCAS, OthersStay, PoolInv, PoolShape, PoolTypeOK, ThreadShape
  <1>1. PoolShape'
    <2>1. PoolTypeOK'
      <3>1. i[t] + 1 \in Nat
        BY <1>0
      <3>2. pc' \in [Threads -> PoolLabels] /\ i' \in [Threads -> Nat]
        BY <3>1, <1>0 DEF PoolInv, PoolShape, PoolTypeOK, AllocCAS, PoolLabels
      <3> QED BY <1>0, <3>2 DEF PoolInv, PoolShape, PoolTypeOK
    <2>2. ThreadShape(t)'
      BY <1>0 DEF ThreadShape, SlotIndex
    <2> QED BY <1>0, <2>1, <2>2, ShapeStays
  <1>2. \A u \in Threads : \A h \in Groups : HasGroup(u, h)' <=> HasGroup(u, h)
    BY <1>0, SingletonFacts DEF HasGroup, Freeing, OthersStay
  <1>3. GroupsApart' /\ HeapExact'
    BY <1>0, <1>2, GroupsStay
  <1>4. ScanEmpty'
    <2> SUFFICES ASSUME NEW u \in Threads, NEW w \in Threads, u # w, Allocating(u)', Allocating(w)', i'[u] <= i'[w],
                        NEW s \in SlotIndex, s < i'[u]
                 PROVE  freeTaskGroups'[s] = Null
      BY DEF ScanEmpty, SlotIndex
    <2>1. Allocating(u) /\ Allocating(w)
      BY <1>0, OtherThread DEF Allocating
    <2>2. i[u] \in Nat /\ i[w] \in Nat /\ s \in Nat
      BY DEF PoolInv, PoolShape, PoolTypeOK, SlotIndex
    <2>3. u = t \/ w = t
      BY DEF NoThirdGroup
    <2>4. u # t => i'[u] = i[u]
      BY <1>0 DEF OthersStay
    <2>5. w # t => i'[w] = i[w]
      BY <1>0 DEF OthersStay
    <2>6. i[u] <= i[w] => \A r \in SlotIndex : r < i[u] => freeTaskGroups[r] = Null
      BY <2>1 DEF PoolInv, ScanEmpty
    <2>7. i[w] <= i[u] => \A r \in SlotIndex : r < i[w] => freeTaskGroups[r] = Null
      BY <2>1 DEF PoolInv, ScanEmpty
    <2> QED BY <1>0, <2>2, <2>3, <2>4, <2>5, <2>6, <2>7
  <1>5. ReadGroupOrNull'
    <2> SUFFICES ASSUME NEW u \in Threads \ {t}, pc[u] = "allocCAS", freeTaskGroups'[i[u]] # tg[u]
                 PROVE  /\ freeTaskGroups'[i[u]] = Null
                        /\ \A s \in SlotIndex : 1 < s /\ s <= i[u] => freeTaskGroups'[s] = Null
                        /\ \/ freeTaskGroups'[1] = Null /\ HasGroup(t, tg[u])' /\ (Freeing(t)' => i'[t] = 1)
                           \/ /\ freeTaskGroups'[1] = tg[u] /\ handles'[t] = <<>>
                              /\ pc'[t] = "idle" \/ (Allocating(t)' /\ i'[t] = 1)
      BY <1>0, ReadByOther
    <2>1. /\ i[u] \in SlotIndex /\ tg[u] \in Groups
          /\ freeTaskGroups[i[u]] # tg[u] =>
                 /\ freeTaskGroups[i[u]] = Null
                 /\ \A s \in SlotIndex : 1 < s /\ s <= i[u] => freeTaskGroups[s] = Null
                 /\ \/ freeTaskGroups[1] = Null /\ HasGroup(t, tg[u]) /\ (Freeing(t) => i[t] = 1)
                    \/ /\ freeTaskGroups[1] = tg[u] /\ handles[t] = <<>>
                       /\ pc[t] = "idle" \/ (Allocating(t) /\ i[t] = 1)
      BY ReadByOtherBefore
    <2>2. ~HasGroup(t, tg[u]) /\ ~Freeing(t)
      BY <1>0, SingletonFacts DEF HasGroup, Freeing
    <2> QED BY <1>0, <2>1, <2>2
  <1> QED BY <1>1, <1>3, <1>4, <1>5 DEF PoolInv

\* No slot has a group: a new one.
LEMMA AllocNewStep ==
    ASSUME NoThirdGroup, PoolInv, NEW t \in Threads, AllocNew(t)
    PROVE  PoolInv'
  <1> USE PoolAssumption
  <1> PICK g \in Groups \ heap : heap' = heap \cup {g} /\ handles' = [handles EXCEPT ![t] = Append(@, g)]
    BY DEF AllocNew
  <1>0. /\ OthersStay(t) /\ pc[t] = "allocRead" /\ handles[t] = <<>> /\ i[t] \in Nat /\ i[t] > 0 /\ i[t] \notin SlotIndex
        /\ g \in Groups /\ g \notin heap /\ g # Null /\ heap' = heap \cup {g} /\ heap \subseteq Groups
        /\ handles' = [handles EXCEPT ![t] = <<g>>] /\ handles'[t] = <<g>>
        /\ pc'[t] = "idle" /\ tg' = tg /\ i' = i /\ freeTaskGroups' = freeTaskGroups
    BY SingletonFacts DEF AllocNew, OthersStay, PoolInv, PoolShape, PoolTypeOK, ThreadShape
  <1>1. PoolShape'
    <2>1. PoolTypeOK'
      <3>1. <<g>> \in Seq(Groups)
        BY <1>0
      <3>2. handles' \in [Threads -> Seq(Groups)]
        BY <1>0, <3>1 DEF PoolInv, PoolShape, PoolTypeOK
      <3>3. pc' \in [Threads -> PoolLabels]
        BY <1>0 DEF PoolInv, PoolShape, PoolTypeOK, AllocNew, PoolLabels
      <3> QED BY <1>0, <3>2, <3>3 DEF PoolInv, PoolShape, PoolTypeOK
    <2>2. ThreadShape(t)'
      BY <1>0 DEF ThreadShape, SlotIndex
    <2> QED BY <1>0, <2>1, <2>2, ShapeStays
  <1>2. /\ \A h \in Groups : ~HasGroup(t, h) /\ (HasGroup(t, h)' <=> h = g)
        /\ \A u \in Threads \ {t} : \A h \in Groups : HasGroup(u, h)' <=> HasGroup(u, h)
    <2>1. \A h \in Groups : ~HasGroup(t, h) /\ (HasGroup(t, h)' <=> h = g)
      BY <1>0, SingletonFacts DEF HasGroup, Freeing
    <2> QED BY <1>0, <2>1, OtherThread
  <1>3. GroupsApart' /\ HeapExact'
    <2>0. \A s \in SlotIndex : freeTaskGroups[s] # g
      BY <1>0, <1>2 DEF PoolInv, HeapExact, GroupsApart
    <2>1. \A s \in SlotIndex : freeTaskGroups[s] # Null => freeTaskGroups[s] \in Groups \ {g}
      BY <2>0 DEF PoolInv, PoolShape, PoolTypeOK
    <2>2. \A u \in Threads \ {t} : ~HasGroup(u, g)
      BY <1>0, <1>2 DEF PoolInv, HeapExact, GroupsApart
    <2>3. GroupsApart'
      <3>1. ASSUME NEW u \in Threads, NEW w \in Threads, NEW h \in Groups, HasGroup(u, h)', HasGroup(w, h)'
            PROVE  u = w
        BY <1>2, <2>2, <3>1 DEF PoolInv, GroupsApart
      <3>2. ASSUME NEW u \in Threads, NEW s \in SlotIndex, NEW h \in Groups, h # Null, freeTaskGroups'[s] = h
            PROVE  ~HasGroup(u, h)'
        <4>1. freeTaskGroups[s] = h /\ h # g
          BY <1>0, <2>1, <3>2
        <4> QED BY <1>2, <3>2, <4>1 DEF PoolInv, GroupsApart
      <3>3. \A u \in Threads : \A s \in SlotIndex : freeTaskGroups'[s] # Null => ~HasGroup(u, freeTaskGroups[s])'
        BY <1>0, <3>2, <2>1 DEF HasGroup, Freeing
      <3>4. \A a, b \in SlotIndex : freeTaskGroups'[a] = freeTaskGroups'[b] /\ freeTaskGroups'[a] # Null => a = b
        BY <1>0 DEF PoolInv, GroupsApart
      <3> QED BY <3>1, <3>3, <3>4 DEF GroupsApart
    <2>4. HeapExact'
      <3> SUFFICES ASSUME NEW h \in Groups
                   PROVE  h \in heap' <=> \/ \E s \in SlotIndex : freeTaskGroups[s] = h
                                          \/ \E u \in Threads : HasGroup(u, h)'
        BY <1>0 DEF HeapExact
      <3>1. h \in heap <=> \/ \E s \in SlotIndex : freeTaskGroups[s] = h
                           \/ \E u \in Threads : HasGroup(u, h)
        BY DEF PoolInv, HeapExact
      <3>2. CASE h = g
        BY <1>0, <1>2, <2>1, <2>2, <3>2
      <3>3. CASE h # g
        BY <1>0, <1>2, <3>1, <3>3
      <3> QED BY <3>2, <3>3
    <2> QED BY <2>3, <2>4
  <1>4. ScanEmpty'
    BY <1>0, ScanAlone DEF Allocating
  <1>5. ReadGroupOrNull'
    <2> SUFFICES ASSUME NEW u \in Threads \ {t}, pc[u] = "allocCAS", freeTaskGroups'[i[u]] # tg[u]
                 PROVE  /\ freeTaskGroups'[i[u]] = Null
                        /\ \A s \in SlotIndex : 1 < s /\ s <= i[u] => freeTaskGroups'[s] = Null
                        /\ \/ freeTaskGroups'[1] = Null /\ HasGroup(t, tg[u])' /\ (Freeing(t)' => i'[t] = 1)
                           \/ /\ freeTaskGroups'[1] = tg[u] /\ handles'[t] = <<>>
                              /\ pc'[t] = "idle" \/ (Allocating(t)' /\ i'[t] = 1)
      BY <1>0, ReadByOther
    <2>1. /\ i[u] \in SlotIndex /\ tg[u] \in Groups
          /\ freeTaskGroups[i[u]] # tg[u] =>
                 /\ freeTaskGroups[i[u]] = Null
                 /\ \A s \in SlotIndex : 1 < s /\ s <= i[u] => freeTaskGroups[s] = Null
                 /\ \/ freeTaskGroups[1] = Null /\ HasGroup(t, tg[u]) /\ (Freeing(t) => i[t] = 1)
                    \/ /\ freeTaskGroups[1] = tg[u] /\ handles[t] = <<>>
                       /\ pc[t] = "idle" \/ (Allocating(t) /\ i[t] = 1)
      BY ReadByOtherBefore
    <2>2. ~HasGroup(t, tg[u]) /\ i[t] # 1
      BY <1>0, <1>2, <2>1 DEF SlotIndex
    <2>3. pc[t] # "idle"
      BY <1>0
    <2> QED BY <1>0, <2>1, <2>2, <2>3
  <1> QED BY <1>1, <1>3, <1>4, <1>5 DEF PoolInv

\* FreeTaskGroup takes the group over from the handle.
LEMMA FreeEnterStep ==
    ASSUME NoThirdGroup, PoolInv, NEW t \in Threads, FreeEnter(t)
    PROVE  PoolInv'
  <1> USE PoolAssumption
  <1> PICK g \in Groups : handles[t] = <<g>>
    BY DEF FreeEnter, PoolInv, PoolShape, ThreadShape
  <1>0. /\ OthersStay(t) /\ pc[t] = "idle" /\ handles[t] = <<g>>
        /\ pc'[t] = "freeRead" /\ i'[t] = 1 /\ tg'[t] = g
        /\ tg' = [tg EXCEPT ![t] = g] /\ handles' = [handles EXCEPT ![t] = <<>>] /\ handles'[t] = <<>>
        /\ freeTaskGroups' = freeTaskGroups /\ heap' = heap
    BY SingletonFacts, ZenonT(60) DEF FreeEnter, OthersStay, PoolInv, PoolShape, PoolTypeOK
  <1>1. PoolShape'
    <2>1. PoolTypeOK'
      <3>1. tg' \in [Threads -> Groups \cup {Null}] /\ handles' \in [Threads -> Seq(Groups)]
        BY <1>0 DEF PoolInv, PoolShape, PoolTypeOK
      <3>2. pc' \in [Threads -> PoolLabels] /\ i' \in [Threads -> Nat]
        BY DEF PoolInv, PoolShape, PoolTypeOK, FreeEnter, PoolLabels
      <3> QED BY <1>0, <3>1, <3>2 DEF PoolInv, PoolShape, PoolTypeOK
    <2>2. ThreadShape(t)'
      BY <1>0 DEF ThreadShape, SlotIndex
    <2> QED BY <1>0, <2>1, <2>2, ShapeStays
  <1>2. \A u \in Threads : \A h \in Groups : HasGroup(u, h)' <=> HasGroup(u, h)
    BY <1>0, SingletonFacts DEF HasGroup, Freeing, OthersStay
  <1>3. GroupsApart' /\ HeapExact'
    BY <1>0, <1>2, GroupsStay
  <1>4. ScanEmpty'
    BY <1>0, ScanAlone DEF Allocating
  <1>5. ReadGroupOrNull'
    <2> SUFFICES ASSUME NEW u \in Threads \ {t}, pc[u] = "allocCAS", freeTaskGroups'[i[u]] # tg[u]
                 PROVE  /\ freeTaskGroups'[i[u]] = Null
                        /\ \A s \in SlotIndex : 1 < s /\ s <= i[u] => freeTaskGroups'[s] = Null
                        /\ \/ freeTaskGroups'[1] = Null /\ HasGroup(t, tg[u])' /\ (Freeing(t)' => i'[t] = 1)
                           \/ /\ freeTaskGroups'[1] = tg[u] /\ handles'[t] = <<>>
                              /\ pc'[t] = "idle" \/ (Allocating(t)' /\ i'[t] = 1)
      BY <1>0, ReadByOther
    <2>1. /\ i[u] \in SlotIndex /\ tg[u] \in Groups
          /\ freeTaskGroups[i[u]] # tg[u] =>
                 /\ freeTaskGroups[i[u]] = Null
                 /\ \A s \in SlotIndex : 1 < s /\ s <= i[u] => freeTaskGroups[s] = Null
                 /\ \/ freeTaskGroups[1] = Null /\ HasGroup(t, tg[u]) /\ (Freeing(t) => i[t] = 1)
                    \/ /\ freeTaskGroups[1] = tg[u] /\ handles[t] = <<>>
                       /\ pc[t] = "idle" \/ (Allocating(t) /\ i[t] = 1)
      BY ReadByOtherBefore
    <2>2. tg[u] = g => HasGroup(t, tg[u])'
      BY <1>0 DEF HasGroup, Freeing
    <2>3. HasGroup(t, tg[u]) => tg[u] = g
      BY <1>0, SingletonFacts DEF HasGroup, Freeing
    <2> QED BY <1>0, <2>1, <2>2, <2>3, SingletonFacts
  <1> QED BY <1>1, <1>3, <1>4, <1>5 DEF PoolInv

\* A slot is looked at: no group moves.
LEMMA FreeReadStep ==
    ASSUME NoThirdGroup, PoolInv, NEW t \in Threads, FreeRead(t)
    PROVE  PoolInv'
  <1> USE PoolAssumption
  <1>0. /\ OthersStay(t) /\ pc[t] = "freeRead" /\ handles[t] = <<>> /\ i[t] \in SlotIndex /\ i[t] \in Nat /\ i[t] > 0
        /\ tg[t] \in Groups
        /\ \/ /\ pc' = [pc EXCEPT ![t] = "freeCAS"] /\ pc'[t] = "freeCAS" /\ i' = i
              /\ freeTaskGroups[i[t]] = Null
           \/ /\ pc' = pc /\ i' = [i EXCEPT ![t] = i[t] + 1] /\ i'[t] = i[t] + 1
              /\ freeTaskGroups[i[t]] # Null
        /\ freeTaskGroups' = freeTaskGroups /\ heap' = heap /\ handles' = handles /\ tg' = tg
    BY SingletonFacts DEF FreeRead, OthersStay, PoolInv, PoolShape, PoolTypeOK, ThreadShape
  <1>1. PoolShape'
    <2>1. PoolTypeOK'
      <3>1. i[t] + 1 \in Nat
        BY <1>0
      <3>2. pc' \in [Threads -> PoolLabels] /\ i' \in [Threads -> Nat]
        BY <1>0, <3>1, ZenonT(60) DEF PoolInv, PoolShape, PoolTypeOK, PoolLabels
      <3> QED BY <1>0, <3>2 DEF PoolInv, PoolShape, PoolTypeOK
    <2>2. ThreadShape(t)'
      BY <1>0 DEF ThreadShape, SlotIndex
    <2> QED BY <1>0, <2>1, <2>2, ShapeStays
  <1>2. \A u \in Threads : \A h \in Groups : HasGroup(u, h)' <=> HasGroup(u, h)
    BY <1>0, SingletonFacts DEF HasGroup, Freeing, OthersStay
  <1>3. GroupsApart' /\ HeapExact'
    BY <1>0, <1>2, GroupsStay
  <1>4. ScanEmpty'
    BY <1>0, ScanAlone DEF Allocating
  <1>5. ReadGroupOrNull'
    <2> SUFFICES ASSUME NEW u \in Threads \ {t}, pc[u] = "allocCAS", freeTaskGroups'[i[u]] # tg[u]
                 PROVE  /\ freeTaskGroups'[i[u]] = Null
                        /\ \A s \in SlotIndex : 1 < s /\ s <= i[u] => freeTaskGroups'[s] = Null
                        /\ \/ freeTaskGroups'[1] = Null /\ HasGroup(t, tg[u])' /\ (Freeing(t)' => i'[t] = 1)
                           \/ /\ freeTaskGroups'[1] = tg[u] /\ handles'[t] = <<>>
                              /\ pc'[t] = "idle" \/ (Allocating(t)' /\ i'[t] = 1)
      BY <1>0, ReadByOther
    <2>1. /\ i[u] \in SlotIndex /\ tg[u] \in Groups
          /\ freeTaskGroups[i[u]] # tg[u] =>
                 /\ freeTaskGroups[i[u]] = Null
                 /\ \A s \in SlotIndex : 1 < s /\ s <= i[u] => freeTaskGroups[s] = Null
                 /\ \/ freeTaskGroups[1] = Null /\ HasGroup(t, tg[u]) /\ (Freeing(t) => i[t] = 1)
                    \/ /\ freeTaskGroups[1] = tg[u] /\ handles[t] = <<>>
                       /\ pc[t] = "idle" \/ (Allocating(t) /\ i[t] = 1)
      BY ReadByOtherBefore
    <2>2. Freeing(t) /\ Freeing(t)' /\ ~Allocating(t) /\ (HasGroup(t, tg[u])' <=> HasGroup(t, tg[u]))
      BY <1>0, <1>2, <2>1 DEF Freeing, Allocating
    <2> QED BY <1>0, <2>1, <2>2
  <1> QED BY <1>1, <1>3, <1>4, <1>5 DEF PoolInv

\* The compare-and-swap finds a group in the slot: on with the next one.
LEMMA FreeMisses ==
    ASSUME NoThirdGroup, PoolInv, NEW t \in Threads, FreeCAS(t), freeTaskGroups[i[t]] # Null
    PROVE  PoolInv'
  <1> USE PoolAssumption
  <1>0. /\ OthersStay(t) /\ pc[t] = "freeCAS" /\ handles[t] = <<>> /\ i[t] \in SlotIndex /\ i[t] \in Nat /\ i[t] > 0
        /\ tg[t] \in Groups
        /\ pc' = [pc EXCEPT ![t] = "freeRead"] /\ i' = [i EXCEPT ![t] = i[t] + 1]
        /\ pc'[t] = "freeRead" /\ i'[t] = i[t] + 1 /\ freeTaskGroups[i[t]] # Null
        /\ freeTaskGroups' = freeTaskGroups /\ heap' = heap /\ handles' = handles /\ tg' = tg
    BY SingletonFacts DEF FreeCAS, OthersStay, PoolInv, PoolShape, PoolTypeOK, ThreadShape
  <1>1. PoolShape'
    <2>1. PoolTypeOK'
      <3>1. i[t] + 1 \in Nat
        BY <1>0
      <3>2. pc' \in [Threads -> PoolLabels] /\ i' \in [Threads -> Nat]
        BY <3>1, <1>0 DEF PoolInv, PoolShape, PoolTypeOK, PoolLabels
      <3> QED BY <1>0, <3>2 DEF PoolInv, PoolShape, PoolTypeOK
    <2>2. ThreadShape(t)'
      BY <1>0 DEF ThreadShape, SlotIndex
    <2> QED BY <1>0, <2>1, <2>2, ShapeStays
  <1>2. \A u \in Threads : \A h \in Groups : HasGroup(u, h)' <=> HasGroup(u, h)
    BY <1>0, SingletonFacts DEF HasGroup, Freeing, OthersStay
  <1>3. GroupsApart' /\ HeapExact'
    BY <1>0, <1>2, GroupsStay
  <1>4. ScanEmpty'
    BY <1>0, ScanAlone DEF Allocating
  <1>5. ReadGroupOrNull'
    <2> SUFFICES ASSUME NEW u \in Threads \ {t}, pc[u] = "allocCAS", freeTaskGroups'[i[u]] # tg[u]
                 PROVE  /\ freeTaskGroups'[i[u]] = Null
                        /\ \A s \in SlotIndex : 1 < s /\ s <= i[u] => freeTaskGroups'[s] = Null
                        /\ \/ freeTaskGroups'[1] = Null /\ HasGroup(t, tg[u])' /\ (Freeing(t)' => i'[t] = 1)
                           \/ /\ freeTaskGroups'[1] = tg[u] /\ handles'[t] = <<>>
                              /\ pc'[t] = "idle" \/ (Allocating(t)' /\ i'[t] = 1)
      BY <1>0, ReadByOther
    <2>1. /\ i[u] \in SlotIndex /\ tg[u] \in Groups
          /\ freeTaskGroups[i[u]] # tg[u] =>
                 /\ freeTaskGroups[i[u]] = Null
                 /\ \A s \in SlotIndex : 1 < s /\ s <= i[u] => freeTaskGroups[s] = Null
                 /\ \/ freeTaskGroups[1] = Null /\ HasGroup(t, tg[u]) /\ (Freeing(t) => i[t] = 1)
                    \/ /\ freeTaskGroups[1] = tg[u] /\ handles[t] = <<>>
                       /\ pc[t] = "idle" \/ (Allocating(t) /\ i[t] = 1)
      BY ReadByOtherBefore
    <2>2. Freeing(t) /\ ~Allocating(t)
      BY <1>0 DEF Freeing, Allocating
    <2> QED BY <1>0, <2>1, <2>2
  <1> QED BY <1>1, <1>3, <1>4, <1>5 DEF PoolInv

\* The compare-and-swap puts the group into the slot.
LEMMA FreePuts ==
    ASSUME NoThirdGroup, PoolInv, NEW t \in Threads, FreeCAS(t), freeTaskGroups[i[t]] = Null
    PROVE  PoolInv'
  <1> USE PoolAssumption
  <1> DEFINE g == tg[t]
  <1>0. /\ OthersStay(t) /\ pc[t] = "freeCAS" /\ handles[t] = <<>> /\ i[t] \in SlotIndex /\ i[t] \in Nat /\ i[t] > 0
        /\ g \in Groups /\ g # Null /\ freeTaskGroups[i[t]] = Null
        /\ pc' = [pc EXCEPT ![t] = "idle"] /\ pc'[t] = "idle" /\ heap' = heap /\ tg' = tg /\ i' = i /\ handles' = handles
        /\ freeTaskGroups' = [freeTaskGroups EXCEPT ![i[t]] = g]
        /\ freeTaskGroups \in [SlotIndex -> Groups \cup {Null}]
        /\ tg[t] = g /\ Freeing(t)
    BY SingletonFacts DEF FreeCAS, OthersStay, PoolInv, PoolShape, PoolTypeOK, ThreadShape, Freeing
  <1> HIDE DEF g
  <1>1. PoolShape'
    <2>1. PoolTypeOK'
      BY <1>0 DEF PoolInv, PoolShape, PoolTypeOK, PoolLabels
    <2>2. ThreadShape(t)'
      BY <1>0 DEF ThreadShape, SlotIndex, PoolInv, PoolShape, PoolTypeOK
    <2> QED BY <1>0, <2>1, <2>2, ShapeStays
  <1>2. /\ \A h \in Groups : ~HasGroup(t, h)' /\ (HasGroup(t, h) <=> h = g)
        /\ \A u \in Threads \ {t} : \A h \in Groups : HasGroup(u, h)' <=> HasGroup(u, h)
    <2>1. \A h \in Groups : ~HasGroup(t, h)' /\ (HasGroup(t, h) <=> h = g)
      BY <1>0, SingletonFacts DEF HasGroup, Freeing
    <2> QED BY <1>0, <2>1, OtherThread
  <1>3. GroupsApart' /\ HeapExact'
    <2>1. \A s \in SlotIndex : freeTaskGroups'[s] = IF s = i[t] THEN g ELSE freeTaskGroups[s]
      BY <1>0
    <2>2. \A u \in Threads \ {t} : ~HasGroup(u, g)
      BY <1>0, <1>2 DEF PoolInv, GroupsApart
    <2>3. \A s \in SlotIndex : freeTaskGroups[s] # g
      BY <1>0, <1>2 DEF PoolInv, GroupsApart
    <2>4. \A s \in SlotIndex : freeTaskGroups'[s] # Null => freeTaskGroups'[s] \in Groups
      BY <1>0, <2>1
    <2>5. GroupsApart'
      <3>1. \A a, b \in SlotIndex : freeTaskGroups'[a] = freeTaskGroups'[b] /\ freeTaskGroups'[a] # Null => a = b
        BY <1>0, <2>1, <2>3 DEF PoolInv, GroupsApart
      <3>2. ASSUME NEW u \in Threads, NEW w \in Threads, NEW h \in Groups, HasGroup(u, h)', HasGroup(w, h)'
            PROVE  u = w
        BY <1>2, <3>2 DEF PoolInv, GroupsApart
      <3>3. ASSUME NEW u \in Threads, NEW s \in SlotIndex, NEW h \in Groups, h # Null, freeTaskGroups'[s] = h
            PROVE  ~HasGroup(u, h)'
        <4>1. CASE h = g
          BY <1>2, <2>2, <4>1
        <4>2. CASE h # g
          <5>1. freeTaskGroups[s] = h
            BY <2>1, <3>3, <4>2
          <5> QED BY <1>2, <3>3, <5>1 DEF PoolInv, GroupsApart
        <4> QED BY <4>1, <4>2
      <3>4. \A u \in Threads : \A s \in SlotIndex : freeTaskGroups'[s] # Null => ~HasGroup(u, freeTaskGroups[s])'
        BY <3>3, <2>4 DEF HasGroup, Freeing
      <3> QED BY <3>1, <3>2, <3>4 DEF GroupsApart
    <2>6. HeapExact'
      <3> SUFFICES ASSUME NEW h \in Groups
                   PROVE  h \in heap <=> \/ \E s \in SlotIndex : freeTaskGroups'[s] = h
                                         \/ \E u \in Threads : HasGroup(u, h)'
        BY <1>0 DEF HeapExact
      <3>1. h \in heap <=> \/ \E s \in SlotIndex : freeTaskGroups[s] = h
                           \/ \E u \in Threads : HasGroup(u, h)
        BY DEF PoolInv, HeapExact
      <3>2. CASE h = g
        BY <1>0, <1>2, <2>1, <3>1, <3>2
      <3>3. CASE h # g
        <4>1. h # Null
          BY PoolAssumption
        <4>2. (\E s \in SlotIndex : freeTaskGroups[s] = h) <=> (\E s \in SlotIndex : freeTaskGroups'[s] = h)
          BY <1>0, <2>1, <3>3, <4>1
        <4>3. \A u \in Threads : HasGroup(u, h)' <=> HasGroup(u, h)
          BY <1>2, <3>3
        <4> QED BY <3>1, <4>2, <4>3
      <3> QED BY <3>2, <3>3
    <2> QED BY <2>5, <2>6
  <1>4. ScanEmpty'
    BY <1>0, ScanAlone DEF Allocating
  <1>5. ReadGroupOrNull'
    <2> SUFFICES ASSUME NEW u \in Threads \ {t}, pc[u] = "allocCAS", freeTaskGroups'[i[u]] # tg[u]
                 PROVE  /\ freeTaskGroups'[i[u]] = Null
                        /\ \A s \in SlotIndex : 1 < s /\ s <= i[u] => freeTaskGroups'[s] = Null
                        /\ \/ freeTaskGroups'[1] = Null /\ HasGroup(t, tg[u])' /\ (Freeing(t)' => i'[t] = 1)
                           \/ /\ freeTaskGroups'[1] = tg[u] /\ handles'[t] = <<>>
                              /\ pc'[t] = "idle" \/ (Allocating(t)' /\ i'[t] = 1)
      BY <1>0, ReadByOther
    <2>1. /\ i[u] \in SlotIndex /\ tg[u] \in Groups
          /\ freeTaskGroups[i[u]] # tg[u] =>
                 /\ freeTaskGroups[i[u]] = Null
                 /\ \A s \in SlotIndex : 1 < s /\ s <= i[u] => freeTaskGroups[s] = Null
                 /\ \/ freeTaskGroups[1] = Null /\ HasGroup(t, tg[u]) /\ (Freeing(t) => i[t] = 1)
                    \/ /\ freeTaskGroups[1] = tg[u] /\ handles[t] = <<>>
                       /\ pc[t] = "idle" \/ (Allocating(t) /\ i[t] = 1)
      BY ReadByOtherBefore
    <2>2. \A s \in SlotIndex : freeTaskGroups'[s] = IF s = i[t] THEN g ELSE freeTaskGroups[s]
      BY <1>0
    <2>3. ~Allocating(t) /\ 1 \in SlotIndex
      BY <1>0 DEF Allocating, SlotIndex
    <2>4. freeTaskGroups[i[u]] # tg[u]
      BY <1>0, <2>1, <2>2, PoolAssumption
    <2>5. i[t] = 1 /\ tg[u] = g
      BY <1>0, <1>2, <2>1, <2>3, <2>4
    <2>6. i[u] # 1
      BY <2>2, <2>3, <2>5
    <2>7. \A s \in SlotIndex : 1 < s => freeTaskGroups'[s] = freeTaskGroups[s]
      BY <2>2, <2>5
    <2> QED BY <1>0, <2>1, <2>2, <2>3, <2>4, <2>5, <2>6, <2>7
  <1> QED BY <1>1, <1>3, <1>4, <1>5 DEF PoolInv

\* No slot is empty: the group is deleted.
LEMMA FreeDeleteStep ==
    ASSUME NoThirdGroup, PoolInv, NEW t \in Threads, FreeDelete(t)
    PROVE  PoolInv'
  <1> USE PoolAssumption
  <1> DEFINE g == tg[t]
  <1>0. /\ OthersStay(t) /\ pc[t] = "freeRead" /\ handles[t] = <<>> /\ i[t] \in Nat /\ i[t] > 0 /\ i[t] \notin SlotIndex
        /\ g \in Groups /\ g # Null /\ heap' = heap \ {g} /\ heap \subseteq Groups /\ tg[t] = g /\ Freeing(t)
        /\ pc' = [pc EXCEPT ![t] = "idle"] /\ pc'[t] = "idle" /\ tg' = tg /\ i' = i
        /\ freeTaskGroups' = freeTaskGroups /\ handles' = handles
    BY SingletonFacts DEF FreeDelete, OthersStay, PoolInv, PoolShape, PoolTypeOK, ThreadShape, Freeing
  <1> HIDE DEF g
  <1>1. PoolShape'
    <2>1. PoolTypeOK'
      BY <1>0 DEF PoolInv, PoolShape, PoolTypeOK, PoolLabels
    <2>2. ThreadShape(t)'
      BY <1>0 DEF ThreadShape, SlotIndex
    <2> QED BY <1>0, <2>1, <2>2, ShapeStays
  <1>2. /\ \A h \in Groups : ~HasGroup(t, h)' /\ (HasGroup(t, h) <=> h = g)
        /\ \A u \in Threads \ {t} : \A h \in Groups : HasGroup(u, h)' <=> HasGroup(u, h)
    <2>1. \A h \in Groups : ~HasGroup(t, h)' /\ (HasGroup(t, h) <=> h = g)
      BY <1>0, SingletonFacts DEF HasGroup, Freeing
    <2> QED BY <1>0, <2>1, OtherThread
  <1>3. GroupsApart' /\ HeapExact'
    <2>0. \A s \in SlotIndex : freeTaskGroups[s] # g
      BY <1>0, <1>2 DEF PoolInv, HeapExact, GroupsApart
    <2>1. \A s \in SlotIndex : freeTaskGroups[s] # Null => freeTaskGroups[s] \in Groups \ {g}
      BY <2>0 DEF PoolInv, PoolShape, PoolTypeOK
    <2>2. \A u \in Threads \ {t} : ~HasGroup(u, g)
      BY <1>0, <1>2 DEF PoolInv, HeapExact, GroupsApart
    <2>3. GroupsApart'
      <3>1. ASSUME NEW u \in Threads, NEW w \in Threads, NEW h \in Groups, HasGroup(u, h)', HasGroup(w, h)'
            PROVE  u = w
        BY <1>2, <2>2, <3>1 DEF PoolInv, GroupsApart
      <3>2. ASSUME NEW u \in Threads, NEW s \in SlotIndex, NEW h \in Groups, h # Null, freeTaskGroups'[s] = h
            PROVE  ~HasGroup(u, h)'
        <4>1. freeTaskGroups[s] = h /\ h # g
          BY <1>0, <2>1, <3>2
        <4> QED BY <1>2, <3>2, <4>1 DEF PoolInv, GroupsApart
      <3>3. \A u \in Threads : \A s \in SlotIndex : freeTaskGroups'[s] # Null => ~HasGroup(u, freeTaskGroups[s])'
        BY <1>0, <3>2, <2>1 DEF HasGroup, Freeing
      <3>4. \A a, b \in SlotIndex : freeTaskGroups'[a] = freeTaskGroups'[b] /\ freeTaskGroups'[a] # Null => a = b
        BY <1>0 DEF PoolInv, GroupsApart
      <3> QED BY <3>1, <3>3, <3>4 DEF GroupsApart
    <2>4. HeapExact'
      <3> SUFFICES ASSUME NEW h \in Groups
                   PROVE  h \in heap' <=> \/ \E s \in SlotIndex : freeTaskGroups[s] = h
                                          \/ \E u \in Threads : HasGroup(u, h)'
        BY <1>0 DEF HeapExact
      <3>1. h \in heap <=> \/ \E s \in SlotIndex : freeTaskGroups[s] = h
                           \/ \E u \in Threads : HasGroup(u, h)
        BY DEF PoolInv, HeapExact
      <3>2. CASE h = g
        BY <1>0, <1>2, <2>1, <2>2, <3>2
      <3>3. CASE h # g
        BY <1>0, <1>2, <3>1, <3>3
      <3> QED BY <3>2, <3>3
    <2> QED BY <2>3, <2>4
  <1>4. ScanEmpty'
    BY <1>0, ScanAlone DEF Allocating
  <1>5. ReadGroupOrNull'
    <2> SUFFICES ASSUME NEW u \in Threads \ {t}, pc[u] = "allocCAS", freeTaskGroups'[i[u]] # tg[u]
                 PROVE  /\ freeTaskGroups'[i[u]] = Null
                        /\ \A s \in SlotIndex : 1 < s /\ s <= i[u] => freeTaskGroups'[s] = Null
                        /\ \/ freeTaskGroups'[1] = Null /\ HasGroup(t, tg[u])' /\ (Freeing(t)' => i'[t] = 1)
                           \/ /\ freeTaskGroups'[1] = tg[u] /\ handles'[t] = <<>>
                              /\ pc'[t] = "idle" \/ (Allocating(t)' /\ i'[t] = 1)
      BY <1>0, ReadByOther
    <2>1. /\ i[u] \in SlotIndex /\ tg[u] \in Groups
          /\ freeTaskGroups[i[u]] # tg[u] =>
                 /\ freeTaskGroups[i[u]] = Null
                 /\ \A s \in SlotIndex : 1 < s /\ s <= i[u] => freeTaskGroups[s] = Null
                 /\ \/ freeTaskGroups[1] = Null /\ HasGroup(t, tg[u]) /\ (Freeing(t) => i[t] = 1)
                    \/ /\ freeTaskGroups[1] = tg[u] /\ handles[t] = <<>>
                       /\ pc[t] = "idle" \/ (Allocating(t) /\ i[t] = 1)
      BY ReadByOtherBefore
    <2>2. ~Allocating(t) /\ i[t] # 1
      BY <1>0 DEF Allocating, SlotIndex
    <2>3. Freeing(t) /\ pc[t] # "idle"
      BY <1>0
    <2> QED BY <1>0, <2>1, <2>2, <2>3
  <1> QED BY <1>1, <1>3, <1>4, <1>5 DEF PoolInv

\* No step of the free list breaks its invariant.
LEMMA PoolStepKeeps ==
    ASSUME NoThirdGroup, PoolInv, [PoolNext]_poolVars
    PROVE  PoolInv'
  <1>1. CASE UNCHANGED poolVars
    <2>1. PoolShape'
      BY <1>1 DEF poolVars, PoolInv, PoolShape, PoolTypeOK, ThreadShape
    <2>2. \A t \in Threads : \A g \in Groups : HasGroup(t, g)' <=> HasGroup(t, g)
      BY <1>1 DEF poolVars, HasGroup, Freeing
    <2>3. GroupsApart' /\ HeapExact'
      BY <1>1, <2>2, GroupsStay DEF poolVars
    <2>4. ScanEmpty' /\ ReadGroupOrNull'
      BY <1>1 DEF poolVars, PoolInv, ScanEmpty, ReadGroupOrNull, HasGroup, Allocating, Freeing, SlotIndex
    <2> QED BY <2>1, <2>3, <2>4 DEF PoolInv
  <1>2. ASSUME NEW t \in Threads, AllocTaskGroup(t)
        PROVE  PoolInv'
    BY <1>2, AllocEnterStep, AllocReadStep, AllocTakes, AllocMisses, AllocNewStep DEF AllocTaskGroup
  <1>3. ASSUME NEW t \in Threads, FreeTaskGroup(t)
        PROVE  PoolInv'
    BY <1>3, FreeEnterStep, FreeReadStep, FreePuts, FreeMisses, FreeDeleteStep DEF FreeTaskGroup
  <1> QED BY <1>1, <1>2, <1>3 DEF PoolNext

\* The invariant holds for two threads that do not nest.
LEMMA PoolInvariant == NoThirdGroup => (PoolSpec => []PoolInv)
  <1> SUFFICES ASSUME NoThirdGroup PROVE PoolSpec => []PoolInv
    OBVIOUS
  <1>1. PoolInv /\ [PoolNext]_poolVars => PoolInv'
    BY PoolStepKeeps
  <1> QED BY PoolInitial, <1>1, PTL DEF PoolSpec

\* Under the invariant, a group has one place, and none exactly when it is not
\* in the heap.
LEMMA PoolInvSound == PoolInv => GroupsOwned
  <1> SUFFICES ASSUME PoolInv, NEW g \in Groups
               PROVE  (\A p, q \in Places(g) : p = q) /\ (g \in heap <=> Places(g) # {})
    BY DEF GroupsOwned, UniqueHandle, NoGroupLostOrDangling
  <1> USE PoolAssumption
  <1>1. ASSUME NEW t \in Threads
        PROVE  /\ HasGroup(t, g) <=> \/ \E k \in DOMAIN handles[t] : handles[t][k] = g
                                     \/ Freeing(t) /\ tg[t] = g
               /\ \A k \in DOMAIN handles[t] : k = 1 /\ ~Freeing(t)
    BY SingletonFacts DEF PoolInv, PoolShape, ThreadShape, HasGroup, Freeing
  <1>2. \A p : p \in Places(g) <=>
              \/ \E t \in Threads : \E k \in DOMAIN handles[t] : handles[t][k] = g /\ p = <<"handle", t, k>>
              \/ \E s \in SlotIndex : freeTaskGroups[s] = g /\ p = <<"slot", s, 0>>
              \/ \E t \in Threads : Freeing(t) /\ tg[t] = g /\ p = <<"freeing", t, 0>>
    <2> DEFINE H(t) == {<<"handle", t, k>> : k \in {n \in DOMAIN handles[t] : handles[t][n] = g}}
               AllH == UNION {H(t) : t \in Threads}
               S == {<<"slot", s, 0>> : s \in {n \in SlotIndex : freeTaskGroups[n] = g}}
               F == {<<"freeing", t, 0>> : t \in {u \in Threads : pc[u] \in {"freeRead", "freeCAS"} /\ tg[u] = g}}
    <2>1. Places(g) = AllH \cup S \cup F
      BY DEF Places
    <2>2. \A p, t : p \in H(t) <=> \E k \in DOMAIN handles[t] : handles[t][k] = g /\ p = <<"handle", t, k>>
      OBVIOUS
    <2>3. \A p : p \in AllH <=> \E t \in Threads : \E k \in DOMAIN handles[t] : handles[t][k] = g /\ p = <<"handle", t, k>>
      <3> HIDE DEF H
      <3>1. \A p : p \in AllH <=> \E t \in Threads : p \in H(t)
        OBVIOUS
      <3> QED BY <2>2, <3>1
    <2>4. \A p : p \in S <=> \E s \in SlotIndex : freeTaskGroups[s] = g /\ p = <<"slot", s, 0>>
      OBVIOUS
    <2>5. \A p : p \in F <=> \E t \in Threads : Freeing(t) /\ tg[t] = g /\ p = <<"freeing", t, 0>>
      BY DEF Freeing
    <2> HIDE DEF AllH, S, F
    <2>6. \A p : p \in Places(g) <=> p \in AllH \/ p \in S \/ p \in F
      BY <2>1
    <2> QED BY <2>3, <2>4, <2>5, <2>6
  <1>3. g \in heap <=> Places(g) # {}
    <2>1. (\E t \in Threads : HasGroup(t, g)) <=>
              \/ \E t \in Threads : \E k \in DOMAIN handles[t] : handles[t][k] = g
              \/ \E t \in Threads : Freeing(t) /\ tg[t] = g
      BY <1>1
    <2>2. Places(g) # {} <=> (\E s \in SlotIndex : freeTaskGroups[s] = g) \/ (\E t \in Threads : HasGroup(t, g))
      BY <1>2, <2>1
    <2> QED BY <2>2 DEF PoolInv, HeapExact
  <1>4. ASSUME NEW p \in Places(g), NEW q \in Places(g)
        PROVE  p = q
    <2>1. \A t, u \in Threads : HasGroup(t, g) /\ HasGroup(u, g) => t = u
      BY DEF PoolInv, GroupsApart
    <2>2. \A t \in Threads, s \in SlotIndex : ~(HasGroup(t, g) /\ freeTaskGroups[s] = g)
      BY DEF PoolInv, GroupsApart
    <2>3. \A a, b \in SlotIndex : freeTaskGroups[a] = g /\ freeTaskGroups[b] = g => a = b
      BY DEF PoolInv, GroupsApart
    <2>4. \/ \E t \in Threads : HasGroup(t, g) /\ p = IF Freeing(t) THEN <<"freeing", t, 0>> ELSE <<"handle", t, 1>>
          \/ \E s \in SlotIndex : freeTaskGroups[s] = g /\ p = <<"slot", s, 0>>
      BY <1>1, <1>2
    <2>5. \/ \E t \in Threads : HasGroup(t, g) /\ q = IF Freeing(t) THEN <<"freeing", t, 0>> ELSE <<"handle", t, 1>>
          \/ \E s \in SlotIndex : freeTaskGroups[s] = g /\ q = <<"slot", s, 0>>
      BY <1>1, <1>2
    <2> QED BY <2>1, <2>2, <2>3, <2>4, <2>5
  <1> QED BY <1>3, <1>4

\* Two threads that launch tasks from functions that do not nest share the free
\* list of task groups (freeTaskGroups[]) without losing a group, using one
\* after its delete, or getting one that another function has, for every length
\* of the list and every order of their compare-and-swaps.
THEOREM GroupsAreOwned == NoThirdGroup => (PoolSpec => []GroupsOwned)
  BY PoolInvariant, PoolInvSound, PTL

(***************************************************************************)
(* InitTaskSystem is safe for every number of application and worker       *)
(* threads and every limit on the attempts to open the semaphore.  The     *)
(* double-checked test of `threads` makes InitSound depend on who holds    *)
(* the spin lock and how far it is: InitInv says both.                     *)
(***************************************************************************)

\* The labels at which a thread holds the spin lock.
Locked == {"recheck", "mutex", "semaphore", "malloc", "create", "reserve", "replace", "unlock"}

\* One thread at most is between the compare-and-swap and lock = 0.
LockInv ==
    \A t \in AppThreads : initPc[t] \in Locked =>
      lock = 1 /\ \A u \in AppThreads : initPc[u] \in Locked => u = t

\* Nothing has been initialised, or everything but the rest of the workers.
Untouched == ~threads /\ mutexInits = 0 /\ semaphores = 0 /\ created = 0
Complete == threads /\ mutexInits = 1 /\ semaphores = 1 /\ created = nThreads

\* What the thread that holds the lock has initialised when it is at label l.
Stage(l) ==
    /\ l = "recheck" => Untouched \/ Complete
    /\ l = "mutex" => Untouched
    /\ l = "semaphore" => ~threads /\ mutexInits = 1 /\ semaphores = 0 /\ created = 0
    /\ l = "malloc" => ~threads /\ mutexInits = 1 /\ semaphores = 1 /\ created = 0
    /\ l = "create" => threads
    /\ l \in {"reserve", "replace", "unlock"} => Complete

\* How far the initialisation is.
StageInv ==
    ~initExited =>
      /\ tries < SemTries
      /\ lock = 0 => Untouched \/ Complete
      /\ lock = 1 => \E t \in AppThreads : initPc[t] \in Locked /\ Stage(initPc[t])

\* What holds from the initialisation on, also when the process exits.
UsableInv ==
    /\ mutexInits <= 1 /\ semaphores <= 1
    /\ threads => mutexInits = 1 /\ semaphores = 1
    /\ \A t \in AppThreads : initPc[t] \in {"ready", "launched"} => threads

InitInv == SystemTypeOK /\ LockInv /\ StageInv /\ UsableInv

-----------------------------------------------------------------------------

\* The initial state satisfies the invariant.
LEMMA InitStart == SystemInit => InitInv
  <1> SUFFICES ASSUME SystemInit PROVE InitInv
    OBVIOUS
  <1>1. SystemTypeOK
    <2>1. initPc \in [AppThreads -> SystemLabels]
      BY DEF SystemInit, SystemLabels
    <2>2. threads \in BOOLEAN /\ initExited \in BOOLEAN
      BY Zenon DEF SystemInit
    <2>3. lock \in {0, 1} /\ mutexInits \in Nat /\ semaphores \in Nat
      BY DEF SystemInit
    <2>4. tries \in 0 .. SemTries /\ created \in 0 .. nThreads
      BY InitAssumption DEF SystemInit
    <2> QED BY <2>1, <2>2, <2>3, <2>4 DEF SystemInit, SystemTypeOK
  <1>2. LockInv
    BY DEF SystemInit, LockInv, Locked
  <1>3. StageInv
    BY InitAssumption DEF SystemInit, StageInv, Untouched
  <1>4. UsableInv
    BY DEF SystemInit, UsableInv
  <1> QED BY <1>1, <1>2, <1>3, <1>4 DEF InitInv

\* Every step preserves the invariant.
LEMMA InitStep == InitInv /\ [SystemNext]_initVars => InitInv'
  <1> SUFFICES ASSUME InitInv, [SystemNext]_initVars PROVE InitInv'
    OBVIOUS
  <1> USE InitAssumption
  <1>0. CASE UNCHANGED initVars
    BY <1>0 DEF InitInv, SystemTypeOK, LockInv, StageInv, Stage, Untouched, Complete, UsableInv,
                initVars
  <1>1. ASSUME NEW t \in AppThreads, Test(t) PROVE InitInv'
    BY <1>1 DEF Test, Goto, InitInv, SystemTypeOK, LockInv, StageInv, Stage, Untouched, Complete,
                UsableInv, Locked, SystemLabels
  <1>2. ASSUME NEW t \in AppThreads, TakeLock(t) PROVE InitInv'
    BY <1>2 DEF TakeLock, Goto, InitInv, SystemTypeOK, LockInv, StageInv, Stage, Untouched, Complete,
                UsableInv, Locked, SystemLabels
  <1>3. ASSUME NEW t \in AppThreads, Recheck(t) PROVE InitInv'
    BY <1>3 DEF Recheck, Goto, InitInv, SystemTypeOK, LockInv, StageInv, Stage, Untouched, Complete,
                UsableInv, Locked, SystemLabels
  <1>4. ASSUME NEW t \in AppThreads, InitMutex(t) PROVE InitInv'
    <2>1. SystemTypeOK'
      <3>1. threads' \in BOOLEAN /\ initExited' \in BOOLEAN
        BY <1>4, Zenon DEF InitMutex, InitInv, SystemTypeOK
      <3> QED BY <1>4, <3>1 DEF InitMutex, Goto, InitInv, SystemTypeOK, SystemLabels
    <2>2. LockInv'
      BY <1>4 DEF InitMutex, Goto, InitInv, SystemTypeOK, LockInv, Locked
    <2>3. StageInv'
      BY <1>4 DEF InitMutex, Goto, InitInv, SystemTypeOK, LockInv, StageInv, Stage, Untouched,
                   Complete, UsableInv, Locked
    <2>4. UsableInv'
      BY <1>4 DEF InitMutex, Goto, InitInv, SystemTypeOK, LockInv, StageInv, Stage, Untouched,
                   Complete, UsableInv, Locked
    <2> QED BY <2>1, <2>2, <2>3, <2>4 DEF InitInv
  <1>5. ASSUME NEW t \in AppThreads, OpenSemaphore(t) PROVE InitInv'
    <2>1. CASE Goto(t, "semaphore", "malloc") /\ semaphores' = semaphores + 1
               /\ UNCHANGED <<tries, initExited>>
      BY <1>5, <2>1 DEF OpenSemaphore, Goto, InitInv, SystemTypeOK, LockInv, StageInv, Stage,
                        Untouched, Complete, UsableInv, Locked, SystemLabels
    <2>2. CASE Goto(t, "semaphore", "semaphore") /\ tries' = tries + 1
               /\ initExited' = (tries' = SemTries) /\ UNCHANGED semaphores
      <3>1. initPc' = initPc
        BY <2>2 DEF Goto, InitInv, SystemTypeOK
      <3>2. initExited' \in BOOLEAN /\ (initExited' <=> tries' = SemTries)
        BY <2>2, Zenon
      <3>3. tries \in Nat /\ tries < SemTries /\ tries' = tries + 1
        BY <2>2 DEF Goto, InitInv, SystemTypeOK, StageInv
      <3>4. tries' \in 0 .. SemTries /\ (~initExited' => tries' < SemTries)
        BY <3>2, <3>3
      <3>5. SystemTypeOK'
        BY <1>5, <2>2, <3>1, <3>2, <3>4 DEF OpenSemaphore, InitInv, SystemTypeOK
      <3>6. LockInv' /\ StageInv' /\ UsableInv'
        BY <1>5, <2>2, <3>1, <3>4 DEF OpenSemaphore, Goto, InitInv, LockInv, StageInv, Stage,
                                      Untouched, Complete, UsableInv
      <3> QED BY <3>5, <3>6 DEF InitInv
    <2> QED BY <1>5, <2>1, <2>2 DEF OpenSemaphore
  <1>6. ASSUME NEW t \in AppThreads, AllocThreads(t) PROVE InitInv'
    <2>1. SystemTypeOK'
      BY <1>6 DEF AllocThreads, Goto, InitInv, SystemTypeOK, StageInv, SystemLabels
    <2>2. LockInv'
      BY <1>6 DEF AllocThreads, Goto, InitInv, SystemTypeOK, LockInv, Locked
    <2>3. StageInv'
      BY <1>6 DEF AllocThreads, Goto, InitInv, SystemTypeOK, LockInv, StageInv, Stage, Untouched,
                   Complete, UsableInv, Locked
    <2>4. UsableInv'
      BY <1>6 DEF AllocThreads, Goto, InitInv, SystemTypeOK, LockInv, StageInv, Stage, Untouched,
                   Complete, UsableInv, Locked
    <2> QED BY <2>1, <2>2, <2>3, <2>4 DEF InitInv
  <1>7. ASSUME NEW t \in AppThreads, CreateWorker(t) PROVE InitInv'
    <2>1. SystemTypeOK'
      <3>1. threads' \in BOOLEAN /\ initExited' \in BOOLEAN
        BY <1>7, Zenon DEF CreateWorker, InitInv, SystemTypeOK
      <3> QED BY <1>7, <3>1 DEF CreateWorker, Goto, InitInv, SystemTypeOK, SystemLabels
    <2>2. LockInv'
      BY <1>7 DEF CreateWorker, Goto, InitInv, SystemTypeOK, LockInv, Locked
    <2>3. StageInv'
      BY <1>7 DEF CreateWorker, Goto, InitInv, SystemTypeOK, LockInv, StageInv, Stage, Untouched,
                   Complete, UsableInv, Locked
    <2>4. UsableInv'
      BY <1>7 DEF CreateWorker, Goto, InitInv, SystemTypeOK, LockInv, StageInv, Stage, Untouched,
                   Complete, UsableInv, Locked
    <2> QED BY <2>1, <2>2, <2>3, <2>4 DEF InitInv
  <1>8. ASSUME NEW t \in AppThreads, ReserveCopy(t) PROVE InitInv'
    BY <1>8 DEF ReserveCopy, Goto, InitInv, SystemTypeOK, LockInv, StageInv, Stage, Untouched, Complete,
                UsableInv, Locked, SystemLabels
  <1>9. ASSUME NEW t \in AppThreads, ReserveReplace(t) PROVE InitInv'
    BY <1>9 DEF ReserveReplace, Goto, InitInv, SystemTypeOK, LockInv, StageInv, Stage, Untouched, Complete,
                UsableInv, Locked, SystemLabels
  <1>10. ASSUME NEW t \in AppThreads, ReleaseLock(t) PROVE InitInv'
    BY <1>10 DEF ReleaseLock, Goto, InitInv, SystemTypeOK, LockInv, StageInv, Stage, Untouched, Complete,
                UsableInv, Locked, SystemLabels
  <1>11. ASSUME NEW t \in AppThreads, FirstLaunch(t) PROVE InitInv'
    BY <1>11 DEF FirstLaunch, Goto, InitInv, SystemTypeOK, LockInv, StageInv, Stage, Untouched, Complete,
                UsableInv, Locked, SystemLabels
  <1> QED BY <1>0, <1>1, <1>2, <1>3, <1>4, <1>5, <1>6, <1>7, <1>8, <1>9, <1>10, <1>11
          DEF SystemNext, InitTaskSystem

-----------------------------------------------------------------------------

\* Type correctness of InitTaskSystem: in particular sem_open is attempted at
\* most SemTries times and at most nThreads workers are created.
THEOREM SystemTypeCorrect == SystemSpec => []SystemTypeOK
  <1>1. InitInv => SystemTypeOK
    BY DEF InitInv
  <1> QED BY <1>1, InitStart, InitStep, PTL DEF SystemSpec

\* The invariant says what a caller of InitTaskSystem relies on.
LEMMA InitInvSound == InitInv => InitSound
  <1> SUFFICES ASSUME InitInv PROVE InitSound
    OBVIOUS
  <1>1. ReadyToLaunch
    BY DEF InitInv, UsableInv, ReadyToLaunch
  <1>2. InitialisedOnce
    BY DEF InitInv, UsableInv, StageInv, Untouched, Complete, InitialisedOnce
  <1> QED BY <1>1, <1>2 DEF InitSound

\* InitTaskSystem initialises the mutex, the semaphore and the workers once,
\* whichever threads race for it, and a thread that the unlocked test of
\* `threads` lets through finds the mutex and the semaphore initialised.
THEOREM InitIsSound == SystemSpec => []InitSound
  BY InitStart, InitStep, InitInvSound, PTL DEF SystemSpec
=============================================================================
