\* Free list: two threads whose functions do not nest; the heap is large
\* enough for every handle and every slot.  Argument memory: blocks that fit
\* into the group, that need a doubled buffer, and that are larger than it;
\* base addresses aligned and not aligned to the larger alignment.  Table: four
\* chunks of four TaskInfos; launches of two, three and twelve tasks, and
\* of none.  Objects: three with up to two handles each, lost ones included.
\* Views: three with chunks of two sizes (two to a bulk and one to a bulk) and
\* a size over the pool's limit, in up to two bulks of each size.
CONSTANTS
    t1 = t1
    t2 = t2
    g1 = g1
    g2 = g2
    g3 = g3
    g4 = g4
    o1 = o1
    o2 = o2
    o3 = o3
    v1 = v1
    v2 = v2
    v3 = v3
    Threads = {t1, t2}
    Groups = {g1, g2, g3, g4}
    Null = Null
    MAX_FREE_TASK_GROUPS = 1
    MaxDepth = 1
    NUM_MEM_BUFFERS = 3
    MemSize = 8
    BufferSize <- MCBufferSize
    Sizes = {3, 7}
    Alignments = {4, 8}
    BaseAddresses = {0, 4}
    MaxBuffers = 2
    TASK_QUEUE_CHUNK_SIZE = 4
    MAX_TASK_QUEUE_CHUNKS = 4
    Counts <- MCCounts
    Objects = {o1, o2, o3}
    Programs <- MCPrograms
    MaxHandles = 2
    MinPow2 = 1
    MaxPow2 = 2
    Requests = {1, 3, 5}
    Views = {v1, v2, v3}
    MaxAllocFailures = 1
    MaxBulks = 2
SYMMETRY Symmetry
SPECIFICATION MCSpec
INVARIANTS
    TypesOK
    GroupsOwned
    BlocksSound
    TaskInfosSound
    ObjectsCounted
    ViewsSound
