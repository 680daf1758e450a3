\* Two threads, one function nested in another; the other parts are kept small.
CONSTANTS
    t1 = t1
    t2 = t2
    g1 = g1
    g2 = g2
    g3 = g3
    g4 = g4
    o1 = o1
    o2 = o2
    o3 = o3
    o4 = o4
    v1 = v1
    v2 = v2
    v3 = v3
    Threads = {t1, t2}
    Groups = {g1, g2, g3, g4}
    Null = Null
    MAX_FREE_TASK_GROUPS = 2
    MaxDepth = 2
    NUM_MEM_BUFFERS = 3
    MemSize = 8
    BufferSize <- MCBufferSize
    Sizes = {3}
    Alignments = {4, 8}
    BaseAddresses = {0, 4}
    MaxBuffers = 1
    TASK_QUEUE_CHUNK_SIZE = 4
    MAX_TASK_QUEUE_CHUNKS = 4
    Counts <- MCCounts
    Objects = {o1}
    Programs <- MCPrograms
    MaxHandles = 1
    MinPow2 = 1
    MaxPow2 = 2
    Requests = {1}
    Views = {v1}
    MaxAllocFailures = 1
    MaxBulks = 2
SPECIFICATION MCSpec
INVARIANT UniqueHandle
