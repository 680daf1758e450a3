\* Three lanes and every program of the grammar; the accesses, and the blocks
\* of gathers, of their modules; two threads that call an exported function, and
\* an application that keeps one engine at a time.
CONSTANTS
    l1 = l1
    l2 = l2
    l3 = l3
    NaN = NaN
    Lanes = {l1, l2, l3}
    Values = {1, 2}
    Programs <- AllPrograms
    GangSize = 2
    CallTypes <- MCTypes
    CallOptions <- MCOptions
    MaxFrames = 4
    VectorWidth = 4
    NarrowBits = 6
    WideBits = 8
    ElementSize = 2
    MaxIterations = 3
    LoopStep = 4
    Access <- MCAccess
    LoopPhis <- MCLoop
    Blocks <- MCBlocks
    OffsetBits = 8
    MaxSpan = 9
    Threads = {t1, t2}
    Exports = {"f"}
    DispatchSets <- WithoutVnni
    DispatchMachines <- Machines
    UsesApx = FALSE
    Requests <- MCRequests
    Globals = {"u", "v"}
    Varyings = {"v"}
    Builds <- MCBuilds
    Engines = {"e1", "e2"}
    MaxEngines = 1
    Args = {"O0", "O2"}
    RuntimeFunctions = {"ISPCLaunch", "ISPCSync"}
    MaxContexts = 4
SYMMETRY Symmetry
SPECIFICATION MCSpec
INVARIANTS
    MaskExact
    NoLaneLeftBehind
    CallsExact
    ClaimsHold
    AccessesSound
    GathersKept
    TargetsSound
    OutputsSound
    VariantRuns
    EnginesSound
PROPERTY
    RewritesEnd
