\* Two threads on any machine call a function compiled for AVX2VNNI (6) and for
\* an older ISA: AVX2 (5) or SSE4.2 (2).
CONSTANTS
    Threads = {t1, t2}
    Exports = {"f"}
    DispatchSets = {{5, 6}, {2, 6}}
    DispatchMachines <- Machines
    UsesApx = FALSE
SPECIFICATION DispatchSpec
INVARIANT VariantRuns
CHECK_DEADLOCK FALSE
