\* One worker and two application threads; three launches of one or two tasks,
\* nested or not, with enough groups for all of them.
CONSTANTS
    c1 = c1
    c2 = c2
    g1 = g1
    g2 = g2
    g3 = g3
    nThreads = 1
    Clients = {c1, c2}
    Groups = {g1, g2, g3}
    Null = Null
    Counts = {1, 2}
    MaxLaunches = 3
SYMMETRY Symmetry
SPECIFICATION Spec
INVARIANTS
    TypeOK
    SyncWaitsForAll
    ResetAssertion
    EveryTaskOnce
    FreeGroupsUntouched
    ActiveListExact
    CounterExact
    WakeupsSuffice
