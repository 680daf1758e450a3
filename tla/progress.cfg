\* Initialisation: three threads make their first launch at the same time.
\* GPU queue: up to three commands between two syncs, any number of syncs, two
\* events in each pool (so that events are reused and a pool runs out), one
\* failed call.  Foreach: ranges of up to three vectors and a rest, two tiles
\* and a rest.
CONSTANTS
    t1 = t1
    t2 = t2
    t3 = t3
    Parts = {"init", "queue", "loop"}
    AppThreads = {t1, t2, t3}
    nThreads = 2
    SemTries = 2
    Configs <- MCConfigs
    PoolSize <- MCPoolSize
    TimestampMax = 1
    MaxCommands = 3
    MaxFailures = 1
    MaxExtent1 = 25
    MaxExtent2 = 9
    MaxExtent3 = 4
    Domains <- MCDomains
SPECIFICATION MCSpec
INVARIANTS
    TypesOK
    InitSound
    CommandsOrdered
    EventsSound
    IterationsExact
PROPERTIES
    PartsEnd
CHECK_DEADLOCK FALSE
