\* Two threads make their first launch at the same time.
CONSTANTS
    t1 = t1
    t2 = t2
    t3 = t3
    Parts = {"init"}
    AppThreads = {t1, t2}
    nThreads = 1
    SemTries = 1
    Configs <- MCConfigs
    PoolSize <- MCPoolSize
    TimestampMax = 1
    MaxCommands = 1
    MaxFailures = 0
    MaxExtent1 = 1
    MaxExtent2 = 1
    MaxExtent3 = 1
    Domains <- MCDomains
SPECIFICATION MCSpec
INVARIANT LaunchedGroupsActive
CHECK_DEADLOCK FALSE
