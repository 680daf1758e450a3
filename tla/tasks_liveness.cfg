\* One worker and two application threads, so that a thread that waits in a
\* sync runs tasks that sync themselves; three launches of one task each.
CONSTANTS
    c1 = c1
    c2 = c2
    g1 = g1
    g2 = g2
    g3 = g3
    nThreads = 1
    Clients = {c1, c2}
    Groups = {g1, g2, g3}
    Null = Null
    Counts = {1}
    MaxLaunches = 3
SPECIFICATION FairSpec
PROPERTIES
    CallsReturn
    ImplementsLaunchSync
