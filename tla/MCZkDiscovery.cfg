CONSTANTS
    s1 = s1
    s2 = s2
    Servers = {s1, s2}
    Callers = {c1, c2}
    Watcher = Watcher
    MaxRuns <- Restarts
    MaxFailures = 1
    None = None
SPECIFICATION FairSpec
INVARIANT WatchesBounded
PROPERTIES WatchChain CacheConverges ListedOnceRegistered
