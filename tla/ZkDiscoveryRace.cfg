CONSTANTS
    s1 = s1
    s2 = s2
    Servers = {s1}
    Callers = {c1}
    Watcher = Watcher
    MaxRuns <- Alone
    MaxFailures = 0
    None = None
SPECIFICATION FairSpec
PROPERTY CacheFollows
