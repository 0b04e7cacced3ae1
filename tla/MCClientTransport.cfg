CONSTANTS
    Threads = {t1, t2}
    Endpoints = {e1, e2}
    Fds = {f1, f2}
    MaxIdlePerEndpoint = 1
    MaxCalls = 2
    None = None
SPECIFICATION FairSpec
INVARIANTS TypeOK OneOwner ResponseMatchesRequest RightEndpoint AtMostOnce
PROPERTY ImplementsRpcCall
