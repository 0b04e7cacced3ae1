CONSTANTS
    Handles = {req, resp}
    Types = {t1, t2}
    Messages = {m1, m2, m3}
    BucketLimit = 1
    Frames = {f1, f2}
    Calls = {f1}
    Data = {f1, f2}
    None = None
    Services <- MCServices
    Names <- MCNames
    RequestHandle = req
    ResponseHandle = resp
    RequestType = t1
    ResponseType = t2
SPECIFICATION SystemSpec
SYMMETRY Symmetry
INVARIANTS RepliesUndisturbed RepliesAsSpecified ClosureSound CallerSees SafeToRetry
