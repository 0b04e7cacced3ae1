CONSTANTS
    Waits = {w1, w2}
    Fds = {f1}
    Wake = Wake
    None = None
SPECIFICATION FairSpec
INVARIANT InOnePlace
PROPERTIES StaysArmed WaitsComplete NothingLingers
