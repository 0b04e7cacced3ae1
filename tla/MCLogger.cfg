CONSTANTS
    Writers = {w1, w2}
    Files = {f1}
    MaxWrites = 3
    MaxConfigures = 2
    None = None
SPECIFICATION Spec
INVARIANTS InOrder NothingLost
PROPERTY EventuallyWritten
