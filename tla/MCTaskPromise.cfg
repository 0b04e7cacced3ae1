CONSTANTS
    Tasks = {k1, k2}
    NoThread = NoThread
SPECIFICATION TaskFairSpec
INVARIANTS NobodyLeftWaiting ResultDelivered
PROPERTY OwnerGoesOn
