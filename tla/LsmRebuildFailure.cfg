SPECIFICATION Spec
CONSTANTS
    Ids = {1, 2}
    Vecs = {1, 2}
    Rejected = {2}
    None = None
    Missing = Missing
    BufferCapacity = 2
    SizeRatio = 1
    MaxLevels = 3
    K = 1
    Distance <- Distances
INVARIANTS
    LiveLevelHoldsCopy
