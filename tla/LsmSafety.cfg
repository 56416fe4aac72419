SPECIFICATION Spec
CONSTANTS
    Ids = {1, 2, 3}
    Vecs = {1, 2, 3}
    Rejected = {3}
    None = None
    Missing = Missing
    BufferCapacity = 2
    SizeRatio = 1
    MaxLevels = 3
    K = 2
    Distance <- Distances
INVARIANTS
    LiveLevelsAgree
    SearchExactWhenClean
PROPERTIES
    ImplementsMap
