SPECIFICATION Spec
CONSTANTS
    Ids = {1, 2, 3}
    Vecs = {1, 2, 3}
    DimOf <- Dims
    MainDim = 4
    Missing = Missing
    NoSlot = NoSlot
    NoId = NoId
    NoDim = NoDim
    MaxBuffer = 2
    MaxDeletes = 2
    K = 2
    Metrics = {L2, Cosine}
    L2 = L2
    Cosine = Cosine
    Distance <- Distances
INVARIANTS
    NodesNamed
    FreeListExact
    SearchExact
PROPERTIES
    CompactionKeepsView
    CallsKeepOthers
    OnlyRefusalBreaksMaps
