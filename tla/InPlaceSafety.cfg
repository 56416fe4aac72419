SPECIFICATION Spec
CONSTANTS
    Slots = {s1, s2, s3, s4}
    MaxCalls = 8
    Vecs = {0, 1, 3}
    Distance <- OnLine
    MaxDegree = 2
    MaxInNeighbors = 2
    BackEdges = TRUE
    Missing = Missing
    NoSlot = NoSlot
SYMMETRY Symmetry
INVARIANTS
    EntryLive
PROPERTIES
    OnlyFullListsLoseTrack
    RepairClears
CHECK_DEADLOCK FALSE
