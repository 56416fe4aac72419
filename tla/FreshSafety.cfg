SPECIFICATION Spec
CONSTANTS
    Docs = {d1, d2}
    Vecs = {0, 1, 3}
    Dist <- OnHexagon
    AlphaNum = 6
    AlphaDen = 5
    MaxDegree = 2
    Inputs <- TwoDocs
    MaxNodes = 4
    MaxRepeats = 1
    d1 = d1
    d2 = d2
    NoDoc = NoDoc
    NoVec = NoVec
INVARIANTS
    RefusedOnlyForDuplicates
PROPERTIES
    InexactOnlyByDuplicates
    LastInEdgeKept
    RebuildReachesAll
    EntryLostOnlyByEmptying
