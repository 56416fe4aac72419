SPECIFICATION Spec
CONSTANTS
    Docs <- Points
    Dist <- LineDist
    M = 2
    MMax = 3
    MaxLayer = 1
    Inputs <- Added
    MaxGone = 2
    NoDoc = NoDoc
    NoNode = NoNode
INVARIANTS
    DegreeBounded
    NoEdgeToRemoved
    SmallIndexExact
PROPERTIES
    EntryRemovedOnlyByLoad
