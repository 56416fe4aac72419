SPECIFICATION SnapshotSpec
CONSTANTS
    Ids = {1, 2}
    Vecs = {1, 2}
    Rejected = {2}
    None = None
    Missing = Missing
    NoFile = NoFile
    Unsealed = Unsealed
    BufferCapacity = 2
    SizeRatio = 1
    MaxLevels = 2
    MaxSaves = 2
    K = 1
    Distance <- Distances
INVARIANTS
    SealedIsLoadable
PROPERTIES
    LoadRestoresSealed
