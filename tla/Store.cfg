SPECIFICATION SnapshotSpec
CONSTANTS
    Ids = {a, b}
    Vecs = {1, 2}
    Rejected = {2}
    BatchVec = 1
    FlushThreshold = 2
    MaxSegments = 2
    Batches <- Pairs
    InBuffer = InBuffer
    Nowhere = Nowhere
    Absent = Absent
    NoBatch = NoBatch
    NoView = NoView
    NoWrite = NoWrite
SYMMETRY Symmetry
INVARIANTS
    SegmentGraphsCurrent
    SnapshotMissesOnlyLaterWrites
PROPERTIES
    OnlyErrorsLeaveBufferStale
    OnlySnapshotsOverwrite
