SPECIFICATION SegmentSpec
CONSTANTS
    NumFiles = 6
    MaxSaves = 3
    Sidecar = Sidecar
    Absent = Absent
INVARIANTS
    AcceptedIsWhole
    AckedKept
