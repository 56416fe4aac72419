SPECIFICATION FairSpec
CONSTANTS
    FileLen = 5
    BlockSize = 2
    Budget = 5
    MaxOffset = 5
    MaxRequest = 3
    Blank = Blank
    NoSlot = NoSlot
    NoBlock = NoBlock
INVARIANTS
    ReadReturnsFile
    EmptySlotsReclaimed
PROPERTIES
    ReadEnds
