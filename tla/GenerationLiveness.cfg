SPECIFICATION FairSpec
CONSTANTS
    Gens = {g1, g2}
    Readers = {r1}
    NoGen = NoGen
    Torn = Torn
    MaxAttempts = 2
PROPERTIES
    LockNeverStranded
    PinnedOpenReturns
