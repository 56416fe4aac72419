SPECIFICATION Spec
CONSTANTS
    Gens = {g1, g2, g3}
    Readers = {r1}
    NoGen = NoGen
    Torn = Torn
    MaxAttempts = 2
SYMMETRY Symmetry
INVARIANTS
    CurrentVerifies
    NoLostUpdate
    CommittedSurvives
    ErrorLeavesCurrent
    LeaseProtects
PROPERTIES
    ImplementsLog
