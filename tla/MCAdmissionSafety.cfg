SPECIFICATION Spec
CONSTANTS
    Calls = {c1, c2, c3}
    Configs <- AllKinds
    Removed = Removed
    MaxGen = 3
SYMMETRY CallSymmetry
INVARIANTS
    SlotsAccounted
    QueueAccounted
    ProviderWithinLimit
    ActiveIsLatest
CHECK_DEADLOCK FALSE
