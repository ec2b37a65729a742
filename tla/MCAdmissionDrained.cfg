SPECIFICATION Spec
CONSTANTS
    Calls = {c1}
    Configs <- Resized
    Removed = Removed
    MaxGen = 2
SYMMETRY CallSymmetry
INVARIANTS
    DrainedHoldsNoPermit
CHECK_DEADLOCK FALSE
