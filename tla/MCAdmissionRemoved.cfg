SPECIFICATION Spec
CONSTANTS
    Calls = {c1}
    Configs <- Resized
    Removed = Removed
    MaxGen = 3
SYMMETRY CallSymmetry
INVARIANTS
    RemovedBackendIsGone
CHECK_DEADLOCK FALSE
