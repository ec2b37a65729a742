SPECIFICATION FairSpec
CONSTANTS
    Calls = {c1, c2}
    Configs <- Resized
    Removed = Removed
    MaxGen = 3
PROPERTIES
    PendingIsResolved
    EveryCallEnds
CHECK_DEADLOCK FALSE
