SPECIFICATION FairSpec
CONSTANTS
    b1 = b1
    Behavior = {b1}
    Request = {r1}
    Target <- TargetB1
    Print0 <- FirstPrint
    Prints = {1, 2}
    Workers = 1
    QueueCap = 1
    Budget = 2
    MaxEdits = 1
    Limits <- ThreeLimits
INVARIANTS
    RegisteredAreOwned
PROPERTIES
    VetoMatchesDispatcher
    RoutesOnlyWhenReady
    CloseCompletes
    BarrierReleases
    ServedOrRejected
    
CHECK_DEADLOCK FALSE
