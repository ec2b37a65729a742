SPECIFICATION FairSpec
CONSTANTS
    Requests <- Four
    Wakes <- Second
    Malformed <- First
    Incoherent <- Third
    Foreign <- Fourth
    Workers = {w1}
    Ordered = TRUE
    MaxCrashes = 1
PROPERTIES
    
    DrainSparesActive
    
CHECK_DEADLOCK FALSE
