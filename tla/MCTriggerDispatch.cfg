SPECIFICATION Spec
CONSTANTS
    Kinds <- FourKinds
    MaxSlots = 3
    MaxFires = 3
    MaxRounds = 2
    MaxEdits = 2
    MaxFaults = 1
    MaxCrashes = 1
INVARIANTS
    
    
    GoalFireOnce
CHECK_DEADLOCK FALSE
