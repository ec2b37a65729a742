SPECIFICATION FairSpec
CONSTANTS
    n1 = n1
    n2 = n2
    b1 = b1
    Native = {n1, n2}
    Background = {b1}
    Loads <- FourLoads
INVARIANTS
    LiveProcessKeepsItsRow
    
PROPERTIES
    FirstEndWins
    EndIsAnnounced
    
CHECK_DEADLOCK FALSE
