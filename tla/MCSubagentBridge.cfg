SPECIFICATION FairSpec
CONSTANTS
    MaxCrashes <- Restarts
CHECK_DEADLOCK FALSE
INVARIANT SuccessIsTheChilds
PROPERTY FirstTerminalWins
 
PROPERTY BridgeConverges
