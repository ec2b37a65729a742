SPECIFICATION FairRowsSpec
CONSTANTS
    Calls = {c1, c2}
    Traced = {c1}
    Configs <- Fixed
    Removed = Removed
    MaxGen = 2
INVARIANTS
    PublishedUsageIsDurable
PROPERTIES
    TerminalRowIsFinal
    DispatchIsRecorded
    RowsSettle
CHECK_DEADLOCK FALSE
