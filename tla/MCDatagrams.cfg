CONSTANTS
    Client = {c1, c2}
    MaxSends = 3
    Capacity = 2
SPECIFICATION FairSpec
CHECK_DEADLOCK FALSE
INVARIANTS
    PrintedInOrder
    WaitsOnlyAfterLoss
PROPERTIES
    QuitEndsServer
