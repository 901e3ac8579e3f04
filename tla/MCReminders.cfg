SPECIFICATION FairSpec
CONSTANTS
    FreezeAfter = 2
    ReadsWithin = 1
    FreezeFails = TRUE
    MaxEvents = 1
    Ids = {"r", "s"}
    Every <- Repeats
    Dues = {2}
    RedrawWithin = 1
    MaxTime = 3
INVARIANTS
    TypeOK
PROPERTIES
    MissedRunsNotReplayed
    InputReachesRunning
    InputIsRead
    LeftoversThawed
    DueIsDelivered
CHECK_DEADLOCK FALSE
