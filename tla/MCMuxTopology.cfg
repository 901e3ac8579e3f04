SPECIFICATION FairSpec
CONSTANTS
    a = a
    b = b
    Clients <- TwoClients
    None = None
    MaxPanes = 3
    MaxTabs = 3
    MaxWindows = 2
    MaxRequests = 2
    FirstPanes = 1
INVARIANTS
    TypeOK
    OneHome
    NewWindowKept
    NoHusks
PROPERTIES
    CatchesUp
CHECK_DEADLOCK FALSE
