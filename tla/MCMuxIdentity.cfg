SPECIFICATION Spec
CONSTANTS
    a = a
    b = b
    Clients <- TwoClients
    None = None
    MaxPanes = 3
    MaxTabs = 3
    MaxWindows = 2
    MaxRequests = 2
    FirstPanes = 2
INVARIANTS
    IdentityRestored
CHECK_DEADLOCK FALSE
