SPECIFICATION FairSpec
CONSTANTS
    t1 = t1
    t2 = t2
    t3 = t3
    Tabs <- ThreeTabs
    First <- TwoTabs
    None = None
    Capacity = 2
    MaxChoices = 2
    MaxClosed = 1
    MaxEvents = 2
PROPERTIES
    AllTabsReachClient
CHECK_DEADLOCK FALSE
