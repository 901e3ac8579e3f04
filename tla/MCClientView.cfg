SPECIFICATION FairSpec
CONSTANTS
    t1 = t1
    t2 = t2
    t3 = t3
    Tabs <- ThreeTabs
    First <- TwoTabs
    None = None
    Capacity = 2
    MaxChoices = 2
    MaxClosed = 1
    MaxEvents = 4
INVARIANTS
    TypeOK
    ChoiceKept
    ChoiceArrives
    NothingMissed
PROPERTIES
    TabsReachClient
CHECK_DEADLOCK FALSE
