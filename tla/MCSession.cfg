SPECIFICATION FairSpec
CONSTANTS
    Tabs = {t1, t2, t3}
    OldTabs = {t1, t2}
    EarlySignals = TRUE
    SyncFails = FALSE
    MaxChanges = 2
    MaxStarts = 2
    MaxFailures = 1
INVARIANTS
    SessionTypeOK
    CommittedSurvives
    StopSavesAll
PROPERTIES
    EventuallySaved
CHECK_DEADLOCK FALSE
