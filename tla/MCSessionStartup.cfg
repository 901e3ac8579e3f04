SPECIFICATION Spec
CONSTANTS
    Tabs = {t1, t2, t3}
    OldTabs = {t1, t2}
    EarlySignals = TRUE
    SyncFails = FALSE
    MaxChanges = 2
    MaxStarts = 2
    MaxFailures = 1
INVARIANTS
    StartupKeepsSource
CHECK_DEADLOCK FALSE
