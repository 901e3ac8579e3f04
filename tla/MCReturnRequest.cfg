SPECIFICATION FairSpec
CONSTANTS
    Nothing = Nothing
    PageLimit = 2
    Retention = 3
    MaxTurns = 2
    MaxEvents = 2
INVARIANTS
    TypeOK
    FinalIsOwn
    GivesUpForCause
PROPERTIES
    AnsweredOnce
    EndedTurnIsReported
CHECK_DEADLOCK FALSE
