SPECIFICATION Spec
CONSTANTS
    i1 = i1
    i2 = i2
    c1 = c1
    c2 = c2
    c3 = c3
    Calls = {c1, c2, c3}
    Ids = {i1}
    Prompts = {"p", "q"}
    Incarnations <- TwoIncarnations
    Inputs <- OneId
    Harness <- CodexThenAgy
    IoFails = TRUE
    MaxCrashes = 1
    MaxInput = 0
    MaxPresses = 1
SYMMETRY Symmetry
INVARIANTS
    TypeOK
    AtMostOnce
    OwnsReservation
    AcceptedMeansEntered
PROPERTIES
    RefusedMeansUnwritten
    RepeatReturnsSameReceipt
CHECK_DEADLOCK FALSE
