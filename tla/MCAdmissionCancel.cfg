SPECIFICATION Spec
CONSTANTS
    i1 = i1
    i2 = i2
    c1 = c1
    c2 = c2
    c3 = c3
    Calls = {c1, c2}
    Ids = {i1, i2}
    Prompts = {"p", "q"}
    Incarnations = {1}
    Inputs <- TwoIds
    Harness <- Claude
    IoFails = FALSE
    MaxCrashes = 1
    MaxInput = 1
    MaxPresses = 2
INVARIANTS
    EventsAreTerminal
CHECK_DEADLOCK FALSE
