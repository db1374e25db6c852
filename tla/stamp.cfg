SPECIFICATION PolledSpec
CONSTANTS
    w1 = w1
    w2 = w2
    f1 = f1
    f2 = f2
    Shared = Shared
    Nil = Nil
    Callers <- TwoWorkers
    Flows <- TwoFlows
    Cells <- SharedCells
    Start = 0
    GapEvery = 2
    GapSize = 2
    Delayed = TRUE
    MaxCalls = 4
    MaxFrames = 4
INVARIANTS
    AllocTypeOK
    NoNumberLost
    NoNumberTwice
    GapCadence
    SkippedOnce
PROPERTIES
    FlowsAreAllocators
