SPECIFICATION LazySpec
CONSTANTS
    w1 = w1
    w2 = w2
    f1 = f1
    f2 = f2
    Shared = Shared
    Nil = Nil
    Callers <- TwoWorkers
    Flows <- TwoFlows
    Cells <- AllCells
    Start = 1
    GapEvery = 0
    GapSize = 0
    Delayed = TRUE
    MaxCalls = 3
    MaxFrames = 3
INVARIANT
    UniquePerFlow
