SPECIFICATION EagerSpec
CONSTANTS
    w1 = w1
    w2 = w2
    f1 = f1
    f2 = f2
    Shared = Shared
    Nil = Nil
    Callers <- TwoWorkers
    Flows <- OneFlow
    Cells <- OneCell
    Start = 0
    GapEvery = 2
    GapSize = 1
    Delayed = TRUE
    MaxCalls = 3
    MaxFrames = 3
PROPERTY
    SkippedIsResent
