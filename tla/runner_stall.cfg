SPECIFICATION StallSpec
CONSTANTS
    w1 = w1
    w2 = w2
    Workers <- TwoWorkers
    Count = 2
    Word = 16
    Modes = {TRUE}
    Paced = FALSE
    BuildMayFail = FALSE
    FlushAt = 2
    MaxErrors = 0
PROPERTY
    CancelReturns
