SPECIFICATION SafetySpec
CONSTANTS
    w1 = w1
    w2 = w2
    Workers <- TwoWorkers
    Count = 4
    Word = 16
    Modes = {TRUE}
    Paced = TRUE
    BuildMayFail = FALSE
    FlushAt = 3
    MaxErrors = 0
INVARIANT
    NeverHeldIdle
