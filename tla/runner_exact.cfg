SPECIFICATION SafetySpec
CONSTANTS
    w1 = w1
    w2 = w2
    Workers <- TwoWorkers
    Count = 2
    Word = 16
    Modes = {FALSE}
    Paced = FALSE
    BuildMayFail = FALSE
    FlushAt = 2
    MaxErrors = 1
INVARIANT
    StillExact
