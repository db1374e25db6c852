SPECIFICATION Spec
CONSTANTS
    w1 = w1
    w2 = w2
    Workers <- TwoWorkers
    Count = 5
    Word = 16
    Modes = {TRUE, FALSE}
    Paced = TRUE
    BuildMayFail = TRUE
    FlushAt = 2
    MaxErrors = 2
INVARIANTS
    TypeOK
    SlotsConserved
    NeverOvershoots
    CleanRunIsExact
    WireWithinSlots
    FlushedAtReturn
PROPERTIES
    ImplementsCountedRun
    CancelReturns
    CountedRunEnds
