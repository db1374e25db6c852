SPECIFICATION GenSpec
CONSTANTS
    PoolLen = 2
    Groups = 1
    PhaseSizes = {0, 1, 7}
    Half = 8
    Limit = 1
    Modulus = 4
INVARIANTS
    AnnounceTypeOK
    NeverInterleaved
    OnlyActiveAnnounced
    RefusedSendsNothing
PROPERTIES
    AnnounceStops
    RefreshKeepsUp
    RampCompletes
CHECK_DEADLOCK FALSE
