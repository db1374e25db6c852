SPECIFICATION Spec
CONSTANT
    MaxObjects = 2
INVARIANTS
    HonestClassified
    BestEvidence
    DeadlineCleared
    NothingLost
    RelayFaithful
    SummaryAgrees
PROPERTY
    EdgeEndEnds
