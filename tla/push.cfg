SPECIFICATION BlockSpec
CONSTANTS
    Counts = {0, 3}
    MaxSent = 3
    HeightStart = 7
INVARIANTS
    ObjectAligned
    PushCountExact
    ChainLinked
PROPERTIES
    CountedPushEnds
    PushStops
