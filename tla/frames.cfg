SPECIFICATION Spec
CONSTANTS
    Counts = {0, 1, 2}
    AnchorSizes = {59, 60, 312, 313, 314, 315, 65415, 65416, 65597, 65598, 65599}
    NodeCounts = {0, 3, 5}
    PayloadSizes = {0, 1, 55, 127, 128, 175, 176}
    PoolSizes = {0, 1, 2}
    MaxDatagram = 65507
    Nonces = 3
INVARIANTS
    StreamAsPlanned
    RootsVerify
    SizesExact
    HeadersPass
CHECK_DEADLOCK FALSE
