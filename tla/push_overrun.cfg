SPECIFICATION AnyPeerSpec
CONSTANTS
    Counts = {0, 3}
    MaxSent = 3
PROPERTY
    PushStops
