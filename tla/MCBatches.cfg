SPECIFICATION Spec
CONSTANTS
    b1 = b1
    b2 = b2
    NoBatch = NoBatch
    BatchIDs = {b1, b2}
    KeepAlive = 1
    Timeout = 1
    MaxTime = 3
    MaxLines = 4
    MaxLabels = 1
    MaxGen = 2
SYMMETRY Symmetry
CHECK_DEADLOCK FALSE
INVARIANTS
    DeliveredOnce
    CompleteBatch
    ResponseOutlivesLabel
PROPERTIES
    NoStaleBatch
