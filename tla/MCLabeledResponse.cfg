SPECIFICATION Spec
CONSTANTS
    r1 = r1
    r2 = r2
    None = None
    Requests = {r1, r2}
    MaxGen = 3
CHECK_DEADLOCK FALSE
INVARIANTS
    AtMostOnce
    OwnResponse
    CallbackNotLost
PROPERTIES
    CallbackRuns
