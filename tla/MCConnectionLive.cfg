SPECIFICATION Spec
CONSTANTS
    c1 = c1
    Callers <- MCCallers
    CallbacksCall = FALSE
    Calls = {"Quit"}
    Messages = {"welcome", "pong"}
    MaxGen = 1
    QueueSize = 1
    PingModulus = 1
    Options = {}
    LoopOnNilEnd = FALSE
PROPERTIES
    QuitStops
    LossIsHandled
    ReadMsgLoopEnds
