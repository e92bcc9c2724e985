SPECIFICATION SafetySpec
CONSTANTS
    c1 = c1
    Callers <- MCCallers
    CallbacksCall = TRUE
    Calls = {"Send", "Reconnect"}
    Messages = {"welcome", "ping"}
    MaxGen = 2
    QueueSize = 1
    PingModulus = 1
    Options = {"UseSASL"}
    LoopOnNilEnd = FALSE
INVARIANTS
    TypeOK
    EndOpenIffRunning
    LossStopsConnection
    NoStrandedSender
    StoppedIsClean
    DisconnectCallbacksOnce
