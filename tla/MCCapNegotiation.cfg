SPECIFICATION Spec
CONSTANTS
    RequestCaps <- ThreeCaps
    UseSASL = TRUE
    SASLOptional = FALSE
    Lossy = TRUE
    ResponseLengths = {0, 3, 7, 12}
    Limits = {0, 3, 9, 12}
    ChunkGroups = 2
INVARIANTS
    CapsAgree
    SASLFatal
    SASLIntact
    SASLProgress
PROPERTIES
    ConnectReturns
