SPECIFICATION Spec
CONSTANTS
    RequestCaps <- ThreeCaps
    UseSASL = TRUE
    SASLOptional = TRUE
    Lossy = FALSE
    ResponseLengths = {3}
    Limits = {0}
    ChunkGroups = 2
INVARIANT OptionalIsNonFatal
