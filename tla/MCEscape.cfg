SPECIFICATION Spec
CONSTANTS
    Uses = {"background"}
    MaxlenClientTagData = 2
    ChunkGroups = 2
INVARIANT EscapeKeepsFormat
CHECK_DEADLOCK FALSE
