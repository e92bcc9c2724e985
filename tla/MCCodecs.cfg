SPECIFICATION Spec
CONSTANTS
    Uses = {"line", "tags", "params", "value", "isupport", "nuh", "text", "split", "escape", "chunks"}
    MaxlenClientTagData = 2
    ChunkGroups = 2
CHECK_DEADLOCK FALSE
INVARIANTS
    ParseSerialize
    LimitsKept
    ValuesExact
    SplitByPosition
    ForegroundKept
    BufferReusable
