SPECIFICATION Spec
CONSTANTS
    LF = LF
    CR = CR
    NUL = NUL
    x = x
    Byte = {LF, CR, x}
    Length = 7
    InitialSize = 2
    MaxSize = 5
    RoundUp <- roundUpToPowerOfTwo
INVARIANTS
    TypeOK
    BufferIsWindow
    ReadHasRoom
PROPERTIES
    StreamSpec
