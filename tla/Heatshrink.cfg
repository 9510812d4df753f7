SPECIFICATION HsSpec
CONSTANTS
    ByteBits = 2
    WindowBits = 3
    LookaheadBits = 2
    InputBuffer = 2
    Alphabet = {0, 1}
    MaxInput = 10
    ChunkSize = 3
    OutSize = 2
    InChunk = 3
    MaxLen = 3
    MaxTorn = 2
INVARIANT RoundTrip
PROPERTY ReadEnds
CHECK_DEADLOCK FALSE
