SPECIFICATION Spec
CONSTANTS
    MaxLines = 4
    MaxCuts = 1
    MaxRequests = 2
    FlushMaxLines = 2
    MaxFileSize = 2
    MaxFiles = 1
    ClockSet = TRUE
    EncoderFails = FALSE
    SlowReader = FALSE
    WatchEarly = FALSE
INVARIANT FlushedIsKept
INVARIANT ReaderMissesNothing
PROPERTY LimitsHold
CHECK_DEADLOCK FALSE
