SPECIFICATION Spec
CONSTANTS
    None = None
    Physical = FALSE
    QueueMax = 3
    MaxStarts = 1
    MaxConfigs = 0
    MaxFaults = 0
    MaxTests = 0
    ConfigAnytime = FALSE
    Unanswered = FALSE
PROPERTY EscapesOnlyInRun
CHECK_DEADLOCK FALSE
