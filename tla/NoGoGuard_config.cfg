SPECIFICATION FairSpec
CONSTANTS
    None = None
    Physical = FALSE
    QueueMax = 3
    MaxStarts = 1
    MaxConfigs = 1
    MaxFaults = 0
    MaxTests = 0
    ConfigAnytime = TRUE
    Unanswered = FALSE
PROPERTY ExitsTestMode
CHECK_DEADLOCK FALSE
