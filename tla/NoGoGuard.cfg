SPECIFICATION FairSpec
CONSTANTS
    None = None
    Physical = TRUE
    QueueMax = 2
    MaxStarts = 2
    MaxConfigs = 1
    MaxFaults = 1
    MaxTests = 1
    ConfigAnytime = FALSE
    Unanswered = FALSE
INVARIANT EscapeGivesBack
INVARIANT OneFaultRecovered
PROPERTY DrivesInTestMode
PROPERTY RunEndsWithClean
PROPERTY ManeuverEnds
CHECK_DEADLOCK FALSE
