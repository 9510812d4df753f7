SPECIFICATION Spec
CONSTANTS
    NoFile = NoFile
    None = None
    MaxCleans = 2
    MaxCharges = 1
    MaxPoses = 1
    MaxCuts = 1
    MinSnapshots = 1
    MaxFiles = 2
    MotorWaits = 1
    MaxRequests = 1
    Web = {"list", "delete", "deleteAll", "import"}
    SlowCharger = FALSE
    DeleteBusy = FALSE
    DiskMayFill = FALSE
INVARIANT NothingFlushedIsLost
INVARIANT SummaryIsLast
INVARIANT ListedWhole
PROPERTY EveryCleanRecorded
PROPERTY SessionEnds
CHECK_DEADLOCK FALSE
