SPECIFICATION Spec
CONSTANTS
    NoFile = NoFile
    None = None
    MaxCleans = 2
    MaxCharges = 0
    MaxPoses = 1
    MaxCuts = 4
    MaxRequests = 1
    MinSnapshots = 0
    MaxFiles = 4
    MotorWaits = 1
    Web = {"delete"}
    SlowCharger = FALSE
    DeleteBusy = FALSE
    DiskMayFill = FALSE
INVARIANT MergeKeepsPoses
CHECK_DEADLOCK FALSE
