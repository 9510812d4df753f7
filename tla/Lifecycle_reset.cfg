SPECIFICATION Spec
CONSTANTS
    Clients = {c1}
    Images = {"good", "noSta", "alien"}
    Requests = {"upload", "reset"}
    MaxRequests = 2
    MaxOutages = 0
    MaxCuts = 0
    BadTimes = FALSE
CHECK_DEADLOCK FALSE
INVARIANT NoResetIsLost
