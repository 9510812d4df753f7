SPECIFICATION Spec
CONSTANTS
    Clients = {c1, c2}
    Images = {"good", "noSta", "alien"}
    Requests = {"upload"}
    MaxRequests = 2
    MaxOutages = 0
    MaxCuts = 0
    BadTimes = FALSE
PROPERTY ManagersRun
CHECK_DEADLOCK FALSE
