SPECIFICATION Spec
CONSTANTS
    Clients = {c1, c2}
    Images = {"good", "noSta", "alien"}
    Requests = {"upload", "settings", "connect", "forget", "restart", "reset", "format", "button"}
    MaxRequests = 2
    MaxOutages = 1
    MaxCuts = 1
    BadTimes = FALSE
INVARIANT BootsWholeImage
INVARIANT ValidIsProven
PROPERTY RebootHappens
PROPERTY Reachable
CHECK_DEADLOCK FALSE
