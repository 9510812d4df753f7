SPECIFICATION SFairSpec
CONSTANTS
    a1 = a1
    a2 = a2
    None = None
    Reader = {c1, c2}
    Act = {a1, a2}
    ActionOf <- PauseAndClean
    MaxSource = 2
INVARIANT ReadYourWritesUnlessPolled
CHECK_DEADLOCK FALSE
