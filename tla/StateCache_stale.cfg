SPECIFICATION SSpec
CONSTANTS
    a1 = a1
    a2 = a2
    None = None
    Reader = {c1, c2}
    Act = {a1, a2}
    ActionOf <- PauseAndClean
    MaxSource = 3
INVARIANT ReadYourWrites
CHECK_DEADLOCK FALSE
