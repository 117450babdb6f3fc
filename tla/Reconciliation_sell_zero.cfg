SPECIFICATION Spec
CONSTANTS
    c1 = c1
    t1 = t1
    NoTask = NoTask
    Caller = {c1}
    Task = {t1}
    Side = "SELL"
    Size = 2
    Attempts = 1
    MaxStart = 1
    SharedWallet = FALSE
INVARIANT ZeroSound
CHECK_DEADLOCK FALSE
