SPECIFICATION Spec
CONSTANTS
    c1 = c1
    c2 = c2
    t1 = t1
    t2 = t2
    NoTask = NoTask
    Caller = {c1, c2}
    Task = {t1, t2}
    Side = "BUY"
    Size = 2
    Attempts = 2
    MaxStart = 1
    SharedWallet = FALSE
INVARIANTS ZeroSound FillTruth SharedFlight
SYMMETRY Interchangeable
CHECK_DEADLOCK FALSE
