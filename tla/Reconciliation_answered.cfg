SPECIFICATION FairSpec
CONSTANTS
    c1 = c1
    c2 = c2
    t1 = t1
    NoTask = NoTask
    Caller = {c1, c2}
    Task = {t1}
    Side = "BUY"
    Size = 2
    Attempts = 2
    MaxStart = 0
    SharedWallet = TRUE
PROPERTIES FillReachesRow CallersAnswered
CHECK_DEADLOCK FALSE
