SPECIFICATION FairSpec
CONSTANTS
    Caller = {r, w, b}
    r = r
    w = w
    b = b
    Order = {o1}
    Allowed <- Roles
    Attempts <- PolicyAttempts
    Cap = 1
    MaxGen = 1
    NoKey = NoKey
    NoCaller = NoCaller
    NoRecord = NoRecord
INVARIANT TypeOK
INVARIANT NotLiveAfterCancel
PROPERTY LifecycleReadServed
