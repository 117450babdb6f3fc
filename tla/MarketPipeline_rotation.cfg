SPECIFICATION FairSpec
CONSTANTS
    Market = {m1, m2}
    m1 = m1
    m2 = m2
    Client = {k1, k2}
    Worker = {w1, w2}
    NoClient = NoClient
    NoBooks = NoBooks
    Status = Status
    EventCap = 2
    QueueCap = 1
    MarketSets <- Rotations
    MaxMessages = 2
INVARIANTS TypeOK WakeupKept CacheFollowsStore
PROPERTIES SealedFromCurrentBooks ChangeEvaluated
CHECK_DEADLOCK FALSE
