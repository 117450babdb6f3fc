SPECIFICATION Spec
CONSTANTS
    o1 = o1
    t1 = t1
    t2 = t2
    Order = {o1}
    Poller = {t1}
    Watcher = {t2}
    Alias = {"fills", "trades"}
    Requested = 2
    MaxPrice = 2
    MaxSeen = 2
    MaxInflow = 1
    NativeIds = TRUE
    RepeatedRows = FALSE
INVARIANTS TypeOK FillTruth PriceTruth OverfillKept
PROPERTIES FactsKept EvidenceCounted
CHECK_DEADLOCK FALSE
