SPECIFICATION Spec
CONSTANTS
    b1 = b1
    b2 = b2
    s1 = s1
    x1 = x1
    BuyOrder = {b1, b2}
    SellOrder = {s1}
    Settlement = {x1}
    Price <- Prices
    Payout <- Payouts
    Size <- Sizes
    LargeOrder = b1
    MaxApart = 1
INVARIANTS InventoryTruth WithinInventory MoneyConserved
CHECK_DEADLOCK FALSE
