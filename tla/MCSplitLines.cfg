SPECIFICATION Spec
CONSTANTS
    ann = ann
    bob = bob
    o1 = o1
    o2 = o2
    v1 = v1
    v2 = v2
    v3 = v3
    NoReferrer = NoReferrer
    Customers = {ann, bob}
    Orders = {o1, o2}
    Variants = {v1, v2, v3}
    Reserving = {v1, v2}
    Backorder = {v2, v3}
    ManualSlots = {}
    AutoConfirmed = {o2}
    Fulfilment = {"confirmed", "shipped"}
    SpendAmounts = {}
    SpendLimit = 0
    Buyer <- MCBuyer
    Referrer <- MCReferrer
    Price <- MCPrice
    Reward <- MCReward
    InitBalance <- MCInitBalance
    InitAvailable <- MCInitAvailable
    Ordered <- MCOrdered
    FirstLine <- MCOneOfTwoLines
    InitStock <- MCInitStock
    Methods <- MCMethods
INVARIANT StockBooked
CHECK_DEADLOCK FALSE
