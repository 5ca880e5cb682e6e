SPECIFICATION Spec
CONSTANTS
    ann = ann
    bob = bob
    o1 = o1
    v1 = v1
    v2 = v2
    NoReferrer = NoReferrer
    Customers = {ann, bob}
    Orders = {o1}
    Variants = {v1, v2}
    Reserving = {v1}
    Backorder = {v2}
    ManualSlots = {"bkash"}
    AutoConfirmed = {}
    Fulfilment = {"confirmed", "shipped"}
    SpendAmounts = {}
    SpendLimit = 0
    Buyer <- MCBuyer
    Referrer <- MCReferrer
    Price <- MCPrice
    Reward <- MCReward
    InitBalance <- MCInitBalance
    InitAvailable <- MCInitAvailable
    Ordered <- MCOrdered
    FirstLine <- MCOrdered
    InitStock <- MCInitStock
    Methods <- MCMethods
INVARIANT RewardTakenBack
CHECK_DEADLOCK FALSE
