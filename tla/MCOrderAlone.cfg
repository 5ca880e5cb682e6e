SPECIFICATION FairSpec
CONSTANTS
    ann = ann
    bob = bob
    o1 = o1
    v1 = v1
    v2 = v2
    NoReferrer = NoReferrer
    Customers = {ann, bob}
    Orders = {o1}
    Variants = {v1, v2}
    Reserving = {v1}
    Backorder = {v2}
    ManualSlots = {"bkash"}
    AutoConfirmed = {}
    Fulfilment = {"confirmed", "processing", "shipped", "delivered"}
    SpendAmounts = {1}
    SpendLimit = 1
    Buyer <- MCBuyer
    Referrer <- MCReferrer
    Price <- MCPrice
    Reward <- MCReward
    InitBalance <- MCInitBalance
    InitAvailable <- MCInitAvailable
    Ordered <- MCOrdered
    FirstLine <- MCOrdered
    InitStock <- MCInitStock
    Methods <- MCMethods
INVARIANTS
    TypeOK
    PaidHasDebit
    RefundBacked
    VerifiedBalanceHolds
    RewardEarned
PROPERTIES
    NoCompletionAfterRefund
    KeepsPromise
    DebitAcknowledged
    ReservationEnds
CHECK_DEADLOCK FALSE
