SPECIFICATION BooksSpec
CONSTANTS
    ann = ann
    bob = bob
    o1 = o1
    o2 = o2
    o3 = o3
    o4 = o4
    v1 = v1
    v2 = v2
    v3 = v3
    v4 = v4
    c1 = c1
    c2 = c2
    u1 = u1
    u2 = u2
    NoReferrer = NoReferrer
    Customers = {ann, bob}
    Orders = {o1, o2, o3, o4}
    Variants = {v1, v2, v3, v4}
    Reserving = {v1, v2, v4}
    Backorder = {v2, v3}
    ManualSlots = {}
    AutoConfirmed = {o4}
    Fulfilment = {"confirmed", "shipped"}
    SpendAmounts = {}
    SpendLimit = 0
    Buyer <- MCBuyer
    Referrer <- MCReferrer
    Price <- MCPrice
    Reward <- MCReward
    InitBalance <- MCInitBalance
    InitAvailable <- MCInitAvailable
    Ordered <- MCOrdered
    FirstLine <- MCOrdered
    InitStock <- MCInitStock
    Methods <- MCMethods
    Users = {u1, u2}
    Calls = {c1, c2}
    Quota <- MCQuota
    Cap = 1
    TopUps = {1}
    MaxUses = 2
    MaxBuys = 2
CONSTRAINT BillingBound
SYMMETRY Interchangeable
CHECK_DEADLOCK FALSE
INVARIANTS
    WithdrawableBacked
    CoinsBooked
    ReferenceRestored
    StockBooked
    AccountsAgree
    UsageCovered
PROPERTY WalletInterface
