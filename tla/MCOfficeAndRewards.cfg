SPECIFICATION WholeSpec
CONSTANTS
    Suppliers = {"s1"}
    Live = {"s1"}
    Credentials = {"s1"}
    Workers = {"w1", "w2"}
    Scheduler = {"w1"}
    MaxBrowserJobs = 1
    MaxJobs = 2
    MaxRows = 2
    MaxNights = 1
    MaxStops = 1
    MaxLapses = 1
    Sends = {"q1", "q2"}
    Resets = {"r1", "r2"}
    MaxWrong = 2
    MaxCodes = 2
    MaxChanges = 1
    Clicks = {"a", "b", "c"}
    MaxFailures = 2
    ann = ann
    bob = bob
    o1 = o1
    w1 = w1
    x1 = x1
    NoReferrer = NoReferrer
    Customers = {ann, bob}
    Orders = {o1}
    Withdrawals = {w1}
    Receipts = {1, 2}
    TrxIds = {x1}
    Editing = {bob}
    Noting = {w1}
    SpendAmounts = {1}
    SpendLimit = 1
    Buyer <- MCBuyer
    Referrer <- MCReferrer
    Price <- MCPrice
    Reward <- MCReward
    InitBalance <- MCInitBalance
    InitAvailable <- MCInitAvailable
    Requester <- MCRequester
    Requested <- MCRequested
    TrxId <- MCTrxId
    Received <- MCReceived
CONSTRAINTS
    OfficeBound
    Focus
CHECK_DEADLOCK FALSE
INVARIANTS
    OfficeTypeOK
    EveryRowOnce
    CodesEarned
    UnmetOnFile
    RewardsTypeOK
    BackedWhereKept
    CreditedOnce
    RewardsBooked
    EarningsOnce
PROPERTIES
    StatusesKept
    OfficeProgress
