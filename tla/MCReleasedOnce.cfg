SPECIFICATION RewardsSpec
CONSTANTS
    ann = ann
    bob = bob
    o1 = o1
    w1 = w1
    x1 = x1
    NoReferrer = NoReferrer
    Customers = {ann, bob}
    Orders = {o1}
    Withdrawals = {w1}
    Receipts = {1, 2}
    TrxIds = {x1}
    Editing = {bob}
    Noting = {w1}
    SpendAmounts = {1}
    SpendLimit = 1
    Buyer <- MCBuyer
    Referrer <- MCReferrer
    Price <- MCPrice
    Reward <- MCReward
    InitBalance <- MCInitBalance
    InitAvailable <- MCInitAvailable
    Requester <- MCRequester
    Requested <- MCRequested
    TrxId <- MCTrxId
    Received <- MCReceived
CONSTRAINT Focus
INVARIANT ReleasedOnce
CHECK_DEADLOCK FALSE
