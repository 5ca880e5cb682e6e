SPECIFICATION ServicesSpec
CONSTANTS
    Visits = {"v1", "v2"}
    Plans = {"free", "basic", "plus", "combo"}
    TrackOf <- MCTrackOf
    RankOf <- MCRankOf
    PriceOf <- MCPriceOf
    Renewals <- MCRenewals
    Debits = {1}
    Period = 1
    GracePeriod = 1
    RetryInterval = 1
    Opening = 2
    Recharges = {1}
    MaxPaidIn = 3
    MaxClock = 4
    MaxWait = 1
    MaxRows = 4
    Eiins = {"e1", "e2", "e3", "e4"}
    Callers = {"c1", "c2"}
    Workers = {"w1", "w2"}
    QueueLimit = 2
    MaxRequests = 4
    MaxDeaths = 1
    Last = 2
    Worker = "worker"
    Staff = {"s1"}
    BatchSize = 1
    Rounds = 2
    MaxLapses = 1
    MaxRetries = 2
    Receipts = {"o1"}
    Jobs = {"j1", "j2"}
    MaxAttempts = 2
    MaxLosses = 1
    Sets = {"chem", "math"}
    MaxActive = 1
    Legacy <- MCLegacy
    OldCount = 2
    OldPassed = 1
    MaxIssued = 2
CONSTRAINT ServicesBound
CHECK_DEADLOCK FALSE
INVARIANTS
    ServicesTypeOK
    ChargedInTurn
    TracksSeparate
    NotOvercharged
    BacklogBounded
    AnswerFresh
    BatchesBounded
    RunCovers
    JobEndsTerminal
    ReceiptOnce
    ExamsCountedOnce
PROPERTIES
    PaidPeriodKept
    ServicesProgress
