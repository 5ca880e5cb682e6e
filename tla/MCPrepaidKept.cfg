SPECIFICATION BillingSpec
CONSTANTS
    c1 = c1
    c2 = c2
    u1 = u1
    u2 = u2
    Users = {u1, u2}
    Calls = {c1, c2}
    Quota <- MCQuota
    Cap = 1
    TopUps = {1}
    MaxUses = 3
    MaxBuys = 1
SYMMETRY Interchangeable
INVARIANT PrepaidKept
CHECK_DEADLOCK FALSE
