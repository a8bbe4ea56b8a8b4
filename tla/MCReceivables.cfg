SPECIFICATION FairSpec
CONSTANTS
    Sessions = {t1, t2}
    Sweeper = sweeper
    p1 = p1
    p2 = p2
    Payments = {p1, p2}
    amount <- MCAmount
    gross <- MCGross
    MaxSends = 1
    MaxRequests = 3
    MaxFaults = 1
INVARIANTS
    PaidIsAllocated
    OverpaidHasCause
    StatusTellsBalance
    CreditHasCause
PROPERTIES
    Chased
CHECK_DEADLOCK FALSE
