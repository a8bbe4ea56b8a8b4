SPECIFICATION FairSpec
CONSTANTS
    s1 = s1
    s2 = s2
    o1 = o1
    o2 = o2
    e1 = e1
    e2 = e2
    Sessions = {s1, s2}
    Orders = {o1, o2}
    TimeEntries = {e1, e2}
    jobOf <- MCJobOf
    NoEntry = NoEntry
    MaxLimit = 2
    MaxChanges = 5
    MaxFaults = 1
INVARIANTS
    MissHasCause
    StaleHasCause
PROPERTIES
    CatchesUp
CHECK_DEADLOCK FALSE
