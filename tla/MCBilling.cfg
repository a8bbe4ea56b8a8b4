SPECIFICATION FairSpec
CONSTANTS
    s1 = s1
    s2 = s2
    o1 = o1
    o2 = o2
    e1 = e1
    Sessions = {s1, s2}
    Orders = {o1, o2}
    Unpriced = {o2}
    Estimates = {e1}
    Targets = {"sent", "invoiced"}
    MaxRequests = 3
    MaxFaults = 1
INVARIANTS
    BilledOnce
    TwiceHasCause
PROPERTIES
    QuoteFrozen
    Ends
CHECK_DEADLOCK FALSE
