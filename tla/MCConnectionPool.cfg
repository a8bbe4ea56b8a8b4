SPECIFICATION PoolFairSpec
CONSTANTS
    r1 = r1
    r2 = r2
    r3 = r3
    r4 = r4
    Requests = {r1, r2, r3, r4}
    Notifying = {r1, r2, r3}
    PoolMax = 2
    MaxFaults = 2
INVARIANTS
    NotifyHarmless
PROPERTIES
    Ends
CHECK_DEADLOCK FALSE
