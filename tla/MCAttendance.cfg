SPECIFICATION AttendanceSpec
CONSTANTS
    \* Two people's requests for one employee, at a clock that passes midnight.
    s1 = s1
    s2 = s2
    o1 = o1
    o2 = o2
    Sessions = {s1, s2}
    Leaves = {l1}
    Orders = {o1, o2}
    Kms = {0, 26}
    Midnight = 3
    MaxTime = 4
    MaxRequests = 5
    MaxFaults = 1
SYMMETRY Symmetry
INVARIANTS
    HoursCountedOnce
    DecidedOnce
    OdometerAddsUp
CHECK_DEADLOCK FALSE
