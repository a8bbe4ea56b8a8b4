SPECIFICATION Spec
CONSTANTS
    s1 = s1
    s2 = s2
    v1 = v1
    Sessions = {s1, s2}
    Vehicles = {v1}
    Ranges <- SomeRanges
    Readings <- SomeReadings
    Terms <- SomeTerms
    DayLength = 2
    MaxReservations = 2
    MaxRequests = 9
    MaxFaults = 1
SYMMETRY Symmetry
INVARIANTS
    DoubleBookedHasCause
    FleetTellsWhere
    BilledAsReturned
CHECK_DEADLOCK FALSE
