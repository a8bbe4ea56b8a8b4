SPECIFICATION FairSpec
CONSTANTS
    Tx = {t1, t2}
    w1 = w1
    w2 = w2
    l1 = l1
    l2 = l2
    l3 = l3
    Orders = {w1, w2}
    Lines = {l1, l2, l3}
    Mechanics = {m1}
    Rows = {1, 2}
    Backed = {l1, l3}
    orderOf <- MCOrderOf
    rowOf <- MCRowOf
    qtyOf <- MCQtyOf
    Stock <- MCStock
    Quantities = {1}
    Statuses0 = {"open"}
    MaxRequests = 4
INVARIANTS
    ReservedMatchesLines
    Conservation
    ReadyIsFinished
    OneClock
    BillIsComplete
PROPERTIES
    Ends
CHECK_DEADLOCK FALSE
