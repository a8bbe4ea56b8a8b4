\* The claim that an audit append serialises and never fails its transaction.
CONSTANTS
    t1 = t1
    t2 = t2
    t3 = t3
    i1 = i1
    i2 = i2
    Unnumbered = Unnumbered
    Tx <- MCTx
    Series <- MCSeries
    Ids <- MCIds

SPECIFICATION Spec

INVARIANT AppendNeverFails
