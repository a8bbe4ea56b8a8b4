\* Three transactions, two series, two document ids.
CONSTANTS
    t1 = t1
    t2 = t2
    t3 = t3
    i1 = i1
    i2 = i2
    Unnumbered = Unnumbered
    Tx <- MCTx
    Series <- MCSeries
    Ids <- MCIds

SPECIFICATION FairSpec

INVARIANTS
    GaplessNumbering
    ChainIntact
    CommittedIffAudited

PROPERTIES
    Terminates
    ImplementsLedger
