SPECIFICATION SyncFairSpec
CONSTANTS
    Tabs = {t1, t2}
    Slots = {s1, s2}
    on = on
    off = off
    done = done
    Mutations = {on, off, done}
    kind <- MCKind
    NoTab = NoTab
    MaxFaults = 1
    MaxOffice = 1
INVARIANTS
    InOrder
    RepeatHasCause
PROPERTIES
    Drains
CHECK_DEADLOCK FALSE
