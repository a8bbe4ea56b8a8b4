SPECIFICATION SyncSpec
CONSTANTS
    Tabs = {t1}
    Slots = {s1, s2}
    on = on
    off = off
    done = done
    Mutations = {on, off, done}
    kind <- MCKind
    NoTab = NoTab
    MaxFaults = 0
    MaxOffice = 0
INVARIANT NeverLost
CHECK_DEADLOCK FALSE
