SPECIFICATION Spec
CONSTANTS
    d1 = d1
    d2 = d2
    NoDevice = none
    Device <- TwoDevices
    AutoDevice <- TwoDevices
    LoopBack = FALSE
    OneThread = FALSE
    Lossy = TRUE
    Eager = TRUE
    Budget <- EveryCall
    InboxCap = 1
    SyncModulus = 16
SYMMETRY Symmetry2
INVARIANTS
    TypeOK
    CountersHeard
    YieldsUpward
    AcceptsUpward
PROPERTIES
    SyncMonotone
