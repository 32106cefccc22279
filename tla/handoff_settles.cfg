SPECIFICATION FairSpec
CONSTANTS
    d1 = d1
    d2 = d2
    NoDevice = none
    Device <- TwoDevices
    AutoDevice <- TwoDevices
    LoopBack = FALSE
    OneThread = TRUE
    Lossy = TRUE
    Eager = FALSE
    Budget <- OneClaimOneRequest
    InboxCap = 2
    SyncModulus = 16
PROPERTIES
    HandoffSettles
    ImplementsRole
