SPECIFICATION Spec
CONSTANTS
    d1 = d1
    d2 = d2
    NoDevice = none
    Device <- TwoDevices
    AutoDevice <- TwoDevices
    LoopBack = FALSE
    OneThread = TRUE
    Lossy = FALSE
    Eager = FALSE
    Budget <- OneClaimTwoRequests
    InboxCap = 2
    SyncModulus = 16
PROPERTY
    ResignsToNewMaster
