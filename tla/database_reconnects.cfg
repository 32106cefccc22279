SPECIFICATION FairSpec
CONSTANTS
    c1 = c1
    c2 = c2
    p1 = p1
    NoPlayer = noplayer
    NoCaller = nocaller
    Caller <- OneCaller
    Player <- OnePlayer
    Fragile = {}
    MaxItems = 1
    MaxBacklog = 1
    MaxAge = 1
    MaxCancels = 0
    MaxCloses = 1
    TxnModulus = 3
PROPERTY
    Reconnects
CHECK_DEADLOCK FALSE
