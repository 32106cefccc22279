SPECIFICATION FairSpec
CONSTANTS
    c1 = c1
    c2 = c2
    p1 = p1
    NoPlayer = noplayer
    NoCaller = nocaller
    Caller <- TwoCallers
    Player <- OnePlayer
    Fragile <- OnePlayer
    MaxItems = 1
    MaxBacklog = 1
    MaxAge = 2
    MaxCancels = 1
    MaxCloses = 1
    TxnModulus = 5
PROPERTIES
    AnswersOwn
    FailsForAReason
    CallsEnd
CHECK_DEADLOCK FALSE
