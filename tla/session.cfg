SPECIFICATION FairSpec
CONSTANTS
    c1 = c1
    c2 = c2
    l1 = l1
    l2 = l2
    l3 = l3
    NoLoop = noloop
    Caller <- TwoCallers
    Loop <- ThreeLoops
INVARIANTS
    LoopMatchesFlagInTurn
PROPERTIES
    QuietWhenOff
    ListenersEnd
    StopEndsAll
CHECK_DEADLOCK FALSE
