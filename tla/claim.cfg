SPECIFICATION FairSpec
CONSTANTS
    h1 = h1
    h2 = h2
    h3 = h3
    Host <- TwoHosts
    PlayerNumber = {1}
    OtherNumber = {7}
    MaxDelay = 1
    MaxLoss = 2
INVARIANTS
    TypeOK
    FailsOnlyWhenTaken
PROPERTIES
    CollidesOnlyInWindow
    TurnedAwayByOwner
    StartsEnd
CHECK_DEADLOCK FALSE
