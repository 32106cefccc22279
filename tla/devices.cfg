SPECIFICATION Spec
CONSTANTS
    player = player
    opus = opus
    None = None
    Source <- Sources
    OpusQuad <- Quads
    NumberOf <- Numbers
    OpusPlayer <- OpusPlays
    Capacity = 3
    MaxDelay = 0
    MaxMissed = 1
    MaxCalls = 2
INVARIANTS
    PictureMatchesMap
    
PROPERTIES
    IgnoredGo
CHECK_DEADLOCK FALSE
