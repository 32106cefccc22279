SPECIFICATION Spec
CONSTANTS
    None = None
    Speed <- Speeds
    Beat = 3
    TrackLength = 7
    StatusInterval = 2
    MaxLag = 1
    MaxChanges = 2
INVARIANTS
    EstimateBounds
    KnownInTime
PROPERTIES
    Recovers
