SPECIFICATION Spec
CONSTANTS
    None = None
    Panic = Panic
    Name <- Names
    Cut <- CutNames
    CommandName = "prodjlink-rs"
    OpusQuadName = "OPUS-QUAD"
    OpusQuadLike <- OpusNames
    XdjNames <- Xz
    Failed = Failed
    Inexact <- InexactTempos
    Track <- Tracks
    Art <- Artwork
    Files <- TagFiles
    Blobs <- BlobSet
    Times <- TimeSet
    TrackIds <- AskedIds
    Ids <- TwoIds
    Queries <- Texts
    Slots <- TwoSlots
    Sorts <- TwoSorts
    Me = 5
    Pieces <- Sizes
    MaxCalls = 2
INVARIANTS
    AnsweredAsStored
    StreamClean
    SearchesFind
    FilesRead
PROPERTY
    CallsEnd
