SPECIFICATION Spec
CONSTANTS
    None = None
    Panic = Panic
    Name <- Names
    Cut <- CutNames
    CommandName = "prodjlink-rs"
    OpusQuadName = "OPUS-QUAD"
    OpusQuadLike <- Opus
    XdjNames <- XdjPair
    XdjAzName = "XDJ-AZ"
    Inexact <- InexactBpm
    Me = 5
    MyMac <- MacAddress
    MyIp <- Address
    MyName <- OwnNames
    Player = 2
    Mixer = 33
    OpusRaw <- OpusNumbers
    Tempo <- Tempos
    Sizes <- PacketSizes
    MaxSent = 2
    Mixed <- MixedStreams
INVARIANTS
    HeardAsMeant
    NothingMissed
    NoPanic
    LatestIsLastHeard
    DerivedRight
CHECK_DEADLOCK FALSE
