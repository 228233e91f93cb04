CONSTANTS
    g1 = g1
    g2 = g2
    f1 = f1
    ByteBase = 4
    Cmd0 = 4
    Gateways = {g1, g2}
    NoGateway = NoGateway
    Uids = {0}
    Files = {f1}
    Frames <- SomeFrames
    BodySize <- Sizes
    MaxCalls = 2
    MaxTick = 1
SPECIFICATION FairSpec
INVARIANTS
    TypeOK
    PairUnlessClash
    FidNotShared
    ReplyMatches
    LengthCheckExact
PROPERTIES
    PushServed
