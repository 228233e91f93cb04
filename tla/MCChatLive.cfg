CONSTANTS
    g1 = g1
    g2 = g2
    a1 = a1
    a2 = a2
    b1 = b1
    pw1 = pw1
    pw2 = pw2
    Gateways = {g1, g2}
    Uids = {1, 2}
    Tokens = {pw1}
    Bodies = {"q"}
    Ws = {a1, b1}
    NoWs = NoWs
    GwOf <- TwoGateways
    MaxSends = 1
    OneLoginPerSocket = TRUE
    OneSocketPerUid = TRUE
    NoGw = NoGw
    LocalGw = g1
    UserPassword <- SamePassword
    NoPassword = NoPassword
    Quoted = {"q"}
    OtherRows <- StrayRow
    Friends <- OneWay
    SeedRows <- NoRows
    SeedRoutes = {2}
    Limit = 2
    Epoch = 10
    MaxClock = 10
    Faulty = TRUE
SPECIFICATION FairSpec
PROPERTIES
    LoopFreed
