CONSTANTS
    g1 = g1
    g2 = g2
    a1 = a1
    a2 = a2
    b1 = b1
    pw1 = pw1
    pw2 = pw2
    Gateways = {g1}
    Uids = {1, 2}
    Tokens = {pw1, pw2}
    Bodies = {"x"}
    Ws = {a1, a2}
    NoWs = NoWs
    GwOf <- OneGateway
    MaxSends = 0
    OneLoginPerSocket = TRUE
    OneSocketPerUid = FALSE
    NoGw = NoGw
    LocalGw = g1
    UserPassword <- Passwords
    NoPassword = NoPassword
    Quoted = {}
    OtherRows = {}
    Friends <- OneWay
    SeedRows <- NoRows
    SeedRoutes = {}
    Limit = 2
    Epoch = 10
    MaxClock = 11
    Faulty = FALSE
SPECIFICATION Spec
INVARIANTS
    LoggedInReachable
