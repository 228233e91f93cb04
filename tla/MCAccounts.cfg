CONSTANTS
    g1 = g1
    g2 = g2
    c1 = c1
    c2 = c2
    n1 = n1
    n2 = n2
    e1 = e1
    quoted = quoted
    pw1 = pw1
    Gateways = {g1, g2}
    Clients = {c1, c2}
    GwOf <- TwoGateways
    NoClient = NoClient
    Names = {n1, n2}
    Emails = {e1, quoted}
    Passwords = {pw1, Empty}
    Empty = Empty
    Applications <- SomeApplications
    Quoted = {quoted}
    OtherRows = {}
    Faulty = TRUE
SPECIFICATION FairSpec
INVARIANTS
    TypeOK
    AnswersLive
    RegistrationsKept
    LoginFindsOwn
    TokenAccepted
PROPERTIES
    Answered
