CONSTANTS
    t1 = t1
    t2 = t2
    u1 = u1
    u2 = u2
    Threads = {t1, t2}
    Uids = {u1, u2}
    MaxReqs = 3
    Faulty = TRUE
SPECIFICATION Spec
SYMMETRY Symmetry
INVARIANTS
    TypeOK
    AcceptedIsFriends
    FriendsOnlyByAccept
    FriendsMutual
PROPERTIES
    ReacceptHarmless
