CONSTANTS
    c1 = c1
    c2 = c2
    c3 = c3
    s1 = s1
    s2 = s2
    u1 = u1
    Client = {c1, c2}
    Revoker = {c3}
    Session = {s1, s2}
    User = {u1}
    UserOf <- OneUser
    MaxToken = 4
    Rotation = "sliding"
    GraceMs = 1
    AccessTtl = 2
    RefreshTtl = 3
    Plans = {"instance", "noRefresh"}
    ReuseResponse = "session"
    MaxConcurrent = 1
    OnLimit = "evict-oldest"
    MaxRevokePasses = 2
    MaxTime = 0
    MaxFailures = 0
    SlowCalls = FALSE
    SingleFlight = FALSE
SPECIFICATION FairSpec
PROPERTIES
    RevokedDrains
    EveryCallEnds
