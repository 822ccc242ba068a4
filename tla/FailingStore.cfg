CONSTANTS
    c1 = c1
    c2 = c2
    c3 = c3
    s1 = s1
    s2 = s2
    u1 = u1
    Client = {c1, c2}
    Revoker = {c3}
    Session = {s1, s2}
    User = {u1}
    UserOf <- OneUser
    MaxToken = 4
    Rotation = "sliding"
    GraceMs = 1
    AccessTtl = 1
    RefreshTtl = 2
    Plans = {"instance"}
    ReuseResponse = "session"
    MaxConcurrent = 0
    OnLimit = "reject"
    MaxRevokePasses = 1
    MaxTime = 1
    MaxFailures = 1
    SlowCalls = TRUE
    SingleFlight = FALSE
SYMMETRY Symmetry
SPECIFICATION Spec
INVARIANTS
    RevokedTokensDead
PROPERTIES
    OnlyTargetsDie
