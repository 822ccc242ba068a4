CONSTANTS
    c1 = c1
    c2 = c2
    c3 = c3
    s1 = s1
    s2 = s2
    u1 = u1
    Client = {c1}
    Revoker = {c3}
    Session = {s1, s2}
    User = {u1}
    UserOf <- OneUser
    MaxToken = 6
    Rotation = "sliding"
    GraceMs = 1
    AccessTtl = 2
    RefreshTtl = 3
    Plans = {"perMint"}
    ReuseResponse = "user"
    MaxConcurrent = 1
    OnLimit = "reject"
    MaxRevokePasses = 2
    MaxTime = 2
    MaxFailures = 0
    SlowCalls = FALSE
    SingleFlight = TRUE
SYMMETRY Symmetry
SPECIFICATION Spec
INVARIANTS
    OneHead
    CeilingHolds
PROPERTIES
    SupersededIsDead
