CONSTANTS
    c1 = c1
    c2 = c2
    c3 = c3
    s1 = s1
    s2 = s2
    u1 = u1
    Client = {c1, c2}
    Revoker = {c3}
    Session = {s1}
    User = {u1}
    UserOf <- OneUser
    MaxToken = 6
    Rotation = "sliding"
    GraceMs = 1
    AccessTtl = 2
    RefreshTtl = 3
    Plans = {"instance"}
    ReuseResponse = "user"
    MaxConcurrent = 0
    OnLimit = "reject"
    MaxRevokePasses = 1
    MaxTime = 0
    MaxFailures = 0
    SlowCalls = TRUE
    SingleFlight = FALSE
SYMMETRY Symmetry
SPECIFICATION Spec
PROPERTIES
    ImplementsAuthority
