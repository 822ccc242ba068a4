SPECIFICATION Spec
CONSTANTS
    a1 = a1
    a2 = a2
    s1 = s1
    s2 = s2
    v1 = v1
    u1 = u1
    c1 = c1
    c2 = c2
    Token = {a1, a2}
    Refresh = {}
    Session = {s1, s2}
    User = {u1}
    SessionOf <- Sessions
    UserOf <- OneUser
    Validator = {v1}
    Revoker = {c1, c2}
    Lifetime <- Ttls
    TtlMs = 2
    MaxEntries = 1
    MaxRevokePasses = 1
    MaxReadTime = 0
    MaxTime = 2
    MaxFailures = 1
SYMMETRY Symmetry
INVARIANTS
    RevokedNotCached
    StaleBounded
    SizeBounded
