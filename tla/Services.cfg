SPECIFICATION MCSpec
CONSTANTS
    c1 = c1
    c2 = c2
    c3 = c3
    b1 = b1
    b2 = b2
    Off = Off
    TokenCalls = {c1, c2}
    TokenSetups <- MCSetups
    Second = 2
    MaxToken = 3
    TokenTime = 2
    TokenEvents = 4
    RedisCalls = {c1, c2}
    RedisRows = 3
    MaxLogins = 1
    MaxPasses = 2
    MaxRevokers = 2
    MaxFaults = 1
    Request = {c1, c2, c3}
    Sites <- MCSites
    LimitTime = 4
    LoginCalls = {c1, c2}
    Browsers = {b1, b2}
    Subjects = {"x", "y"}
    Emails <- MCEmails
    Verified = {"x"}
    Locals <- MCLocals
    Linked <- MCLinked
    Policies <- MCPolicies
    MaxFlows = 2
    IdentityRows = 2
    LoginEvents = 3
    TtlSec = 1
    LoginTime = 1
    Tab = {"t1", "t2"}
    ClientCalls = {c1, c2, c3}
    TabOf <- MCTabOf
    LogoutOn = {"auth-failure", "any-failure"}
    MaxPair = 3
    ClientEvents = 1
SYMMETRY Symmetry
INVARIANTS
    SpentTokensStayDead
    RevokedRowsAreGone
    CountsAreKept
    IdentitiesAreEarned
    TabsKeepTheirSession
CHECK_DEADLOCK FALSE
