CONSTANTS
    t1 = t1
    t2 = t2
    reg = reg
    d1 = d1
    d2 = d2
    d3 = d3
    Off = Off
    Requests = {t1, t2}
    Tables <- MCTables
    AccessTtl = 1
    RefreshTtl = 2
    MaxTokens = 8
    MaxTime = 1
    MaxPasses = 2
    Calls = {t1, t2}
    Browsers = {b1, b2}
    Apps = {a1, a2}
    Users = {u1}
    Registered = {reg}
    Config <- MCConfig
    Dynamic = {d1, d2, d3}
    None = None
    Uris <- MCUris
    Bodies <- MCBodies
    Handles = {h1, h2}
    Codes = {k1, k2}
    MaxClients = 1
    MaxRotations = 1
    Budgets <- MCBudgets
SYMMETRY Symmetry
SPECIFICATION MCSpec
INVARIANTS
    SessionsStayWithTheirClient
    UsedClientsStay
    EndedSessionsStayOut
    CallersAreKnown
    RowsKeepTheirTerms
PROPERTIES
    ImplementsGrants
CHECK_DEADLOCK FALSE
