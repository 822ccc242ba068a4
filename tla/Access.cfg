CONSTANTS
    t1 = t1
    t2 = t2
    u1 = u1
    d1 = d1
    d2 = d2
    Calls = {t1, t2}
    Users = {u1}
    Docs = {d1, d2}
    None = None
    Silent = Silent
    Controls <- MCControls
    ForeignKeys = {"ref"}
    Attr <- MCAttr
    Rules <- MCRules
    Deployments <- MCDeployments
    Workloads <- MCWorkloads
    Tables <- MCTables
    Forms <- MCForms
    MaxFormDepth = 2
    NotControls = {"filter", "insights"}
SPECIFICATION MetaSpec
INVARIANTS
    RepliesAreGranted
    WritesAreGranted
    RevokedRolesAreGone
    DescriptionsAreExact
    AnswersStayInTheirRows
CHECK_DEADLOCK FALSE
