SPECIFICATION MCSpec
CONSTANTS
    p1 = p1
    p2 = p2
    Off = Off
    DeviceCalls = {p1, p2}
    Scopes = {"request"}
    DeviceSetups <- MCSetups
    MaxFailures = 1
    MaxPassword = 4
    MaxTime = 2
    Proc = {p1, p2}
    Threshold = 3
    Duration = 1
    MaxAttempts = 2
    MaxLink = 2
    Start = {"member", "invited"}
    MaxWindow = 2
    MaxFailed = 4
    MaxClock = 3
SYMMETRY Symmetry
INVARIANTS
    OneWinnerPerCode
    NoGuessLost
    LockComesInTime
    LinkAcceptedOnce
    PasswordsAreFresh
    SnapshotsAreCurrent
PROPERTIES
    InvitationsAreClaimed
    DevicesAreKept
CHECK_DEADLOCK FALSE
