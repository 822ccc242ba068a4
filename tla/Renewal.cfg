SPECIFICATION MCSpec
CONSTANTS
    p1 = p1
    p2 = p2
    Off = Off
    DeviceCalls = {}
    Scopes = {}
    DeviceSetups = {}
    MaxFailures = 0
    MaxPassword = 0
    MaxTime = 0
    Proc = {p1, p2}
    Threshold = 2
    Duration = 1
    MaxAttempts = 2
    MaxLink = 2
    Start = {"invited"}
    MaxWindow = 0
    MaxFailed = 0
    MaxClock = 1
SYMMETRY Symmetry
INVARIANT AcceptedNeverRevoked
CHECK_DEADLOCK FALSE
