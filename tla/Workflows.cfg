CONSTANTS
    q1 = q1
    q2 = q2
    Requests = {q1, q2}
    Policies <- Deployments
    MaxPaused = 3
    MaxRestores = 1
    MaxTries = 2
    MaxFailures = 2
    MaxCodes = 2
SYMMETRY Symmetry
SPECIFICATION Spec
INVARIANTS
    SessionsAreProved
    StaleRunsAreDead
    ActiveMeansPassword
    GuessesAreBounded
    ManageNeedsChallenge
CHECK_DEADLOCK FALSE
