SPECIFICATION Safe
CONSTANTS
    l1 = l1
    l2 = l2
    l3 = l3
    r1 = r1
    NoLogin = NoLogin
    Login <- ThreeLogins
    Request <- OneRequest
    MaxSessions = 2
    Lifetime = {1, 3}
    Leeway = 1
    TimeBound = 4
    VersionBound = 2
SYMMETRY Symmetry
PROPERTIES
    FailedIssuanceKeepsSessions
CHECK_DEADLOCK FALSE
