SPECIFICATION Spec
CONSTANTS
    l1 = l1
    l2 = l2
    l3 = l3
    r1 = r1
    NoLogin = NoLogin
    Login <- TwoLogins
    Request <- OneRequest
    MaxSessions = 1
    Lifetime = {1, 2}
    Leeway = 1
    TimeBound = 3
    VersionBound = 1
PROPERTIES
    EveryLoginAnswered
CHECK_DEADLOCK FALSE
