SPECIFICATION Spec
CONSTANTS
    u1 = u1
    u2 = u2
    u3 = u3
    User <- MCUser
    CustomRole = {"r1", "r2"}
    RoleName = {"n1", "n2"}
    Tier = {100}
    PermissionRequest <- StatusRequest
    MaxRequestedRoles = 1
    MaxRolesPerUser = 3
    EpochBound = 2
    MaxInFlight = 2
    TokenVersionBound = 1
    NoRequest = NoRequest
    Seed <- TeamSeed
INVARIANTS
    DeadRolesHoldNothing
    RoleLimitKept
PROPERTIES
    NoEscalation
    HierarchyRespected
    CacheKeyMoves
    NoLostUpdate
    RevokedRequestChangesNothing
