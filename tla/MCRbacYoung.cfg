SPECIFICATION Spec
CONSTANTS
    u1 = u1
    u2 = u2
    u3 = u3
    User <- MCUser
    CustomRole = {"r1", "r2"}
    RoleName = {"n1", "n2"}
    Tier = {0, 100, 999, 1000}
    PermissionRequest <- RegistrationRequest
    MaxRequestedRoles = 1
    MaxRolesPerUser = 3
    EpochBound = 3
    MaxInFlight = 1
    TokenVersionBound = 1
    NoRequest = NoRequest
    Seed <- YoungSeed
INVARIANTS
    TypeOK
    BaseRoleHeld
    SoleActiveSuperAdmin
    SystemRolesImmutable
PROPERTIES
    SuperAdminOnlyHandedOver
