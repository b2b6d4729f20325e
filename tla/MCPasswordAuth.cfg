SPECIFICATION Spec
CONSTANTS
    p1 = p1
    p2 = p2
    p3 = p3
    old = old
    new = new
    NoPassword = NoPassword
    NoProc = NoProc
    Proc <- Requests
    Password <- Passwords
    ResetMode = {"direct", "temporary"}
    VersionBound = 2
SYMMETRY Symmetry
INVARIANTS
    TokenMeansCurrentPassword
PROPERTIES
    UpgradeKeepsPassword
    RotationUsesCurrentCredential
    UpgradeRejectsNobody
CHECK_DEADLOCK FALSE
