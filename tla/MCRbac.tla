------------------------------- MODULE MCRbac -------------------------------
(***************************************************************************)
(* Constants of the Rbac run: four databases to start from, so that two   *)
(* committed changes on top of them reach every operation.                 *)
(***************************************************************************)
EXTENDS Rbac, TLC

CONSTANTS u1, u2, u3

MCUser == {u1, u2, u3}

StatusRequest       == {{"roles:status:update"}}
RegistrationRequest == {{"roles:status:update"}, {"registration:configure"}}

CustomRow(status, tier, perms) ==
    [status |-> status, tier |-> tier, permissions |-> perms, version |-> 0,
     name |-> DefaultName]

\* u3 may assign roles below tier 100; with its disabled role enabled it would
\* outrank the administrator u2.
Team ==
    [roles |-> [r \in Role |->
        CASE r \in SystemRoleKey -> SystemRoleRow(r)
          [] r = "r1" -> CustomRow("active", 100, {"roles:assign", "roles:status:update",
                                                   "users:status:update"})
          [] r = "r2" -> CustomRow("disabled", 600, AdminPermission)
          [] OTHER -> AbsentRole],
     assigned |-> u1 :> {"user", "super_admin"} @@ u2 :> {"user", "admin"}
                  @@ u3 :> {"user", "r1", "r2"},
     disabled |-> {}]

\* The same team after u3 was disabled.
Suspended == [Team EXCEPT !.disabled = {u3}]

NoCustomRole == [r \in Role |-> IF r \in SystemRoleKey THEN SystemRoleRow(r)
                                                       ELSE AbsentRole]

\* A super_admin and an administrator, before any role or third user is created.
Young ==
    [roles |-> NoCustomRole,
     assigned |-> u1 :> {"user", "super_admin"} @@ u2 :> {"user", "admin"} @@ u3 :> {},
     disabled |-> {}]

Migrated ==
    [roles |-> NoCustomRole, assigned |-> [u \in MCUser |-> {}], disabled |-> {}]

TeamSeed  == {Team, Suspended}
YoungSeed == {Young, Migrated}
=============================================================================
