-------------------------------- MODULE Rbac --------------------------------
(***************************************************************************)
(* The authorization database and the transactions that change it: the     *)
(* RbacService of app/services/access.py, user provisioning, the           *)
(* registration switch, the administrator's password reset (as far as it   *)
(* touches authorization) and the two operator scripts under sql/.         *)
(*                                                                         *)
(* Every one of these transactions locks the global rbac_state row first   *)
(* and reloads what it decides on afterwards, so each is one step here.    *)
(* What is NOT atomic is the request around it: the client reads roles and *)
(* their versions, the route authenticates the bearer token and captures   *)
(* the principal, and only later does the service transaction run.  The    *)
(* variables seen and request keep those earlier readings.                 *)
(*                                                                         *)
(* PostgreSQL's deferred constraint triggers are left out on purpose: the  *)
(* invariants below say that no transaction of the program needs them.     *)
(***************************************************************************)
EXTENDS AccessPolicy

CONSTANTS
    RoleName,            \* display names a role may be given
    Tier,                \* management tiers clients ask for
    PermissionRequest,   \* sets of permission keys clients ask to (un)bind
    MaxRequestedRoles,   \* bound: roles named by one bind or unbind request
    MaxRolesPerUser,     \* MAX_ROLES_PER_USER
    EpochBound,          \* bound on rbac_state.epoch
    TokenVersionBound,   \* bound on the revocations: none starts once any
                         \* users.token_version is at it
    MaxInFlight,         \* bound on the requests in flight
    NoRequest,           \* no request of the user is in flight
    Seed                 \* initial databases: users, assignments, custom roles

ASSUME MaxRolesAssumption == MaxRolesPerUser \in Nat \ {0}
ASSUME NoRequestAssumption == NoRequest \notin Nat
ASSUME PermissionRequestAssumption == PermissionRequest \subseteq SUBSET PermissionKey
ASSUME RoleNameAssumption == RoleName # {}

RoleStatus == {"absent", "active", "disabled", "deleted"}
LiveStatus == {"active", "disabled"}

RoleRow ==
    [status : RoleStatus, tier : Nat, permissions : SUBSET PermissionKey,
     version : Nat, name : RoleName]

(***************************************************************************)
(* The migrated database: the three system roles, no custom role.          *)
(***************************************************************************)
DefaultName == CHOOSE name \in RoleName : TRUE

AbsentRole ==
    [status |-> "absent", tier |-> 0, permissions |-> {}, version |-> 0,
     name |-> DefaultName]

SystemRoleRow(r) ==
    [status |-> "active", tier |-> SystemTier[r], permissions |-> SystemGrants[r],
     version |-> 0, name |-> DefaultName]

\* A seed is a database earlier operations left behind, from an empty one to one
\* with administrators and a custom role in use.
ASSUME SeedAssumption ==
    \A seed \in Seed :
        /\ seed.assigned \in [User -> SUBSET Role]
        /\ seed.disabled \in SUBSET {u \in User : seed.assigned[u] # {}}
        /\ \A u \in seed.disabled : "super_admin" \notin seed.assigned[u]
        /\ seed.roles \in [Role -> RoleRow]
        /\ \A r \in SystemRoleKey : seed.roles[r] = SystemRoleRow(r)
        /\ \A r \in CustomRole :
              \/ seed.roles[r] = AbsentRole
              \/ /\ seed.roles[r].status \in LiveStatus
                 /\ seed.roles[r].tier \in 1..999
                 /\ "registration:configure" \notin seed.roles[r].permissions
        /\ \A u \in User :
              /\ seed.assigned[u] # {} => "user" \in seed.assigned[u]
              /\ Cardinality(seed.assigned[u]) <= MaxRolesPerUser
              /\ \A r \in seed.assigned[u] : seed.roles[r].status \in LiveStatus
        /\ \A u, v \in User :
              "super_admin" \in seed.assigned[u] \cap seed.assigned[v] => u = v

VARIABLES
    exists,          \* rows of users
    active,          \* users.is_active
    token_version,   \* users.token_version
    authz_version,   \* users.authz_version
    assigned,        \* live user_roles rows: user -> roles
    roles,           \* rows of roles with their live role_permissions
    epoch,           \* rbac_state.epoch
    registration,    \* rbac_state.public_registration_enabled
    seen,            \* the custom-role rows each client read last
    request          \* token version of each user's request in flight

userVars == <<exists, active, token_version, authz_version, assigned>>
dbVars   == <<userVars, roles, epoch, registration>>
vars     == <<dbVars, seen, request>>

\* Every variable keeps its type, and only existing users are active: no operation
\* acts on a target that was never created.
TypeOK ==
    /\ exists \in SUBSET User
    /\ active \in SUBSET exists
    /\ token_version \in [User -> Nat]
    /\ authz_version \in [User -> Nat]
    /\ assigned \in [User -> SUBSET Role]
    /\ roles \in [Role -> RoleRow]
    /\ epoch \in Nat
    /\ registration \in BOOLEAN
    /\ seen \in [User -> [CustomRole -> RoleRow]]
    /\ request \in [User -> Nat \cup {NoRequest}]

Init ==
    /\ \E seed \in Seed :
          /\ assigned = seed.assigned
          /\ roles = seed.roles
          /\ exists = {u \in User : seed.assigned[u] # {}}
          /\ active = exists \ seed.disabled
    /\ token_version = [u \in User |-> 0]
    /\ authz_version = [u \in User |-> IF u \in exists THEN 1 ELSE 0]
    /\ epoch = 0
    /\ registration = TRUE
    /\ seen = [u \in User |-> [r \in CustomRole |-> AbsentRole]]
    /\ request = [u \in User |-> NoRequest]

(***************************************************************************)
(* Repository reads.                                                       *)
(***************************************************************************)
load_role_grant(r) ==
    [role_id |-> r, management_tier |-> roles[r].tier,
     permissions |-> roles[r].permissions]

load_authority_snapshot(u, statuses) ==
    [user_id |-> u,
     user_is_active |-> u \in active,
     roles |-> {load_role_grant(r) : r \in {x \in assigned[u] : roles[x].status \in statuses}}]

\* With active roles only, or with include_disabled_roles=True.
Effective(u) == load_authority_snapshot(u, {"active"})
Latent(u)    == load_authority_snapshot(u, LiveStatus)

SuperAdminHolders == {u \in exists : "super_admin" \in assigned[u]}

HoldersOf(r) == {u \in exists : r \in assigned[u]}

\* Mutant: the limit is compared before the new roles are counted.
HasRoomFor_OffByOne(u, n) == Cardinality(assigned[u]) <= MaxRolesPerUser

HasRoomFor(u, n) == Cardinality(assigned[u]) + n <= MaxRolesPerUser

(***************************************************************************)
(* A request: the client reads roles, the route authenticates, and the     *)
(* service transaction ends it.                                            *)
(***************************************************************************)
ReadRoles(a) ==
    /\ a \in active
    /\ request[a] = NoRequest
    /\ "roles:read" \in permissions(Effective(a))
    /\ seen' = [seen EXCEPT ![a] =
          [r \in CustomRole |->
              IF /\ roles[r].status \in LiveStatus
                 /\ is_administrative_role_visible(Effective(a), load_role_grant(r))
              THEN roles[r] ELSE seen[a][r]]]
    /\ UNCHANGED <<dbVars, request>>

Authenticate(a) ==
    /\ a \in active
    /\ request[a] = NoRequest
    /\ Cardinality({u \in User : request[u] # NoRequest}) < MaxInFlight
    /\ request' = [request EXCEPT ![a] = token_version[a]]
    /\ UNCHANGED <<dbVars, seen>>

\* The request ends, whatever its outcome.
Finish(a) ==
    /\ request' = [request EXCEPT ![a] = NoRequest]
    /\ UNCHANGED seen

\* A transaction that refuses (401, 403, 404, 409, 422) rolls back.
Refuse(a) ==
    /\ request[a] # NoRequest
    /\ Finish(a)
    /\ UNCHANGED dbVars

\* Mutant: the token version is not compared again under the locks.
require_current_actor_AnyVersion(a) ==
    request[a] # NoRequest /\ a \in active

\* The actor as reloaded under the locks: active, and its token version is
\* still the one the request was authenticated with.
require_current_actor(a) ==
    /\ request[a] # NoRequest
    /\ a \in active
    /\ token_version[a] = request[a]

\* Mutant: a missing target row goes unnoticed.
lock_actor_and_target_user_AnyTarget(a, target, required) ==
    /\ require_current_actor(a)
    /\ required \in permissions(Effective(a))
    /\ is_administrative_user_visible(Effective(a), Effective(target))

lock_actor_and_target_user(a, target, required) ==
    /\ require_current_actor(a)
    /\ required \in permissions(Effective(a))
    /\ target \in exists
    /\ is_administrative_user_visible(Effective(a), Effective(target))

BumpEpoch == /\ epoch < EpochBound
             /\ epoch' = epoch + 1

BumpTokenVersion(us) ==
    /\ \A u \in User : token_version[u] < TokenVersionBound
    /\ token_version' =
         [u \in User |-> IF u \in us THEN token_version[u] + 1 ELSE token_version[u]]

BumpAuthzVersion(us) ==
    authz_version' =
        [u \in User |-> IF u \in us THEN authz_version[u] + 1 ELSE authz_version[u]]

(***************************************************************************)
(* Users: status, sessions, password reset.                                *)
(***************************************************************************)
update_user_status(a, target, is_active) ==
    /\ lock_actor_and_target_user(a, target, "users:status:update")
    /\ decide_user_administration(Effective(a), Latent(target), "users:status:update")
    /\ \/ /\ (target \in active) # is_active
          /\ active' = IF is_active THEN active \cup {target} ELSE active \ {target}
          /\ BumpTokenVersion({target})
          /\ BumpAuthzVersion({target})
          /\ BumpEpoch
       \/ /\ (target \in active) = is_active
          /\ UNCHANGED <<active, token_version, authz_version, epoch>>
    /\ Finish(a)
    /\ UNCHANGED <<exists, assigned, roles, registration>>

revoke_user_sessions(a, target) ==
    /\ lock_actor_and_target_user(a, target, "users:sessions:revoke")
    /\ decide_user_administration(Effective(a), Latent(target), "users:sessions:revoke")
    /\ BumpTokenVersion({target})
    /\ Finish(a)
    /\ UNCHANGED <<exists, active, authz_version, assigned, roles, epoch, registration>>

\* The locked second half of an administrator's reset.  Unlike the operations
\* above it hides targets by their latent authority.
reset_user_password(a, target) ==
    /\ require_current_actor(a)
    /\ "users:password:reset" \in permissions(Effective(a))
    /\ target \in exists
    /\ is_administrative_user_visible(Effective(a), Latent(target))
    /\ decide_user_administration(Effective(a), Latent(target), "users:password:reset")
    /\ BumpTokenVersion({target})
    /\ Finish(a)
    /\ UNCHANGED <<exists, active, authz_version, assigned, roles, epoch, registration>>

(***************************************************************************)
(* Users: role assignments.                                                *)
(***************************************************************************)
bind_user_roles(a, target, requested) ==
    LET existing == requested \cap assigned[target]
        changed  == requested \ existing
        granted  == {load_role_grant(r) : r \in requested}
        after    == WithRoles(Latent(target), granted)
    IN  /\ requested # {}
        /\ lock_actor_and_target_user(a, target, "roles:assign")
        /\ \A r \in requested : roles[r].status \in LiveStatus
        /\ \A r \in changed : roles[r].status = "active"
        /\ \A g \in granted : is_administrative_role_visible(Effective(a), g)
        /\ decide_role_change("bind", Effective(a), Latent(target), after, granted)
        /\ \/ /\ changed # {}
              /\ HasRoomFor(target, Cardinality(changed))
              /\ assigned' = [assigned EXCEPT ![target] = @ \cup changed]
              /\ BumpAuthzVersion({target})
              /\ BumpEpoch
           \/ /\ changed = {}
              /\ UNCHANGED <<assigned, authz_version, epoch>>
        /\ Finish(a)
        /\ UNCHANGED <<exists, active, token_version, roles, registration>>

unbind_user_roles(a, target, requested) ==
    LET changed == requested \cap assigned[target]
        revoked == {load_role_grant(r) : r \in requested}
        after   == WithoutRoles(Latent(target), revoked)
    IN  /\ requested # {}
        /\ lock_actor_and_target_user(a, target, "roles:revoke")
        /\ \A r \in requested : roles[r].status \in LiveStatus
        /\ \A g \in revoked : is_administrative_role_visible(Effective(a), g)
        /\ decide_role_change("unbind", Effective(a), Latent(target), after, revoked)
        /\ \/ /\ changed # {}
              /\ assigned' = [assigned EXCEPT ![target] = @ \ changed]
              /\ BumpAuthzVersion({target})
              /\ BumpEpoch
           \/ /\ changed = {}
              /\ UNCHANGED <<assigned, authz_version, epoch>>
        /\ Finish(a)
        /\ UNCHANGED <<exists, active, token_version, roles, registration>>

(***************************************************************************)
(* Shared roles.                                                           *)
(***************************************************************************)
create_role(a, r, tier, name) ==
    /\ require_current_actor(a)
    /\ decide_role_create(Effective(a), tier)
    /\ r \notin SystemRoleKey             \* reserved_role_key
    /\ roles[r].status = "absent"         \* role_key_exists, deleted roles included
    /\ roles' = [roles EXCEPT ![r] = [status |-> "active", tier |-> tier,
                                      permissions |-> {}, version |-> 0, name |-> name]]
    /\ BumpEpoch
    /\ Finish(a)
    /\ UNCHANGED <<userVars, registration>>

lock_shared_role_change(a, r, required, statuses) ==
    /\ require_current_actor(a)
    /\ required \in permissions(Effective(a))
    /\ roles[r].status \in statuses
    /\ is_administrative_role_visible(Effective(a), load_role_grant(r))

require_role_administration(a, r, operation) ==
    /\ lock_shared_role_change(a, r, RoleAdministrationPermission[operation], LiveStatus)
    /\ decide_role_administration(operation, Effective(a), load_role_grant(r),
                                  a \in HoldersOf(r), {Latent(u) : u \in HoldersOf(r)})

\* Mutant: the expected version is ignored.
require_expected_role_version_Ignored(a, r) == r \in CustomRole

require_expected_role_version(a, r) ==
    /\ r \in CustomRole
    /\ seen[a][r].version = roles[r].version
    /\ seen[a][r].status # "absent"

\* Mutant: the holders' authz_version is left alone.
bump_shared_authority_HoldersForgotten(r, row) ==
    /\ roles' = [roles EXCEPT ![r] = [row EXCEPT !.version = roles[r].version + 1]]
    /\ BumpEpoch
    /\ UNCHANGED authz_version

\* Set a role's row and move its version, its holders' versions and the epoch.
bump_shared_authority(r, row) ==
    /\ roles' = [roles EXCEPT ![r] = [row EXCEPT !.version = roles[r].version + 1]]
    /\ BumpAuthzVersion(HoldersOf(r))
    /\ BumpEpoch

update_role(a, r, name) ==
    /\ require_role_administration(a, r, "update")
    /\ require_expected_role_version(a, r)
    /\ \/ /\ name # roles[r].name
          /\ roles' = [roles EXCEPT ![r] =
                [roles[r] EXCEPT !.name = name, !.version = roles[r].version + 1]]
          /\ BumpEpoch
       \/ /\ name = roles[r].name
          /\ UNCHANGED <<roles, epoch>>
    /\ Finish(a)
    /\ UNCHANGED <<userVars, registration>>

set_role_active(a, r, is_active) ==
    /\ require_role_administration(a, r, IF is_active THEN "enable" ELSE "disable")
    /\ require_expected_role_version(a, r)
    /\ \/ /\ (roles[r].status = "active") # is_active
          /\ bump_shared_authority(r,
                [roles[r] EXCEPT !.status = IF is_active THEN "active" ELSE "disabled"])
       \/ /\ (roles[r].status = "active") = is_active
          /\ UNCHANGED <<roles, authz_version, epoch>>
    /\ Finish(a)
    /\ UNCHANGED <<exists, active, token_version, assigned, registration>>

\* Mutant: the role goes, its assignments stay.
soft_delete_role_AssignmentsKept(a, r) ==
    /\ require_role_administration(a, r, "delete")
    /\ require_expected_role_version(a, r)
    /\ bump_shared_authority(r, [roles[r] EXCEPT !.status = "deleted", !.permissions = {}])
    /\ Finish(a)
    /\ UNCHANGED <<exists, active, token_version, assigned, registration>>

soft_delete_role(a, r) ==
    /\ require_role_administration(a, r, "delete")
    /\ require_expected_role_version(a, r)
    /\ bump_shared_authority(r, [roles[r] EXCEPT !.status = "deleted", !.permissions = {}])
    /\ assigned' = [u \in User |-> assigned[u] \ {r}]
    /\ Finish(a)
    /\ UNCHANGED <<exists, active, token_version, registration>>

change_role_permissions(a, r, operation, requested) ==
    LET before == roles[r].permissions
        after  == IF operation = "bind" THEN before \cup requested ELSE before \ requested
        replacement == [load_role_grant(r) EXCEPT !.permissions = after]
    IN  /\ requested # {}
        /\ lock_shared_role_change(a, r,
              IF operation = "bind" THEN "roles:permissions:bind"
                                    ELSE "roles:permissions:unbind", {"active"})
        /\ decide_role_permissions_change(operation, Effective(a), load_role_grant(r), after,
              a \in HoldersOf(r), {with_role(Latent(u), replacement) : u \in HoldersOf(r)})
        /\ require_expected_role_version(a, r)
        /\ \/ /\ after # before
              /\ bump_shared_authority(r, [roles[r] EXCEPT !.permissions = after])
           \/ /\ after = before
              /\ UNCHANGED <<roles, authz_version, epoch>>
        /\ Finish(a)
        /\ UNCHANGED <<exists, active, token_version, assigned, registration>>

(***************************************************************************)
(* Provisioning and the registration switch.                               *)
(***************************************************************************)
create_user_with_default_role(u) ==
    /\ u \notin exists
    /\ exists' = exists \cup {u}
    /\ active' = active \cup {u}
    /\ token_version' = [token_version EXCEPT ![u] = 0]
    /\ authz_version' = [authz_version EXCEPT ![u] = 1]
    /\ assigned' = [assigned EXCEPT ![u] = {"user"}]
    /\ BumpEpoch
    /\ UNCHANGED <<roles, registration>>

register(u) ==
    /\ registration
    /\ create_user_with_default_role(u)
    /\ UNCHANGED <<seen, request>>

create_user_by_administrator(a, u) ==
    /\ require_current_actor(a)
    /\ "users:create" \in permissions(Effective(a))
    /\ create_user_with_default_role(u)
    /\ Finish(a)

set_registration_enabled(a, enabled) ==
    /\ require_current_actor(a)
    /\ IsSuperAdmin(Effective(a))
    /\ "registration:configure" \in permissions(Effective(a))
    /\ registration' = enabled
    /\ Finish(a)
    /\ UNCHANGED <<userVars, roles, epoch>>

(***************************************************************************)
(* Operator scripts, run offline against the same database.  A bootstrap   *)
(* of the present holder only adds an audit row: no step here.             *)
(***************************************************************************)
\* Mutant: the script does not look for another holder.
bootstrap_super_admin_HolderIgnored(u) ==
    /\ u \in active
    /\ "super_admin" \notin assigned[u]
    /\ HasRoomFor(u, 1)
    /\ assigned' = [assigned EXCEPT ![u] = @ \cup {"super_admin"}]
    /\ BumpAuthzVersion({u})
    /\ BumpEpoch
    /\ UNCHANGED <<exists, active, token_version, roles, registration, seen, request>>

bootstrap_super_admin(u) ==
    /\ u \in active
    /\ "user" \in assigned[u]
    /\ SuperAdminHolders = {}
    /\ HasRoomFor(u, 1)
    /\ assigned' = [assigned EXCEPT ![u] = @ \cup {"super_admin"}]
    /\ BumpAuthzVersion({u})
    /\ BumpEpoch
    /\ UNCHANGED <<exists, active, token_version, roles, registration, seen, request>>

\* Mutant: the sessions of the two users survive the handover.
handover_super_admin_SessionsKept(old, new) ==
    /\ old # new
    /\ old \in active /\ new \in active
    /\ SuperAdminHolders = {old}
    /\ HasRoomFor(new, 1)
    /\ assigned' = [assigned EXCEPT ![old] = @ \ {"super_admin"},
                                    ![new] = @ \cup {"super_admin"}]
    /\ BumpAuthzVersion({old, new})
    /\ BumpEpoch
    /\ UNCHANGED <<exists, active, token_version, roles, registration, seen, request>>

handover_super_admin(old, new) ==
    /\ old # new
    /\ old \in active /\ new \in active
    /\ SuperAdminHolders = {old}
    /\ "user" \in assigned[old] \cap assigned[new]
    /\ HasRoomFor(new, 1)
    /\ assigned' = [assigned EXCEPT ![old] = @ \ {"super_admin"},
                                    ![new] = @ \cup {"super_admin"}]
    /\ BumpAuthzVersion({old, new})
    /\ BumpTokenVersion({old, new})
    /\ BumpEpoch
    /\ UNCHANGED <<exists, active, roles, registration, seen, request>>

-----------------------------------------------------------------------------
RoleRequest == {rs \in SUBSET Role : Cardinality(rs) \in 1..MaxRequestedRoles}

UserAdministration(a, target) ==
    \/ \E is_active \in BOOLEAN : update_user_status(a, target, is_active)
    \/ revoke_user_sessions(a, target)
    \/ reset_user_password(a, target)
    \/ \E requested \in RoleRequest :
          \/ bind_user_roles(a, target, requested)
          \/ unbind_user_roles(a, target, requested)
    \/ create_user_by_administrator(a, target)

RoleAdministration(a, r) ==
    \/ \E tier \in Tier, name \in RoleName : create_role(a, r, tier, name)
    \/ \E name \in RoleName : update_role(a, r, name)
    \/ \E is_active \in BOOLEAN : set_role_active(a, r, is_active)
    \/ soft_delete_role(a, r)
    \/ \E operation \in {"bind", "unbind"}, requested \in PermissionRequest :
          change_role_permissions(a, r, operation, requested)

Operator ==
    \/ \E u \in User : bootstrap_super_admin(u)
    \/ \E old, new \in User : handover_super_admin(old, new)

Next ==
    \/ \E a \in User :
          \/ ReadRoles(a)
          \/ Authenticate(a)
          \/ Refuse(a)
          \/ \E target \in User : UserAdministration(a, target)
          \/ \E r \in Role : RoleAdministration(a, r)
          \/ \E enabled \in BOOLEAN : set_registration_enabled(a, enabled)
    \/ \E u \in User : register(u)
    \/ Operator

Spec == Init /\ [][Next]_vars

-----------------------------------------------------------------------------
(***************************************************************************)
(* Safety invariants.                                                      *)
(***************************************************************************)

\* Every existing user keeps the mandatory `user' role through binds, unbinds,
\* role deletion and handover, and only existing users hold roles: the trigger
\* ct_users_require_base_role never has anything to refuse.
BaseRoleHeld ==
    \A u \in User : IF u \in exists THEN "user" \in assigned[u] ELSE assigned[u] = {}

\* There is never a second super_admin, and the one there is can always log in:
\* no sequence of status changes, unbinds, role edits and handovers disables it.
SoleActiveSuperAdmin ==
    /\ \A u, v \in SuperAdminHolders : u = v
    /\ SuperAdminHolders \subseteq active

\* A role that was deleted, or never created, has no live assignment and no live
\* grant: a bind racing a delete cannot leave one behind.
DeadRolesHoldNothing ==
    \A r \in Role : roles[r].status \in {"absent", "deleted"} =>
        /\ roles[r].permissions = {}
        /\ \A u \in User : r \notin assigned[u]

\* MAX_ROLES_PER_USER bounds the live assignments, disabled roles and the
\* operator's super_admin assignment included.
RoleLimitKept ==
    \A u \in User : Cardinality(assigned[u]) <= MaxRolesPerUser

\* Only the super_admin role ever carries registration:configure, custom roles
\* stay strictly between `user' and super_admin, and the three system roles are
\* what the migration made them.
SystemRolesImmutable ==
    /\ \A r \in SystemRoleKey : roles[r] = SystemRoleRow(r)
    /\ \A r \in CustomRole : roles[r].status # "absent" =>
          /\ roles[r].tier \in 1..999
          /\ "registration:configure" \notin roles[r].permissions

(***************************************************************************)
(* Action properties.  A step by a user's request is one that ends it.     *)
(***************************************************************************)
Acting(a) == request[a] # NoRequest /\ request'[a] = NoRequest

\* a's request commits a change of the database.
Commits(a) == Acting(a) /\ dbVars' # dbVars

EffectivePermissions(u) == IF u \in active THEN permissions(Effective(u)) ELSE {}

\* u's effective or latent authority is larger after the step.
Grows(u) ==
    \/ ~(EffectivePermissions(u)' \subseteq EffectivePermissions(u))
    \/ ~(permissions(Latent(u))' \subseteq permissions(Latent(u)))
    \/ management_tier(Effective(u))' > management_tier(Effective(u))
    \/ management_tier(Latent(u))' > management_tier(Latent(u))

\* No escalation: whatever a request does (binding, enabling a role or a user,
\* editing a shared role), a user whose authority it enlarges is another user,
\* ends strictly below the actor and holds nothing the actor does not hold now.
NoEscalation ==
    [][\A a \in User : Commits(a) => \A u \in User : Grows(u) =>
          /\ a # u
          /\ permissions(Latent(u))' \subseteq permissions(Effective(a))
          /\ management_tier(Latent(u))' < management_tier(Effective(a))]_vars

\* A user row that a request changes in any way belongs to a strictly lower user,
\* judged by all its roles, disabled ones included; super_admin is out of reach,
\* and nobody changes its own authority, not even through a shared role.
HierarchyRespected ==
    [][\A a \in User : Commits(a) => \A u \in exists :
          << u \in active, token_version[u], authz_version[u], assigned[u] >>'
                 # << u \in active, token_version[u], authz_version[u], assigned[u] >>
          => /\ a # u
             /\ "super_admin" \notin assigned[u]
             /\ permissions(Latent(u)) \subseteq permissions(Effective(a))
             /\ management_tier(Latent(u)) < management_tier(Effective(a))]_vars

\* A permission cache keyed by (token_version, epoch, authz_version) can never
\* serve an old authority: whenever a user's effective authority changes, by a
\* request or an operator, its key moves, and no component of it ever goes back.
CacheKeyMoves ==
    [][\A u \in exists :
          /\ epoch' >= epoch /\ token_version'[u] >= token_version[u]
          /\ authz_version'[u] >= authz_version[u]
          /\ Effective(u)' # Effective(u) =>
                epoch' > epoch /\ authz_version'[u] > authz_version[u]]_dbVars

\* No lost update: a request changes an existing role only when the row it
\* overwrites is, in every field, the row its client had read.
NoLostUpdate ==
    [][\A a \in User, r \in CustomRole :
          Commits(a) /\ roles[r].status # "absent" /\ roles'[r] # roles[r]
          => seen[a][r] = roles[r]]_vars

\* Immediate revocation: a request authenticated before its user was disabled or
\* its token version moved commits nothing, however long it was delayed.
RevokedRequestChangesNothing ==
    [][\A a \in User : Commits(a) => a \in active /\ token_version[a] = request[a]]_vars

\* Once there is a super_admin there always is one, and only the operator's
\* handover, never a request, decides who.
SuperAdminOnlyHandedOver ==
    [][SuperAdminHolders # {} /\ SuperAdminHolders' # SuperAdminHolders =>
          /\ SuperAdminHolders' # {}
          /\ \A a \in User : ~Acting(a)
          /\ \A u \in SuperAdminHolders : token_version'[u] > token_version[u]]_vars

=============================================================================
