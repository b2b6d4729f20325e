---------------------------- MODULE AccessPolicy ----------------------------
(***************************************************************************)
(* The pure authorization policy of the RBAC asset: the domain values of   *)
(* app/core/security/domain.py (permission keys, system roles, RoleGrant,  *)
(* AuthoritySnapshot) and the decisions of app/core/security/policy.py.    *)
(*                                                                         *)
(* A decision is its `allowed' flag; reason codes only word the refusal.   *)
(* A role's identifier stands for its key too: keys are unique for ever,   *)
(* soft-deleted roles included.                                            *)
(***************************************************************************)
EXTENDS Integers, FiniteSets

CONSTANTS
    User,        \* user identifiers
    CustomRole   \* identifiers (keys) of the roles administrators may create

SystemRoleKey == {"super_admin", "admin", "user"}
Role == SystemRoleKey \cup CustomRole

ASSUME CustomRoleAssumption == CustomRole \cap SystemRoleKey = {}
ASSUME CustomRoleFinite == IsFiniteSet(CustomRole)

(***************************************************************************)
(* Permission keys and the immutable system roles.                         *)
(***************************************************************************)
AdminPermission ==
    {"permissions:read", "roles:read", "roles:create", "roles:update",
     "roles:status:update", "roles:assign", "roles:revoke",
     "roles:permissions:bind", "roles:permissions:unbind", "users:read",
     "users:create", "users:status:update", "users:password:reset",
     "users:sessions:revoke", "projects:read", "projects:update"}

SuperAdminPermission ==
    AdminPermission \cup {"roles:delete", "registration:configure"}

\* The seeded permission catalogue; every key of it is a control-plane key.
PermissionKey == SuperAdminPermission

SystemTier == [super_admin |-> 1000, admin |-> 500, user |-> 0]

SystemGrants ==
    [super_admin |-> SuperAdminPermission, admin |-> AdminPermission, user |-> {}]

(***************************************************************************)
(* Snapshots. A RoleGrant is a record; a snapshot carries the grants its   *)
(* user holds and everything else about its authority is derived from them.*)
(***************************************************************************)
RoleGrant ==
    [role_id : Role, management_tier : Nat, permissions : SUBSET PermissionKey]

is_system(role)      == role.role_id \in SystemRoleKey
is_protected(role)   == role.role_id = "super_admin"
is_super_admin(role) == role.role_id = "super_admin"

permissions(s) == UNION {g.permissions : g \in s.roles}

\* The largest tier of the roles held, 0 without any.
management_tier(s) ==
    LET tiers == {0} \cup {g.management_tier : g \in s.roles}
    IN  CHOOSE t \in tiers : \A other \in tiers : other <= t

IsProtected(s)  == \E g \in s.roles : is_protected(g)
IsSuperAdmin(s) == \E g \in s.roles : is_super_admin(g)

without_role(s, r) ==
    [s EXCEPT !.roles = {g \in s.roles : g.role_id # r}]

with_role(s, grant) ==
    [s EXCEPT !.roles = {g \in s.roles : g.role_id # grant.role_id} \cup {grant}]

\* Several with_role or without_role calls in a row, one per requested role.
WithRoles(s, grants) ==
    [s EXCEPT !.roles =
        {g \in s.roles : \A new \in grants : g.role_id # new.role_id} \cup grants]

WithoutRoles(s, grants) ==
    [s EXCEPT !.roles = {g \in s.roles : \A old \in grants : g.role_id # old.role_id}]

(***************************************************************************)
(* Building blocks of the decisions.                                       *)
(***************************************************************************)
WithinActorAuthority(actor, perms) ==
    /\ perms \subseteq SuperAdminPermission
    /\ perms \subseteq permissions(actor)

basic_actor_check(actor, required) ==
    /\ required \in permissions(actor)
    /\ actor.user_is_active

StrictlyBelow(actor, tier) == tier < management_tier(actor)

is_administrative_user_visible(actor, target) ==
    \/ IsSuperAdmin(actor)
    \/ /\ actor.user_id # target.user_id
       /\ ~IsProtected(target)
       /\ StrictlyBelow(actor, management_tier(target))

is_administrative_role_visible(actor, role) ==
    \/ IsSuperAdmin(actor)
    \/ /\ ~is_protected(role)
       /\ ~is_super_admin(role)
       /\ StrictlyBelow(actor, role.management_tier)

\* Mutant: only self-management and protected subjects are refused.
Manageable_NoHierarchy(actor, subject) ==
    ~IsProtected(subject) /\ actor.user_id # subject.user_id

\* What every change of a subject's authority by an actor must satisfy.
Manageable(actor, subject) ==
    /\ ~IsProtected(subject)
    /\ actor.user_id # subject.user_id
    /\ StrictlyBelow(actor, management_tier(subject))
    /\ WithinActorAuthority(actor, permissions(subject))

\* Mutant: the holders of a shared role are not looked at.
affected_subjects_are_manageable_Skipped(actor, affected) == TRUE

affected_subjects_are_manageable(actor, affected) ==
    \A subject \in affected : Manageable(actor, subject)

(***************************************************************************)
(* The decisions.                                                          *)
(***************************************************************************)
\* Mutant: the mandatory role may be unbound.
MayChangeRole_BaseUnbindable(operation, actor, role) ==
    /\ ~is_protected(role)
    /\ role.role_id = "admin" => IsSuperAdmin(actor)
    /\ WithinActorAuthority(actor, role.permissions)
    /\ StrictlyBelow(actor, role.management_tier)

MayChangeRole(operation, actor, role) ==
    /\ role.role_id # "super_admin" /\ ~is_protected(role)
    /\ ~(operation = "unbind" /\ role.role_id = "user")
    /\ role.role_id = "admin" => IsSuperAdmin(actor)
    /\ WithinActorAuthority(actor, role.permissions)
    /\ StrictlyBelow(actor, role.management_tier)

decide_role_change(operation, actor, target_before, target_after, changed_roles) ==
    /\ basic_actor_check(actor, IF operation = "bind" THEN "roles:assign"
                                                      ELSE "roles:revoke")
    /\ actor.user_id # target_before.user_id
    /\ ~(operation = "bind" /\ ~target_before.user_is_active)
    /\ ~IsProtected(target_before)
    /\ \A role \in changed_roles : MayChangeRole(operation, actor, role)
    /\ StrictlyBelow(actor, management_tier(target_before))
    /\ StrictlyBelow(actor, management_tier(target_after))
    /\ WithinActorAuthority(actor, permissions(target_before))
    /\ WithinActorAuthority(actor, permissions(target_after))

decide_role_create(actor, tier) ==
    /\ basic_actor_check(actor, "roles:create")
    /\ tier \in 1..999
    /\ StrictlyBelow(actor, tier)

\* Common part of the two decisions about a shared role.
MayAdministerRole(actor, role, actor_holds_role) ==
    /\ ~is_system(role)
    /\ ~actor_holds_role
    /\ StrictlyBelow(actor, role.management_tier)
    /\ WithinActorAuthority(actor, role.permissions)

RoleAdministrationPermission ==
    [update |-> "roles:update", enable |-> "roles:status:update",
     disable |-> "roles:status:update", delete |-> "roles:delete"]

decide_role_administration(operation, actor, role, actor_holds_role, affected) ==
    /\ basic_actor_check(actor, RoleAdministrationPermission[operation])
    /\ MayAdministerRole(actor, role, actor_holds_role)
    /\ affected_subjects_are_manageable(actor, affected)

\* Mutant: registration:configure is an ordinary permission.
decide_role_permissions_change_AnyKey(operation, actor, role, keys_after, actor_holds_role, affected_after) ==
    /\ basic_actor_check(actor, "roles:permissions:bind")
    /\ MayAdministerRole(actor, role, actor_holds_role)
    /\ WithinActorAuthority(actor, keys_after)
    /\ affected_subjects_are_manageable(actor, affected_after)

decide_role_permissions_change(operation, actor, role, keys_after, actor_holds_role, affected_after) ==
    /\ basic_actor_check(actor, IF operation = "bind" THEN "roles:permissions:bind"
                                                      ELSE "roles:permissions:unbind")
    /\ MayAdministerRole(actor, role, actor_holds_role)
    /\ WithinActorAuthority(actor, keys_after)
    /\ "registration:configure" \notin keys_after
    /\ affected_subjects_are_manageable(actor, affected_after)

decide_user_administration(actor, target_before, required) ==
    /\ basic_actor_check(actor, required)
    /\ Manageable(actor, target_before)

=============================================================================
