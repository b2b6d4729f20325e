---------------------------- MODULE Rbac_proofs ----------------------------
(***************************************************************************)
(* Proofs about Rbac, for every set of users, every finite set of custom   *)
(* roles, every limit on roles per user and every bound.                   *)
(***************************************************************************)
EXTENDS Rbac, FiniteSetTheorems, WellFoundedInduction, TLAPS

\* The row a role is born with has the row type.
LEMMA RowTypes ==
    /\ DefaultName \in RoleName
    /\ AbsentRole \in RoleRow
    /\ \A r \in SystemRoleKey : SystemRoleRow(r) \in RoleRow
<1>1. DefaultName \in RoleName
  BY RoleNameAssumption DEF DefaultName
<1>2. AbsentRole \in RoleRow
  BY <1>1 DEF AbsentRole, RoleRow, RoleStatus
<1>3. ASSUME NEW r \in SystemRoleKey PROVE SystemRoleRow(r) \in RoleRow
  <2>1. SystemTier[r] \in Nat /\ SystemGrants[r] \in SUBSET PermissionKey
    BY DEF SystemRoleKey, SystemTier, SystemGrants, PermissionKey, SuperAdminPermission
  <2> QED
    BY <1>1, <2>1 DEF SystemRoleRow, RoleRow, RoleStatus
<1> QED
  BY <1>1, <1>2, <1>3

\* Every seed is a typed database without requests.
LEMMA InitTypes == Init => TypeOK
<1> SUFFICES ASSUME Init PROVE TypeOK
  OBVIOUS
<1>1. PICK seed \in Seed : /\ assigned = seed.assigned
                           /\ roles = seed.roles
                           /\ exists = {u \in User : seed.assigned[u] # {}}
                           /\ active = exists \ seed.disabled
  BY DEF Init
<1>2. assigned \in [User -> SUBSET Role] /\ roles \in [Role -> RoleRow]
  BY ZenonT(40), <1>1, SeedAssumption
<1>3. exists \in SUBSET User /\ active \in SUBSET exists
  BY <1>1
<1>4. seen \in [User -> [CustomRole -> RoleRow]]
  BY RowTypes DEF Init
<1> QED
  BY <1>2, <1>3, <1>4 DEF Init, TypeOK

\* A stored role row is typed and its version has a successor.
LEMMA RowVersion ==
    ASSUME TypeOK, NEW r \in Role
    PROVE  roles[r] \in RoleRow /\ roles[r].version + 1 \in Nat
<1>1. roles[r] \in RoleRow
  BY DEF TypeOK
<1> QED
  BY <1>1 DEF RoleRow

\* The counters stay natural numbers when they are bumped.
LEMMA BumpTypes ==
    ASSUME TypeOK, NEW us \in SUBSET User
    PROVE  /\ BumpEpoch => epoch' \in Nat
           /\ BumpTokenVersion(us) => token_version' \in [User -> Nat]
           /\ BumpAuthzVersion(us) => authz_version' \in [User -> Nat]
BY DEF TypeOK, BumpEpoch, BumpTokenVersion, BumpAuthzVersion

\* A request that ends leaves the table of requests typed.
LEMMA FinishTypes ==
    ASSUME TypeOK, NEW a \in User, Finish(a)
    PROVE  /\ seen' \in [User -> [CustomRole -> RoleRow]]
           /\ request' \in [User -> Nat \cup {NoRequest}]
BY DEF TypeOK, Finish

(***************************************************************************)
(* Type correctness, one step per action.                                  *)
(***************************************************************************)
LEMMA TypeStep == TypeOK /\ [Next]_vars => TypeOK'
<1> SUFFICES ASSUME TypeOK, [Next]_vars PROVE TypeOK'
  OBVIOUS
<1>1. ASSUME NEW a \in User, ReadRoles(a) PROVE TypeOK'
  <2>1. seen' \in [User -> [CustomRole -> RoleRow]]
    BY <1>1 DEF TypeOK, ReadRoles, Role
  <2> QED
    BY <1>1, <2>1 DEF TypeOK, ReadRoles, dbVars, userVars
<1>2. ASSUME NEW a \in User, Authenticate(a) PROVE TypeOK'
  BY <1>2 DEF TypeOK, Authenticate, dbVars, userVars
<1>3. ASSUME NEW a \in User, Refuse(a) PROVE TypeOK'
  BY <1>3 DEF TypeOK, Refuse, Finish, dbVars, userVars
<1>4. ASSUME NEW a \in User, NEW target \in User, NEW is_active \in BOOLEAN,
             update_user_status(a, target, is_active)
      PROVE  TypeOK'
  <2>1. target \in exists /\ Finish(a)
    BY <1>4 DEF update_user_status, lock_actor_and_target_user
  <2>2. exists' \in SUBSET User /\ active' \in SUBSET exists'
    BY <1>4, <2>1 DEF TypeOK, update_user_status
  <2>3. /\ token_version' \in [User -> Nat]
        /\ authz_version' \in [User -> Nat]
        /\ epoch' \in Nat
    BY <1>4, BumpTypes DEF TypeOK, update_user_status
  <2> QED
    BY <1>4, <2>1, <2>2, <2>3, FinishTypes DEF TypeOK, update_user_status
<1>5. ASSUME NEW a \in User, NEW target \in User,
             revoke_user_sessions(a, target) \/ reset_user_password(a, target)
      PROVE  TypeOK'
  BY <1>5, BumpTypes, FinishTypes DEF TypeOK, revoke_user_sessions, reset_user_password
<1>6. ASSUME NEW a \in User, NEW target \in User, NEW requested \in RoleRequest,
             \/ bind_user_roles(a, target, requested)
             \/ unbind_user_roles(a, target, requested)
      PROVE  TypeOK'
  <2>1. Finish(a) /\ UNCHANGED <<exists, active, token_version, roles, registration>>
    BY <1>6 DEF bind_user_roles, unbind_user_roles
  <2>2. assigned' \in [User -> SUBSET Role]
    BY <1>6 DEF TypeOK, bind_user_roles, unbind_user_roles, RoleRequest
  <2>3. authz_version' \in [User -> Nat] /\ epoch' \in Nat
    BY <1>6, BumpTypes DEF TypeOK, bind_user_roles, unbind_user_roles
  <2> QED
    BY <2>1, <2>2, <2>3, FinishTypes DEF TypeOK
<1>7. ASSUME NEW a \in User, NEW r \in Role, NEW tier \in Tier, NEW name \in RoleName,
             create_role(a, r, tier, name)
      PROVE  TypeOK'
  <2>1. roles' \in [Role -> RoleRow]
    BY <1>7 DEF TypeOK, create_role, decide_role_create, RoleRow, RoleStatus
  <2> QED
    BY <1>7, <2>1, BumpTypes, FinishTypes DEF TypeOK, create_role, userVars
<1>8. ASSUME NEW a \in User, NEW r \in Role, NEW name \in RoleName,
             update_role(a, r, name)
      PROVE  TypeOK'
  <2> DEFINE row == [roles[r] EXCEPT !.name = name, !.version = roles[r].version + 1]
  <2>r. row \in RoleRow
    BY RowVersion DEF RoleRow
  <2>u. roles' = [roles EXCEPT ![r] = row] \/ roles' = roles
    BY <1>8 DEF update_role
  <2>1. roles' \in [Role -> RoleRow]
    <3> HIDE DEF row
    <3> QED BY <2>r, <2>u DEF TypeOK
  <2>2. epoch' \in Nat
    BY <1>8, BumpTypes DEF TypeOK, update_role
  <2> QED
    BY <1>8, <2>1, <2>2, FinishTypes DEF TypeOK, update_role, userVars
<1>9. ASSUME NEW r \in Role, NEW row \in RoleRow, bump_shared_authority(r, row)
      PROVE  /\ roles' \in [Role -> RoleRow]
             /\ authz_version' \in [User -> Nat]
             /\ epoch' \in Nat
  <2>r. [row EXCEPT !.version = roles[r].version + 1] \in RoleRow
    BY RowVersion DEF RoleRow
  <2>1. roles' \in [Role -> RoleRow]
    BY <1>9, <2>r DEF TypeOK, bump_shared_authority
  <2>2. HoldersOf(r) \in SUBSET User
    BY DEF TypeOK, HoldersOf
  <2> QED
    BY <1>9, <2>1, <2>2, BumpTypes DEF bump_shared_authority
<1>10. ASSUME NEW a \in User, NEW r \in Role, NEW is_active \in BOOLEAN,
              set_role_active(a, r, is_active)
       PROVE  TypeOK'
  <2>1. [roles[r] EXCEPT !.status = IF is_active THEN "active" ELSE "disabled"] \in RoleRow
    BY DEF TypeOK, RoleRow, RoleStatus
  <2>2. /\ roles' \in [Role -> RoleRow]
        /\ authz_version' \in [User -> Nat]
        /\ epoch' \in Nat
    BY <1>9, <1>10, <2>1 DEF TypeOK, set_role_active
  <2> QED
    BY <1>10, <2>2, FinishTypes DEF TypeOK, set_role_active
<1>11. ASSUME NEW a \in User, NEW r \in Role, soft_delete_role(a, r) PROVE TypeOK'
  <2>1. [roles[r] EXCEPT !.status = "deleted", !.permissions = {}] \in RoleRow
    BY DEF TypeOK, RoleRow, RoleStatus
  <2>2. /\ roles' \in [Role -> RoleRow]
        /\ authz_version' \in [User -> Nat]
        /\ epoch' \in Nat
    BY <1>9, <1>11, <2>1 DEF soft_delete_role
  <2> QED
    BY <1>11, <2>2, FinishTypes DEF TypeOK, soft_delete_role
<1>12. ASSUME NEW a \in User, NEW r \in Role, NEW operation \in {"bind", "unbind"},
              NEW requested \in PermissionRequest,
              change_role_permissions(a, r, operation, requested)
       PROVE  TypeOK'
  <2> DEFINE after == IF operation = "bind" THEN roles[r].permissions \cup requested
                                            ELSE roles[r].permissions \ requested
  <2>1. [roles[r] EXCEPT !.permissions = after] \in RoleRow
    <3>1. roles[r] \in RoleRow /\ requested \in SUBSET PermissionKey
      BY PermissionRequestAssumption DEF TypeOK
    <3>2. after \in SUBSET PermissionKey
      BY <3>1 DEF RoleRow
    <3> HIDE DEF after
    <3> QED
      BY <3>1, <3>2 DEF RoleRow
  <2>2. /\ roles' \in [Role -> RoleRow]
        /\ authz_version' \in [User -> Nat]
        /\ epoch' \in Nat
    BY <1>9, <1>12, <2>1 DEF TypeOK, change_role_permissions
  <2> QED
    BY <1>12, <2>2, FinishTypes DEF TypeOK, change_role_permissions
<1>13. ASSUME NEW u \in User, create_user_with_default_role(u),
              seen' \in [User -> [CustomRole -> RoleRow]],
              request' \in [User -> Nat \cup {NoRequest}]
       PROVE  TypeOK'
  <2>1. assigned' \in [User -> SUBSET Role]
    BY <1>13 DEF TypeOK, create_user_with_default_role, Role, SystemRoleKey
  <2> QED
    BY <1>13, <2>1, BumpTypes DEF TypeOK, create_user_with_default_role
<1>14. ASSUME NEW u \in User, register(u) PROVE TypeOK'
  BY <1>13, <1>14 DEF TypeOK, register
<1>15. ASSUME NEW a \in User, NEW u \in User, create_user_by_administrator(a, u)
       PROVE  TypeOK'
  BY <1>13, <1>15, FinishTypes DEF create_user_by_administrator
<1>16. ASSUME NEW a \in User, NEW enabled \in BOOLEAN, set_registration_enabled(a, enabled)
       PROVE  TypeOK'
  BY <1>16, FinishTypes DEF TypeOK, set_registration_enabled, userVars
<1>17. ASSUME NEW u \in User, bootstrap_super_admin(u) PROVE TypeOK'
  <2>1. assigned' \in [User -> SUBSET Role]
    BY <1>17 DEF TypeOK, bootstrap_super_admin, Role, SystemRoleKey
  <2> QED
    BY <1>17, <2>1, BumpTypes DEF TypeOK, bootstrap_super_admin
<1>18. ASSUME NEW old \in User, NEW new \in User, handover_super_admin(old, new)
       PROVE  TypeOK'
  <2>1. assigned' \in [User -> SUBSET Role]
    BY <1>18 DEF TypeOK, handover_super_admin, Role, SystemRoleKey
  <2> QED
    BY <1>18, <2>1, BumpTypes DEF TypeOK, handover_super_admin
<1>19. CASE UNCHANGED vars
  BY <1>19 DEF TypeOK, vars, dbVars, userVars
<1> QED
  BY <1>1, <1>2, <1>3, <1>4, <1>5, <1>6, <1>7, <1>8, <1>10, <1>11, <1>12, <1>14, <1>15,
     <1>16, <1>17, <1>18, <1>19
  DEF Next, UserAdministration, RoleAdministration, Operator

\* Every state variable keeps its type in every behaviour, and no operation ever
\* activates a user that was not created.
THEOREM TypeCorrect == Spec => []TypeOK
BY InitTypes, TypeStep, PTL DEF Spec

(***************************************************************************)
(* The inductive invariant of the authorization data.  The parts need each *)
(* other: that a super_admin cannot be disabled rests on its role being    *)
(* live and protected (SystemRolesImmutable), that dead roles are held by  *)
(* nobody on new users getting a live role.                                *)
(***************************************************************************)
Safety ==
    /\ TypeOK
    /\ BaseRoleHeld
    /\ SoleActiveSuperAdmin
    /\ DeadRolesHoldNothing
    /\ SystemRolesImmutable

\* Every seed satisfies the database constraints.
LEMMA InitSafety == Init => Safety
<1> SUFFICES ASSUME Init PROVE Safety
  OBVIOUS
<1>1. PICK seed \in Seed : /\ assigned = seed.assigned
                           /\ roles = seed.roles
                           /\ exists = {u \in User : seed.assigned[u] # {}}
                           /\ active = exists \ seed.disabled
  BY DEF Init
<1>2. BaseRoleHeld
  BY ZenonT(40), <1>1, SeedAssumption DEF BaseRoleHeld
<1>3. SoleActiveSuperAdmin
  BY ZenonT(40), <1>1, SeedAssumption DEF SoleActiveSuperAdmin, SuperAdminHolders
<1>4. SystemRolesImmutable
  <2>1. ASSUME NEW r \in CustomRole, roles[r].status # "absent"
        PROVE  /\ roles[r].tier \in 1..999
               /\ "registration:configure" \notin roles[r].permissions
    <3>1. seed.roles[r] # AbsentRole
      BY <1>1, <2>1 DEF AbsentRole
    <3>2. \/ seed.roles[r] = AbsentRole
          \/ /\ seed.roles[r].tier \in 1..999
             /\ "registration:configure" \notin seed.roles[r].permissions
      BY ZenonT(40), SeedAssumption
    <3> QED
      BY <1>1, <3>1, <3>2
  <2>2. \A r \in SystemRoleKey : roles[r] = SystemRoleRow(r)
    BY ZenonT(40), <1>1, SeedAssumption
  <2> QED
    BY <2>1, <2>2 DEF SystemRolesImmutable
<1>5. DeadRolesHoldNothing
  <2>1. ASSUME NEW r \in Role, roles[r].status \in {"absent", "deleted"}
        PROVE  roles[r] = AbsentRole
    <3>1. r \notin SystemRoleKey
      <4>1. ASSUME r \in SystemRoleKey PROVE roles[r].status = "active"
        <5>1. roles[r] = SystemRoleRow(r)
          BY <1>4, <4>1 DEF SystemRolesImmutable
        <5> QED
          BY <5>1 DEF SystemRoleRow
      <4> QED
        BY <2>1, <4>1
    <3>2. roles[r].status \notin LiveStatus
      BY <2>1 DEF LiveStatus
    <3> QED
      BY ZenonT(40), <1>1, <3>1, <3>2, SeedAssumption DEF Role
  <2>2. ASSUME NEW u \in User, NEW r \in assigned[u] PROVE roles[r].status \in LiveStatus
    BY ZenonT(40), <1>1, SeedAssumption
  <2> QED
    BY <2>1, <2>2 DEF DeadRolesHoldNothing, AbsentRole, LiveStatus
<1> QED
  BY <1>2, <1>3, <1>4, <1>5, InitTypes DEF Safety

\* The snapshot of a super_admin holder is protected, so it is not manageable.
LEMMA HolderIsProtected ==
    ASSUME Safety, NEW u \in User, "super_admin" \in assigned[u]
    PROVE  IsProtected(Latent(u))
<1>1. roles["super_admin"].status = "active"
  BY DEF Safety, SystemRolesImmutable, SystemRoleKey, SystemRoleRow
<1>2. load_role_grant("super_admin") \in Latent(u).roles
  BY <1>1 DEF Latent, load_authority_snapshot, LiveStatus
<1>3. is_protected(load_role_grant("super_admin"))
  BY DEF is_protected, load_role_grant
<1> QED
  BY <1>2, <1>3 DEF IsProtected

\* Steps that touch neither the users, nor their roles, nor the roles.
LEMMA UntouchedSafety ==
    ASSUME Safety, TypeOK', UNCHANGED <<exists, active, assigned, roles>>
    PROVE  Safety'
BY DEF Safety, BaseRoleHeld, SoleActiveSuperAdmin, SuperAdminHolders,
       DeadRolesHoldNothing, SystemRolesImmutable

\* A change of one custom role that leaves users and assignments alone.
LEMMA RoleRowSafety ==
    ASSUME Safety, TypeOK', NEW r \in CustomRole,
           UNCHANGED <<exists, active, assigned>>,
           \A x \in Role \ {r} : roles'[x] = roles[x],
           roles'[r].status \in LiveStatus, roles'[r].tier \in 1..999,
           "registration:configure" \notin roles'[r].permissions
    PROVE  Safety'
<1>1. r \in Role \ SystemRoleKey
  BY CustomRoleAssumption DEF Role
<1>2. BaseRoleHeld' /\ SoleActiveSuperAdmin'
  BY DEF Safety, BaseRoleHeld, SoleActiveSuperAdmin, SuperAdminHolders
<1>3. DeadRolesHoldNothing'
  BY <1>1 DEF Safety, DeadRolesHoldNothing, LiveStatus
<1>4. SystemRolesImmutable'
  <2>1. \A x \in SystemRoleKey : roles'[x] = roles[x]
    BY <1>1 DEF Role
  <2>2. \A x \in CustomRole \ {r} : roles'[x] = roles[x]
    BY DEF Role
  <2>3. SystemRolesImmutable
    BY DEF Safety
  <2>4. \A x \in SystemRoleKey : roles'[x] = SystemRoleRow(x)
    BY <2>1, <2>3 DEF SystemRolesImmutable
  <2>5. ASSUME NEW x \in CustomRole, roles'[x].status # "absent"
        PROVE  /\ roles'[x].tier \in 1..999
               /\ "registration:configure" \notin roles'[x].permissions
    <3>1. CASE x = r
      BY <3>1
    <3>2. CASE x # r
      <4>1. roles'[x] = roles[x]
        BY <2>2, <3>2
      <4>2. roles[x].status # "absent" =>
               /\ roles[x].tier \in 1..999
               /\ "registration:configure" \notin roles[x].permissions
        BY ZenonT(40), <2>3 DEF SystemRolesImmutable
      <4> QED
        BY <2>5, <4>1, <4>2
    <3> QED
      BY <3>1, <3>2
  <2> QED
    BY <2>4, <2>5 DEF SystemRolesImmutable, SystemRoleRow
<1> QED
  BY <1>2, <1>3, <1>4 DEF Safety

\* What bump_shared_authority makes of the row it is given.
LEMMA BumpedRow ==
    ASSUME TypeOK, NEW r \in Role, NEW row \in RoleRow, bump_shared_authority(r, row)
    PROVE  /\ \A x \in Role \ {r} : roles'[x] = roles[x]
           /\ roles'[r].status = row.status
           /\ roles'[r].tier = row.tier
           /\ roles'[r].permissions = row.permissions
           /\ roles'[r].version = roles[r].version + 1
<1>1. roles' = [roles EXCEPT ![r] = [row EXCEPT !.version = roles[r].version + 1]]
  BY DEF bump_shared_authority
<1>2. /\ \A x \in Role \ {r} : roles'[x] = roles[x]
      /\ roles'[r] = [row EXCEPT !.version = roles[r].version + 1]
  BY <1>1 DEF TypeOK
<1> QED
  BY <1>2 DEF RoleRow

\* No transaction breaks the database constraints.
LEMMA SafetyStep == Safety /\ [Next]_vars => Safety'
<1> SUFFICES ASSUME Safety, [Next]_vars PROVE Safety'
  OBVIOUS
<1>t. TypeOK /\ TypeOK'
  BY TypeStep DEF Safety
<1>1. ASSUME NEW a \in User, ReadRoles(a) \/ Authenticate(a) \/ Refuse(a)
      PROVE  Safety'
  BY <1>1, <1>t, UntouchedSafety DEF ReadRoles, Authenticate, Refuse, dbVars, userVars
<1>2. ASSUME NEW a \in User, NEW target \in User, NEW is_active \in BOOLEAN,
             update_user_status(a, target, is_active)
      PROVE  Safety'
  <2>1. "super_admin" \notin assigned[target]
    BY <1>2, HolderIsProtected DEF update_user_status, decide_user_administration, Manageable
  <2>2. /\ UNCHANGED <<exists, assigned, roles>>
        /\ active \ {target} \subseteq active'
    BY <1>2 DEF update_user_status
  <2>3. SoleActiveSuperAdmin'
    BY <2>1, <2>2 DEF Safety, SoleActiveSuperAdmin, SuperAdminHolders
  <2> QED
    BY <1>t, <2>2, <2>3 DEF Safety, BaseRoleHeld, DeadRolesHoldNothing, SystemRolesImmutable
<1>3. ASSUME NEW a \in User, NEW target \in User,
             revoke_user_sessions(a, target) \/ reset_user_password(a, target)
      PROVE  Safety'
  BY <1>3, <1>t, UntouchedSafety DEF revoke_user_sessions, reset_user_password
<1>4. ASSUME NEW a \in User, NEW target \in User, NEW requested \in RoleRequest,
             bind_user_roles(a, target, requested)
      PROVE  Safety'
  <2> DEFINE changed == requested \ (requested \cap assigned[target])
  <2>1. /\ UNCHANGED <<exists, active, roles>>
        /\ assigned' = [assigned EXCEPT ![target] = assigned[target] \cup changed]
              \/ assigned' = assigned
        /\ target \in exists
        /\ \A r \in changed : roles[r].status = "active"
    BY <1>4 DEF bind_user_roles, lock_actor_and_target_user
  <2>2. ASSUME NEW r \in requested PROVE r # "super_admin"
    <3>1. MayChangeRole("bind", Effective(a), load_role_grant(r))
      BY <1>4 DEF bind_user_roles, decide_role_change
    <3> QED
      BY <3>1 DEF MayChangeRole, load_role_grant
  <2>3. SuperAdminHolders' = SuperAdminHolders
    <3>1. \A u \in User : "super_admin" \in assigned'[u] <=> "super_admin" \in assigned[u]
      BY <1>t, <2>1, <2>2 DEF TypeOK
    <3> QED
      BY <1>t, <2>1, <3>1 DEF SuperAdminHolders, TypeOK
  <2>4. BaseRoleHeld'
    BY ZenonT(40), <1>t, <2>1 DEF Safety, BaseRoleHeld, TypeOK
  <2>5. DeadRolesHoldNothing'
    BY <1>t, <2>1 DEF Safety, DeadRolesHoldNothing, TypeOK
  <2> QED
    BY <1>t, <2>1, <2>3, <2>4, <2>5 DEF Safety, SoleActiveSuperAdmin, SystemRolesImmutable
<1>5. ASSUME NEW a \in User, NEW target \in User, NEW requested \in RoleRequest,
             unbind_user_roles(a, target, requested)
      PROVE  Safety'
  <2> DEFINE changed == requested \cap assigned[target]
  <2>1. /\ UNCHANGED <<exists, active, roles>>
        /\ assigned' = [assigned EXCEPT ![target] = assigned[target] \ changed]
              \/ assigned' = assigned
    BY <1>5 DEF unbind_user_roles
  <2>2. ASSUME NEW r \in requested PROVE r # "super_admin" /\ r # "user"
    <3>1. MayChangeRole("unbind", Effective(a), load_role_grant(r))
      BY <1>5 DEF unbind_user_roles, decide_role_change
    <3> QED
      BY <3>1 DEF MayChangeRole, load_role_grant
  <2>3. SuperAdminHolders' = SuperAdminHolders
    <3>1. \A u \in User : "super_admin" \in assigned'[u] <=> "super_admin" \in assigned[u]
      <4>1. "super_admin" \notin changed
        BY <2>2
      <4> HIDE DEF changed
      <4> QED
        BY <1>t, <2>1, <4>1 DEF TypeOK
    <3> QED
      BY <1>t, <2>1, <3>1 DEF SuperAdminHolders, TypeOK
  <2>4. BaseRoleHeld'
    <3>1. "user" \notin changed
      BY <2>2
    <3> HIDE DEF changed
    <3> QED
      BY ZenonT(40), <1>t, <2>1, <3>1 DEF Safety, BaseRoleHeld, TypeOK
  <2>5. DeadRolesHoldNothing'
    BY ZenonT(40), <1>t, <2>1 DEF Safety, DeadRolesHoldNothing, TypeOK
  <2> QED
    BY <1>t, <2>1, <2>3, <2>4, <2>5 DEF Safety, SoleActiveSuperAdmin, SystemRolesImmutable
<1>6. ASSUME NEW a \in User, NEW r \in Role, NEW tier \in Tier, NEW name \in RoleName,
             create_role(a, r, tier, name)
      PROVE  Safety'
  <2>1. r \in CustomRole /\ tier \in 1..999
    BY <1>6 DEF create_role, decide_role_create, Role
  <2>2. /\ UNCHANGED <<exists, active, assigned>>
        /\ \A x \in Role \ {r} : roles'[x] = roles[x]
        /\ roles'[r].status = "active"
        /\ roles'[r].tier = tier
        /\ roles'[r].permissions = {}
    BY <1>6, <1>t DEF create_role, userVars, TypeOK
  <2> QED
    BY <1>t, <2>1, <2>2, RoleRowSafety DEF LiveStatus
<1>7. ASSUME NEW a \in User, NEW r \in Role, NEW name \in RoleName,
             update_role(a, r, name)
      PROVE  Safety'
  <2>1. r \in CustomRole /\ roles[r].status \in LiveStatus
    BY <1>7 DEF update_role, require_expected_role_version, require_role_administration,
                lock_shared_role_change
  <2>2. /\ UNCHANGED <<exists, active, assigned>>
        /\ \A x \in Role \ {r} : roles'[x] = roles[x]
        /\ roles'[r].status = roles[r].status
        /\ roles'[r].tier = roles[r].tier
        /\ roles'[r].permissions = roles[r].permissions
    <3> DEFINE row == [roles[r] EXCEPT !.name = name, !.version = roles[r].version + 1]
    <3>1. roles' = [roles EXCEPT ![r] = row] \/ roles' = roles
      BY <1>7 DEF update_role
    <3>2. /\ row.status = roles[r].status
          /\ row.tier = roles[r].tier
          /\ row.permissions = roles[r].permissions
      BY <1>t, RowVersion DEF RoleRow
    <3> HIDE DEF row
    <3> QED
      BY <1>7, <1>t, <3>1, <3>2 DEF update_role, userVars, TypeOK
  <2>3. roles[r].tier \in 1..999 /\ "registration:configure" \notin roles[r].permissions
    BY <2>1 DEF Safety, SystemRolesImmutable, LiveStatus
  <2> QED
    BY <1>t, <2>1, <2>2, <2>3, RoleRowSafety
<1>8. ASSUME NEW a \in User, NEW r \in Role, NEW is_active \in BOOLEAN,
             set_role_active(a, r, is_active)
      PROVE  Safety'
  <2>1. r \in CustomRole /\ roles[r].status \in LiveStatus
    BY <1>8 DEF set_role_active, require_expected_role_version, require_role_administration,
                lock_shared_role_change
  <2>2. /\ UNCHANGED <<exists, active, assigned>>
        /\ \A x \in Role \ {r} : roles'[x] = roles[x]
        /\ roles'[r].status \in LiveStatus
        /\ roles'[r].tier = roles[r].tier
        /\ roles'[r].permissions = roles[r].permissions
    <3> DEFINE row ==
          [roles[r] EXCEPT !.status = IF is_active THEN "active" ELSE "disabled"]
    <3>1. /\ row \in RoleRow
          /\ row.status \in LiveStatus
          /\ row.tier = roles[r].tier
          /\ row.permissions = roles[r].permissions
      BY <1>t, RowVersion DEF RoleRow, RoleStatus, LiveStatus
    <3>2. bump_shared_authority(r, row) \/ roles' = roles
      BY <1>8 DEF set_role_active
    <3> HIDE DEF row
    <3> QED
      BY <1>8, <1>t, <2>1, <3>1, <3>2, BumpedRow DEF set_role_active
  <2>3. roles[r].tier \in 1..999 /\ "registration:configure" \notin roles[r].permissions
    BY <2>1 DEF Safety, SystemRolesImmutable, LiveStatus
  <2> QED
    BY <1>t, <2>1, <2>2, <2>3, RoleRowSafety
<1>9. ASSUME NEW a \in User, NEW r \in Role, soft_delete_role(a, r) PROVE Safety'
  <2>1. r \in CustomRole /\ r \notin SystemRoleKey /\ roles[r].status \in LiveStatus
    BY <1>9, CustomRoleAssumption
    DEF soft_delete_role, require_expected_role_version, require_role_administration,
        lock_shared_role_change
  <2>2. /\ UNCHANGED <<exists, active>>
        /\ assigned' = [u \in User |-> assigned[u] \ {r}]
        /\ \A x \in Role \ {r} : roles'[x] = roles[x]
        /\ roles'[r].tier = roles[r].tier
        /\ roles'[r].permissions = {}
    <3> DEFINE row == [roles[r] EXCEPT !.status = "deleted", !.permissions = {}]
    <3>1. row \in RoleRow /\ row.tier = roles[r].tier /\ row.permissions = {}
      BY <1>t, RowVersion DEF RoleRow, RoleStatus
    <3>2. bump_shared_authority(r, row)
      BY <1>9 DEF soft_delete_role
    <3> HIDE DEF row
    <3> QED
      BY <1>9, <1>t, <3>1, <3>2, BumpedRow DEF soft_delete_role
  <2>3. SoleActiveSuperAdmin' /\ BaseRoleHeld'
    BY <1>t, <2>1, <2>2
    DEF Safety, SoleActiveSuperAdmin, SuperAdminHolders, BaseRoleHeld, SystemRoleKey, TypeOK
  <2>4. DeadRolesHoldNothing'
    BY <1>t, <2>2 DEF Safety, DeadRolesHoldNothing, TypeOK
  <2>5. SystemRolesImmutable'
    BY <2>1, <2>2 DEF Safety, SystemRolesImmutable, Role, LiveStatus
  <2> QED
    BY <1>t, <2>3, <2>4, <2>5 DEF Safety
<1>10. ASSUME NEW a \in User, NEW r \in Role, NEW operation \in {"bind", "unbind"},
              NEW requested \in PermissionRequest,
              change_role_permissions(a, r, operation, requested)
       PROVE  Safety'
  <2> DEFINE after == IF operation = "bind" THEN roles[r].permissions \cup requested
                                            ELSE roles[r].permissions \ requested
  <2>1. /\ r \in CustomRole
        /\ roles[r].status = "active"
        /\ "registration:configure" \notin after
    BY <1>10 DEF change_role_permissions, require_expected_role_version,
                 lock_shared_role_change, decide_role_permissions_change
  <2>2. /\ UNCHANGED <<exists, active, assigned>>
        /\ \A x \in Role \ {r} : roles'[x] = roles[x]
        /\ roles'[r].status = roles[r].status
        /\ roles'[r].tier = roles[r].tier
        /\ roles'[r].permissions = after
    <3> DEFINE row == [roles[r] EXCEPT !.permissions = after]
    <3>1. after \in SUBSET PermissionKey
      BY <1>t, RowVersion, PermissionRequestAssumption DEF RoleRow
    <3>2. \/ bump_shared_authority(r, row)
          \/ roles' = roles /\ after = roles[r].permissions
      BY <1>10 DEF change_role_permissions
    <3> HIDE DEF after
    <3>3. /\ row \in RoleRow
          /\ row.status = roles[r].status
          /\ row.tier = roles[r].tier
          /\ row.permissions = after
      BY <1>t, <3>1, RowVersion DEF RoleRow
    <3> HIDE DEF row
    <3> QED
      BY <1>10, <1>t, <3>2, <3>3, BumpedRow DEF change_role_permissions
  <2>3. roles[r].tier \in 1..999
    BY <2>1 DEF Safety, SystemRolesImmutable
  <2> QED
    BY <1>t, <2>1, <2>2, <2>3, RoleRowSafety DEF LiveStatus
<1>11. ASSUME NEW u \in User, create_user_with_default_role(u) PROVE Safety'
  <2>1. /\ u \notin exists
        /\ exists' = exists \cup {u}
        /\ active' = active \cup {u}
        /\ assigned' = [assigned EXCEPT ![u] = {"user"}]
        /\ roles' = roles
    BY <1>11 DEF create_user_with_default_role
  <2>2. roles["user"].status = "active"
    BY DEF Safety, SystemRolesImmutable, SystemRoleKey, SystemRoleRow
  <2>3. SoleActiveSuperAdmin' /\ BaseRoleHeld'
    BY <1>t, <2>1 DEF Safety, SoleActiveSuperAdmin, SuperAdminHolders, BaseRoleHeld, TypeOK
  <2>4. DeadRolesHoldNothing'
    BY <1>t, <2>1, <2>2 DEF Safety, DeadRolesHoldNothing, TypeOK
  <2> QED
    BY ZenonT(40), <1>t, <2>1, <2>3, <2>4 DEF Safety, SystemRolesImmutable
<1>12. ASSUME NEW a \in User, NEW enabled \in BOOLEAN, set_registration_enabled(a, enabled)
       PROVE  Safety'
  BY <1>12, <1>t, UntouchedSafety DEF set_registration_enabled, userVars
<1>13. roles["super_admin"].status = "active"
  BY DEF Safety, SystemRolesImmutable, SystemRoleKey, SystemRoleRow
<1>14. ASSUME NEW u \in User, bootstrap_super_admin(u) PROVE Safety'
  <2>1. /\ u \in active
        /\ SuperAdminHolders = {}
        /\ assigned' = [assigned EXCEPT ![u] = assigned[u] \cup {"super_admin"}]
        /\ UNCHANGED <<exists, active, roles>>
    BY <1>14 DEF bootstrap_super_admin
  <2>2. SoleActiveSuperAdmin' /\ BaseRoleHeld'
    BY <1>t, <2>1 DEF Safety, SoleActiveSuperAdmin, SuperAdminHolders, BaseRoleHeld, TypeOK
  <2>3. DeadRolesHoldNothing'
    BY <1>t, <1>13, <2>1 DEF Safety, DeadRolesHoldNothing, TypeOK
  <2> QED
    BY ZenonT(40), <1>t, <2>1, <2>2, <2>3 DEF Safety, SystemRolesImmutable
<1>15. ASSUME NEW old \in User, NEW new \in User, handover_super_admin(old, new)
       PROVE  Safety'
  <2>1. /\ old # new /\ new \in active
        /\ SuperAdminHolders = {old}
        /\ assigned' = [assigned EXCEPT ![old] = assigned[old] \ {"super_admin"},
                                        ![new] = assigned[new] \cup {"super_admin"}]
        /\ UNCHANGED <<exists, active, roles>>
    BY <1>15 DEF handover_super_admin
  <2>2. SoleActiveSuperAdmin' /\ BaseRoleHeld'
    BY <1>t, <2>1 DEF Safety, SoleActiveSuperAdmin, SuperAdminHolders, BaseRoleHeld, TypeOK
  <2>3. DeadRolesHoldNothing'
    BY <1>t, <1>13, <2>1 DEF Safety, DeadRolesHoldNothing, TypeOK
  <2> QED
    BY ZenonT(40), <1>t, <2>1, <2>2, <2>3 DEF Safety, SystemRolesImmutable
<1>16. CASE UNCHANGED vars
  BY <1>16, <1>t, UntouchedSafety DEF vars, dbVars, userVars
<1> QED
  BY <1>1, <1>2, <1>3, <1>4, <1>5, <1>6, <1>7, <1>8, <1>9, <1>10, <1>11, <1>12, <1>14,
     <1>15, <1>16
  DEF Next, UserAdministration, RoleAdministration, Operator, register,
      create_user_by_administrator

\* The database constraints hold in every reachable state.
LEMMA SafetyHolds == Spec => []Safety
BY InitSafety, SafetyStep, PTL DEF Spec

\* Every user keeps the mandatory role through every operation, so the deferred
\* trigger ct_users_require_base_role never refuses a transaction.
THEOREM BaseRoleAlwaysHeld == Spec => []BaseRoleHeld
BY SafetyHolds, PTL DEF Safety

\* At most one user holds super_admin, and that user is active.
THEOREM SuperAdminUniqueAndActive == Spec => []SoleActiveSuperAdmin
BY SafetyHolds, PTL DEF Safety

\* Nobody holds a role that was deleted or never created.
THEOREM DeadRolesStayEmpty == Spec => []DeadRolesHoldNothing
BY SafetyHolds, PTL DEF Safety

\* System roles keep their migrated rows, registration:configure stays with
\* super_admin, and every custom role stays strictly below it.
THEOREM SystemRolesStay == Spec => []SystemRolesImmutable
BY SafetyHolds, PTL DEF Safety

(***************************************************************************)
(* Requests: who acts in a step.                                           *)
(***************************************************************************)
LEMMA FinishActor ==
    ASSUME TypeOK, NEW a \in User, NEW b \in User, Finish(b), Acting(a)
    PROVE  a = b
BY DEF TypeOK, Finish, Acting

\* A step that ends a request and changes the database passed require_current_actor.
LEMMA CommitIsCurrent ==
    ASSUME TypeOK, [Next]_vars, NEW a \in User, Commits(a)
    PROVE  a \in active /\ token_version[a] = request[a]
<1> DEFINE Goal == a \in active /\ token_version[a] = request[a]
<1>1. Acting(a) /\ dbVars' # dbVars
  BY DEF Commits
<1>2. ASSUME NEW b \in User, Finish(b), require_current_actor(b) PROVE Goal
  BY <1>1, <1>2, FinishActor DEF require_current_actor
<1>3. request' # request
  BY <1>1 DEF Acting
<1>4. ASSUME NEW b \in User, ReadRoles(b) \/ Authenticate(b) \/ Refuse(b) PROVE Goal
  BY <1>1, <1>4 DEF ReadRoles, Authenticate, Refuse
<1>5. ASSUME NEW b \in User, NEW target \in User, UserAdministration(b, target)
      PROVE  Goal
  <2>1. Finish(b) /\ require_current_actor(b)
    BY <1>5 DEF UserAdministration, update_user_status, revoke_user_sessions,
                reset_user_password, bind_user_roles, unbind_user_roles,
                create_user_by_administrator, lock_actor_and_target_user
  <2> QED
    BY <1>2, <2>1
<1>6. ASSUME NEW b \in User, NEW r \in Role, RoleAdministration(b, r) PROVE Goal
  <2>1. Finish(b) /\ require_current_actor(b)
    BY <1>6 DEF RoleAdministration, create_role, update_role, set_role_active,
                soft_delete_role, change_role_permissions, require_role_administration,
                lock_shared_role_change
  <2> QED
    BY <1>2, <2>1
<1>7. ASSUME NEW b \in User, NEW enabled \in BOOLEAN, set_registration_enabled(b, enabled)
      PROVE  Goal
  BY <1>2, <1>7 DEF set_registration_enabled
<1>8. ASSUME NEW u \in User, register(u) PROVE Goal
  BY <1>3, <1>8 DEF register
<1>9. CASE Operator
  BY <1>3, <1>9 DEF Operator, bootstrap_super_admin, handover_super_admin
<1>10. CASE UNCHANGED vars
  BY <1>3, <1>10 DEF vars
<1> QED
  BY <1>4, <1>5, <1>6, <1>7, <1>8, <1>9, <1>10 DEF Next

\* Whatever was captured when a request was authenticated, the transaction that
\* commits it saw its user active and at that same token version.
THEOREM RevocationIsImmediate == Spec => RevokedRequestChangesNothing
<1>1. TypeOK /\ [Next]_vars =>
        [\A a \in User : Commits(a) => a \in active /\ token_version[a] = request[a]]_vars
  BY CommitIsCurrent
<1> QED
  BY <1>1, TypeCorrect, PTL DEF Spec, RevokedRequestChangesNothing

(***************************************************************************)
(* Optimistic versions of shared roles.                                    *)
(***************************************************************************)

\* A change of an existing custom role moves its version by one and was asked for
\* by a client whose expected version is the present one.
LEMMA RoleChange ==
    ASSUME TypeOK, [Next]_vars, NEW r \in CustomRole,
           roles'[r] # roles[r], roles[r].status # "absent"
    PROVE  /\ roles'[r].version = roles[r].version + 1
           /\ roles'[r].status # "absent"
           /\ \E b \in User : Finish(b) /\ require_expected_role_version(b, r)
<1> DEFINE Goal == /\ roles'[r].version = roles[r].version + 1
                   /\ roles'[r].status # "absent"
                   /\ \E b \in User : Finish(b) /\ require_expected_role_version(b, r)
<1>r. r \in Role
  BY DEF Role
<1>1. roles' # roles
  OBVIOUS
<1>2. ASSUME NEW x \in Role, NEW row \in RoleRow, roles' = [roles EXCEPT ![x] = row]
      PROVE  x = r /\ roles'[r] = row
  BY <1>2, <1>r DEF TypeOK
<1>3. ASSUME NEW x \in Role, NEW row \in RoleRow, bump_shared_authority(x, row),
             row.status # "absent"
      PROVE  /\ x = r
             /\ roles'[r].version = roles[r].version + 1
             /\ roles'[r].status # "absent"
  BY <1>3, <1>r, BumpedRow
<1>4. ASSUME NEW b \in User, NEW x \in Role, NEW tier \in Tier, NEW name \in RoleName,
             create_role(b, x, tier, name)
      PROVE  Goal
  BY <1>4, <1>r DEF create_role, TypeOK
<1>5. ASSUME NEW b \in User, NEW x \in Role, NEW name \in RoleName, update_role(b, x, name)
      PROVE  Goal
  <2> DEFINE row == [roles[x] EXCEPT !.name = name, !.version = roles[x].version + 1]
  <2>1. /\ row \in RoleRow
        /\ row.status = roles[x].status
        /\ row.version = roles[x].version + 1
    BY RowVersion DEF RoleRow
  <2>2. /\ roles' = [roles EXCEPT ![x] = row]
        /\ Finish(b) /\ require_expected_role_version(b, x)
    BY <1>1, <1>5 DEF update_role
  <2> HIDE DEF row
  <2> QED
    BY <1>2, <2>1, <2>2
<1>6. ASSUME NEW b \in User, NEW x \in Role, NEW is_active \in BOOLEAN,
             set_role_active(b, x, is_active)
      PROVE  Goal
  <2> DEFINE row == [roles[x] EXCEPT !.status = IF is_active THEN "active" ELSE "disabled"]
  <2>1. row \in RoleRow /\ row.status # "absent"
    BY RowVersion DEF RoleRow, RoleStatus
  <2>2. /\ bump_shared_authority(x, row)
        /\ Finish(b) /\ require_expected_role_version(b, x)
    BY <1>1, <1>6 DEF set_role_active
  <2> HIDE DEF row
  <2> QED
    BY <1>3, <2>1, <2>2
<1>7. ASSUME NEW b \in User, NEW x \in Role, soft_delete_role(b, x) PROVE Goal
  <2> DEFINE row == [roles[x] EXCEPT !.status = "deleted", !.permissions = {}]
  <2>1. row \in RoleRow /\ row.status # "absent"
    BY RowVersion DEF RoleRow, RoleStatus
  <2>2. /\ bump_shared_authority(x, row)
        /\ Finish(b) /\ require_expected_role_version(b, x)
    BY <1>7 DEF soft_delete_role
  <2> HIDE DEF row
  <2> QED
    BY <1>3, <2>1, <2>2
<1>8. ASSUME NEW b \in User, NEW x \in Role, NEW operation \in {"bind", "unbind"},
             NEW requested \in PermissionRequest,
             change_role_permissions(b, x, operation, requested)
      PROVE  Goal
  <2> DEFINE after == IF operation = "bind" THEN roles[x].permissions \cup requested
                                            ELSE roles[x].permissions \ requested
             row == [roles[x] EXCEPT !.permissions = after]
  <2>1. after \in SUBSET PermissionKey
    BY RowVersion, PermissionRequestAssumption DEF RoleRow
  <2>2. /\ bump_shared_authority(x, row)
        /\ Finish(b) /\ require_expected_role_version(b, x)
        /\ roles[x].status = "active"
    BY <1>1, <1>8 DEF change_role_permissions, lock_shared_role_change
  <2> HIDE DEF after
  <2>3. row \in RoleRow /\ row.status = roles[x].status
    BY <2>1, RowVersion DEF RoleRow
  <2> HIDE DEF row
  <2> QED
    BY <1>3, <2>2, <2>3
<1>9. CASE UNCHANGED vars
  BY <1>1, <1>9 DEF vars, dbVars
<1>10. ASSUME NEW b \in User, ReadRoles(b) \/ Authenticate(b) \/ Refuse(b) PROVE Goal
  BY <1>1, <1>10 DEF ReadRoles, Authenticate, Refuse, dbVars
<1>11. ASSUME NEW b \in User, NEW target \in User, UserAdministration(b, target)
       PROVE  Goal
  BY <1>1, <1>11 DEF UserAdministration, update_user_status, revoke_user_sessions,
        reset_user_password, bind_user_roles, unbind_user_roles,
        create_user_by_administrator, create_user_with_default_role
<1>12. ASSUME NEW b \in User, NEW x \in Role, RoleAdministration(b, x) PROVE Goal
  BY <1>4, <1>5, <1>6, <1>7, <1>8, <1>12 DEF RoleAdministration
<1>13. ASSUME NEW u \in User, register(u) PROVE Goal
  BY <1>1, <1>13 DEF register, create_user_with_default_role
<1>14. CASE Operator
  BY <1>1, <1>14 DEF Operator, bootstrap_super_admin, handover_super_admin
<1>15. ASSUME NEW b \in User, NEW enabled \in BOOLEAN, set_registration_enabled(b, enabled)
       PROVE  Goal
  BY <1>1, <1>15 DEF set_registration_enabled
<1> QED
  BY <1>9, <1>10, <1>11, <1>12, <1>13, <1>14, <1>15 DEF Next

\* What a client has read is the present row or an older version of it.
ReadsAreConsistent ==
    \A b \in User, r \in CustomRole : seen[b][r].status # "absent" =>
        /\ roles[r].status # "absent"
        /\ seen[b][r].version <= roles[r].version
        /\ seen[b][r].version = roles[r].version => seen[b][r] = roles[r]

\* seen only changes in ReadRoles, which leaves the roles alone.
LEMMA SeenChange ==
    ASSUME [Next]_vars, seen' # seen
    PROVE  \E b \in User : ReadRoles(b)
<1>1. ASSUME NEW b \in User, NEW target \in User, UserAdministration(b, target)
      PROVE  seen' = seen
  BY <1>1 DEF UserAdministration, update_user_status, revoke_user_sessions,
        reset_user_password, bind_user_roles, unbind_user_roles,
        create_user_by_administrator, Finish
<1>2. ASSUME NEW b \in User, NEW r \in Role, RoleAdministration(b, r) PROVE seen' = seen
  BY <1>2 DEF RoleAdministration, create_role, update_role, set_role_active,
        soft_delete_role, change_role_permissions, Finish
<1>3. Operator => seen' = seen
  BY DEF Operator, bootstrap_super_admin, handover_super_admin
<1> QED
  BY <1>1, <1>2, <1>3 DEF Next, Authenticate, Refuse, set_registration_enabled, register,
        Finish, vars

\* What clients have read stays a past state of the role, or its present one.
LEMMA ReadsStep == TypeOK /\ ReadsAreConsistent /\ [Next]_vars => ReadsAreConsistent'
<1> SUFFICES ASSUME TypeOK, ReadsAreConsistent, [Next]_vars,
                    NEW b \in User, NEW r \in CustomRole, seen'[b][r].status # "absent"
             PROVE  /\ roles'[r].status # "absent"
                    /\ seen'[b][r].version <= roles'[r].version
                    /\ seen'[b][r].version = roles'[r].version => seen'[b][r] = roles'[r]
  BY DEF ReadsAreConsistent
<1>1. r \in Role /\ roles[r] \in RoleRow /\ seen[b][r] \in RoleRow
  BY DEF TypeOK, Role
<1>2. roles[r].version \in Nat /\ seen[b][r].version \in Nat
  BY <1>1 DEF RoleRow
<1>3. CASE seen' # seen
  <2>1. PICK c \in User : ReadRoles(c)
    BY <1>3, SeenChange
  <2>2. roles' = roles
    BY <2>1 DEF ReadRoles, dbVars
  <2>3. seen'[b][r] = seen[b][r] \/ (seen'[b][r] = roles[r] /\ roles[r].status \in LiveStatus)
    BY <2>1 DEF ReadRoles, TypeOK
  <2> QED
    BY <1>2, <2>2, <2>3 DEF ReadsAreConsistent, LiveStatus
<1>4. CASE seen' = seen
  <2>1. CASE roles'[r] = roles[r]
    BY <1>4, <2>1 DEF ReadsAreConsistent
  <2>2. CASE roles'[r] # roles[r]
    <3>1. roles[r].status # "absent" /\ seen[b][r].version <= roles[r].version
      BY <1>4 DEF ReadsAreConsistent
    <3>2. roles'[r].version = roles[r].version + 1 /\ roles'[r].status # "absent"
      BY <2>2, <3>1, RoleChange
    <3> QED
      BY <1>2, <1>4, <3>1, <3>2
  <2> QED
    BY <2>1, <2>2
<1> QED
  BY <1>3, <1>4

\* A committed change of a shared role never overwrites a row its client had not
\* seen: equal versions mean equal rows, because every change moves the version.
THEOREM NoUpdateIsLost == Spec => NoLostUpdate
<1>1. Init => ReadsAreConsistent
  BY DEF Init, ReadsAreConsistent, AbsentRole
<1>2. TypeOK /\ ReadsAreConsistent /\ [Next]_vars =>
        [\A a \in User, r \in CustomRole :
          Commits(a) /\ roles[r].status # "absent" /\ roles'[r] # roles[r]
          => seen[a][r] = roles[r]]_vars
  <2> SUFFICES ASSUME TypeOK, ReadsAreConsistent, [Next]_vars,
                      NEW a \in User, NEW r \in CustomRole,
                      Commits(a), roles[r].status # "absent", roles'[r] # roles[r]
               PROVE  seen[a][r] = roles[r]
    OBVIOUS
  <2>1. PICK b \in User : Finish(b) /\ require_expected_role_version(b, r)
    BY RoleChange
  <2>2. a = b
    BY <2>1, FinishActor DEF Commits
  <2> QED
    BY <2>1, <2>2 DEF ReadsAreConsistent, require_expected_role_version
<1> QED
  BY <1>1, <1>2, ReadsStep, TypeCorrect, PTL DEF Spec, NoLostUpdate

(***************************************************************************)
(* Tiers.  That management_tier is the largest tier held rests on every    *)
(* tier being a number up to 1000, so that a largest one exists.           *)
(***************************************************************************)
\* A set of natural numbers has a least member.
LEMMA LeastMember ==
    ASSUME NEW T, T \subseteq Nat, T # {}
    PROVE  \E x \in T : \A y \in T : x <= y
<1>1. ASSUME NEW R, NEW S, IsWellFoundedOn(R, S), T \subseteq S
      PROVE  \E x \in T : \A y \in T : ~ (<<y, x>> \in R)
  BY <1>1, WFMin
<1>2. PICK x \in T : \A y \in T : ~ (<<y, x>> \in OpToRel(<, Nat))
  BY <1>1, NatLessThanWellFounded, Zenon
<1>3. ASSUME NEW y \in T PROVE ~(y < x)
  BY <1>2 DEF OpToRel
<1> QED
  BY <1>3

\* A non-empty set of numbers up to 1000 has a largest member.
LEMMA LargestMember ==
    ASSUME NEW T, T \subseteq 0..1000, T # {}
    PROVE  \E x \in T : \A y \in T : y <= x
<1> DEFINE below == {1000 - t : t \in T}
<1>1. below \subseteq Nat /\ below # {}
  <2>1. \A t \in T : 1000 - t \in Nat
    OBVIOUS
  <2>2. PICK t \in T : TRUE
    OBVIOUS
  <2>3. 1000 - t \in below
    OBVIOUS
  <2> QED
    BY <2>1, <2>3
<1>2. PICK m \in below : \A y \in below : m <= y
  <2> HIDE DEF below
  <2> QED
    BY <1>1, LeastMember, ZenonT(30)
<1>3. PICK x \in T : m = 1000 - x
  OBVIOUS
<1>4. ASSUME NEW y \in T PROVE y <= x
  <2>1. 1000 - y \in below
    OBVIOUS
  <2>2. m <= 1000 - y
    BY <1>2, <2>1
  <2> QED
    BY <1>3, <2>2
<1> QED
  BY <1>4

\* The tier of a snapshot is the largest of its roles' tiers.
LEMMA TierIsLargest ==
    ASSUME NEW s, \A g \in s.roles : g.management_tier \in 0..1000
    PROVE  /\ management_tier(s) \in 0..1000
           /\ \A g \in s.roles : g.management_tier <= management_tier(s)
           /\ \/ management_tier(s) = 0
              \/ \E g \in s.roles : g.management_tier = management_tier(s)
<1> DEFINE tiers == {0} \cup {g.management_tier : g \in s.roles}
<1>1. tiers \subseteq 0..1000 /\ tiers # {}
  OBVIOUS
<1>2. /\ \A g \in s.roles : g.management_tier \in tiers
      /\ \A t \in tiers : t = 0 \/ \E g \in s.roles : g.management_tier = t
  OBVIOUS
<1>3. management_tier(s) = CHOOSE t \in tiers : \A other \in tiers : other <= t
  BY DEF management_tier
<1> HIDE DEF tiers
<1>4. \E t \in tiers : \A other \in tiers : other <= t
  BY <1>1, LargestMember, ZenonT(30)
<1>5. /\ management_tier(s) \in tiers
      /\ \A other \in tiers : other <= management_tier(s)
  BY <1>3, <1>4, ZenonT(30)
<1>6. management_tier(s) \in 0..1000
  BY <1>1, <1>5, ZenonT(30)
<1>7. \A g \in s.roles : g.management_tier <= management_tier(s)
  BY <1>2, <1>5, ZenonT(30)
<1>8. \/ management_tier(s) = 0
      \/ \E g \in s.roles : g.management_tier = management_tier(s)
  BY <1>2, <1>5, ZenonT(30)
<1> QED
  BY <1>6, <1>7, <1>8

\* What a user holds is live and has a tier between 0 and 1000.
LEMMA HeldTier ==
    ASSUME Safety, NEW u \in User, NEW r \in assigned[u]
    PROVE  /\ r \in Role
           /\ roles[r].status \in LiveStatus
           /\ roles[r].tier \in 0..1000
<1>1. r \in Role /\ roles[r] \in RoleRow
  BY DEF Safety, TypeOK
<1>2. roles[r].status \in LiveStatus
  BY <1>1 DEF Safety, DeadRolesHoldNothing, RoleRow, RoleStatus, LiveStatus
<1>3. CASE r \in SystemRoleKey
  BY <1>1, <1>2, <1>3
  DEF Safety, SystemRolesImmutable, SystemRoleRow, SystemTier, SystemRoleKey
<1>4. CASE r \in CustomRole
  <2>1. roles[r].tier \in 1..999
    <3>1. SystemRolesImmutable /\ roles[r].status # "absent"
      BY <1>2 DEF Safety, LiveStatus
    <3> QED
      BY ZenonT(40), <1>4, <3>1 DEF SystemRolesImmutable
  <2> QED
    BY <1>1, <1>2, <2>1
<1> QED
  BY <1>1, <1>2, <1>3, <1>4 DEF Role

\* The tiers of the authority a user has, or would have, are numbers.
LEMMA TierType ==
    ASSUME Safety, NEW u \in User
    PROVE  /\ management_tier(Latent(u)) \in 0..1000
           /\ management_tier(Effective(u)) \in 0..1000
           /\ \A g \in Latent(u).roles : g.management_tier <= management_tier(Latent(u))
<1>1. \A g \in Latent(u).roles : g.management_tier \in 0..1000
  BY HeldTier DEF Latent, load_authority_snapshot, load_role_grant
<1>2. \A g \in Effective(u).roles : g.management_tier \in 0..1000
  BY HeldTier DEF Effective, load_authority_snapshot, load_role_grant
<1> QED
  BY <1>1, <1>2, TierIsLargest

(***************************************************************************)
(* Who is touched by a request.                                            *)
(***************************************************************************)
\* Nothing of u's row or authority changes.
Untouched(u) ==
    /\ u \in active' <=> u \in active
    /\ token_version'[u] = token_version[u]
    /\ authz_version'[u] = authz_version[u]
    /\ assigned'[u] = assigned[u]
    /\ Effective(u)'.roles = Effective(u).roles
    /\ Latent(u)'.roles = Latent(u).roles

\* The actor was above all that u had and is above all that u has now.
Dominated(a, u) ==
    /\ a # u
    /\ ~IsProtected(Latent(u))
    /\ permissions(Latent(u)) \subseteq permissions(Effective(a))
    /\ management_tier(Latent(u)) < management_tier(Effective(a))
    /\ permissions(Latent(u))' \subseteq permissions(Effective(a))
    /\ management_tier(Latent(u))' < management_tier(Effective(a))

\* A user whose roles and their grants stay keeps its authority.
LEMMA SameGrants ==
    ASSUME NEW u \in User, assigned'[u] = assigned[u],
           \A r \in assigned[u] : /\ roles'[r].status = roles[r].status
                                  /\ roles'[r].tier = roles[r].tier
                                  /\ roles'[r].permissions = roles[r].permissions
    PROVE  Effective(u)'.roles = Effective(u).roles /\ Latent(u)'.roles = Latent(u).roles
BY DEF Effective, Latent, load_authority_snapshot, load_role_grant

\* A manageable subject whose latent roles stay is dominated before and after.
LEMMA ManageableIsDominated ==
    ASSUME NEW a \in User, NEW u \in User, Manageable(Effective(a), Latent(u)),
           Latent(u)'.roles = Latent(u).roles
    PROVE  Dominated(a, u)
<1>1. Effective(a).user_id = a /\ Latent(u).user_id = u
  BY DEF Effective, Latent, load_authority_snapshot
<1>2. /\ permissions(Latent(u))' = permissions(Latent(u))
      /\ management_tier(Latent(u))' = management_tier(Latent(u))
  BY DEF permissions, management_tier
<1> QED
  BY <1>1, <1>2 DEF Manageable, Dominated, StrictlyBelow, WithinActorAuthority

\* A role is held by the users whose row lists it, and by existing users only.
LEMMA HeldByUsers ==
    ASSUME Safety, NEW u \in User, NEW r \in assigned[u]
    PROVE  u \in exists /\ u \in HoldersOf(r)
BY DEF Safety, BaseRoleHeld, HoldersOf

\* A status change, a revocation or a reset touches a dominated user and no other.
LEMMA AccountStep ==
    ASSUME Safety, NEW a \in User, NEW target \in User, NEW u \in exists,
           \/ \E is_active \in BOOLEAN : update_user_status(a, target, is_active)
           \/ revoke_user_sessions(a, target)
           \/ reset_user_password(a, target)
    PROVE  Untouched(u) \/ Dominated(a, u)
<1>1. u \in User /\ TypeOK
  BY DEF Safety, TypeOK
<1>2. Manageable(Effective(a), Latent(target))
  BY DEF update_user_status, revoke_user_sessions, reset_user_password,
         decide_user_administration
<1>3. UNCHANGED <<assigned, roles>>
  BY DEF update_user_status, revoke_user_sessions, reset_user_password
<1>4. Effective(u)'.roles = Effective(u).roles /\ Latent(u)'.roles = Latent(u).roles
  BY <1>1, <1>3, SameGrants
<1>5. CASE u = target
  BY <1>1, <1>2, <1>4, <1>5, ManageableIsDominated
<1>6. CASE u # target
  <2>1. /\ u \in active' <=> u \in active
        /\ token_version'[u] = token_version[u]
        /\ authz_version'[u] = authz_version[u]
    BY <1>1, <1>6 DEF update_user_status, revoke_user_sessions, reset_user_password,
                      BumpTokenVersion, BumpAuthzVersion
  <2> QED
    BY <1>3, <1>4, <2>1 DEF Untouched
<1> QED
  BY <1>5, <1>6

\* What a decision about a role change says of its target before and after.
LEMMA RoleChangeDominates ==
    ASSUME NEW a \in User, NEW u \in User, NEW after, NEW operation, NEW changed,
           decide_role_change(operation, Effective(a), Latent(u), after, changed),
           Latent(u)'.roles = after.roles
    PROVE  Dominated(a, u)
<1>1. Effective(a).user_id = a /\ Latent(u).user_id = u
  BY DEF Effective, Latent, load_authority_snapshot
<1>2. /\ permissions(Latent(u))' = permissions(after)
      /\ management_tier(Latent(u))' = management_tier(after)
  BY DEF permissions, management_tier
<1> QED
  BY <1>1, <1>2 DEF decide_role_change, Dominated, StrictlyBelow, WithinActorAuthority

\* A bind or unbind touches a dominated user and no other.
LEMMA AssignmentStep ==
    ASSUME Safety, NEW a \in User, NEW target \in User, NEW u \in exists,
           NEW requested \in RoleRequest,
           \/ bind_user_roles(a, target, requested)
           \/ unbind_user_roles(a, target, requested)
    PROVE  Untouched(u) \/ Dominated(a, u)
<1>1. u \in User /\ TypeOK /\ requested \subseteq Role
  BY DEF Safety, TypeOK, RoleRequest
<1>2. UNCHANGED <<active, token_version, roles>>
  BY DEF bind_user_roles, unbind_user_roles
<1>3. \A v \in User \ {target} : assigned'[v] = assigned[v]
                                  /\ authz_version'[v] = authz_version[v]
  BY <1>1 DEF bind_user_roles, unbind_user_roles, BumpAuthzVersion, TypeOK
<1>4. CASE u # target
  <2>1. Effective(u)'.roles = Effective(u).roles /\ Latent(u)'.roles = Latent(u).roles
    BY <1>1, <1>2, <1>3, <1>4, SameGrants
  <2> QED
    BY <1>1, <1>2, <1>3, <1>4, <2>1 DEF Untouched
<1>5. CASE u = target /\ bind_user_roles(a, target, requested)
  <2> DEFINE granted == {load_role_grant(r) : r \in requested}
  <2>1. /\ decide_role_change("bind", Effective(a), Latent(u),
                              WithRoles(Latent(u), granted), granted)
        /\ assigned'[u] = assigned[u] \cup requested
        /\ \A r \in requested : roles[r].status \in LiveStatus
    BY <1>1, <1>5 DEF bind_user_roles, TypeOK
  <2>2. Latent(u)'.roles = WithRoles(Latent(u), granted).roles
    BY <1>2, <2>1 DEF Latent, load_authority_snapshot, load_role_grant, WithRoles
  <2> QED
    BY <1>1, <2>1, <2>2, RoleChangeDominates
<1>6. CASE u = target /\ unbind_user_roles(a, target, requested)
  <2> DEFINE revoked == {load_role_grant(r) : r \in requested}
  <2>1. /\ decide_role_change("unbind", Effective(a), Latent(u),
                              WithoutRoles(Latent(u), revoked), revoked)
        /\ assigned'[u] = assigned[u] \ requested
    BY <1>1, <1>6 DEF unbind_user_roles, TypeOK
  <2>2. Latent(u)'.roles = WithoutRoles(Latent(u), revoked).roles
    BY <1>2, <2>1 DEF Latent, load_authority_snapshot, load_role_grant, WithoutRoles
  <2> QED
    BY <1>1, <2>1, <2>2, RoleChangeDominates
<1> QED
  BY <1>4, <1>5, <1>6

\* A new user leaves those that exist alone.
LEMMA CreationStep ==
    ASSUME Safety, NEW v \in User, create_user_with_default_role(v), NEW u \in exists
    PROVE  Untouched(u)
<1>1. u \in User /\ u # v /\ TypeOK
  BY DEF Safety, TypeOK, create_user_with_default_role
<1>2. /\ u \in active' <=> u \in active
      /\ token_version'[u] = token_version[u]
      /\ authz_version'[u] = authz_version[u]
      /\ assigned'[u] = assigned[u]
      /\ roles' = roles
  BY <1>1 DEF create_user_with_default_role, TypeOK
<1>3. Effective(u)'.roles = Effective(u).roles /\ Latent(u)'.roles = Latent(u).roles
  BY <1>1, <1>2, SameGrants
<1> QED
  BY <1>2, <1>3 DEF Untouched

\* A user outside a shared role, whose row the change leaves, is not touched.
LEMMA OutsideTheRole ==
    ASSUME Safety, NEW r \in Role, NEW u \in User, r \notin assigned[u],
           \A x \in Role \ {r} : roles'[x] = roles[x],
           u \in active' <=> u \in active,
           token_version'[u] = token_version[u],
           authz_version'[u] = authz_version[u],
           assigned'[u] = assigned[u]
    PROVE  Untouched(u)
<1>1. assigned[u] \subseteq Role \ {r}
  BY DEF Safety, TypeOK
<1>2. Effective(u)'.roles = Effective(u).roles /\ Latent(u)'.roles = Latent(u).roles
  BY <1>1, SameGrants
<1> QED
  BY <1>2 DEF Untouched

\* Creating or renaming a role touches nobody.
LEMMA QuietRoleStep ==
    ASSUME Safety, NEW a \in User, NEW r \in Role, NEW u \in exists, NEW tier, NEW name,
           create_role(a, r, tier, name) \/ update_role(a, r, name)
    PROVE  Untouched(u)
<1>1. u \in User /\ TypeOK /\ UNCHANGED userVars
  BY DEF Safety, TypeOK, create_role, update_role
<1>2. \A x \in Role \ {r} : roles'[x] = roles[x]
  BY <1>1 DEF TypeOK, create_role, update_role
<1>3. CASE r \notin assigned[u]
  BY <1>1, <1>2, <1>3, OutsideTheRole DEF userVars
<1>4. CASE r \in assigned[u]
  <2>1. ~create_role(a, r, tier, name)
    BY <1>1, <1>4 DEF create_role, Safety, DeadRolesHoldNothing
  <2>2. roles[r] \in RoleRow
    BY <1>1 DEF TypeOK
  <2>3. /\ roles'[r].status = roles[r].status
        /\ roles'[r].tier = roles[r].tier
        /\ roles'[r].permissions = roles[r].permissions
    BY <1>1, <2>1, <2>2 DEF update_role, TypeOK, RoleRow
  <2>4. \A x \in assigned[u] : /\ roles'[x].status = roles[x].status
                               /\ roles'[x].tier = roles[x].tier
                               /\ roles'[x].permissions = roles[x].permissions
    BY <1>1, <1>2, <2>3 DEF TypeOK
  <2>5. Effective(u)'.roles = Effective(u).roles /\ Latent(u)'.roles = Latent(u).roles
    BY <1>1, <2>4, SameGrants DEF userVars
  <2> QED
    BY <1>1, <2>5 DEF Untouched, userVars
<1> QED
  BY <1>3, <1>4

\* The row of a shared role after an operation that may have bumped it.
LEMMA SharedRow ==
    ASSUME Safety, NEW r \in Role, NEW row \in RoleRow,
           \/ bump_shared_authority(r, row)
           \/ row = roles[r] /\ UNCHANGED <<roles, authz_version>>
    PROVE  /\ \A x \in Role \ {r} : roles'[x] = roles[x]
           /\ roles'[r].status = row.status
           /\ roles'[r].tier = row.tier
           /\ roles'[r].permissions = row.permissions
           /\ \A u \in User : u \notin HoldersOf(r) => authz_version'[u] = authz_version[u]
BY BumpedRow DEF Safety, bump_shared_authority, BumpAuthzVersion

\* Enabling or disabling a role touches its dominated holders and nobody else.
LEMMA RoleStatusStep ==
    ASSUME Safety, NEW a \in User, NEW r \in Role, NEW u \in exists, NEW is_active \in BOOLEAN,
           set_role_active(a, r, is_active)
    PROVE  Untouched(u) \/ Dominated(a, u)
<1> DEFINE row == [roles[r] EXCEPT !.status = IF is_active THEN "active" ELSE "disabled"]
<1>1. /\ u \in User /\ TypeOK /\ roles[r] \in RoleRow
      /\ UNCHANGED <<active, token_version, assigned>>
  BY DEF Safety, TypeOK, set_role_active
<1>2. roles[r].status \in LiveStatus
  BY DEF set_role_active, require_role_administration, lock_shared_role_change
<1>3. row \in RoleRow /\ row.status \in LiveStatus /\ row.tier = roles[r].tier
      /\ row.permissions = roles[r].permissions
  BY <1>1 DEF RoleRow, RoleStatus, LiveStatus
<1>4. \/ bump_shared_authority(r, row)
      \/ row = roles[r] /\ UNCHANGED <<roles, authz_version>>
  BY <1>1, <1>2 DEF set_role_active, RoleRow, LiveStatus
<1>5. /\ \A x \in Role \ {r} : roles'[x] = roles[x]
      /\ roles'[r].status \in LiveStatus
      /\ roles'[r].tier = roles[r].tier
      /\ roles'[r].permissions = roles[r].permissions
      /\ u \notin HoldersOf(r) => authz_version'[u] = authz_version[u]
  <2> HIDE DEF row
  <2> QED
    BY <1>1, <1>3, <1>4, SharedRow
<1>6. CASE r \notin assigned[u]
  BY <1>1, <1>5, <1>6, OutsideTheRole DEF HoldersOf
<1>7. CASE r \in assigned[u]
  <2>1. Manageable(Effective(a), Latent(u))
    BY <1>1, <1>7, HeldByUsers
    DEF set_role_active, require_role_administration, decide_role_administration,
        affected_subjects_are_manageable
  <2>2. Latent(u)'.roles = Latent(u).roles
    <3>1. \A x \in assigned[u] : /\ roles'[x].status \in LiveStatus
                                                <=> roles[x].status \in LiveStatus
                                 /\ load_role_grant(x)' = load_role_grant(x)
      BY <1>1, <1>2, <1>5 DEF TypeOK, load_role_grant
    <3> QED
      BY <1>1, <3>1 DEF Latent, load_authority_snapshot
  <2> QED
    BY <1>1, <2>1, <2>2, ManageableIsDominated
<1> QED
  BY <1>6, <1>7

\* Fewer grants never make a larger tier.
LEMMA TierShrinks ==
    ASSUME NEW s, NEW t, t.roles \subseteq s.roles,
           \A g \in s.roles : g.management_tier \in 0..1000
    PROVE  management_tier(t) <= management_tier(s)
<1>1. /\ management_tier(s) \in 0..1000
      /\ \A g \in s.roles : g.management_tier <= management_tier(s)
  BY TierIsLargest
<1>2. /\ management_tier(t) \in 0..1000
      /\ \/ management_tier(t) = 0
         \/ \E g \in t.roles : g.management_tier = management_tier(t)
  BY TierIsLargest
<1> QED
  BY <1>1, <1>2

\* Deleting a role touches its dominated holders and nobody else.
LEMMA RoleDeletionStep ==
    ASSUME Safety, NEW a \in User, NEW r \in Role, NEW u \in exists, soft_delete_role(a, r)
    PROVE  Untouched(u) \/ Dominated(a, u)
<1> DEFINE row == [roles[r] EXCEPT !.status = "deleted", !.permissions = {}]
<1>1. /\ u \in User /\ TypeOK /\ roles[r] \in RoleRow
      /\ UNCHANGED <<active, token_version>>
      /\ assigned' = [v \in User |-> assigned[v] \ {r}]
      /\ bump_shared_authority(r, row)
  BY DEF Safety, TypeOK, soft_delete_role
<1>2. row \in RoleRow
  BY <1>1 DEF RoleRow, RoleStatus
<1>3. /\ \A x \in Role \ {r} : roles'[x] = roles[x]
      /\ u \notin HoldersOf(r) => authz_version'[u] = authz_version[u]
  <2> HIDE DEF row
  <2> QED
    BY <1>1, <1>2, SharedRow
<1>4. CASE r \notin assigned[u]
  <2>1. assigned'[u] = assigned[u]
    BY <1>1, <1>4
  <2> QED
    BY <1>1, <1>3, <1>4, <2>1, OutsideTheRole DEF HoldersOf
<1>5. CASE r \in assigned[u]
  <2>1. Manageable(Effective(a), Latent(u))
    BY <1>1, <1>5, HeldByUsers
    DEF soft_delete_role, require_role_administration, decide_role_administration,
        affected_subjects_are_manageable
  <2>2. Latent(u)'.roles \subseteq Latent(u).roles
    <3>1. assigned'[u] = assigned[u] \ {r} /\ assigned[u] \subseteq Role
      BY <1>1 DEF TypeOK
    <3> QED
      BY <1>3, <3>1 DEF Latent, load_authority_snapshot, load_role_grant
  <2>3. permissions(Latent(u))' \subseteq permissions(Latent(u))
    BY <2>2 DEF permissions
  <2> DEFINE now == [roles |-> Latent(u)'.roles]
  <2>4. /\ management_tier(Latent(u))' = management_tier(now)
        /\ management_tier(now) \in 0..1000
        /\ management_tier(now) <= management_tier(Latent(u))
    <3>1. \A g \in Latent(u).roles : g.management_tier \in 0..1000
      BY <1>1, HeldTier DEF Latent, load_authority_snapshot, load_role_grant
    <3>2. management_tier(now) \in 0..1000
      BY <2>2, <3>1, TierIsLargest
    <3>3. management_tier(now) <= management_tier(Latent(u))
      BY <2>2, <3>1, TierShrinks
    <3>4. management_tier(Latent(u))' = management_tier(now)
      BY DEF management_tier
    <3> QED
      BY <3>2, <3>3, <3>4
  <2>5. /\ Effective(a).user_id = a /\ Latent(u).user_id = u
        /\ management_tier(Latent(u)) \in 0..1000
        /\ management_tier(Effective(a)) \in 0..1000
    <3>1. Effective(a).user_id = a /\ Latent(u).user_id = u
      BY DEF Effective, Latent, load_authority_snapshot
    <3> QED
      BY <1>1, <3>1, TierType
  <2> HIDE DEF now
  <2>6. management_tier(now) < management_tier(Effective(a))
    <3>1. management_tier(Latent(u)) < management_tier(Effective(a))
      BY <2>1 DEF Manageable, StrictlyBelow
    <3>2. ASSUME NEW x, NEW y, NEW z, x = management_tier(now),
                 y = management_tier(Latent(u)), z = management_tier(Effective(a))
          PROVE  x < z
      <4>1. x \in 0..1000 /\ x <= y
        BY <2>4, <3>2, Zenon
      <4>2. y \in 0..1000 /\ z \in 0..1000
        BY <2>5, <3>2, Zenon
      <4>3. y < z
        BY <3>1, <3>2, Zenon
      <4> QED
        BY <4>1, <4>2, <4>3
    <3> QED
      BY <3>2, Zenon
  <2>7. management_tier(Latent(u))' < management_tier(Effective(a))
    BY <2>4, <2>6, Zenon
  <2> QED
    BY <2>1, <2>3, <2>5, <2>7 DEF Manageable, Dominated, StrictlyBelow, WithinActorAuthority
<1> QED
  BY <1>4, <1>5

\* Changing a role's permissions touches its dominated holders and nobody else: the
\* decision looks at what they will have, and what they lose was the actor's too.
LEMMA RolePermissionsStep ==
    ASSUME Safety, NEW a \in User, NEW r \in Role, NEW u \in exists,
           NEW operation \in {"bind", "unbind"}, NEW requested \in PermissionRequest,
           change_role_permissions(a, r, operation, requested)
    PROVE  Untouched(u) \/ Dominated(a, u)
<1> DEFINE after == IF operation = "bind" THEN roles[r].permissions \cup requested
                                          ELSE roles[r].permissions \ requested
           row == [roles[r] EXCEPT !.permissions = after]
           replacement == [load_role_grant(r) EXCEPT !.permissions = after]
<1>1. /\ u \in User /\ TypeOK /\ roles[r] \in RoleRow
      /\ UNCHANGED <<active, token_version, assigned>>
      /\ requested \subseteq PermissionKey
  BY PermissionRequestAssumption DEF Safety, TypeOK, change_role_permissions
<1>2. roles[r].status = "active"
  BY DEF change_role_permissions, lock_shared_role_change
<1>3. after \subseteq PermissionKey
  BY <1>1 DEF RoleRow
<1>4. row \in RoleRow /\ row.status = "active" /\ row.tier = roles[r].tier
      /\ row.permissions = after
  <2> HIDE DEF after
  <2> QED
    BY <1>1, <1>2, <1>3 DEF RoleRow
<1>5. \/ bump_shared_authority(r, row)
      \/ row = roles[r] /\ UNCHANGED <<roles, authz_version>>
  <2>1. \/ bump_shared_authority(r, row)
        \/ after = roles[r].permissions /\ UNCHANGED <<roles, authz_version>>
    BY DEF change_role_permissions
  <2>2. after = roles[r].permissions => row = roles[r]
    <3> HIDE DEF after
    <3> QED
      BY <1>1 DEF RoleRow
  <2> QED
    BY <2>1, <2>2
<1>6. /\ \A x \in Role \ {r} : roles'[x] = roles[x]
      /\ roles'[r].status = "active"
      /\ roles'[r].tier = roles[r].tier
      /\ roles'[r].permissions = after
      /\ u \notin HoldersOf(r) => authz_version'[u] = authz_version[u]
  <2> HIDE DEF row, after
  <2> QED
    BY <1>1, <1>4, <1>5, SharedRow
<1>7. CASE r \notin assigned[u]
  BY <1>1, <1>6, <1>7, OutsideTheRole DEF HoldersOf
<1>8. CASE r \in assigned[u]
  <2>1. /\ Manageable(Effective(a), with_role(Latent(u), replacement))
        /\ roles[r].permissions \subseteq permissions(Effective(a))
    BY <1>1, <1>8, HeldByUsers
    DEF change_role_permissions, decide_role_permissions_change, MayAdministerRole,
        affected_subjects_are_manageable, WithinActorAuthority, load_role_grant
  <2>2. with_role(Latent(u), replacement).user_id = u /\ Effective(a).user_id = a
    BY DEF with_role, Effective, Latent, load_authority_snapshot
  <2>3. replacement = [role_id |-> r, management_tier |-> roles[r].tier, permissions |-> after]
    <3> HIDE DEF after
    <3> QED
      BY DEF load_role_grant
  <2> HIDE DEF replacement, after, row
  <2>4. Latent(u)'.roles = with_role(Latent(u), replacement).roles
    <3>1. assigned'[u] = assigned[u] /\ assigned[u] \subseteq Role
      BY <1>1 DEF TypeOK
    <3> QED
      BY <1>1, <1>2, <1>6, <1>8, <2>3, <3>1
      DEF Latent, load_authority_snapshot, load_role_grant, with_role, LiveStatus
  <2>5. \A g \in Latent(u).roles :
           \/ g \in Latent(u)'.roles
           \/ /\ g.role_id = r /\ g.management_tier = roles[r].tier
              /\ g.permissions = roles[r].permissions
    <3>1. \A g \in Latent(u).roles : g.role_id = r => g = load_role_grant(r)
      BY DEF Latent, load_authority_snapshot, load_role_grant
    <3>2. \A g \in Latent(u).roles : g.role_id # r => g \in Latent(u)'.roles
      BY <2>3, <2>4 DEF with_role, Latent, load_authority_snapshot
    <3> QED
      BY <3>1, <3>2 DEF load_role_grant
  <2>6. \A g \in Latent(u)'.roles :
           \/ g \in Latent(u).roles
           \/ g.role_id = r /\ g.management_tier = roles[r].tier
    BY <2>3, <2>4 DEF Latent, load_authority_snapshot, load_role_grant, with_role
  <2>7. /\ load_role_grant(r) \in Latent(u).roles
        /\ replacement \in Latent(u)'.roles
    BY <1>2, <1>8, <2>3, <2>4
    DEF Latent, load_authority_snapshot, load_role_grant, with_role, LiveStatus
  <2>8. management_tier(Latent(u))' = management_tier(Latent(u))
    <3>1. {0} \cup {g.management_tier : g \in Latent(u)'.roles}
            = {0} \cup {g.management_tier : g \in Latent(u).roles}
      BY <2>3, <2>5, <2>6, <2>7 DEF load_role_grant
    <3> QED
      BY <3>1 DEF management_tier
  <2>9. /\ permissions(Latent(u))' \subseteq permissions(Effective(a))
        /\ management_tier(Latent(u))' < management_tier(Effective(a))
    BY <2>1, <2>4
    DEF Manageable, StrictlyBelow, WithinActorAuthority, permissions, management_tier
  <2>10. permissions(Latent(u)) \subseteq permissions(Effective(a))
    <3>1. permissions(Latent(u)) \subseteq permissions(Latent(u))' \cup roles[r].permissions
      BY <2>5 DEF permissions
    <3> QED
      BY <2>1, <2>9, <3>1
  <2>11. ~IsProtected(Latent(u))
    <3>1. ~IsProtected(with_role(Latent(u), replacement))
      BY <2>1 DEF Manageable
    <3>2. r # "super_admin"
      BY DEF change_role_permissions, decide_role_permissions_change, MayAdministerRole,
             is_system, load_role_grant, SystemRoleKey
    <3> QED
      BY <2>4, <2>5, <3>1, <3>2 DEF IsProtected, is_protected
  <2> QED
    BY <2>1, <2>2, <2>8, <2>9, <2>10, <2>11 DEF Manageable, Dominated
<1> QED
  BY <1>7, <1>8

\* Every step of a user's request touches dominated users only.
LEMMA RequestStep ==
    ASSUME Safety, NEW a \in User, NEW u \in exists,
           \/ \E target \in User : UserAdministration(a, target)
           \/ \E r \in Role : RoleAdministration(a, r)
    PROVE  Untouched(u) \/ Dominated(a, u)
<1> DEFINE Goal == Untouched(u) \/ Dominated(a, u)
<1>1. ASSUME NEW target \in User, UserAdministration(a, target) PROVE Goal
  <2>1. ASSUME create_user_by_administrator(a, target) PROVE Goal
    BY <2>1, CreationStep DEF create_user_by_administrator
  <2> QED
    BY <1>1, <2>1, AccountStep, AssignmentStep DEF UserAdministration
<1>2. ASSUME NEW r \in Role, RoleAdministration(a, r) PROVE Goal
  BY <1>2, QuietRoleStep, RoleStatusStep, RoleDeletionStep, RolePermissionsStep
  DEF RoleAdministration
<1> QED
  BY <1>1, <1>2

\* A request that changes the database is the actor's own step.
LEMMA CommitStep ==
    ASSUME TypeOK, [Next]_vars, NEW a \in User, Commits(a)
    PROVE  \/ \E target \in User : UserAdministration(a, target)
           \/ \E r \in Role : RoleAdministration(a, r)
           \/ UNCHANGED <<userVars, roles>>
<1> DEFINE Goal == \/ \E target \in User : UserAdministration(a, target)
                   \/ \E r \in Role : RoleAdministration(a, r)
                   \/ UNCHANGED <<userVars, roles>>
<1>1. Acting(a) /\ dbVars' # dbVars /\ request' # request
  BY DEF Commits, Acting
<1>2. ASSUME NEW b \in User, NEW target \in User, UserAdministration(b, target) PROVE Goal
  <2>1. Finish(b)
    BY <1>2 DEF UserAdministration, update_user_status, revoke_user_sessions,
                reset_user_password, bind_user_roles, unbind_user_roles,
                create_user_by_administrator
  <2> QED
    BY <1>1, <1>2, <2>1, FinishActor
<1>3. ASSUME NEW b \in User, NEW r \in Role, RoleAdministration(b, r) PROVE Goal
  <2>1. Finish(b)
    BY <1>3 DEF RoleAdministration, create_role, update_role, set_role_active,
                soft_delete_role, change_role_permissions
  <2> QED
    BY <1>1, <1>3, <2>1, FinishActor
<1>4. ASSUME NEW b \in User, NEW enabled \in BOOLEAN, set_registration_enabled(b, enabled)
      PROVE  Goal
  BY <1>4 DEF set_registration_enabled
<1>5. ASSUME NEW b \in User, ReadRoles(b) \/ Authenticate(b) \/ Refuse(b) PROVE Goal
  BY <1>1, <1>5 DEF ReadRoles, Authenticate, Refuse
<1>6. ASSUME NEW u \in User, register(u) PROVE Goal
  BY <1>1, <1>6 DEF register
<1>7. CASE Operator
  BY <1>1, <1>7 DEF Operator, bootstrap_super_admin, handover_super_admin
<1>8. CASE UNCHANGED vars
  BY <1>1, <1>8 DEF vars
<1> QED
  BY <1>2, <1>3, <1>4, <1>5, <1>6, <1>7, <1>8 DEF Next

\* Where neither users nor roles change, nobody is touched.
LEMMA NothingTouched ==
    ASSUME NEW u \in User, UNCHANGED <<userVars, roles>>
    PROVE  Untouched(u)
BY DEF userVars, Untouched, Effective, Latent, load_authority_snapshot, load_role_grant

\* A commit touches an existing user only if the actor dominates it.
LEMMA CommitTouches ==
    ASSUME Safety, [Next]_vars, NEW a \in User, Commits(a), NEW u \in exists
    PROVE  Untouched(u) \/ Dominated(a, u)
<1>1. TypeOK /\ u \in User
  BY DEF Safety, TypeOK
<1> QED
  BY <1>1, CommitStep, RequestStep, NothingTouched

\* A user row that a request changes belongs to a user strictly below the actor, who
\* is not the actor and not the super administrator.
THEOREM HierarchyIsRespected == Spec => HierarchyRespected
<1> DEFINE Below(a, u) == /\ a # u
                          /\ "super_admin" \notin assigned[u]
                          /\ permissions(Latent(u)) \subseteq permissions(Effective(a))
                          /\ management_tier(Latent(u)) < management_tier(Effective(a))
           Row(u) == << u \in active, token_version[u], authz_version[u], assigned[u] >>
<1>1. ASSUME Safety, [Next]_vars, NEW a \in User, Commits(a), NEW u \in exists,
             Row(u)' # Row(u)
      PROVE  Below(a, u)
  <2>1. ~Untouched(u)
    <3>1. ASSUME Untouched(u) PROVE FALSE
      <4>1. (u \in active') = (u \in active)
        BY <3>1 DEF Untouched
      <4> QED
        BY <1>1, <3>1, <4>1 DEF Untouched
    <3> QED
      BY <3>1
  <2>2. Dominated(a, u) /\ u \in User
    BY <1>1, <2>1, CommitTouches DEF Safety, TypeOK
  <2>3. "super_admin" \notin assigned[u]
    BY <1>1, <2>2, HolderIsProtected DEF Dominated
  <2> QED
    BY <2>2, <2>3 DEF Dominated
<1>2. Safety /\ [Next]_vars =>
        [\A a \in User : Commits(a) => \A u \in exists : Row(u)' # Row(u) => Below(a, u)]_vars
  BY <1>1
<1> QED
  BY <1>2, SafetyHolds, PTL DEF Spec, HierarchyRespected

\* A user who is not touched does not gain anything.
LEMMA UntouchedDoesNotGrow ==
    ASSUME Safety, NEW u \in User, Untouched(u)
    PROVE  ~Grows(u)
<1>1. /\ permissions(Effective(u))' = permissions(Effective(u))
      /\ permissions(Latent(u))' = permissions(Latent(u))
      /\ management_tier(Effective(u))' = management_tier(Effective(u))
      /\ management_tier(Latent(u))' = management_tier(Latent(u))
  BY DEF Untouched, permissions, management_tier
<1>2. EffectivePermissions(u)' = EffectivePermissions(u)
  BY <1>1 DEF Untouched, EffectivePermissions
<1>3. ASSUME NEW n \in 0..1000, NEW m, m = n PROVE ~(m > n)
  BY <1>3
<1> QED
  BY <1>1, <1>2, <1>3, TierType DEF Grows

\* A row that does not exist yet can only become a user with the mandatory role.
LEMMA NewcomerRoles ==
    ASSUME Safety, [Next]_vars, NEW u \in User \ exists
    PROVE  assigned[u] = {} /\ assigned'[u] \subseteq {"user"}
<1>1. TypeOK /\ assigned[u] = {} /\ u \notin active
  BY DEF Safety, TypeOK, BaseRoleHeld
<1>2. ASSUME NEW a \in User, NEW target \in User, UserAdministration(a, target)
      PROVE  assigned'[u] \subseteq {"user"}
  BY <1>1, <1>2
  DEF UserAdministration, update_user_status, revoke_user_sessions, reset_user_password,
      bind_user_roles, unbind_user_roles, create_user_by_administrator,
      create_user_with_default_role, lock_actor_and_target_user, TypeOK
<1>3. ASSUME NEW a \in User, NEW r \in Role, RoleAdministration(a, r)
      PROVE  assigned'[u] \subseteq {"user"}
  BY <1>1, <1>3
  DEF RoleAdministration, create_role, update_role, set_role_active, soft_delete_role,
      change_role_permissions, userVars
<1>4. ASSUME NEW v \in User, register(v) PROVE assigned'[u] \subseteq {"user"}
  BY <1>1, <1>4 DEF register, create_user_with_default_role, TypeOK
<1>5. CASE Operator
  BY <1>1, <1>5 DEF Operator, bootstrap_super_admin, handover_super_admin, TypeOK
<1>6. ASSUME UNCHANGED assigned PROVE assigned'[u] \subseteq {"user"}
  BY <1>1, <1>6
<1> QED
  BY <1>1, <1>2, <1>3, <1>4, <1>5, <1>6
  DEF Next, ReadRoles, Authenticate, Refuse, set_registration_enabled, dbVars, userVars, vars

\* A newcomer brings no permission and no tier.
LEMMA NewcomerDoesNotGrow ==
    ASSUME Safety, Safety', [Next]_vars, NEW u \in User \ exists
    PROVE  ~Grows(u)
<1>1. roles'["user"].permissions = {} /\ roles'["user"].tier = 0
  BY DEF Safety, SystemRolesImmutable, SystemRoleRow, SystemGrants, SystemTier, SystemRoleKey
<1>2. /\ \A g \in Latent(u)'.roles : g.permissions = {} /\ g.management_tier = 0
      /\ \A g \in Effective(u)'.roles : g.permissions = {} /\ g.management_tier = 0
  BY <1>1, NewcomerRoles DEF Latent, Effective, load_authority_snapshot, load_role_grant
<1>3. permissions(Latent(u))' = {} /\ permissions(Effective(u))' = {}
  BY <1>2 DEF permissions
<1>4. management_tier(Latent(u))' = 0 /\ management_tier(Effective(u))' = 0
  <2>1. /\ {0} \cup {g.management_tier : g \in Latent(u)'.roles} = {0}
        /\ {0} \cup {g.management_tier : g \in Effective(u)'.roles} = {0}
    BY <1>2
  <2> QED
    BY <2>1 DEF management_tier
<1>5. EffectivePermissions(u)' = {}
  BY <1>3 DEF EffectivePermissions
<1>6. ASSUME NEW n \in 0..1000, NEW m, m = 0 PROVE ~(m > n)
  BY <1>6
<1> QED
  BY <1>3, <1>4, <1>5, <1>6, TierType DEF Grows

\* Whatever a request does, a user whose authority it enlarges is another user, ends
\* strictly below the actor and holds nothing that the actor does not hold.
THEOREM NobodyEscalates == Spec => NoEscalation
<1> DEFINE Below(a, u) == /\ a # u
                          /\ permissions(Latent(u))' \subseteq permissions(Effective(a))
                          /\ management_tier(Latent(u))' < management_tier(Effective(a))
<1>1. ASSUME Safety, [Next]_vars, NEW a \in User, Commits(a), NEW u \in User, Grows(u)
      PROVE  Below(a, u)
  <2>1. Safety'
    BY <1>1, SafetyStep
  <2>2. u \in exists
    BY <1>1, <2>1, NewcomerDoesNotGrow
  <2>3. Dominated(a, u)
    BY <1>1, <2>2, CommitTouches, UntouchedDoesNotGrow
  <2> QED
    BY <2>3 DEF Dominated
<1>2. Safety /\ [Next]_vars =>
        [\A a \in User : Commits(a) => \A u \in User : Grows(u) => Below(a, u)]_vars
  BY <1>1
<1> QED
  BY <1>2, SafetyHolds, PTL DEF Spec, NoEscalation

(***************************************************************************)
(* The key of a permission cache.                                          *)
(***************************************************************************)
\* u's counters do not go back.
Forward(u) ==
    /\ epoch' >= epoch
    /\ token_version'[u] >= token_version[u]
    /\ authz_version'[u] >= authz_version[u]

Moved(u) == epoch' > epoch /\ authz_version'[u] > authz_version[u]

\* What a bump of the counters does to one user.
LEMMA BumpForward ==
    ASSUME TypeOK, NEW u \in User, NEW us
    PROVE  /\ BumpEpoch => epoch' > epoch
           /\ BumpTokenVersion(us) => token_version'[u] >= token_version[u]
           /\ BumpAuthzVersion(us) => /\ authz_version'[u] >= authz_version[u]
                                      /\ u \in us => authz_version'[u] > authz_version[u]
           /\ BumpEpoch => epoch' >= epoch
           /\ epoch >= epoch
           /\ token_version[u] >= token_version[u]
           /\ authz_version[u] >= authz_version[u]
<1>1. epoch \in Nat /\ token_version[u] \in Nat /\ authz_version[u] \in Nat
  BY DEF TypeOK
<1>2. BumpEpoch => epoch' = epoch + 1
  BY DEF BumpEpoch
<1>3. BumpTokenVersion(us) => token_version'[u] \in {token_version[u], token_version[u] + 1}
  BY DEF BumpTokenVersion
<1>4. BumpAuthzVersion(us) =>
        authz_version'[u] = IF u \in us THEN authz_version[u] + 1 ELSE authz_version[u]
  BY DEF BumpAuthzVersion
<1>5. /\ BumpEpoch => epoch' > epoch
      /\ BumpEpoch => epoch' >= epoch
      /\ epoch >= epoch
  BY <1>1, <1>2
<1>6. /\ BumpTokenVersion(us) => token_version'[u] >= token_version[u]
      /\ token_version[u] >= token_version[u]
  BY <1>1, <1>3
<1>7. /\ BumpAuthzVersion(us) => /\ authz_version'[u] >= authz_version[u]
                                 /\ u \in us => authz_version'[u] > authz_version[u]
      /\ authz_version[u] >= authz_version[u]
  BY <1>1, <1>4
<1> QED
  BY <1>5, <1>6, <1>7

\* The effective snapshot of a user who is not touched.
LEMMA UntouchedSnapshot ==
    ASSUME NEW u \in User, Untouched(u)
    PROVE  Effective(u)' = Effective(u)
<1>1. (u \in active') = (u \in active)
  BY DEF Untouched
<1>2. Effective(u)'.roles = Effective(u).roles
  BY DEF Untouched
<1> QED
  BY <1>1, <1>2 DEF Effective, load_authority_snapshot

\* Counters only move forward.
LEMMA NextForward ==
    ASSUME TypeOK, [Next]_vars, NEW u \in exists
    PROVE  Forward(u)
<1>1. u \in User
  BY DEF TypeOK
<1>2. ASSUME NEW a \in User, NEW target \in User, UserAdministration(a, target)
      PROVE  Forward(u)
  <2>1. ASSUME create_user_by_administrator(a, target) PROVE Forward(u)
    BY <1>1, <2>1, BumpForward
    DEF create_user_by_administrator, create_user_with_default_role, Forward, TypeOK
  <2> QED
    BY <1>1, <1>2, <2>1, BumpForward
    DEF UserAdministration, update_user_status, revoke_user_sessions, reset_user_password,
        bind_user_roles, unbind_user_roles, Forward
<1>3. ASSUME NEW a \in User, NEW r \in Role, RoleAdministration(a, r) PROVE Forward(u)
  BY <1>1, <1>3, BumpForward
  DEF RoleAdministration, create_role, update_role, set_role_active, soft_delete_role,
      change_role_permissions, bump_shared_authority, userVars, Forward
<1>4. ASSUME NEW v \in User, register(v) PROVE Forward(u)
  BY <1>1, <1>4, BumpForward DEF register, create_user_with_default_role, Forward, TypeOK
<1>5. CASE Operator
  BY <1>1, <1>5, BumpForward DEF Operator, bootstrap_super_admin, handover_super_admin, Forward
<1>6. ASSUME UNCHANGED <<userVars, epoch>> PROVE Forward(u)
  BY <1>1, <1>6, BumpForward DEF userVars, Forward
<1> QED
  BY <1>2, <1>3, <1>4, <1>5, <1>6
  DEF Next, ReadRoles, Authenticate, Refuse, set_registration_enabled, dbVars, vars

\* An operation on users moves the key of whoever it changes.
LEMMA UserKeyMoves ==
    ASSUME Safety, NEW a \in User, NEW target \in User, UserAdministration(a, target),
           NEW u \in exists
    PROVE  Effective(u)' = Effective(u) \/ Moved(u)
<1>1. u \in User /\ TypeOK
  BY DEF Safety, TypeOK
<1>2. ASSUME create_user_by_administrator(a, target) PROVE Effective(u)' = Effective(u)
  BY <1>1, <1>2, CreationStep, UntouchedSnapshot DEF create_user_by_administrator
<1>3. ASSUME NEW is_active \in BOOLEAN, update_user_status(a, target, is_active)
      PROVE  Effective(u)' = Effective(u) \/ Moved(u)
  <2>1. CASE u = target /\ BumpEpoch /\ BumpAuthzVersion({target})
    BY <1>1, <2>1, BumpForward DEF Moved
  <2>2. CASE u # target \/ UNCHANGED active
    <3>1. (u \in active') = (u \in active)
      BY <1>3, <2>2 DEF update_user_status
    <3>2. UNCHANGED <<assigned, roles>>
      BY <1>3 DEF update_user_status
    <3> QED
      BY <3>1, <3>2 DEF Effective, load_authority_snapshot, load_role_grant
  <2> QED
    BY <1>3, <2>1, <2>2 DEF update_user_status
<1>4. ASSUME revoke_user_sessions(a, target) \/ reset_user_password(a, target)
      PROVE  Effective(u)' = Effective(u)
  BY <1>4 DEF revoke_user_sessions, reset_user_password, Effective, load_authority_snapshot,
              load_role_grant
<1>5. ASSUME NEW requested \in RoleRequest,
             bind_user_roles(a, target, requested) \/ unbind_user_roles(a, target, requested)
      PROVE  Effective(u)' = Effective(u) \/ Moved(u)
  <2>1. CASE u = target /\ BumpEpoch /\ BumpAuthzVersion({target})
    BY <1>1, <2>1, BumpForward DEF Moved
  <2>2. CASE u # target \/ UNCHANGED assigned
    <3>1. assigned'[u] = assigned[u] /\ UNCHANGED <<active, roles>>
      BY <1>1, <1>5, <2>2 DEF bind_user_roles, unbind_user_roles, TypeOK
    <3> QED
      BY <3>1 DEF Effective, load_authority_snapshot, load_role_grant
  <2> QED
    BY <1>5, <2>1, <2>2 DEF bind_user_roles, unbind_user_roles
<1> QED
  BY <1>2, <1>3, <1>4, <1>5 DEF UserAdministration

\* An operation on a role moves the key of whoever holds it.
LEMMA RoleKeyMoves ==
    ASSUME Safety, NEW a \in User, NEW r \in Role, RoleAdministration(a, r), NEW u \in exists
    PROVE  Effective(u)' = Effective(u) \/ Moved(u)
<1>1. u \in User /\ TypeOK
  BY DEF Safety, TypeOK
<1>2. ASSUME NEW tier, NEW name, create_role(a, r, tier, name) \/ update_role(a, r, name)
      PROVE  Effective(u)' = Effective(u)
  BY <1>1, <1>2, QuietRoleStep, UntouchedSnapshot
<1>3. ASSUME NEW row, bump_shared_authority(r, row), UNCHANGED <<active, token_version>>,
             r \notin assigned[u] => assigned'[u] = assigned[u]
      PROVE  Effective(u)' = Effective(u) \/ Moved(u)
  <2>1. CASE r \in assigned[u]
    <3>1. u \in HoldersOf(r)
      BY <2>1 DEF HoldersOf
    <3> QED
      BY <1>1, <1>3, <3>1, BumpForward DEF bump_shared_authority, Moved
  <2>2. CASE r \notin assigned[u]
    <3>1. /\ \A x \in Role \ {r} : roles'[x] = roles[x]
          /\ authz_version'[u] = authz_version[u]
      BY <1>1, <1>3, <2>2 DEF bump_shared_authority, BumpAuthzVersion, HoldersOf, TypeOK
    <3> QED
      BY <1>1, <1>3, <2>2, <3>1, OutsideTheRole, UntouchedSnapshot
  <2> QED
    BY <2>1, <2>2
<1>4. ASSUME UNCHANGED <<active, assigned, roles>> PROVE Effective(u)' = Effective(u)
  BY <1>4 DEF Effective, load_authority_snapshot, load_role_grant
<1>5. ASSUME NEW is_active \in BOOLEAN, set_role_active(a, r, is_active)
      PROVE  Effective(u)' = Effective(u) \/ Moved(u)
  BY <1>3, <1>4, <1>5 DEF set_role_active
<1>6. ASSUME soft_delete_role(a, r) PROVE Effective(u)' = Effective(u) \/ Moved(u)
  <2>1. r \notin assigned[u] => assigned'[u] = assigned[u]
    BY <1>1, <1>6 DEF soft_delete_role
  <2> QED
    BY <1>3, <1>6, <2>1 DEF soft_delete_role
<1>7. ASSUME NEW operation \in {"bind", "unbind"}, NEW requested \in PermissionRequest,
             change_role_permissions(a, r, operation, requested)
      PROVE  Effective(u)' = Effective(u) \/ Moved(u)
  BY <1>3, <1>4, <1>7 DEF change_role_permissions
<1> QED
  BY <1>2, <1>5, <1>6, <1>7 DEF RoleAdministration

\* The operator's scripts move the key of the users they change.
LEMMA OperatorKeyMoves ==
    ASSUME Safety, Operator, NEW u \in exists
    PROVE  Effective(u)' = Effective(u) \/ Moved(u)
<1>1. u \in User /\ TypeOK
  BY DEF Safety, TypeOK
<1>2. UNCHANGED <<active, roles>>
  BY DEF Operator, bootstrap_super_admin, handover_super_admin
<1>3. assigned'[u] = assigned[u]
        \/ \E us : u \in us /\ BumpEpoch /\ BumpAuthzVersion(us)
  BY <1>1 DEF Operator, bootstrap_super_admin, handover_super_admin, TypeOK
<1>4. CASE assigned'[u] = assigned[u]
  BY <1>2, <1>4 DEF Effective, load_authority_snapshot, load_role_grant
<1> QED
  BY <1>1, <1>3, <1>4, BumpForward DEF Moved

\* Whenever the effective authority of a user changes, the epoch and its authorization
\* version grow, and no part of the key ever goes back.
THEOREM CacheKeysMove == Spec => CacheKeyMoves
<1> DEFINE Change(u) == /\ epoch' >= epoch /\ token_version'[u] >= token_version[u]
                        /\ authz_version'[u] >= authz_version[u]
                        /\ Effective(u)' # Effective(u) =>
                              epoch' > epoch /\ authz_version'[u] > authz_version[u]
<1>1. ASSUME Safety, [Next]_vars, NEW u \in exists PROVE Change(u)
  <2>1. u \in User /\ TypeOK
    BY <1>1 DEF Safety, TypeOK
  <2>2. Forward(u)
    BY <1>1, <2>1, NextForward
  <2>3. ASSUME NEW v \in User, register(v) PROVE Effective(u)' = Effective(u)
    BY <1>1, <2>1, <2>3, CreationStep, UntouchedSnapshot DEF register
  <2>4. ASSUME UNCHANGED <<userVars, roles>> PROVE Effective(u)' = Effective(u)
    BY <2>1, <2>4, NothingTouched, UntouchedSnapshot
  <2>5. Effective(u)' = Effective(u) \/ Moved(u)
    BY <1>1, <2>3, <2>4, UserKeyMoves, RoleKeyMoves, OperatorKeyMoves
    DEF Next, ReadRoles, Authenticate, Refuse, set_registration_enabled, dbVars, vars
  <2> QED
    BY <2>2, <2>5 DEF Forward, Moved
<1>2. Safety /\ [Next]_vars => [\A u \in exists : Change(u)]_dbVars
  BY <1>1
<1> QED
  BY <1>2, SafetyHolds, PTL DEF Spec, CacheKeyMoves

(***************************************************************************)
(* Who is super administrator.                                             *)
(***************************************************************************)
\* Binds and unbinds never name the super_admin role.
LEMMA AssignmentKeepsHolders ==
    ASSUME TypeOK, NEW a \in User, NEW target \in User, NEW requested \in RoleRequest,
           \/ bind_user_roles(a, target, requested)
           \/ unbind_user_roles(a, target, requested)
    PROVE  SuperAdminHolders' = SuperAdminHolders
<1>1. ASSUME NEW r \in requested PROVE r # "super_admin"
  <2>1. \E operation \in {"bind", "unbind"} :
           MayChangeRole(operation, Effective(a), load_role_grant(r))
    BY <1>1 DEF bind_user_roles, unbind_user_roles, decide_role_change
  <2> QED
    BY <2>1 DEF MayChangeRole, load_role_grant
<1>2. /\ UNCHANGED exists
      /\ \E more, less \in SUBSET requested :
            assigned' = [assigned EXCEPT ![target] = (assigned[target] \cup more) \ less]
  <2>1. CASE bind_user_roles(a, target, requested)
    <3> DEFINE more == requested \ (requested \cap assigned[target])
    <3>1. UNCHANGED exists
      BY <2>1 DEF bind_user_roles
    <3>2. assigned' = [assigned EXCEPT ![target] = assigned[target] \cup more]
             \/ assigned' = assigned
      BY <2>1 DEF bind_user_roles
    <3>3. CASE assigned' = [assigned EXCEPT ![target] = assigned[target] \cup more]
      <4>1. assigned' = [assigned EXCEPT ![target] = (assigned[target] \cup more) \ {}]
        BY <3>3
      <4> QED
        BY <3>1, <4>1
    <3>4. CASE assigned' = assigned
      <4>1. assigned' = [assigned EXCEPT ![target] = (assigned[target] \cup {}) \ {}]
        BY <3>4 DEF TypeOK
      <4> QED
        BY <3>1, <4>1
    <3> QED
      BY <3>2, <3>3, <3>4
  <2>2. CASE unbind_user_roles(a, target, requested)
    <3> DEFINE less == requested \cap assigned[target]
    <3>1. UNCHANGED exists
      BY <2>2 DEF unbind_user_roles
    <3>2. assigned' = [assigned EXCEPT ![target] = assigned[target] \ less]
             \/ assigned' = assigned
      BY <2>2 DEF unbind_user_roles
    <3>3. CASE assigned' = [assigned EXCEPT ![target] = assigned[target] \ less]
      <4>1. assigned' = [assigned EXCEPT ![target] = (assigned[target] \cup {}) \ less]
        BY <3>3
      <4> QED
        BY <3>1, <4>1
    <3>4. CASE assigned' = assigned
      <4>1. assigned' = [assigned EXCEPT ![target] = (assigned[target] \cup {}) \ {}]
        BY <3>4 DEF TypeOK
      <4> QED
        BY <3>1, <4>1
    <3> QED
      BY <3>2, <3>3, <3>4
  <2> QED
    BY <2>1, <2>2
<1>3. \A u \in User : "super_admin" \in assigned'[u] <=> "super_admin" \in assigned[u]
  BY <1>1, <1>2 DEF TypeOK
<1> QED
  BY <1>2, <1>3 DEF SuperAdminHolders, TypeOK

\* A new user is not a super administrator.
LEMMA CreationKeepsHolders ==
    ASSUME TypeOK, NEW v \in User, create_user_with_default_role(v)
    PROVE  SuperAdminHolders' = SuperAdminHolders
<1>1. exists' = exists \cup {v} /\ v \notin exists /\ exists \subseteq User
  BY DEF create_user_with_default_role, TypeOK
<1>2. assigned'[v] = {"user"} /\ \A u \in User \ {v} : assigned'[u] = assigned[u]
  BY DEF create_user_with_default_role, TypeOK
<1> QED
  BY <1>1, <1>2 DEF SuperAdminHolders

\* No role that an administrator deletes is super_admin.
LEMMA DeletionKeepsHolders ==
    ASSUME TypeOK, NEW a \in User, NEW r \in Role, soft_delete_role(a, r)
    PROVE  SuperAdminHolders' = SuperAdminHolders
<1>1. r # "super_admin"
  BY CustomRoleAssumption DEF soft_delete_role, require_expected_role_version, SystemRoleKey
<1>2. UNCHANGED exists /\ \A u \in User : assigned'[u] = assigned[u] \ {r}
  BY DEF soft_delete_role
<1> QED
  BY <1>1, <1>2 DEF SuperAdminHolders, TypeOK

\* Only the operator's scripts change who is super administrator.
LEMMA HoldersStep ==
    ASSUME TypeOK, [Next]_vars
    PROVE  SuperAdminHolders' = SuperAdminHolders \/ Operator
<1>1. ASSUME UNCHANGED <<exists, assigned>> PROVE SuperAdminHolders' = SuperAdminHolders
  BY <1>1 DEF SuperAdminHolders
<1>2. ASSUME NEW a \in User, NEW target \in User, UserAdministration(a, target)
      PROVE  SuperAdminHolders' = SuperAdminHolders
  BY <1>1, <1>2, AssignmentKeepsHolders, CreationKeepsHolders
  DEF UserAdministration, update_user_status, revoke_user_sessions, reset_user_password,
      create_user_by_administrator
<1>3. ASSUME NEW a \in User, NEW r \in Role, RoleAdministration(a, r)
      PROVE  SuperAdminHolders' = SuperAdminHolders
  BY <1>1, <1>3, DeletionKeepsHolders
  DEF RoleAdministration, create_role, update_role, set_role_active,
      change_role_permissions, userVars
<1>4. ASSUME NEW u \in User, register(u) PROVE SuperAdminHolders' = SuperAdminHolders
  BY <1>4, CreationKeepsHolders DEF register
<1> QED
  BY <1>1, <1>2, <1>3, <1>4
  DEF Next, ReadRoles, Authenticate, Refuse, set_registration_enabled, dbVars, userVars, vars

\* A handover leaves its new holder as the only one and ends the old one's sessions.
LEMMA HandoverStep ==
    ASSUME TypeOK, NEW old \in User, NEW new \in User, handover_super_admin(old, new)
    PROVE  /\ SuperAdminHolders' = {new}
           /\ \A u \in SuperAdminHolders : token_version'[u] > token_version[u]
<1>1. /\ old # new /\ new \in exists
      /\ SuperAdminHolders = {old}
      /\ assigned' = [assigned EXCEPT ![old] = assigned[old] \ {"super_admin"},
                                      ![new] = assigned[new] \cup {"super_admin"}]
      /\ UNCHANGED exists
  BY DEF handover_super_admin, TypeOK
<1>2. SuperAdminHolders' = {new}
  <2>1. /\ "super_admin" \notin assigned'[old]
        /\ "super_admin" \in assigned'[new]
        /\ \A u \in User \ {old, new} : assigned'[u] = assigned[u]
    BY <1>1 DEF TypeOK
  <2>2. \A u \in exists \ {old} : "super_admin" \notin assigned[u]
    BY <1>1 DEF SuperAdminHolders
  <2> QED
    BY <1>1, <2>1, <2>2 DEF SuperAdminHolders, TypeOK
<1>3. token_version[old] \in Nat /\ token_version'[old] = token_version[old] + 1
  BY DEF handover_super_admin, BumpTokenVersion, TypeOK
<1> QED
  BY <1>1, <1>2, <1>3

\* Once there is a super administrator there always is one, only the operator's
\* handover decides who, and the one it replaces has to log in again.
THEOREM SuperAdminStaysInHand == Spec => SuperAdminOnlyHandedOver
<1> DEFINE HandedOver == /\ SuperAdminHolders' # {}
                         /\ \A a \in User : ~Acting(a)
                         /\ \A u \in SuperAdminHolders : token_version'[u] > token_version[u]
<1>1. ASSUME Safety, [Next]_vars, SuperAdminHolders # {},
             SuperAdminHolders' # SuperAdminHolders
      PROVE  HandedOver
  <2>1. TypeOK /\ Operator
    BY <1>1, HoldersStep DEF Safety
  <2>2. PICK old, new \in User : handover_super_admin(old, new)
    BY <1>1, <2>1 DEF Operator, bootstrap_super_admin
  <2>3. \A a \in User : ~Acting(a)
    BY <2>2 DEF handover_super_admin, Acting
  <2> QED
    BY <2>1, <2>2, <2>3, HandoverStep
<1>2. Safety /\ [Next]_vars =>
        [SuperAdminHolders # {} /\ SuperAdminHolders' # SuperAdminHolders => HandedOver]_vars
  BY <1>1
<1> QED
  BY <1>2, SafetyHolds, PTL DEF Spec, SuperAdminOnlyHandedOver

(***************************************************************************)
(* The limit on roles per user.  Cardinalities are of finite sets, because *)
(* there are finitely many roles.                                          *)
(***************************************************************************)
\* Every set of roles is finite.
LEMMA FiniteRoles ==
    ASSUME NEW rs \in SUBSET Role
    PROVE  IsFiniteSet(rs) /\ Cardinality(rs) \in Nat
<1>1. IsFiniteSet(SystemRoleKey)
  <2>1. IsFiniteSet((({} \cup {"super_admin"}) \cup {"admin"}) \cup {"user"})
    BY FS_EmptySet, FS_AddElement
  <2>2. (({} \cup {"super_admin"}) \cup {"admin"}) \cup {"user"} = SystemRoleKey
    BY DEF SystemRoleKey
  <2> QED
    BY <2>1, <2>2
<1>2. IsFiniteSet(Role)
  BY <1>1, CustomRoleFinite, FS_Union DEF Role
<1> QED
  BY <1>2, FS_Subset, FS_CardinalityType

\* A set of roles within one that fits, fits.
LEMMA SmallerFits ==
    ASSUME NEW rs \in SUBSET Role, NEW ss \in SUBSET rs, Cardinality(rs) <= MaxRolesPerUser
    PROVE  Cardinality(ss) <= MaxRolesPerUser
<1>1. Cardinality(ss) <= Cardinality(rs)
  BY FiniteRoles, FS_Subset
<1>2. Cardinality(ss) \in Nat /\ Cardinality(rs) \in Nat /\ MaxRolesPerUser \in Nat
  BY FiniteRoles, MaxRolesAssumption
<1> QED
  BY <1>1, <1>2

\* Roles for which there is room fit.
LEMMA RoomFits ==
    ASSUME TypeOK, NEW u \in User, NEW rs \in SUBSET Role, HasRoomFor(u, Cardinality(rs))
    PROVE  Cardinality(assigned[u] \cup rs) <= MaxRolesPerUser
<1>1. assigned[u] \in SUBSET Role /\ assigned[u] \cap rs \in SUBSET Role
  BY DEF TypeOK
<1>2. Cardinality(assigned[u] \cup rs) =
        Cardinality(assigned[u]) + Cardinality(rs) - Cardinality(assigned[u] \cap rs)
  BY <1>1, FiniteRoles, FS_Union
<1>3. /\ Cardinality(assigned[u]) \in Nat
      /\ Cardinality(rs) \in Nat
      /\ Cardinality(assigned[u] \cap rs) \in Nat
  BY <1>1, FiniteRoles
<1> QED
  BY <1>2, <1>3, MaxRolesAssumption DEF HasRoomFor

\* A step leaves a user's roles, takes from them, or adds roles that fit.
LEMMA AssignedStep ==
    ASSUME TypeOK, [Next]_vars, NEW u \in User
    PROVE  \/ assigned'[u] \subseteq assigned[u]
           \/ assigned'[u] = {"user"}
           \/ \E rs \in SUBSET Role : /\ assigned'[u] \subseteq assigned[u] \cup rs
                                      /\ HasRoomFor(u, Cardinality(rs))
<1> DEFINE Goal == \/ assigned'[u] \subseteq assigned[u]
                   \/ assigned'[u] = {"user"}
                   \/ \E rs \in SUBSET Role : /\ assigned'[u] \subseteq assigned[u] \cup rs
                                              /\ HasRoomFor(u, Cardinality(rs))
<1>1. ASSUME UNCHANGED assigned PROVE Goal
  BY <1>1
<1>2. ASSUME NEW a \in User, NEW target \in User, NEW requested \in RoleRequest,
             bind_user_roles(a, target, requested)
      PROVE  Goal
  <2> DEFINE changed == requested \ (requested \cap assigned[target])
  <2>1. changed \in SUBSET Role
    BY DEF RoleRequest
  <2>2. \/ /\ assigned' = [assigned EXCEPT ![target] = assigned[target] \cup changed]
           /\ HasRoomFor(target, Cardinality(changed))
        \/ assigned' = assigned
    BY <1>2 DEF bind_user_roles
  <2> HIDE DEF changed
  <2>3. CASE u = target /\ assigned' # assigned
    <3>1. assigned'[u] \subseteq assigned[u] \cup changed /\ HasRoomFor(u, Cardinality(changed))
      BY <2>2, <2>3 DEF TypeOK
    <3> QED
      BY <2>1, <3>1
  <2>4. CASE u # target \/ assigned' = assigned
    BY <2>2, <2>4 DEF TypeOK
  <2> QED
    BY <2>3, <2>4
<1>3. ASSUME NEW a \in User, NEW target \in User, NEW requested \in RoleRequest,
             unbind_user_roles(a, target, requested)
      PROVE  Goal
  BY <1>3 DEF unbind_user_roles, TypeOK
<1>4. ASSUME NEW a \in User, NEW r \in Role, soft_delete_role(a, r) PROVE Goal
  BY <1>4 DEF soft_delete_role
<1>5. ASSUME NEW v \in User, create_user_with_default_role(v) PROVE Goal
  BY <1>5 DEF create_user_with_default_role, TypeOK
<1>6. ASSUME Operator PROVE Goal
  <2>1. HasRoomFor(u, 1) \/ assigned'[u] \subseteq assigned[u]
    BY <1>6 DEF Operator, bootstrap_super_admin, handover_super_admin, TypeOK
  <2>2. assigned'[u] \subseteq assigned[u] \cup {"super_admin"}
    BY <1>6 DEF Operator, bootstrap_super_admin, handover_super_admin, TypeOK
  <2>3. {"super_admin"} \in SUBSET Role /\ Cardinality({"super_admin"}) = 1
    BY FS_Singleton DEF Role, SystemRoleKey
  <2> QED
    BY <2>1, <2>2, <2>3
<1>7. ASSUME NEW a \in User, NEW target \in User, UserAdministration(a, target) PROVE Goal
  BY <1>1, <1>2, <1>3, <1>5, <1>7
  DEF UserAdministration, update_user_status, revoke_user_sessions, reset_user_password,
      create_user_by_administrator
<1>8. ASSUME NEW a \in User, NEW r \in Role, RoleAdministration(a, r) PROVE Goal
  BY <1>1, <1>4, <1>8
  DEF RoleAdministration, create_role, update_role, set_role_active,
      change_role_permissions, userVars
<1>9. ASSUME NEW v \in User, register(v) PROVE Goal
  BY <1>5, <1>9 DEF register
<1>10. ASSUME NEW a \in User,
              \/ ReadRoles(a) \/ Authenticate(a) \/ Refuse(a)
              \/ \E enabled \in BOOLEAN : set_registration_enabled(a, enabled)
       PROVE  Goal
  BY <1>1, <1>10
  DEF ReadRoles, Authenticate, Refuse, set_registration_enabled, dbVars, userVars
<1>11. CASE UNCHANGED vars
  BY <1>1, <1>11 DEF vars, dbVars, userVars
<1> QED
  BY <1>6, <1>7, <1>8, <1>9, <1>10, <1>11 DEF Next

\* No user ever holds more than MAX_ROLES_PER_USER roles, the disabled ones and the
\* operator's super_admin assignment included.
THEOREM RolesStayWithinTheLimit == Spec => []RoleLimitKept
<1>1. Init => RoleLimitKept
  BY SeedAssumption DEF Init, RoleLimitKept
<1>2. Safety /\ RoleLimitKept /\ [Next]_vars => RoleLimitKept'
  <2> SUFFICES ASSUME Safety, RoleLimitKept, [Next]_vars, NEW u \in User
               PROVE  Cardinality(assigned'[u]) <= MaxRolesPerUser
    BY DEF RoleLimitKept
  <2>1. TypeOK /\ assigned[u] \in SUBSET Role /\ Cardinality(assigned[u]) <= MaxRolesPerUser
    BY DEF Safety, TypeOK, RoleLimitKept
  <2>2. CASE assigned'[u] \subseteq assigned[u]
    BY <2>1, <2>2, SmallerFits
  <2>3. CASE assigned'[u] = {"user"}
    <3>1. Cardinality({"user"}) = 1
      BY FS_Singleton
    <3>2. 1 <= MaxRolesPerUser
      BY MaxRolesAssumption
    <3> QED
      BY <2>3, <3>1, <3>2
  <2>4. ASSUME NEW rs \in SUBSET Role, assigned'[u] \subseteq assigned[u] \cup rs,
               HasRoomFor(u, Cardinality(rs))
        PROVE  Cardinality(assigned'[u]) <= MaxRolesPerUser
    <3>1. Cardinality(assigned[u] \cup rs) <= MaxRolesPerUser
      BY <2>1, <2>4, RoomFits
    <3> QED
      BY <2>1, <2>4, <3>1, SmallerFits
  <2> QED
    BY <2>1, <2>2, <2>3, <2>4, AssignedStep
<1> QED
  BY <1>1, <1>2, SafetyHolds, PTL DEF Spec

=============================================================================
