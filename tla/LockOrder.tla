----------------------------- MODULE LockOrder -----------------------------
(***************************************************************************)
(* Row locks of the transactions that write authorization data, statement  *)
(* by statement: the SELECT ... FOR UPDATE of app/repositories/access.py   *)
(* in the order the services and the operator scripts issue them, and the  *)
(* deferred constraint trigger ct_users_require_base_role, which locks     *)
(* rbac_state when a transaction that wrote users commits.                 *)
(*                                                                         *)
(* Rows are <<class, key>> with the classes of the canonical lock order:   *)
(* 10 rbac_state, 20 users, 30 roles, 40 policy rows.                      *)
(***************************************************************************)
EXTENDS Integers, Sequences, FiniteSets

CONSTANTS
    Txn,          \* database sessions
    User,         \* primary keys of users
    RoleId,       \* primary keys of roles
    NeedsRehash   \* may a stored hash have outdated Argon2 parameters?

ASSUME KeyAssumption == User \subseteq Nat /\ RoleId \subseteq Nat
ASSUME SystemRolesExist == RoleId # {}
ASSUME NeedsRehashAssumption == NeedsRehash \in BOOLEAN

rbac_state      == <<10, 0>>
UserRows(us)    == {<<20, u>> : u \in us}
RoleRows(rs)    == {<<30, r>> : r \in rs}
PolicyRows(rs)  == {<<40, r>> : r \in rs}

Row == {rbac_state} \cup UserRows(User) \cup RoleRows(RoleId) \cup PolicyRows(RoleId)

VARIABLES
    phase,   \* "idle", "running" or "committing"
    plan,    \* the rows of each lock statement still to be executed
    held,    \* rows locked
    dirty    \* has the transaction written users or user_roles?

vars == <<phase, plan, held, dirty>>

\* Every variable has its type, and a session without a transaction holds no row.
TypeOK ==
    /\ phase \in [Txn -> {"idle", "running", "committing"}]
    /\ plan \in [Txn -> Seq(SUBSET Row)]
    /\ held \in [Txn -> SUBSET Row]
    /\ dirty \in [Txn -> BOOLEAN]
    /\ \A t \in Txn : phase[t] = "idle" => held[t] = {} /\ plan[t] = <<>>

Init ==
    /\ phase = [t \in Txn |-> "idle"]
    /\ plan  = [t \in Txn |-> <<>>]
    /\ held  = [t \in Txn |-> {}]
    /\ dirty = [t \in Txn |-> FALSE]

\* A transaction whose lock statements are `statements'.
Begin(t, statements, writes_users) ==
    /\ phase[t] = "idle"
    /\ phase' = [phase EXCEPT ![t] = "running"]
    /\ plan'  = [plan EXCEPT ![t] = statements]
    /\ dirty' = [dirty EXCEPT ![t] = writes_users]
    /\ UNCHANGED held

(***************************************************************************)
(* What each transaction locks.  rs are the roles its users hold.          *)
(***************************************************************************)

\* update_user_status, revoke_user_sessions, change_user_roles
lock_actor_and_target_user(t, actor, target, rs) ==
    Begin(t, << {rbac_state}, UserRows({actor, target}), RoleRows(rs) >>, TRUE)

create_role(t, actor, rs) ==
    Begin(t, << {rbac_state}, UserRows({actor}), RoleRows(rs) >>, FALSE)

\* update_role, set_role_active, soft_delete_role, change_role_permissions
lock_shared_role_change(t, actor, affected, rs, r) ==
    Begin(t, << {rbac_state}, UserRows(affected \cup {actor}),
                RoleRows(rs \cup {r}), PolicyRows({r}) >>, TRUE)

\* Mutant: the default role is locked before the guard.
register_RoleFirst(t, user_role) ==
    Begin(t, << RoleRows({user_role}), {rbac_state} >>, TRUE)

\* Both callers of create_user_with_default_role lock the guard themselves first,
\* the administrator's creation its actor too.
register(t, user_role) ==
    Begin(t, << {rbac_state}, {rbac_state}, RoleRows({user_role}) >>, TRUE)

create_user_by_administrator(t, actor, user_role) ==
    Begin(t, << {rbac_state}, UserRows({actor}), {rbac_state}, UserRows({actor}),
                RoleRows({user_role}) >>, TRUE)

set_registration_enabled(t, actor) ==
    Begin(t, << {rbac_state}, UserRows({actor}) >>, FALSE)

\* Mutant: the user's row is locked first, the guard afterwards.
rotate_password_UserFirst(t, us) ==
    Begin(t, << UserRows(us), {rbac_state} >>, TRUE)

\* change_password, complete_password_reset, operator_reset_super_admin_password
\* (one user) and reset_user_password (actor and target)
rotate_password(t, us) ==
    Begin(t, << {rbac_state}, UserRows(us) >>, TRUE)

\* The bootstrap script sorts its roles; the handover names super_admin first.
bootstrap_super_admin(t, us) ==
    Begin(t, << {rbac_state}, UserRows(us), RoleRows(RoleId), PolicyRows(RoleId) >>, TRUE)

handover_super_admin(t, old, new, super_role, user_role) ==
    Begin(t, << {rbac_state}, UserRows({old, new}), RoleRows({super_role}),
                RoleRows({user_role}), PolicyRows(RoleId) >>, TRUE)

\* A login locks its user without the guard, and writes the row only to upgrade
\* the hash; so does the second look at a concurrently upgraded hash.
verify_login_snapshot(t, u, rehash) ==
    Begin(t, << UserRows({u}) >>, rehash)

(***************************************************************************)
(* Execution.                                                              *)
(***************************************************************************)

\* The rows of one statement are locked in primary-key order.
NextRow(t) == CHOOSE row \in Head(plan[t]) : \A other \in Head(plan[t]) : row[2] <= other[2]

Blocks(s, t) == s # t /\ plan[t] # <<>> /\ NextRow(t) \in held[s]

Acquire(t) ==
    /\ plan[t] # <<>>
    /\ \A s \in Txn : ~Blocks(s, t)
    /\ held' = [held EXCEPT ![t] = @ \cup {NextRow(t)}]
    /\ plan' = [plan EXCEPT ![t] = IF Head(@) = {NextRow(t)} THEN Tail(@)
                                   ELSE << Head(@) \ {NextRow(t)} >> \o Tail(@)]
    /\ UNCHANGED <<phase, dirty>>

\* Mutant: a session that ends keeps its locks.
Release_Forgotten(t) ==
    /\ phase' = [phase EXCEPT ![t] = "idle"]
    /\ plan'  = [plan EXCEPT ![t] = <<>>]
    /\ dirty' = [dirty EXCEPT ![t] = FALSE]
    /\ UNCHANGED held

Release(t) ==
    /\ phase' = [phase EXCEPT ![t] = "idle"]
    /\ plan'  = [plan EXCEPT ![t] = <<>>]
    /\ held'  = [held EXCEPT ![t] = {}]
    /\ dirty' = [dirty EXCEPT ![t] = FALSE]

\* COMMIT first runs the deferred triggers of the rows written.
Commit(t) ==
    /\ plan[t] = <<>>
    /\ \/ /\ phase[t] = "running" /\ dirty[t]
          /\ phase' = [phase EXCEPT ![t] = "committing"]
          /\ plan'  = [plan EXCEPT ![t] = << {rbac_state} >>]
          /\ UNCHANGED <<held, dirty>>
       \/ /\ phase[t] = "committing" \/ (phase[t] = "running" /\ ~dirty[t])
          /\ Release(t)

\* A refusal, a lock_timeout while waiting, a lost connection.
Rollback(t) ==
    /\ phase[t] # "idle"
    /\ Release(t)

NonEmptySubset(S) == (SUBSET S) \ {{}}

Start(t) ==
    \/ \E a \in User, target \in User, rs \in NonEmptySubset(RoleId) :
          lock_actor_and_target_user(t, a, target, rs)
    \/ \E a \in User, rs \in NonEmptySubset(RoleId) : create_role(t, a, rs)
    \/ \E a \in User, us \in SUBSET User, rs \in NonEmptySubset(RoleId), r \in RoleId :
          lock_shared_role_change(t, a, us, rs, r)
    \/ \E r \in RoleId : register(t, r)
    \/ \E a \in User, r \in RoleId : create_user_by_administrator(t, a, r)
    \/ \E a \in User : set_registration_enabled(t, a)
    \/ \E us \in NonEmptySubset(User) : Cardinality(us) <= 2 /\ rotate_password(t, us)
    \/ \E us \in NonEmptySubset(User) : bootstrap_super_admin(t, us)
    \/ \E old, new \in User, r1, r2 \in RoleId :
          old # new /\ r1 # r2 /\ handover_super_admin(t, old, new, r1, r2)
    \/ \E u \in User, rehash \in {FALSE, NeedsRehash} : verify_login_snapshot(t, u, rehash)

Next == \E t \in Txn : Start(t) \/ Acquire(t) \/ Commit(t) \/ Rollback(t)

Safe == Init /\ [][Next]_vars

\* PostgreSQL hands a released row lock to a waiter, and a session that is not
\* waiting goes on.
Fairness == \A t \in Txn : SF_vars(Acquire(t)) /\ WF_vars(Commit(t))

Spec == Safe /\ Fairness

-----------------------------------------------------------------------------
\* atomic-consistency.md, "Canonical PostgreSQL Lock Order": a path "must never
\* acquire an earlier class after a later one".  Waiting for a row already held
\* (a lock statement repeated) acquires nothing.
CanonicalLockOrder ==
    \A t \in Txn : plan[t] # <<>> /\ NextRow(t) \notin held[t] =>
        \A row \in held[t] : row[1] <= NextRow(t)[1]

\* There is never a set of transactions each of which waits for another of them.
NoDeadlock ==
    \A waiting \in NonEmptySubset(Txn) :
        \E t \in waiting : \A s \in waiting : ~Blocks(s, t)

\* Every transaction ends, whatever the others do.
EveryTransactionEnds == \A t \in Txn : (phase[t] # "idle") ~> (phase[t] = "idle")

=============================================================================
