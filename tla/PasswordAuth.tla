---------------------------- MODULE PasswordAuth ----------------------------
(***************************************************************************)
(* The password of one account and everything that checks or replaces it   *)
(* (app/services/authentication.py): login with the upgrade of an outdated *)
(* hash, change by the owner, completion of a temporary password, reset by *)
(* an administrator and by the operator.                                   *)
(*                                                                         *)
(* Argon2 runs between transactions: a flow reads the row, verifies or     *)
(* hashes without any lock, and then locks the row and compares it with    *)
(* what it read.  Verifying is a function of the row read, so a read and   *)
(* its verification are one step; the locked transaction is another.       *)
(***************************************************************************)
EXTENDS Integers

CONSTANTS
    Proc,           \* requests, each used once
    Password,       \* passwords people type
    NoPassword,     \* users.password_hash IS NULL
    NoProc,         \* producer of the hash found at start
    ResetMode,      \* settings.admin_password_reset_mode of the replicas
    VersionBound    \* bound on users.token_version

ASSUME NoPasswordAssumption == NoPassword \notin Password
ASSUME NoProcAssumption == NoProc \notin Proc
ASSUME ResetModeAssumption == ResetMode \subseteq {"direct", "temporary"}

(***************************************************************************)
(* A hash tells its password, whether its Argon2 parameters are current,   *)
(* and who computed it: salts make hashes of one password differ.          *)
(***************************************************************************)
Hash == [password : Password \cup {NoPassword}, current : BOOLEAN, by : Proc \cup {NoProc}]

UserRow ==
    [is_active : BOOLEAN, token_version : Nat, password_hash : Hash,
     changed_at : Nat, must_change : BOOLEAN]

VARIABLES
    row,          \* the row of users; changed_at counts password_changed_at
    super_admin,  \* is the user the sole super administrator?
    may_reset,    \* would the policy let the administrator reset this user now?
    proc          \* what each request knows

vars == <<row, super_admin, may_reset, proc>>

Op == {"login", "change", "complete", "reset"}

Request ==
    [op : Op, pc : {"idle", "lock", "recheck", "done", "refused", "abandoned"},
     given : Password \cup {NoPassword}, new : Password \cup {NoPassword},
     snapshot : UserRow, issued : BOOLEAN]

\* Every variable has its type; only a login that succeeded holds a token.
TypeOK ==
    /\ row \in UserRow
    /\ super_admin \in BOOLEAN
    /\ may_reset \in BOOLEAN
    /\ proc \in [Proc -> Request]
    /\ \A p \in Proc : proc[p].issued => proc[p].op = "login" /\ proc[p].pc = "done"

Init ==
    /\ \E password \in Password \cup {NoPassword}, current, must_change \in BOOLEAN :
          /\ row = [is_active |-> TRUE, token_version |-> 0, changed_at |-> 0,
                    must_change |-> must_change,
                    password_hash |-> [password |-> password, current |-> current,
                                       by |-> NoProc]]
          /\ proc = [p \in Proc |->
                       [op |-> "login", pc |-> "idle", given |-> NoPassword,
                        new |-> NoPassword, snapshot |-> row, issued |-> FALSE]]
    /\ super_admin \in BOOLEAN
    /\ may_reset = ~super_admin

(***************************************************************************)
(* Steps shared by the flows.                                              *)
(***************************************************************************)

\* A new hash: current parameters, and a salt of its own.
hash_password(p, password) == [password |-> password, current |-> TRUE, by |-> p]

verify_password(snapshot, password) == snapshot.password_hash.password = password

same_login_user_state(snapshot) ==
    /\ row.is_active = snapshot.is_active
    /\ row.token_version = snapshot.token_version
    /\ row.changed_at = snapshot.changed_at

same_password_state(snapshot) ==
    /\ row.password_hash.password # NoPassword
    /\ row.password_hash = snapshot.password_hash
    /\ row.must_change = snapshot.must_change

\* A request reads the row and verifies the password it was given against it.
Read(p, op, given, new, accepted) ==
    /\ proc[p].pc = "idle"
    /\ proc' = [proc EXCEPT ![p] =
                  [op |-> op, pc |-> IF accepted THEN "lock" ELSE "refused",
                   given |-> given, new |-> new, snapshot |-> row, issued |-> FALSE]]
    /\ UNCHANGED <<row, super_admin, may_reset>>

End(p, pc) == proc' = [proc EXCEPT ![p].pc = pc]

\* Mutant: a rotation leaves the sessions of the old password alive.
rotate_password_SessionsKept(hash, must_change) ==
    /\ row.token_version < VersionBound
    /\ row' = [row EXCEPT !.password_hash = hash, !.must_change = must_change,
                          !.changed_at = @ + 1]

\* _rotate_password, with the token_version increment every caller adds.
rotate_password(hash, must_change) ==
    /\ row.token_version < VersionBound
    /\ row' = [row EXCEPT !.password_hash = hash, !.must_change = must_change,
                          !.changed_at = @ + 1, !.token_version = @ + 1]

(***************************************************************************)
(* Login: _verify_login_snapshot and the route around it.                  *)
(***************************************************************************)
read_login(p, password) ==
    Read(p, "login", password, NoPassword,
         verify_password(row, password) /\ row.is_active)

\* The route refuses a temporary password with password_change_required and issues
\* an access token of the row's version otherwise.
Succeed(p) ==
    proc' = [proc EXCEPT ![p].pc = "done", ![p].issued = ~row.must_change,
                         ![p].snapshot = row]

NeedsRehash(p) == ~proc[p].snapshot.password_hash.current

\* Mutant: the hash upgrade is written without comparing the row.
lock_login_BlindUpgrade(p) ==
    /\ proc[p].op = "login" /\ proc[p].pc = "lock"
    /\ row' = IF NeedsRehash(p)
              THEN [row EXCEPT !.password_hash = hash_password(p, proc[p].given)] ELSE row
    /\ End(p, "done")
    /\ UNCHANGED <<super_admin, may_reset>>

\* Mutant: a hash changed by a concurrent upgrade rejects the login.
lock_login_NoRecheck(p) ==
    LET unchanged == /\ same_login_user_state(proc[p].snapshot)
                     /\ row.must_change = proc[p].snapshot.must_change
                     /\ row.password_hash = proc[p].snapshot.password_hash
    IN
    /\ proc[p].op = "login" /\ proc[p].pc = "lock"
    /\ row' = IF unchanged /\ NeedsRehash(p)
              THEN [row EXCEPT !.password_hash = hash_password(p, proc[p].given)] ELSE row
    /\ IF unchanged THEN Succeed(p) ELSE End(p, "refused")
    /\ UNCHANGED <<super_admin, may_reset>>

\* The locked transaction.  A row with another hash but the same state was upgraded
\* by a concurrent login: verify again against the hash it wrote.
lock_login(p) ==
    LET snapshot == proc[p].snapshot
        comparable == same_login_user_state(snapshot) /\ row.must_change = snapshot.must_change
        upgraded == [row EXCEPT !.password_hash = hash_password(p, proc[p].given)]
    IN
    /\ proc[p].op = "login" /\ proc[p].pc = "lock"
    /\ \/ /\ comparable /\ row.password_hash = snapshot.password_hash
          /\ row' = IF NeedsRehash(p) THEN upgraded ELSE row
          /\ Succeed(p)
       \/ /\ comparable /\ row.password_hash # snapshot.password_hash
          /\ NeedsRehash(p) /\ row.password_hash.password # NoPassword
          /\ IF verify_password(row, proc[p].given) /\ row.password_hash.current
             THEN proc' = [proc EXCEPT ![p].pc = "recheck", ![p].snapshot = row]
             ELSE End(p, "refused")
          /\ UNCHANGED row
       \/ /\ \/ ~comparable
             \/ row.password_hash # snapshot.password_hash /\ ~NeedsRehash(p)
          /\ End(p, "refused")
          /\ UNCHANGED row
    /\ UNCHANGED <<super_admin, may_reset>>

\* The second locked transaction of a login that met an upgrade.
recheck_login(p) ==
    /\ proc[p].pc = "recheck"
    /\ IF /\ same_login_user_state(proc[p].snapshot)
          /\ same_password_state(proc[p].snapshot)
       THEN Succeed(p) ELSE End(p, "refused")
    /\ UNCHANGED <<row, super_admin, may_reset>>

(***************************************************************************)
(* Change by the owner, completion of a temporary password.                *)
(***************************************************************************)

\* The request is authorized under the row's version; _reauthenticate_actor.
read_change(p, current_password, new_password) ==
    /\ current_password # new_password
    /\ row.is_active
    /\ Read(p, "change", current_password, new_password,
            verify_password(row, current_password) /\ ~row.must_change)

read_complete(p, temporary_password, new_password) ==
    /\ temporary_password # new_password
    /\ Read(p, "complete", temporary_password, new_password,
            /\ verify_password(row, temporary_password)
            /\ row.is_active /\ row.must_change)

\* Mutant: the row is not compared with the one that was verified.
MayRotate_Uncompared(p) == row.is_active

\* What the locked transactions of change_password and complete_password_reset
\* compare before they rotate.
MayRotate(p) ==
    LET snapshot == proc[p].snapshot
    IN  /\ row.is_active
        /\ row.token_version = snapshot.token_version
        /\ same_password_state(snapshot)
        /\ proc[p].op = "complete" => same_login_user_state(snapshot) /\ row.must_change

rotate(p) ==
    /\ proc[p].op \in {"change", "complete"} /\ proc[p].pc = "lock"
    /\ \/ /\ MayRotate(p)
          /\ rotate_password(hash_password(p, proc[p].new), FALSE)
          /\ End(p, "done")
       \/ /\ ~MayRotate(p)
          /\ UNCHANGED row
          /\ End(p, "refused")
    /\ UNCHANGED <<super_admin, may_reset>>

(***************************************************************************)
(* Resets.                                                                 *)
(***************************************************************************)

\* reset_user_password: authorized under locks, hashed without any, authorized again.
authorize_reset(p, new_password) ==
    Read(p, "reset", NoPassword, new_password, may_reset)

reset_user_password(p, mode) ==
    /\ proc[p].op = "reset" /\ proc[p].pc = "lock"
    /\ \/ /\ may_reset
          /\ rotate_password(hash_password(p, proc[p].new), mode = "temporary")
          /\ End(p, "done")
       \/ /\ ~may_reset
          /\ UNCHANGED row
          /\ End(p, "refused")
    /\ UNCHANGED <<super_admin, may_reset>>

operator_reset_super_admin_password(p, temporary_password) ==
    /\ proc[p].pc = "idle"
    /\ row.is_active /\ super_admin
    /\ rotate_password(hash_password(p, temporary_password), TRUE)
    /\ proc' = [proc EXCEPT ![p].op = "reset", ![p].pc = "done"]
    /\ UNCHANGED <<super_admin, may_reset>>

\* A policy error, a lost database connection or a cancelled request.
Abandon(p) ==
    /\ proc[p].pc \in {"lock", "recheck"}
    /\ End(p, "abandoned")
    /\ UNCHANGED <<row, super_admin, may_reset>>

(***************************************************************************)
(* The rest of the program, as far as these flows see it.                  *)
(***************************************************************************)

\* update_user_status; the super administrator's row is protected.
update_user_status ==
    /\ ~super_admin
    /\ row.token_version < VersionBound
    /\ row' = [row EXCEPT !.is_active = ~@, !.token_version = @ + 1]
    /\ UNCHANGED <<super_admin, may_reset, proc>>

revoke_user_sessions ==
    /\ ~super_admin
    /\ row.token_version < VersionBound
    /\ row' = [row EXCEPT !.token_version = @ + 1]
    /\ UNCHANGED <<super_admin, may_reset, proc>>

\* Roles of the administrator or of the target change.
AuthorityChanges ==
    /\ ~super_admin
    /\ may_reset' = ~may_reset
    /\ UNCHANGED <<row, super_admin, proc>>

Step(p) ==
    \/ \E password \in Password :
          \/ read_login(p, password)
          \/ authorize_reset(p, password)
          \/ operator_reset_super_admin_password(p, password)
          \/ \E new \in Password : read_change(p, password, new) \/ read_complete(p, password, new)
    \/ lock_login(p)
    \/ recheck_login(p)
    \/ rotate(p)
    \/ \E mode \in ResetMode : reset_user_password(p, mode)
    \/ Abandon(p)

Next ==
    \/ \E p \in Proc : Step(p)
    \/ update_user_status
    \/ revoke_user_sessions
    \/ AuthorityChanges

Spec == Init /\ [][Next]_vars

(***************************************************************************)
(* Properties                                                              *)
(***************************************************************************)

\* An access token that is still current was obtained with the password that is
\* current, and never with a temporary one.
TokenMeansCurrentPassword ==
    \A p \in Proc :
       proc[p].issued /\ proc[p].snapshot.token_version = row.token_version =>
          verify_password(row, proc[p].given) /\ ~row.must_change

\* A hash upgrade never undoes a rotation: outside a rotation the row keeps its
\* password and its temporary flag.
UpgradeKeepsPassword ==
    [][row'.changed_at = row.changed_at =>
          /\ row'.password_hash.password = row.password_hash.password
          /\ row'.must_change = row.must_change]_vars

\* A password proven by its owner is replaced only while it is still the password:
\* of two flows that verified the same one at most one rotates it, and a temporary
\* password completes once.
RotationUsesCurrentCredential ==
    [][\A p \in Proc :
          proc[p].op \in {"change", "complete"} /\ proc[p].pc = "lock" /\ proc'[p].pc = "done" =>
             /\ verify_password(row, proc[p].given)
             /\ row.must_change = (proc[p].op = "complete")
             /\ row.is_active]_vars

\* A login that verified the right password is not refused because another login
\* upgraded the hash meanwhile: only a change of the account refuses it.
UpgradeRejectsNobody ==
    [][\A p \in Proc :
          /\ proc[p].op = "login" /\ proc[p].pc \in {"lock", "recheck"}
          /\ proc'[p].pc = "refused"
          => row.token_version # proc[p].snapshot.token_version]_vars
=============================================================================
