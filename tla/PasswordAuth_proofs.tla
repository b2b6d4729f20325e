------------------------ MODULE PasswordAuth_proofs ------------------------
(***************************************************************************)
(* Proofs about PasswordAuth, for any number of concurrent requests.       *)
(***************************************************************************)
EXTENDS PasswordAuth, TLAPS

\* What a flow between its read and its locked transaction has proven: the password
\* it was given is the one of the row it read.
Proven(q) ==
    /\ q.pc = "recheck" => q.op = "login"
    /\ q.pc \in {"lock", "recheck"} /\ q.op # "reset" =>
          /\ q.given \in Password
          /\ verify_password(q.snapshot, q.given)
          /\ q.op = "change" => q.snapshot.must_change = FALSE
          /\ q.op = "complete" => q.snapshot.must_change = TRUE

ProvenReads == \A p \in Proc : Proven(proc[p])

\* No token is newer than the row.
TokensNotNewer ==
    \A p \in Proc : proc[p].issued => proc[p].snapshot.token_version <= row.token_version

IInv ==
    /\ TypeOK
    /\ ProvenReads
    /\ TokensNotNewer
    /\ TokenMeansCurrentPassword

\* The initial state has neither reads nor tokens.
LEMMA InitInv == Init => IInv
<1> SUFFICES ASSUME Init PROVE IInv
  OBVIOUS
<1>0. PICK password \in Password \cup {NoPassword}, current \in BOOLEAN,
            must_change \in BOOLEAN :
        /\ row = [is_active |-> TRUE, token_version |-> 0, changed_at |-> 0,
                  must_change |-> must_change,
                  password_hash |-> [password |-> password, current |-> current,
                                     by |-> NoProc]]
        /\ proc = [p \in Proc |->
                     [op |-> "login", pc |-> "idle", given |-> NoPassword,
                      new |-> NoPassword, snapshot |-> row, issued |-> FALSE]]
  BY DEF Init
<1>1. row \in UserRow
  BY <1>0 DEF UserRow, Hash
<1>2. proc \in [Proc -> Request]
  BY <1>0, <1>1 DEF Request, Op
<1>3. \A p \in Proc : proc[p].issued = FALSE /\ proc[p].pc = "idle"
  BY <1>0
<1>4. QED
  BY <1>1, <1>2, <1>3
  DEF IInv, TypeOK, ProvenReads, Proven, TokensNotNewer, TokenMeansCurrentPassword, Init

\* A new hash is a hash.
LEMMA HashType ==
    ASSUME NEW p \in Proc, NEW password \in Password \cup {NoPassword}
    PROVE  /\ hash_password(p, password) \in Hash
           /\ hash_password(p, password).password = password
BY DEF hash_password, Hash

\* A step that leaves the requests alone and does not touch the password keeps the
\* invariant if the version moves.
LEMMA VersionBump ==
    ASSUME IInv, row' \in UserRow, row'.token_version > row.token_version,
           super_admin' \in BOOLEAN, may_reset' \in BOOLEAN, proc' \in [Proc -> Request],
           \A p \in Proc : \/ proc'[p] = proc[p]
                           \/ ~proc'[p].issued /\ proc'[p].pc \notin {"lock", "recheck"}
    PROVE  IInv'
<1>1. \A p \in Proc : proc[p].issued => proc[p].snapshot.token_version < row'.token_version
  BY DEF IInv, TypeOK, TokensNotNewer, Request, UserRow
<1>2. TypeOK'
  BY DEF IInv, TypeOK
<1>3. ProvenReads'
  BY DEF IInv, ProvenReads, Proven, verify_password
<1>4. \A p \in Proc : proc'[p].issued =>
         /\ proc'[p].snapshot.token_version < row'.token_version
         /\ proc'[p].snapshot.token_version \in Nat
  BY <1>1 DEF IInv, TypeOK, Request, UserRow
<1>5. row'.token_version \in Nat
  BY DEF UserRow
<1>6. TokensNotNewer' /\ TokenMeansCurrentPassword'
  BY <1>4, <1>5 DEF TokensNotNewer, TokenMeansCurrentPassword
<1>7. QED
  BY <1>2, <1>3, <1>6 DEF IInv

\* A step that leaves the row alone and ends a request without a token.
LEMMA EndInv ==
    ASSUME IInv, NEW p \in Proc, NEW pc \in {"done", "refused", "abandoned"},
           proc[p].pc \in {"lock", "recheck"},
           End(p, pc), UNCHANGED <<row, super_admin, may_reset>>
    PROVE  IInv'
<1>1. ~proc[p].issued
  BY DEF IInv, TypeOK
<1>2. /\ proc' \in [Proc -> Request]
      /\ proc'[p] = [proc[p] EXCEPT !.pc = pc]
      /\ \A q \in Proc \ {p} : proc'[q] = proc[q]
  BY DEF IInv, TypeOK, End, Request
<1>3. proc'[p].pc = pc /\ ~proc'[p].issued
  BY <1>1, <1>2 DEF IInv, TypeOK, Request
<1>4. TypeOK'
  BY ZenonT(40), <1>2, <1>3 DEF IInv, TypeOK
<1>5. ProvenReads'
  <2>1. ASSUME NEW q \in Proc \ {p} PROVE Proven(proc'[q])
    BY <1>2 DEF IInv, ProvenReads
  <2>2. Proven(proc'[p])
    BY <1>3 DEF Proven
  <2>3. QED
    BY <2>1, <2>2 DEF ProvenReads
<1>6. TokensNotNewer' /\ TokenMeansCurrentPassword'
  BY <1>2, <1>3 DEF IInv, TokensNotNewer, TokenMeansCurrentPassword, verify_password
<1>7. QED
  BY <1>4, <1>5, <1>6 DEF IInv

\* A read records what it verified.
LEMMA ReadInv ==
    ASSUME IInv, NEW p \in Proc, NEW op \in Op,
           NEW given \in Password \cup {NoPassword}, NEW new \in Password \cup {NoPassword},
           NEW accepted \in BOOLEAN, Read(p, op, given, new, accepted),
           accepted /\ op # "reset" =>
              /\ given \in Password
              /\ verify_password(row, given)
              /\ op = "change" => row.must_change = FALSE
              /\ op = "complete" => row.must_change = TRUE
    PROVE  IInv'
<1> DEFINE q == [op |-> op, pc |-> IF accepted THEN "lock" ELSE "refused",
                 given |-> given, new |-> new, snapshot |-> row, issued |-> FALSE]
<1>1. q \in Request /\ Proven(q) /\ ~q.issued
  BY DEF IInv, TypeOK, Request, Proven, verify_password
<1> HIDE DEF q
<1>2. proc' = [proc EXCEPT ![p] = q] /\ UNCHANGED <<row, super_admin, may_reset>>
  BY DEF Read, q
<1>3. /\ proc' \in [Proc -> Request]
      /\ proc'[p] = q
      /\ \A r \in Proc \ {p} : proc'[r] = proc[r]
  BY <1>1, <1>2 DEF IInv, TypeOK
<1>4. QED
  BY <1>1, <1>2, <1>3 DEF IInv, TypeOK, ProvenReads, Proven, TokensNotNewer,
                          TokenMeansCurrentPassword, verify_password

\* A login succeeds on a row whose password is the one it was given; the row keeps
\* its password, its version and its temporary flag.
LEMMA SucceedInv ==
    ASSUME IInv, NEW p \in Proc, proc[p].op = "login", Succeed(p),
           verify_password(row, proc[p].given),
           row' \in UserRow, row'.token_version = row.token_version,
           row'.must_change = row.must_change,
           row'.password_hash.password = row.password_hash.password,
           UNCHANGED <<super_admin, may_reset>>
    PROVE  IInv'
<1> DEFINE token == ~row.must_change
<1>0. row \in UserRow /\ proc \in [Proc -> Request] /\ token \in BOOLEAN
  BY DEF IInv, TypeOK
<1> HIDE DEF token
<1>a. proc' = [proc EXCEPT ![p].pc = "done", ![p].issued = token, ![p].snapshot = row]
  BY DEF Succeed, token
<1> DEFINE q == [proc[p] EXCEPT !.pc = "done", !.issued = token, !.snapshot = row]
<1>c. /\ q \in Request
      /\ q.pc = "done" /\ q.op = "login" /\ q.issued = token
      /\ q.snapshot = row /\ q.given = proc[p].given
  BY <1>0 DEF Request
<1>d. proc' = [proc EXCEPT ![p] = q]
  BY <1>0, <1>a
<1> HIDE DEF q
<1>b. /\ proc' \in [Proc -> Request]
      /\ \A r \in Proc \ {p} : proc'[r] = proc[r]
      /\ proc'[p].pc = "done" /\ proc'[p].op = "login"
      /\ proc'[p].issued = token
      /\ proc'[p].snapshot = row
      /\ proc'[p].given = proc[p].given
  BY <1>0, <1>c, <1>d
<1>1. /\ proc' \in [Proc -> Request]
      /\ \A r \in Proc \ {p} : proc'[r] = proc[r]
      /\ proc'[p].pc = "done" /\ proc'[p].op = "login"
      /\ proc'[p].issued => ~row.must_change
      /\ proc'[p].snapshot = row
      /\ proc'[p].given = proc[p].given
  BY <1>b DEF token
<1>2. TypeOK'
  BY <1>1 DEF IInv, TypeOK
<1>3. ProvenReads'
  BY <1>1 DEF IInv, ProvenReads, Proven, verify_password
<1>4. row.token_version \in Nat
  BY DEF IInv, TypeOK, UserRow
<1>5. TokensNotNewer'
  BY <1>1, <1>4 DEF IInv, TokensNotNewer
<1>6. TokenMeansCurrentPassword'
  BY <1>1 DEF IInv, TokenMeansCurrentPassword, verify_password
<1>7. QED
  BY <1>2, <1>3, <1>5, <1>6 DEF IInv

\* A rotation increments the version.
LEMMA RotateType ==
    ASSUME row \in UserRow, NEW hash \in Hash, NEW must \in BOOLEAN, rotate_password(hash, must)
    PROVE  row' \in UserRow /\ row'.token_version > row.token_version
<1>1. row' = [row EXCEPT !.password_hash = hash, !.must_change = must,
                         !.changed_at = row.changed_at + 1,
                         !.token_version = row.token_version + 1]
  BY DEF rotate_password
<1>2. row.changed_at + 1 \in Nat /\ row.token_version + 1 \in Nat
  BY DEF UserRow
<1>3. row' \in UserRow /\ row'.token_version = row.token_version + 1
  BY <1>1, <1>2 DEF UserRow
<1>4. QED
  BY <1>3 DEF UserRow

\* A login under lock.
LEMMA LoginInv ==
    ASSUME IInv, NEW p \in Proc, lock_login(p)
    PROVE  IInv'
<1> DEFINE snapshot == proc[p].snapshot
           upgraded == [row EXCEPT !.password_hash = hash_password(p, proc[p].given)]
<1>1. /\ proc[p] \in Request /\ row \in UserRow
      /\ proc[p].op = "login" /\ proc[p].pc = "lock"
      /\ UNCHANGED <<super_admin, may_reset>>
  BY DEF lock_login, IInv, TypeOK
<1>2. proc[p].given \in Password /\ verify_password(snapshot, proc[p].given)
  BY <1>1 DEF IInv, ProvenReads, Proven
<1>3. CASE /\ row.password_hash = snapshot.password_hash
           /\ row' = IF NeedsRehash(p) THEN upgraded ELSE row
           /\ Succeed(p)
  <2>1. verify_password(row, proc[p].given)
    BY <1>2, <1>3 DEF verify_password
  <2>2. /\ hash_password(p, proc[p].given) \in Hash
        /\ hash_password(p, proc[p].given).password = proc[p].given
    BY <1>2, HashType
  <2>3. /\ row' \in UserRow
        /\ row'.token_version = row.token_version
        /\ row'.must_change = row.must_change
        /\ row'.password_hash.password = row.password_hash.password
    BY <1>1, <1>3, <2>1, <2>2 DEF UserRow, verify_password
  <2>4. QED
    BY <1>1, <1>3, <2>1, <2>3, SucceedInv
<1>4. CASE /\ verify_password(row, proc[p].given)
           /\ proc' = [proc EXCEPT ![p].pc = "recheck", ![p].snapshot = row]
           /\ UNCHANGED row
  <2>1. /\ proc' \in [Proc -> Request]
        /\ \A r \in Proc \ {p} : proc'[r] = proc[r]
        /\ proc'[p].pc = "recheck" /\ proc'[p].op = "login"
        /\ proc'[p].snapshot = row
        /\ proc'[p].given = proc[p].given
        /\ proc'[p].issued = proc[p].issued
    BY <1>1, <1>4 DEF IInv, TypeOK, Request
  <2>2. ~proc[p].issued
    BY <1>1 DEF IInv, TypeOK
  <2>3. QED
    BY <1>1, <1>2, <1>4, <2>1, <2>2 DEF IInv, TypeOK, ProvenReads, Proven, TokensNotNewer,
                                        TokenMeansCurrentPassword, verify_password
<1>5. CASE End(p, "refused") /\ UNCHANGED row
  BY <1>1, <1>5, EndInv
<1>6. QED
  BY <1>3, <1>4, <1>5 DEF lock_login

\* A login under its second lock.
LEMMA RecheckInv ==
    ASSUME IInv, NEW p \in Proc, recheck_login(p)
    PROVE  IInv'
<1>1. /\ proc[p] \in Request /\ row \in UserRow /\ proc[p].pc = "recheck"
      /\ UNCHANGED <<row, super_admin, may_reset>>
  BY DEF recheck_login, IInv, TypeOK
<1>2. CASE same_password_state(proc[p].snapshot) /\ Succeed(p) /\ proc[p].op = "login"
  <2>1. verify_password(row, proc[p].given)
    BY <1>1, <1>2 DEF same_password_state, IInv, ProvenReads, Proven, verify_password
  <2>2. QED
    BY <1>1, <1>2, <2>1, SucceedInv
<1>3. CASE End(p, "refused")
  BY <1>1, <1>3, EndInv
<1>4. proc[p].op = "login"
  BY <1>1 DEF IInv, ProvenReads, Proven
<1>5. QED
  BY <1>2, <1>3, <1>4 DEF recheck_login

\* The rotation by the owner ends the flow; its tokens are of older versions.
LEMMA RotationInv ==
    ASSUME IInv, NEW p \in Proc, proc[p].pc = "lock",
           NEW must \in BOOLEAN, rotate_password(hash_password(p, proc[p].new), must),
           End(p, "done"), UNCHANGED <<super_admin, may_reset>>
    PROVE  IInv'
<1>1. proc[p] \in Request /\ row \in UserRow /\ proc[p].new \in Password \cup {NoPassword}
  BY DEF IInv, TypeOK, Request
<1>2. hash_password(p, proc[p].new) \in Hash
  BY <1>1, HashType
<1>3. row' \in UserRow /\ row'.token_version > row.token_version
  BY <1>1, <1>2, RotateType
<1>4. ~proc[p].issued
  BY DEF IInv, TypeOK
<1>5. /\ proc' \in [Proc -> Request]
      /\ proc'[p] = [proc[p] EXCEPT !.pc = "done"]
      /\ \A q \in Proc \ {p} : proc'[q] = proc[q]
  BY DEF IInv, TypeOK, End, Request
<1>6. ~proc'[p].issued /\ proc'[p].pc \notin {"lock", "recheck"}
  BY <1>1, <1>4, <1>5 DEF Request
<1>7. QED
  BY <1>3, <1>5, <1>6, VersionBump DEF IInv, TypeOK

\* Every step of a request keeps the invariant.
LEMMA StepInv ==
    ASSUME IInv, NEW p \in Proc, Step(p)
    PROVE  IInv'
<1>0. row \in UserRow /\ proc \in [Proc -> Request] /\ super_admin \in BOOLEAN
        /\ may_reset \in BOOLEAN /\ row.must_change \in BOOLEAN /\ row.is_active \in BOOLEAN
  BY DEF IInv, TypeOK, UserRow
<1>1. ASSUME NEW password \in Password, read_login(p, password)
      PROVE  IInv'
  <2>1. (verify_password(row, password) /\ row.is_active) \in BOOLEAN
    BY DEF verify_password
  <2>2. QED
    BY <1>1, <2>1, ReadInv DEF read_login, Op
<1>2. ASSUME NEW password \in Password, authorize_reset(p, password)
      PROVE  IInv'
  BY <1>0, <1>2, ReadInv DEF authorize_reset, Op
<1>3. ASSUME NEW password \in Password, operator_reset_super_admin_password(p, password)
      PROVE  IInv'
  <2>1. row' \in UserRow /\ row'.token_version > row.token_version
    BY <1>0, <1>3, HashType, RotateType DEF operator_reset_super_admin_password
  <2>2. ~proc[p].issued
    BY <1>3 DEF operator_reset_super_admin_password, IInv, TypeOK
  <2>3. proc' = [proc EXCEPT ![p].op = "reset", ![p].pc = "done"]
    BY <1>3 DEF operator_reset_super_admin_password
  <2>4. /\ proc' \in [Proc -> Request]
        /\ proc'[p].pc = "done" /\ proc'[p].issued = proc[p].issued
        /\ \A q \in Proc \ {p} : proc'[q] = proc[q]
    BY ZenonT(40), <1>0, <2>3 DEF Request, Op
  <2>5. UNCHANGED <<super_admin, may_reset>>
    BY <1>3 DEF operator_reset_super_admin_password
  <2>6. QED
    BY <1>0, <2>1, <2>2, <2>4, <2>5, VersionBump
<1>4. ASSUME NEW password \in Password, NEW new \in Password, read_change(p, password, new)
      PROVE  IInv'
  <2>1. (verify_password(row, password) /\ ~row.must_change) \in BOOLEAN
    OBVIOUS
  <2>2. (verify_password(row, password) /\ ~row.must_change) =>
           verify_password(row, password) /\ row.must_change = FALSE
    BY <1>0
  <2>3. QED
    BY <1>4, <2>1, <2>2, ReadInv DEF read_change, Op
<1>5. ASSUME NEW password \in Password, NEW new \in Password, read_complete(p, password, new)
      PROVE  IInv'
  <2> DEFINE accepted == verify_password(row, password) /\ row.is_active /\ row.must_change
  <2>1. accepted \in BOOLEAN
    OBVIOUS
  <2>2. accepted => verify_password(row, password) /\ row.must_change = TRUE
    BY <1>0
  <2>3. Read(p, "complete", password, new, accepted)
    BY <1>5 DEF read_complete
  <2> HIDE DEF accepted
  <2>4. QED
    BY <2>1, <2>2, <2>3, ReadInv DEF Op
<1>6. CASE rotate(p)
  <2>1. CASE rotate_password(hash_password(p, proc[p].new), FALSE) /\ End(p, "done")
    BY <1>6, <2>1, RotationInv DEF rotate
  <2>2. CASE UNCHANGED row /\ End(p, "refused")
    BY <1>6, <2>2, EndInv DEF rotate
  <2>3. QED
    BY <1>6, <2>1, <2>2 DEF rotate
<1>7. ASSUME NEW mode \in ResetMode, reset_user_password(p, mode)
      PROVE  IInv'
  <2>1. CASE /\ rotate_password(hash_password(p, proc[p].new), mode = "temporary")
             /\ End(p, "done")
    <3>1. (mode = "temporary") \in BOOLEAN
      OBVIOUS
    <3>2. QED
      BY <1>7, <2>1, <3>1, RotationInv DEF reset_user_password
  <2>2. CASE UNCHANGED row /\ End(p, "refused")
    BY <1>7, <2>2, EndInv DEF reset_user_password
  <2>3. QED
    BY <1>7, <2>1, <2>2 DEF reset_user_password
<1>8. CASE Abandon(p)
  BY <1>8, EndInv DEF Abandon
<1>9. QED
  BY <1>1, <1>2, <1>3, <1>4, <1>5, <1>6, <1>7, <1>8, LoginInv, RecheckInv DEF Step

\* Every step keeps the invariant.
LEMMA NextInv == IInv /\ [Next]_vars => IInv'
<1> SUFFICES ASSUME IInv, [Next]_vars PROVE IInv'
  OBVIOUS
<1>0. row \in UserRow /\ proc \in [Proc -> Request] /\ super_admin \in BOOLEAN
        /\ may_reset \in BOOLEAN
  BY DEF IInv, TypeOK
<1>1. CASE update_user_status
  <2>1. row' \in UserRow /\ row'.token_version > row.token_version
    <3>1. PICK flag \in BOOLEAN :
            row' = [row EXCEPT !.is_active = flag, !.token_version = row.token_version + 1]
      BY <1>1 DEF update_user_status
    <3>2. row.token_version \in Nat /\ row.token_version + 1 \in Nat
      BY <1>0 DEF UserRow
    <3>3. row' \in UserRow /\ row'.token_version = row.token_version + 1
      BY <1>0, <3>1, <3>2 DEF UserRow
    <3>4. QED
      BY <3>2, <3>3
  <2>2. UNCHANGED <<super_admin, may_reset, proc>>
    BY <1>1 DEF update_user_status
  <2>3. QED
    BY <1>0, <2>1, <2>2, VersionBump
<1>2. CASE revoke_user_sessions
  <2>1. row' \in UserRow /\ row'.token_version > row.token_version
    BY <1>0, <1>2 DEF revoke_user_sessions, UserRow
  <2>2. QED
    BY <1>0, <1>2, <2>1, VersionBump DEF revoke_user_sessions
<1>3. CASE AuthorityChanges
  <2>1. may_reset' \in BOOLEAN /\ UNCHANGED <<row, super_admin, proc>>
    BY <1>3 DEF AuthorityChanges
  <2>2. QED
    BY <2>1 DEF IInv, TypeOK, ProvenReads, Proven, TokensNotNewer,
                TokenMeansCurrentPassword, verify_password
<1>4. CASE UNCHANGED vars
  BY <1>4 DEF vars, IInv, TypeOK, ProvenReads, Proven, TokensNotNewer,
              TokenMeansCurrentPassword, verify_password
<1>5. QED
  BY <1>1, <1>2, <1>3, <1>4, StepInv DEF Next

\* The row, the requests and their tokens keep their types.
THEOREM PasswordTypes == Spec => []TypeOK
<1>1. IInv => TypeOK
  BY DEF IInv
<1>2. QED
  BY InitInv, NextInv, <1>1, PTL DEF Spec

\* A token that is still current was obtained with the current password, whatever
\* upgrades, rotations and revocations ran between its login's read and its lock.
THEOREM CurrentTokensAreEarned == Spec => []TokenMeansCurrentPassword
<1>1. IInv => TokenMeansCurrentPassword
  BY DEF IInv
<1>2. QED
  BY InitInv, NextInv, <1>1, PTL DEF Spec

\* change_password and complete_password_reset replace only the password they
\* verified: comparing hash and version under the lock is enough.
THEOREM OwnersReplaceTheCurrentPassword == Spec => RotationUsesCurrentCredential
<1>1. ASSUME IInv, [Next]_vars, NEW p \in Proc,
             proc[p].op \in {"change", "complete"}, proc[p].pc = "lock", proc'[p].pc = "done"
      PROVE  /\ verify_password(row, proc[p].given)
             /\ row.must_change = (proc[p].op = "complete")
             /\ row.is_active
  <2>0. proc \in [Proc -> Request]
    BY <1>1 DEF IInv, TypeOK
  <2>1. MayRotate(p)
    <3>1. PICK r \in Proc : Step(r)
      BY <1>1 DEF Next, vars, update_user_status, revoke_user_sessions, AuthorityChanges
    <3>2. r = p
      BY <1>1, <2>0, <3>1 DEF Step, read_login, read_change, read_complete, authorize_reset, Read,
             operator_reset_super_admin_password, lock_login, recheck_login, rotate,
             reset_user_password, Abandon, End, Succeed, Request
    <3>3. rotate(p)
      BY <1>1, <2>0, <3>1, <3>2 DEF Step, read_login, read_change, read_complete,
             authorize_reset, Read, operator_reset_super_admin_password, lock_login,
             recheck_login, reset_user_password, Abandon, End, Request
    <3>4. QED
      BY <1>1, <2>0, <3>3 DEF rotate, End, Request
  <2>2. /\ verify_password(proc[p].snapshot, proc[p].given)
        /\ proc[p].op = "change" => proc[p].snapshot.must_change = FALSE
        /\ proc[p].op = "complete" => proc[p].snapshot.must_change = TRUE
    BY <1>1 DEF IInv, ProvenReads, Proven
  <2>3. QED
    BY <1>1, <2>1, <2>2 DEF MayRotate, same_password_state, verify_password
<1>2. IInv /\ [Next]_vars => [\A p \in Proc :
          proc[p].op \in {"change", "complete"} /\ proc[p].pc = "lock" /\ proc'[p].pc = "done" =>
             /\ verify_password(row, proc[p].given)
             /\ row.must_change = (proc[p].op = "complete")
             /\ row.is_active]_vars
  BY <1>1
<1>3. QED
  BY InitInv, NextInv, <1>2, PTL DEF Spec, RotationUsesCurrentCredential

(***************************************************************************)
(* Upgrades of outdated hashes at login.                                   *)
(***************************************************************************)
\* p's login finds the row as it read it, with its outdated hash, and writes a new
\* one.
Upgrades(p) ==
    /\ proc[p].op = "login" /\ proc[p].pc = "lock"
    /\ row.password_hash = proc[p].snapshot.password_hash
    /\ ~row.password_hash.current
    /\ row' = [row EXCEPT !.password_hash = hash_password(p, proc[p].given)]

\* A step leaves the row, upgrades the hash, or moves the version; without a rotation
\* it leaves the password and the temporary flag too.
LEMMA RowStep ==
    ASSUME TypeOK, [Next]_vars
    PROVE  \/ row' = row
           \/ \E p \in Proc : Upgrades(p)
           \/ /\ row'.token_version > row.token_version
              /\ row'.changed_at = row.changed_at =>
                    /\ row'.password_hash = row.password_hash
                    /\ row'.must_change = row.must_change
<1> DEFINE Moves == /\ row'.token_version > row.token_version
                    /\ row'.changed_at = row.changed_at =>
                          /\ row'.password_hash = row.password_hash
                          /\ row'.must_change = row.must_change
           Goal == row' = row \/ (\E p \in Proc : Upgrades(p)) \/ Moves
<1>1. row \in UserRow
  BY DEF TypeOK
<1>2. ASSUME NEW hash, NEW must, rotate_password(hash, must) PROVE Moves
  BY <1>1, <1>2 DEF rotate_password, UserRow
<1>3. ASSUME NEW p \in Proc, lock_login(p) PROVE Goal
  BY <1>3 DEF lock_login, NeedsRehash, Upgrades
<1>4. ASSUME NEW p \in Proc, rotate(p) PROVE Goal
  BY <1>2, <1>4 DEF rotate
<1>5. ASSUME NEW p \in Proc, NEW mode, reset_user_password(p, mode) PROVE Goal
  BY <1>2, <1>5 DEF reset_user_password
<1>6. ASSUME NEW p \in Proc, NEW password, operator_reset_super_admin_password(p, password)
      PROVE  Goal
  BY <1>2, <1>6 DEF operator_reset_super_admin_password
<1>7. ASSUME NEW p \in Proc, Step(p) PROVE Goal
  BY <1>3, <1>4, <1>5, <1>6, <1>7
  DEF Step, read_login, authorize_reset, read_change, read_complete, Read, recheck_login,
      Abandon
<1>8. CASE update_user_status \/ revoke_user_sessions
  <2>1. PICK flag : row' = [row EXCEPT !.is_active = flag,
                                       !.token_version = row.token_version + 1]
    <3>1. row = [row EXCEPT !.is_active = row.is_active]
      BY <1>1 DEF UserRow
    <3> QED
      BY <1>1, <1>8, <3>1 DEF update_user_status, revoke_user_sessions, UserRow
  <2> QED
    BY <1>1, <2>1 DEF UserRow
<1>9. CASE AuthorityChanges \/ UNCHANGED vars
  BY <1>9 DEF AuthorityChanges, vars
<1> QED
  BY <1>7, <1>8, <1>9 DEF Next

\* An upgraded hash is of the password it replaces, which the login has proven.
LEMMA UpgradeKeeps ==
    ASSUME IInv, NEW p \in Proc, Upgrades(p)
    PROVE  /\ row'.password_hash.password = row.password_hash.password
           /\ row'.password_hash.current
           /\ row'.token_version = row.token_version
           /\ row'.changed_at = row.changed_at
           /\ row'.is_active = row.is_active
           /\ row'.must_change = row.must_change
<1>1. row \in UserRow /\ proc[p].given \in Password
      /\ proc[p].snapshot.password_hash.password = proc[p].given
  BY DEF IInv, TypeOK, ProvenReads, Proven, Upgrades, verify_password
<1>2. /\ hash_password(p, proc[p].given).password = proc[p].given
      /\ hash_password(p, proc[p].given).current
  BY DEF hash_password
<1> QED
  BY <1>1, <1>2 DEF Upgrades, UserRow

\* Outside a rotation the row keeps its password and its temporary flag: an upgrade
\* computed from an old read cannot bring an old password back.
THEOREM UpgradesKeepThePassword == Spec => UpgradeKeepsPassword
<1> DEFINE Kept == row'.changed_at = row.changed_at =>
                      /\ row'.password_hash.password = row.password_hash.password
                      /\ row'.must_change = row.must_change
<1>1. IInv /\ [Next]_vars => [Kept]_vars
  BY RowStep, UpgradeKeeps DEF IInv
<1> QED
  BY <1>1, InitInv, NextInv, PTL DEF Spec, UpgradeKeepsPassword

\* What a row may have become since a request read it: at the same version only its
\* hash may have been replaced, once, an outdated one by a current one.
Fits(snapshot) ==
    /\ snapshot.token_version <= row.token_version
    /\ snapshot.token_version = row.token_version =>
          /\ row.is_active = snapshot.is_active
          /\ row.changed_at = snapshot.changed_at
          /\ row.must_change = snapshot.must_change
          /\ row.password_hash.password = snapshot.password_hash.password
          /\ row.password_hash # snapshot.password_hash =>
                row.password_hash.current /\ ~snapshot.password_hash.current

\* Waiting requests hold reads that fit, and a login rechecks a current hash only.
ReadsFit ==
    \A p \in Proc :
        /\ proc[p].pc \in {"lock", "recheck"} => Fits(proc[p].snapshot)
        /\ proc[p].pc = "recheck" => proc[p].snapshot.password_hash.current

\* What a step does to the read of a request that waits after it.
LEMMA SnapshotStep ==
    ASSUME TypeOK, [Next]_vars, NEW p \in Proc, proc'[p].pc \in {"lock", "recheck"}
    PROVE  \/ proc'[p] = proc[p]
           \/ /\ proc'[p].snapshot = row /\ row' = row
              /\ proc'[p].pc = "recheck" => row.password_hash.current
<1> DEFINE Goal == \/ proc'[p] = proc[p]
                   \/ /\ proc'[p].snapshot = row /\ row' = row
                      /\ proc'[p].pc = "recheck" => row.password_hash.current
<1>1. proc \in [Proc -> Request]
  BY DEF TypeOK
<1>2. ASSUME NEW q \in Proc, NEW op, NEW given, NEW new, NEW accepted,
             Read(q, op, given, new, accepted)
      PROVE  Goal
  BY <1>1, <1>2 DEF Read
<1>3. ASSUME NEW q \in Proc, NEW pc \in {"done", "refused", "abandoned"}, End(q, pc)
      PROVE  Goal
  BY <1>1, <1>3 DEF End, Request
<1>4. ASSUME NEW q \in Proc, Succeed(q) PROVE Goal
  BY <1>1, <1>4 DEF Succeed, Request
<1>5. ASSUME NEW q \in Proc, lock_login(q) PROVE Goal
  <2>1. CASE /\ proc' = [proc EXCEPT ![q].pc = "recheck", ![q].snapshot = row]
             /\ row' = row /\ row.password_hash.current
    BY <1>1, <2>1 DEF Request
  <2> QED
    BY <1>3, <1>4, <1>5, <2>1 DEF lock_login
<1>6. ASSUME NEW q \in Proc, recheck_login(q) \/ rotate(q) \/ Abandon(q) PROVE Goal
  BY <1>3, <1>4, <1>6 DEF recheck_login, rotate, Abandon
<1>7. ASSUME NEW q \in Proc, NEW mode, reset_user_password(q, mode) PROVE Goal
  BY <1>3, <1>7 DEF reset_user_password
<1>8. ASSUME NEW q \in Proc, NEW password, operator_reset_super_admin_password(q, password)
      PROVE  Goal
  BY <1>1, <1>8 DEF operator_reset_super_admin_password, Request
<1>9. ASSUME NEW q \in Proc, NEW password, NEW new,
             \/ read_login(q, password) \/ authorize_reset(q, password)
             \/ read_change(q, password, new) \/ read_complete(q, password, new)
      PROVE  Goal
  BY <1>2, <1>9 DEF read_login, authorize_reset, read_change, read_complete
<1>10. ASSUME UNCHANGED proc PROVE Goal
  BY <1>10
<1>11. ASSUME NEW q \in Proc, Step(q) PROVE Goal
  BY <1>5, <1>6, <1>7, <1>8, <1>9, <1>11 DEF Step
<1> QED
  BY <1>10, <1>11 DEF Next, update_user_status, revoke_user_sessions, AuthorityChanges, vars

\* Reads keep fitting.
LEMMA FitsStep == IInv /\ ReadsFit /\ [Next]_vars => ReadsFit'
<1> SUFFICES ASSUME IInv, ReadsFit, [Next]_vars, NEW p \in Proc,
                    proc'[p].pc \in {"lock", "recheck"}
             PROVE  /\ Fits(proc[p].snapshot)'
                    /\ proc'[p].pc = "recheck" => proc'[p].snapshot.password_hash.current
  BY DEF ReadsFit
<1>1. TypeOK /\ row \in UserRow /\ proc \in [Proc -> Request]
  BY DEF IInv, TypeOK
<1>2. IInv' /\ row' \in UserRow
  BY NextInv DEF IInv, TypeOK
<1>3. CASE proc'[p].snapshot = row /\ row' = row
           /\ (proc'[p].pc = "recheck" => row.password_hash.current)
  BY <1>1, <1>3 DEF Fits, UserRow
<1>4. CASE proc'[p] = proc[p]
  <2> DEFINE snapshot == proc[p].snapshot
  <2>1. snapshot \in UserRow /\ Fits(snapshot)
        /\ (proc[p].pc = "recheck" => snapshot.password_hash.current)
    BY <1>1, <1>4 DEF ReadsFit, Request
  <2> HIDE DEF snapshot
  <2>2. CASE row' = row
    BY <1>4, <2>1, <2>2 DEF Fits, snapshot
  <2>3. CASE row'.token_version > row.token_version
    <3>1. snapshot.token_version < row'.token_version
      BY <1>1, <1>2, <2>1, <2>3 DEF Fits, UserRow
    <3> QED
      BY <1>2, <1>4, <2>1, <3>1 DEF Fits, UserRow, snapshot
  <2>4. ASSUME NEW q \in Proc, Upgrades(q)
        PROVE  /\ Fits(proc[p].snapshot)'
               /\ proc'[p].pc = "recheck" => proc'[p].snapshot.password_hash.current
    <3>1. /\ row'.password_hash.password = row.password_hash.password
          /\ row'.password_hash.current
          /\ row'.token_version = row.token_version
          /\ row'.changed_at = row.changed_at
          /\ row'.is_active = row.is_active
          /\ row'.must_change = row.must_change
      BY <2>4, UpgradeKeeps
    <3>2. snapshot.token_version = row.token_version => ~snapshot.password_hash.current
      BY <2>1, <2>4 DEF Fits, Upgrades
    <3> QED
      BY <1>4, <2>1, <3>1, <3>2 DEF Fits, snapshot
  <2> QED
    BY <1>1, <2>2, <2>3, <2>4, RowStep
<1> QED
  BY <1>1, <1>3, <1>4, SnapshotStep

\* Whoever refuses a waiting login is the login itself, at one of its two locks.
LEMMA RefusalStep ==
    ASSUME TypeOK, [Next]_vars, NEW p \in Proc, proc[p].op = "login",
           proc[p].pc \in {"lock", "recheck"}, proc'[p].pc = "refused"
    PROVE  lock_login(p) \/ recheck_login(p)
<1>1. proc \in [Proc -> Request] /\ proc'[p] # proc[p]
  BY DEF TypeOK, Request
<1>2. PICK q \in Proc : Step(q)
  BY <1>1 DEF Next, vars, update_user_status, revoke_user_sessions, AuthorityChanges
<1>3. q = p
  BY <1>1, <1>2
  DEF Step, read_login, read_change, read_complete, authorize_reset, Read,
      operator_reset_super_admin_password, lock_login, recheck_login, rotate,
      reset_user_password, Abandon, End, Succeed, Request
<1> QED
  BY <1>1, <1>2, <1>3
  DEF Step, read_login, read_change, read_complete, authorize_reset, Read,
      operator_reset_super_admin_password, rotate, reset_user_password, Abandon, End, Request

\* A login that verified the right password is refused only when the account's version
\* moved, never because another login upgraded the hash meanwhile.
THEOREM UpgradesRejectNobody == Spec => UpgradeRejectsNobody
<1>1. Init => ReadsFit
  <2>1. ASSUME Init, NEW p \in Proc PROVE proc[p].pc = "idle"
    <3>1. proc = [q \in Proc |-> [op |-> "login", pc |-> "idle", given |-> NoPassword,
                                  new |-> NoPassword, snapshot |-> row, issued |-> FALSE]]
      BY <2>1, Zenon DEF Init
    <3> QED
      BY <3>1
  <2> QED
    BY <2>1 DEF ReadsFit
<1>2. ASSUME IInv, ReadsFit, [Next]_vars, NEW p \in Proc, proc[p].op = "login",
             proc[p].pc \in {"lock", "recheck"}, proc'[p].pc = "refused",
             row.token_version = proc[p].snapshot.token_version
      PROVE  FALSE
  <2>1. TypeOK /\ proc \in [Proc -> Request] /\ proc[p].given \in Password
        /\ verify_password(proc[p].snapshot, proc[p].given)
        /\ Fits(proc[p].snapshot)
    BY <1>2 DEF IInv, TypeOK, ProvenReads, Proven, ReadsFit
  <2>2. ~Succeed(p)
    BY <1>2, <2>1 DEF Succeed, Request
  <2>3. /\ row.is_active = proc[p].snapshot.is_active
        /\ row.changed_at = proc[p].snapshot.changed_at
        /\ row.must_change = proc[p].snapshot.must_change
        /\ verify_password(row, proc[p].given)
        /\ row.password_hash # proc[p].snapshot.password_hash =>
              row.password_hash.current /\ ~proc[p].snapshot.password_hash.current
    BY <1>2, <2>1 DEF Fits, verify_password
  <2>4. CASE lock_login(p)
    <3>1. proc' # [proc EXCEPT ![p].pc = "recheck", ![p].snapshot = row]
      BY <1>2, <2>1 DEF Request
    <3> QED
      BY <1>2, <2>2, <2>3, <2>4, <3>1 DEF lock_login, same_login_user_state, NeedsRehash
  <2>5. CASE recheck_login(p)
    <3>1. proc[p].snapshot.password_hash.current
      BY <1>2, <2>5 DEF ReadsFit, recheck_login
    <3>2. row.password_hash.password # NoPassword
      BY <2>1, <2>3, NoPasswordAssumption DEF verify_password
    <3> QED
      BY <1>2, <2>2, <2>3, <2>5, <3>1, <3>2
      DEF recheck_login, same_login_user_state, same_password_state
  <2> QED
    BY <1>2, <2>1, <2>4, <2>5, RefusalStep
<1>3. IInv /\ ReadsFit /\ [Next]_vars =>
        [\A p \in Proc :
            /\ proc[p].op = "login" /\ proc[p].pc \in {"lock", "recheck"}
            /\ proc'[p].pc = "refused"
            => row.token_version # proc[p].snapshot.token_version]_vars
  BY <1>2
<1> QED
  BY <1>1, <1>3, InitInv, NextInv, FitsStep, PTL DEF Spec, UpgradeRejectsNobody

=============================================================================
