----------------------- MODULE SessionRegistry_proofs -----------------------
(***************************************************************************)
(* Proofs about SessionRegistry, for any number of logins and requests and *)
(* whatever lifetimes, limits and Redis errors they meet.                  *)
(***************************************************************************)
EXTENDS SessionRegistry, FiniteSetTheorems, WellFoundedInduction, TLAPS

Field == {"records", "order", "expires", "version", "deadline"}

\* The hash holds well-formed records only.
KeysOK(keys) ==
    /\ DOMAIN keys = Field
    /\ \A s \in DOMAIN keys.records : keys.records[s] \in Record

\* The record of a login, without a bound on its attempts, and of a request.
LoginRow ==
    [pc : {"idle", "verified", "encoded", "issued", "refused", "failed"},
     version : Nat, exp : Nat, attempts : Nat]

PrincipalRow ==
    [pc : {"idle", "principal", "authorized", "rejected"},
     token : Login \cup {NoLogin}, version : Nat, since : Nat]

\* What the versions that requests carry are worth.
Types ==
    /\ now \in Nat
    /\ user \in [is_active : BOOLEAN, token_version : Nat]
    /\ KeysOK(registry)
    /\ login \in [Login -> LoginRow]
    /\ request \in [Request -> PrincipalRow]

\* The row's version is a high-water mark of what requests saw when they began.
RowNotOlder == \A r \in Request : request[r].since <= user.token_version

\* Removing sessions leaves the remaining records as they were.
LEMMA RemoveKeys ==
    ASSUME NEW keys, KeysOK(keys), NEW S
    PROVE  KeysOK(remove_session(keys, S))
BY DEF KeysOK, remove_session, Restrict, Field

\* A registered login adds one well-formed record.
LEMMA AddKeys ==
    ASSUME NEW keys, KeysOK(keys), NEW field, NEW value \in Record
    PROVE  KeysOK(add_session(keys, field, value))
<1> DEFINE scores == {keys.order[s] : s \in DOMAIN keys.order}
           score  == CHOOSE n \in {now} \cup {x + 1 : x \in scores} :
                        n >= now /\ \A x \in scores : n > x
<1> HIDE DEF score
<1>1. add_session(keys, field, value) =
        [keys EXCEPT !.records = [s \in DOMAIN @ \cup {field} |->
                                    IF s = field THEN value ELSE @[s]],
                     !.order   = [s \in DOMAIN @ \cup {field} |->
                                    IF s = field THEN score ELSE @[s]],
                     !.expires = [s \in DOMAIN @ \cup {field} |->
                                    IF s = field THEN value.exp ELSE @[s]],
                     !.version = value.token_version]
  BY DEF add_session, score
<1>2. QED
  BY <1>1 DEF KeysOK, Field

\* No result of the activation script leaves a malformed record.
LEMMA ActivateKeys ==
    ASSUME Types, NEW l \in Login, NEW outcome \in ACTIVATE_JTI(l)
    PROVE  KeysOK(outcome.keys)
<1> DEFINE pruned  == prune_expired(registry)
           dropped == delete_older_version(pruned, login[l].version)
           value   == [token_version |-> login[l].version, exp |-> login[l].exp]
           stored  == add_session(dropped, l, value)
<1>1. KeysOK(pruned)
  BY RemoveKeys DEF prune_expired, Types
<1>2. KeysOK(dropped)
  BY <1>1 DEF delete_older_version, KeysOK, NoKeys, Field
<1>3. value \in Record
  BY DEF Types, Record, LoginRow
<1>4. KeysOK(stored)
  BY <1>2, <1>3, AddKeys
<1>5. KeysOK(extend_deadline(evict_oldest(stored), login[l].exp))
  <2>1. KeysOK(evict_oldest(stored))
    BY <1>4, RemoveKeys DEF evict_oldest
  <2>2. QED
    BY <2>1 DEF extend_deadline, KeysOK, Field
<1>6. outcome.keys \in {registry, pruned, extend_deadline(evict_oldest(stored), login[l].exp)}
  BY DEF ACTIVATE_JTI
<1>7. QED
  BY <1>1, <1>5, <1>6 DEF Types

\* The initial state is typed and no request has begun.
LEMMA InitTypes == Init => Types /\ RowNotOlder /\ AuthorizedIsCurrent
BY DEF Init, Types, LoginRow, PrincipalRow, KeysOK, NoKeys, Field, NewLogin, NoPrincipal,
   RowNotOlder, AuthorizedIsCurrent

\* A login changes its own record and the keys.
LEMMA LoginTypes ==
    ASSUME Types, NEW l \in Login, LoginStep(l)
    PROVE  Types' /\ UNCHANGED <<user, request>>
<1>1. CASE authenticate(l)
  <2>1. user.token_version \in Nat /\ login[l] \in LoginRow
    BY DEF Types
  <2>2. [login[l] EXCEPT !.pc = "verified", !.version = user.token_version] \in LoginRow
    BY <2>1 DEF LoginRow
  <2>3. login' = [login EXCEPT ![l] =
                    [@ EXCEPT !.pc = "verified", !.version = user.token_version]]
    BY <1>1 DEF authenticate
  <2>4. login' \in [Login -> LoginRow]
    BY <2>2, <2>3 DEF Types
  <2>5. UNCHANGED <<now, user, registry, request>>
    BY <1>1 DEF authenticate
  <2>6. QED
    BY <2>4, <2>5 DEF Types, KeysOK
<1>2. ASSUME NEW ttl \in Lifetime, encode_access_token(l, ttl)
      PROVE  Types' /\ UNCHANGED <<user, request>>
  <2>1. /\ now + ttl \in Nat
        /\ login[l] \in LoginRow
        /\ login[l].attempts + 1 \in Nat
    <3>1. ttl \in Nat /\ now \in Nat
      BY LifetimeAssumption DEF Types
    <3>2. login[l] \in LoginRow
      BY DEF Types
    <3>3. login[l].attempts \in Nat
      BY <3>2 DEF LoginRow
    <3>4. QED
      BY <3>1, <3>2, <3>3
  <2> DEFINE attempts == login[l].attempts + 1
             exp == now + ttl
             row == [login[l] EXCEPT !.pc = "encoded", !.exp = exp, !.attempts = attempts]
  <2>2. login' = [login EXCEPT ![l] = row]
    BY <1>2, <2>1 DEF encode_access_token, Types, LoginRow
  <2>3. exp \in Nat /\ attempts \in Nat
    BY <2>1
  <2>4. row \in LoginRow
    <3> HIDE DEF attempts, exp
    <3>1. QED
      BY <2>1, <2>3 DEF LoginRow
  <2>5. login' \in [Login -> LoginRow]
    <3> HIDE DEF row
    <3>1. QED
      BY <2>2, <2>4 DEF Types
  <2>6. UNCHANGED <<now, user, registry, request>>
    BY <1>2 DEF encode_access_token
  <2>7. QED
    BY <2>5, <2>6 DEF Types, KeysOK
<1>3. ASSUME NEW pc \in {"verified", "issued", "refused", "failed"}, Answer(l, pc)
      PROVE  login' \in [Login -> LoginRow]
  <2>1. login[l] \in LoginRow
    BY DEF Types
  <2>2. /\ [login[l] EXCEPT !.pc = pc] \in LoginRow
        /\ [NewLogin EXCEPT !.pc = pc, !.exp = login[l].exp] \in LoginRow
        /\ [NewLogin EXCEPT !.pc = pc] \in LoginRow
    BY <2>1 DEF LoginRow, NewLogin
  <2>3. QED
    BY <1>3, <2>2 DEF Answer, Types
<1>4. CASE issue_access_token(l)
  <2>1. PICK outcome \in ACTIVATE_JTI(l) :
           /\ registry' = outcome.keys
           /\ Answer(l, AfterResult(l, outcome.result))
    BY <1>4 DEF issue_access_token
  <2>2. AfterResult(l, outcome.result) \in {"verified", "issued", "refused", "failed"}
    BY DEF AfterResult
  <2>3. KeysOK(registry')
    BY <2>1, ActivateKeys
  <2>4. QED
    BY <1>3, <1>4, <2>1, <2>2, <2>3 DEF issue_access_token, Types, KeysOK
<1>5. CASE issue_access_token_RedisError(l)
  <2>1. KeysOK(registry')
    BY <1>5, ActivateKeys DEF issue_access_token_RedisError, Types
  <2>2. QED
    BY <1>3, <1>5, <2>1 DEF issue_access_token_RedisError, Types, KeysOK
<1>6. QED
  BY <1>1, <1>2, <1>4, <1>5 DEF LoginStep

\* A request changes its own principal and removes sessions; it is authorized only
\* when the row, not older than at its beginning, has its version.
LEMMA RequestTypes ==
    ASSUME Types, RowNotOlder, AuthorizedIsCurrent, NEW r \in Request, RequestStep(r)
    PROVE  Types' /\ RowNotOlder' /\ AuthorizedIsCurrent'
<1>1. ASSUME Finish(r), user' = user
      PROVE  request' \in [Request -> PrincipalRow] /\ RowNotOlder' /\ AuthorizedIsCurrent'
  <2>1. NoPrincipal \in PrincipalRow
    BY DEF NoPrincipal, PrincipalRow
  <2>2. request' \in [Request -> PrincipalRow]
    BY <1>1, <2>1 DEF Finish, Types
  <2>3. user.token_version \in Nat
    BY DEF Types
  <2>4. QED
    BY <1>1, <2>2, <2>3 DEF Finish, NoPrincipal, Types, RowNotOlder, AuthorizedIsCurrent
<1>2. KeysOK(COMPARE_AND_DELETE(r))
  BY RemoveKeys DEF COMPARE_AND_DELETE, Types
<1>3. ASSUME NEW l \in Login, get_current_principal(r, l)
      PROVE  Types' /\ RowNotOlder' /\ AuthorizedIsCurrent'
  <2>1. registry.records[l] \in Record
    BY <1>3 DEF get_current_principal, RecordMatches, Types, KeysOK
  <2>2. registry.records[l].token_version \in Nat
    BY <2>1 DEF Record
  <2>3. user.token_version \in Nat
    BY DEF Types
  <2>4. request' \in [Request -> PrincipalRow]
    BY <1>3, <2>2, <2>3 DEF get_current_principal, Types, PrincipalRow
  <2>5. QED
    BY <1>3, <2>3, <2>4 DEF get_current_principal, Types, KeysOK, RowNotOlder, AuthorizedIsCurrent
<1>4. ASSUME NEW l \in Login, get_current_principal_Inactive(r, l)
      PROVE  Types' /\ RowNotOlder' /\ AuthorizedIsCurrent'
  <2>1. KeysOK(registry')
    BY <1>4, RemoveKeys DEF get_current_principal_Inactive, Types
  <2>2. QED
    BY <1>4, <2>1 DEF get_current_principal_Inactive, Types, KeysOK, RowNotOlder,
       AuthorizedIsCurrent
<1>5. CASE get_authorization_context(r)
  <2>1. request' \in [Request -> PrincipalRow]
    BY <1>5 DEF get_authorization_context, Types, PrincipalRow
  <2>2. Types' /\ RowNotOlder'
    BY <1>5, <2>1 DEF get_authorization_context, Types, KeysOK, RowNotOlder
  <2>3. request'[r].pc = "authorized" => request'[r].version >= request'[r].since
    BY <1>5 DEF get_authorization_context, PrincipalIsCurrent, Types, PrincipalRow, RowNotOlder
  <2>4. \A q \in Request : q # r => request'[q] = request[q]
    BY <1>5 DEF get_authorization_context, Types
  <2>5. QED
    BY <2>2, <2>3, <2>4 DEF AuthorizedIsCurrent
<1>6. CASE logout_current_access_token(r)
  BY <1>1, <1>2, <1>6 DEF logout_current_access_token, Types, KeysOK
<1>7. CASE best_effort_revoke_invalid_principal(r)
  BY <1>1, <1>2, <1>7 DEF best_effort_revoke_invalid_principal, Types, KeysOK
<1>8. CASE list_active_sessions(r)
  <2>1. KeysOK(registry')
    BY <1>8, RemoveKeys DEF list_active_sessions, prune_expired, Types
  <2>2. QED
    BY <1>1, <1>8, <2>1 DEF list_active_sessions, Types, KeysOK
<1>9. CASE EndRequest(r)
  BY <1>1, <1>9 DEF EndRequest, Types, KeysOK
<1>10. QED
  BY <1>3, <1>4, <1>5, <1>6, <1>7, <1>8, <1>9 DEF RequestStep

\* Every step keeps the three conjuncts: the row's version only grows.
LEMMA RevocationStep ==
    Types /\ RowNotOlder /\ AuthorizedIsCurrent /\ [Next]_vars
      => Types' /\ RowNotOlder' /\ AuthorizedIsCurrent'
<1> SUFFICES ASSUME Types, RowNotOlder, AuthorizedIsCurrent, [Next]_vars
             PROVE  Types' /\ RowNotOlder' /\ AuthorizedIsCurrent'
  OBVIOUS
<1>1. ASSUME NEW l \in Login, LoginStep(l)
      PROVE  Types' /\ RowNotOlder' /\ AuthorizedIsCurrent'
  BY <1>1, LoginTypes DEF RowNotOlder, AuthorizedIsCurrent
<1>2. ASSUME NEW r \in Request, RequestStep(r)
      PROVE  Types' /\ RowNotOlder' /\ AuthorizedIsCurrent'
  BY <1>2, RequestTypes
<1>v. ASSUME UNCHANGED <<now, registry, login, request>>,
             user'.token_version = user.token_version + 1,
             user' \in [is_active : BOOLEAN, token_version : Nat]
      PROVE  Types' /\ RowNotOlder' /\ AuthorizedIsCurrent'
  <2>1. user.token_version \in Nat /\ \A r \in Request : request[r].since \in Nat
    BY DEF Types, PrincipalRow
  <2>2. RowNotOlder'
    BY <1>v, <2>1 DEF RowNotOlder
  <2>3. QED
    BY <1>v, <2>2 DEF Types, KeysOK, AuthorizedIsCurrent
<1>3. CASE BumpTokenVersion
  BY <1>3, <1>v DEF BumpTokenVersion, Types
<1>4. CASE update_user_status
  <2>1. user.token_version + 1 \in Nat
    BY DEF Types
  <2>2. /\ user' = [is_active |-> ~user.is_active, token_version |-> user.token_version + 1]
        /\ UNCHANGED <<now, registry, login, request>>
    BY <1>4 DEF update_user_status
  <2>n. (~user.is_active) \in BOOLEAN
    OBVIOUS
  <2>3. /\ user' \in [is_active : BOOLEAN, token_version : Nat]
        /\ user'.token_version = user.token_version + 1
    BY <2>1, <2>2, <2>n
  <2>4. QED
    BY <1>v, <2>1, <2>2, <2>3
<1>5. CASE Tick
  BY <1>5 DEF Tick, Types, KeysOK, NoKeys, Field, RowNotOlder, AuthorizedIsCurrent
<1>6. CASE UNCHANGED vars
  BY <1>6 DEF vars, Types, KeysOK, RowNotOlder, AuthorizedIsCurrent
<1>7. QED
  BY <1>1, <1>2, <1>3, <1>4, <1>5, <1>6 DEF Next

\* A request that begins after a revocation, a rotation or a deactivation is never
\* authorized with an older token: get_authorization_context compares the version
\* recorded in Redis with the row.
THEOREM RevocationReachesEveryRequest == Safe => []AuthorizedIsCurrent
<1>1. Types /\ RowNotOlder /\ AuthorizedIsCurrent => AuthorizedIsCurrent
  OBVIOUS
<1>2. QED
  BY InitTypes, RevocationStep, <1>1, PTL DEF Safe

(***************************************************************************)
(* The three keys.                                                         *)
(***************************************************************************)
\* The hash and its indexes list the same sessions, all of the version in _version;
\* their scores differ and are bounded.
WellFormed(keys) ==
    /\ DOMAIN keys = Field
    /\ keys.version \in Nat \cup {-1}
    /\ keys.deadline \in Nat
    /\ IsFiniteSet(DOMAIN keys.records)
    /\ DOMAIN keys.order = DOMAIN keys.records
    /\ DOMAIN keys.expires = DOMAIN keys.records
    /\ \A s \in DOMAIN keys.records :
          /\ keys.records[s] \in Record
          /\ keys.records[s].token_version = keys.version
          /\ keys.records[s].exp = keys.expires[s]
          /\ keys.order[s] \in Nat
    /\ \A s, t \in DOMAIN keys.records : keys.order[s] = keys.order[t] => s = t
    /\ \E bound \in Nat : \A s \in DOMAIN keys.records : keys.order[s] < bound

\* No session outlives the keys.
Covered(keys) == \A s \in DOMAIN keys.records : keys.expires[s] <= keys.deadline

WithinLimit(keys) == Cardinality(DOMAIN keys.records) <= MaxSessions

KeysInv(keys) == WellFormed(keys) /\ Covered(keys) /\ WithinLimit(keys)

\* A token that was returned has expired or is covered by the keys' deadline.
TokensCovered ==
    \A l \in Login : login[l].pc = "issued" =>
        login[l].exp <= now \/ login[l].exp <= registry.deadline

\* A set of natural numbers has a least member.
LEMMA LeastMember ==
    ASSUME NEW T, T \subseteq Nat, T # {}
    PROVE  \E x \in T : \A y \in T : x <= y
<1>1. ASSUME NEW R, NEW S, IsWellFoundedOn(R, S), T \subseteq S
      PROVE  \E x \in T : \A y \in T : ~ (<<y, x>> \in R)
  BY <1>1, WFMin
<1>2. PICK x \in T : \A y \in T : ~ (<<y, x>> \in OpToRel(<, Nat))
  BY <1>1, NatLessThanWellFounded, Zenon
<1>3. ASSUME NEW y \in T PROVE ~(y < x)
  BY <1>2 DEF OpToRel
<1> QED
  BY <1>3

\* No keys at all are well-formed, whatever deadline they retain.
LEMMA NoKeysInv == \A deadline \in Nat : KeysInv([NoKeys EXCEPT !.deadline = deadline])
<1> SUFFICES ASSUME NEW deadline \in Nat
             PROVE  KeysInv([NoKeys EXCEPT !.deadline = deadline])
  OBVIOUS
<1> DEFINE keys == [NoKeys EXCEPT !.deadline = deadline]
<1>1. /\ DOMAIN keys = Field
      /\ keys.records = <<>> /\ keys.order = <<>> /\ keys.expires = <<>>
      /\ keys.version = -1 /\ keys.deadline = deadline
  BY DEF NoKeys, Field
<1> HIDE DEF keys
<1>2. DOMAIN keys.records = {} /\ DOMAIN keys.order = {} /\ DOMAIN keys.expires = {}
  BY <1>1
<1>3. IsFiniteSet({}) /\ Cardinality({}) = 0
  BY FS_EmptySet
<1>4. \E bound \in Nat : \A s \in DOMAIN keys.records : keys.order[s] < bound
  BY <1>2
<1>5. WellFormed(keys)
  BY <1>1, <1>2, <1>3, <1>4 DEF WellFormed
<1>6. Covered(keys) /\ WithinLimit(keys)
  BY <1>2, <1>3, MaxSessionsAssumption DEF Covered, WithinLimit
<1> QED
  BY <1>5, <1>6 DEF KeysInv, keys

\* Sessions removed from all three keys leave the others as they were.
LEMMA RemovedSessions ==
    ASSUME NEW keys, WellFormed(keys), NEW S
    PROVE  LET rest == remove_session(keys, S)
           IN  /\ WellFormed(rest)
               /\ DOMAIN rest.records = DOMAIN keys.records \ S
               /\ \A s \in DOMAIN rest.records : /\ rest.order[s] = keys.order[s]
                                                 /\ rest.expires[s] = keys.expires[s]
               /\ rest.version = keys.version /\ rest.deadline = keys.deadline
<1> DEFINE rest == remove_session(keys, S)
<1>1. /\ DOMAIN rest = Field
      /\ rest.records = Restrict(keys.records, DOMAIN keys.records \ S)
      /\ rest.order = Restrict(keys.order, DOMAIN keys.order \ S)
      /\ rest.expires = Restrict(keys.expires, DOMAIN keys.expires \ S)
      /\ rest.version = keys.version /\ rest.deadline = keys.deadline
  BY DEF WellFormed, remove_session, Field
<1> HIDE DEF rest
<1>2. /\ DOMAIN keys.order = DOMAIN keys.records
      /\ DOMAIN keys.expires = DOMAIN keys.records
  BY DEF WellFormed
<1>3. /\ DOMAIN rest.records = DOMAIN keys.records \ S
      /\ DOMAIN rest.order = DOMAIN keys.records \ S
      /\ DOMAIN rest.expires = DOMAIN keys.records \ S
      /\ \A s \in DOMAIN keys.records \ S : /\ rest.records[s] = keys.records[s]
                                            /\ rest.order[s] = keys.order[s]
                                            /\ rest.expires[s] = keys.expires[s]
  BY <1>1, <1>2 DEF Restrict
<1>4. IsFiniteSet(DOMAIN rest.records)
  <2>1. IsFiniteSet(DOMAIN keys.records) /\ DOMAIN rest.records \in SUBSET DOMAIN keys.records
    BY <1>3 DEF WellFormed
  <2> QED
    BY <2>1, FS_Subset
<1>5. WellFormed(rest)
  BY <1>1, <1>3, <1>4 DEF WellFormed
<1> QED
  BY <1>1, <1>3, <1>5 DEF rest

\* Removing sessions keeps the limit and the deadline.
LEMMA RemovedInv ==
    ASSUME NEW keys, KeysInv(keys), NEW S
    PROVE  /\ KeysInv(remove_session(keys, S))
           /\ remove_session(keys, S).version = keys.version
           /\ remove_session(keys, S).deadline = keys.deadline
<1> DEFINE rest == remove_session(keys, S)
<1>1. /\ WellFormed(rest)
      /\ DOMAIN rest.records = DOMAIN keys.records \ S
      /\ \A s \in DOMAIN rest.records : rest.expires[s] = keys.expires[s]
      /\ rest.version = keys.version /\ rest.deadline = keys.deadline
  BY RemovedSessions DEF KeysInv
<1> HIDE DEF rest
<1>2. Cardinality(DOMAIN rest.records) <= Cardinality(DOMAIN keys.records)
  <2>1. IsFiniteSet(DOMAIN keys.records) /\ DOMAIN rest.records \in SUBSET DOMAIN keys.records
    BY <1>1 DEF KeysInv, WellFormed
  <2> QED
    BY <2>1, FS_Subset
<1>3. /\ Cardinality(DOMAIN rest.records) \in Nat /\ Cardinality(DOMAIN keys.records) \in Nat
      /\ MaxSessions \in Nat
  BY <1>1, FS_CardinalityType, MaxSessionsAssumption DEF KeysInv, WellFormed
<1>4. WithinLimit(rest)
  BY <1>2, <1>3 DEF KeysInv, WithinLimit
<1>5. Covered(rest)
  BY <1>1 DEF KeysInv, Covered
<1> QED
  BY <1>1, <1>4, <1>5 DEF KeysInv, rest

\* The newcomer's score exists and is above all others.
LEMMA NewScore ==
    ASSUME now \in Nat, NEW scores, scores \subseteq Nat,
           NEW bound \in Nat, \A x \in scores : x < bound
    PROVE  LET score == CHOOSE n \in {now} \cup {x + 1 : x \in scores} :
                           n >= now /\ \A x \in scores : n > x
           IN  score \in Nat /\ \A x \in scores : x < score
<1> DEFINE candidates == {now} \cup {x + 1 : x \in scores}
           score == CHOOSE n \in candidates : n >= now /\ \A x \in scores : n > x
           above == {b \in Nat : \A x \in scores : x < b}
<1>1. above \subseteq Nat /\ bound \in above
  OBVIOUS
<1>2. PICK least \in above : \A b \in above : least <= b
  <2> HIDE DEF above
  <2> QED
    BY <1>1, LeastMember
<1>3. \E n \in candidates : n >= now /\ \A x \in scores : n > x
  <2>1. CASE least <= now
    <3>1. \A x \in scores : now > x
      BY <1>2, <2>1
    <3> QED
      BY <3>1
  <2>2. CASE least > now
    <3>1. least - 1 \in Nat /\ least - 1 \notin above
      BY <1>2, <2>2
    <3>2. PICK x \in scores : ~(x < least - 1)
      BY <3>1
    <3>3. x + 1 = least
      BY <1>2, <3>2
    <3> QED
      BY <1>2, <2>2, <3>3
  <2> QED
    BY <1>2, <2>1, <2>2
<1>4. candidates \subseteq Nat
  OBVIOUS
<1> HIDE DEF candidates
<1>5. score \in candidates /\ \A x \in scores : score > x
  BY <1>3
<1> HIDE DEF score
<1>6. score \in Nat /\ \A x \in scores : x < score
  BY <1>4, <1>5
<1> QED
  BY <1>6 DEF score, candidates

\* A login added to keys of its version, or to none.
LEMMA AddedSession ==
    ASSUME now \in Nat, NEW keys, WellFormed(keys), NEW field, NEW value \in Record,
           keys.version = value.token_version \/ DOMAIN keys.records = {}
    PROVE  LET more == add_session(keys, field, value)
           IN  /\ WellFormed(more)
               /\ DOMAIN more.records = DOMAIN keys.records \cup {field}
               /\ more.version = value.token_version /\ more.deadline = keys.deadline
               /\ more.expires[field] = value.exp
               /\ \A s \in DOMAIN keys.records \ {field} :
                     /\ more.expires[s] = keys.expires[s]
                     /\ more.order[s] = keys.order[s]
                     /\ more.order[s] < more.order[field]
<1> DEFINE scores == {keys.order[s] : s \in DOMAIN keys.order}
           score  == CHOOSE n \in {now} \cup {x + 1 : x \in scores} :
                        n >= now /\ \A x \in scores : n > x
           more   == add_session(keys, field, value)
<1>1. /\ DOMAIN keys.order = DOMAIN keys.records
      /\ DOMAIN keys.expires = DOMAIN keys.records
  BY DEF WellFormed
<1>2. PICK bound \in Nat : \A s \in DOMAIN keys.records : keys.order[s] < bound
  BY DEF WellFormed
<1>3. scores \subseteq Nat /\ \A x \in scores : x < bound
  BY <1>1, <1>2 DEF WellFormed
<1>4. score \in Nat /\ \A x \in scores : x < score
  <2> HIDE DEF scores
  <2> QED
    BY <1>3, NewScore
<1>5. \A s \in DOMAIN keys.records : keys.order[s] < score
  <2> HIDE DEF score
  <2> QED
    BY <1>1, <1>4
<1> HIDE DEF score
<1>6. more =
        [keys EXCEPT !.records = [s \in DOMAIN @ \cup {field} |->
                                    IF s = field THEN value ELSE @[s]],
                     !.order   = [s \in DOMAIN @ \cup {field} |->
                                    IF s = field THEN score ELSE @[s]],
                     !.expires = [s \in DOMAIN @ \cup {field} |->
                                    IF s = field THEN value.exp ELSE @[s]],
                     !.version = value.token_version]
  BY DEF add_session, score
<1> HIDE DEF more
<1>7. /\ DOMAIN more = Field
      /\ more.records = [s \in DOMAIN keys.records \cup {field} |->
                            IF s = field THEN value ELSE keys.records[s]]
      /\ more.order = [s \in DOMAIN keys.records \cup {field} |->
                            IF s = field THEN score ELSE keys.order[s]]
      /\ more.expires = [s \in DOMAIN keys.records \cup {field} |->
                            IF s = field THEN value.exp ELSE keys.expires[s]]
      /\ more.version = value.token_version
      /\ more.deadline = keys.deadline
  BY <1>1, <1>6 DEF WellFormed, Field
<1>8. IsFiniteSet(DOMAIN more.records)
  BY <1>7, FS_AddElement DEF WellFormed
<1>9. ASSUME NEW s \in DOMAIN more.records
      PROVE  /\ more.records[s] \in Record
             /\ more.records[s].token_version = more.version
             /\ more.records[s].exp = more.expires[s]
             /\ more.order[s] \in Nat
             /\ more.order[s] < score + 1
             /\ s # field => more.order[s] < score
  BY <1>4, <1>5, <1>7, <1>9 DEF WellFormed
<1>10. \A s, t \in DOMAIN more.records : more.order[s] = more.order[t] => s = t
  <2> SUFFICES ASSUME NEW s \in DOMAIN more.records, NEW t \in DOMAIN more.records,
                      more.order[s] = more.order[t], s # t
               PROVE  FALSE
    OBVIOUS
  <2>1. CASE s # field /\ t # field
    BY <1>7, <2>1 DEF WellFormed
  <2>2. ASSUME NEW q \in DOMAIN more.records, q # field
        PROVE  more.order[q] # more.order[field]
    <3>1. more.order[field] = score
      BY <1>7
    <3>2. more.order[q] = keys.order[q] /\ q \in DOMAIN keys.records
      BY <1>7, <2>2
    <3>3. keys.order[q] < score /\ keys.order[q] \in Nat
      BY <1>5, <3>2 DEF WellFormed
    <3> QED
      BY <1>4, <3>1, <3>2, <3>3
  <2> QED
    BY <2>1, <2>2
<1>11. value.token_version \in Nat /\ score + 1 \in Nat
  BY <1>4 DEF Record
<1>12. WellFormed(more)
  BY <1>7, <1>8, <1>9, <1>10, <1>11 DEF WellFormed
<1> QED
  BY <1>5, <1>7, <1>12 DEF more

\* The eviction leaves at most MaxSessions: of more, the oldest would have MaxSessions
\* others above it.
LEMMA EvictedSessions ==
    ASSUME NEW keys, WellFormed(keys)
    PROVE  /\ WellFormed(evict_oldest(keys))
           /\ WithinLimit(evict_oldest(keys))
           /\ DOMAIN evict_oldest(keys).records \subseteq DOMAIN keys.records
           /\ \A s \in DOMAIN evict_oldest(keys).records :
                 evict_oldest(keys).expires[s] = keys.expires[s]
           /\ evict_oldest(keys).version = keys.version
           /\ evict_oldest(keys).deadline = keys.deadline
<1> DEFINE Newer(s) == {t \in DOMAIN keys.order : keys.order[t] > keys.order[s]}
           gone == {s \in DOMAIN keys.order : Cardinality(Newer(s)) >= MaxSessions}
           rest == evict_oldest(keys)
           kept == DOMAIN rest.records
<1>1. rest = remove_session(keys, gone)
  BY DEF evict_oldest
<1>2. /\ WellFormed(rest)
      /\ kept = DOMAIN keys.records \ gone
      /\ \A s \in kept : rest.order[s] = keys.order[s] /\ rest.expires[s] = keys.expires[s]
      /\ rest.version = keys.version /\ rest.deadline = keys.deadline
  <2> HIDE DEF gone
  <2> QED
    BY <1>1, RemovedSessions
<1> HIDE DEF rest
<1>3. DOMAIN keys.order = DOMAIN keys.records /\ IsFiniteSet(DOMAIN keys.records)
      /\ IsFiniteSet(kept)
  BY <1>2 DEF WellFormed
<1>4. Cardinality(kept) \in Nat
  BY <1>3, FS_CardinalityType
<1>5. ASSUME Cardinality(kept) > MaxSessions PROVE FALSE
  <2>1. kept # {}
    BY <1>5, FS_EmptySet, MaxSessionsAssumption
  <2> DEFINE scores == {keys.order[s] : s \in kept}
  <2>2. scores \subseteq Nat /\ scores # {}
    <3>1. \A s \in kept : keys.order[s] \in Nat
      BY <1>2 DEF WellFormed
    <3> QED
      BY <2>1, <3>1
  <2>3. PICK m \in scores : \A x \in scores : m <= x
    <3> HIDE DEF scores
    <3> QED
      BY <2>2, LeastMember
  <2>4. PICK s \in kept : keys.order[s] = m
    OBVIOUS
  <2>5. ASSUME NEW t \in kept \ {s} PROVE t \in Newer(s)
    <3>1. keys.order[t] # keys.order[s] /\ keys.order[t] \in Nat /\ keys.order[s] \in Nat
      BY <1>2, <2>4 DEF WellFormed
    <3>2. keys.order[s] <= keys.order[t]
      BY <2>3, <2>4
    <3> QED
      BY <1>2, <1>3, <3>1, <3>2
  <2>6. /\ IsFiniteSet(Newer(s)) /\ Cardinality(Newer(s)) \in Nat
    <3>1. Newer(s) \in SUBSET DOMAIN keys.records
      BY <1>3
    <3> QED
      BY <1>3, <3>1, FS_Subset, FS_CardinalityType
  <2>7. Cardinality(kept \ {s}) = Cardinality(kept) - 1
    BY <1>3, <2>4, FS_RemoveElement
  <2>8. Cardinality(kept \ {s}) <= Cardinality(Newer(s))
    <3>1. kept \ {s} \in SUBSET Newer(s)
      BY <2>5
    <3> HIDE DEF Newer, kept
    <3> QED
      BY <2>6, <3>1, FS_Subset
  <2>9. Cardinality(Newer(s)) >= MaxSessions
    BY <1>4, <1>5, <2>6, <2>7, <2>8, MaxSessionsAssumption
  <2>10. s \in gone
    BY <1>2, <1>3, <2>9
  <2> QED
    BY <1>2, <2>10
<1>6. WithinLimit(rest)
  BY <1>4, <1>5, MaxSessionsAssumption DEF WithinLimit
<1> QED
  BY <1>2, <1>6 DEF rest

\* The keys that a login leaves when the script answers 1.
Registered(l) ==
    extend_deadline(
        evict_oldest(
            add_session(delete_older_version(prune_expired(registry), login[l].version), l,
                        [token_version |-> login[l].version, exp |-> login[l].exp])),
        login[l].exp)

\* The script returns early, finds the JTI in use, or registers the login.
LEMMA ActivateCases ==
    ASSUME Types, NEW l \in Login, NEW outcome \in ACTIVATE_JTI(l)
    PROVE  \/ outcome.keys = registry /\ outcome.result # 1
           \/ outcome.keys = prune_expired(registry) /\ outcome.result # 1
           \/ /\ login[l].exp > now /\ ~(registry.version > login[l].version)
              /\ outcome.keys = Registered(l) /\ outcome.result = 1
<1> DEFINE exp     == login[l].exp
           version == login[l].version
           pruned  == prune_expired(registry)
<1>1. exp \in Nat /\ now \in Nat
  BY DEF Types, LoginRow
<1>2. CASE exp <= now
  BY <1>2 DEF ACTIVATE_JTI
<1>3. CASE exp > now /\ registry.version > version
  BY <1>1, <1>3 DEF ACTIVATE_JTI
<1>4. CASE exp > now /\ ~(registry.version > version)
  <2>1. ~(exp <= now)
    BY <1>1, <1>4
  <2>2. outcome \in {[result |-> 1, keys |-> Registered(l)]}
           \cup {[result |-> 0, keys |-> pruned] : s \in DOMAIN pruned.records}
    BY <1>4, <2>1 DEF ACTIVATE_JTI, Registered
  <2> HIDE DEF pruned
  <2> QED
    BY <1>4, <2>2 DEF pruned
<1> QED
  BY <1>1, <1>2, <1>3, <1>4

\* Every result of the activation script leaves consistent keys, whose version and
\* deadline have not decreased; a login that may return its token is covered by them.
LEMMA ActivateOutcome ==
    ASSUME Types, KeysInv(registry), NEW l \in Login, NEW outcome \in ACTIVATE_JTI(l)
    PROVE  /\ KeysInv(outcome.keys)
           /\ outcome.keys.version >= registry.version
           /\ outcome.keys.deadline >= registry.deadline
           /\ outcome.result = 1 => login[l].exp <= outcome.keys.deadline
<1> DEFINE exp     == login[l].exp
           version == login[l].version
           pruned  == prune_expired(registry)
           dropped == delete_older_version(pruned, version)
           value   == [token_version |-> version, exp |-> exp]
           stored  == add_session(dropped, l, value)
           evicted == evict_oldest(stored)
           kept    == extend_deadline(evicted, exp)
<1>1. exp \in Nat /\ version \in Nat /\ now \in Nat
  BY DEF Types, LoginRow
<1>2. value \in Record /\ value.token_version = version /\ value.exp = exp
  BY <1>1 DEF Record
<1>3. /\ KeysInv(pruned)
      /\ pruned.version = registry.version /\ pruned.deadline = registry.deadline
  BY RemovedInv DEF prune_expired
<1>4. registry.version \in Nat \cup {-1} /\ registry.deadline \in Nat
  BY DEF KeysInv, WellFormed
<1>5. ASSUME exp > now, registry.version <= version
      PROVE  /\ KeysInv(kept) /\ kept.version = version
             /\ kept.deadline >= registry.deadline /\ kept.deadline >= exp
  <2> HIDE DEF pruned
  <2>1. /\ KeysInv(dropped) /\ dropped.deadline = pruned.deadline
        /\ dropped.version = version \/ DOMAIN dropped.records = {}
    <3>1. CASE pruned.version = version
      BY <1>3, <3>1 DEF delete_older_version
    <3>2. CASE pruned.version # version
      <4>1. dropped = [NoKeys EXCEPT !.deadline = pruned.deadline]
        BY <3>2 DEF delete_older_version
      <4>2. KeysInv(dropped)
        BY <1>3, <1>4, <4>1, NoKeysInv
      <4> QED
        BY <4>1, <4>2 DEF NoKeys
    <3> QED
      BY <3>1, <3>2
  <2> HIDE DEF dropped, value
  <2>2. /\ WellFormed(stored)
        /\ DOMAIN stored.records = DOMAIN dropped.records \cup {l}
        /\ stored.version = version /\ stored.deadline = dropped.deadline
        /\ stored.expires[l] = exp
        /\ \A s \in DOMAIN dropped.records \ {l} : stored.expires[s] = dropped.expires[s]
    BY <1>1, <1>2, <2>1, AddedSession DEF KeysInv
  <2> HIDE DEF stored
  <2>3. /\ WellFormed(evicted) /\ WithinLimit(evicted)
        /\ DOMAIN evicted.records \subseteq DOMAIN stored.records
        /\ \A s \in DOMAIN evicted.records : evicted.expires[s] = stored.expires[s]
        /\ evicted.version = version /\ evicted.deadline = registry.deadline
    BY <1>3, <2>1, <2>2, EvictedSessions
  <2>4. ASSUME NEW s \in DOMAIN evicted.records
        PROVE  evicted.expires[s] = exp \/ evicted.expires[s] <= registry.deadline
    BY <1>3, <2>1, <2>2, <2>3 DEF KeysInv, Covered
  <2> HIDE DEF evicted, exp
  <2>5. /\ DOMAIN kept = Field
        /\ kept.records = evicted.records /\ kept.order = evicted.order
        /\ kept.expires = evicted.expires /\ kept.version = evicted.version
        /\ kept.deadline = IF evicted.deadline > exp THEN evicted.deadline ELSE exp
    BY <2>3 DEF extend_deadline, WellFormed, Field
  <2> HIDE DEF kept
  <2>6. /\ kept.deadline \in Nat
        /\ kept.deadline >= registry.deadline /\ kept.deadline >= exp
    BY <1>1, <1>4, <2>3, <2>5
  <2>7. WellFormed(kept)
    BY <2>3, <2>5, <2>6 DEF WellFormed
  <2>8. Covered(kept)
    <3> SUFFICES ASSUME NEW s \in DOMAIN kept.records
                 PROVE  kept.expires[s] <= kept.deadline
      BY DEF Covered
    <3>1. kept.expires[s] = exp \/ kept.expires[s] <= registry.deadline
      BY <2>4, <2>5
    <3>2. kept.expires[s] \in Nat
      BY <2>7 DEF WellFormed, Record
    <3> QED
      BY <1>1, <1>4, <2>6, <3>1, <3>2
  <2> QED
    BY <2>3, <2>5, <2>6, <2>7, <2>8 DEF KeysInv, WithinLimit
<1>6. \/ outcome.keys = registry /\ outcome.result # 1
      \/ outcome.keys = pruned /\ outcome.result # 1
      \/ exp > now /\ ~(registry.version > version) /\ outcome.keys = kept
  BY ActivateCases DEF Registered
<1> HIDE DEF pruned, kept
<1>7. CASE exp > now /\ ~(registry.version > version) /\ outcome.keys = kept
  BY <1>1, <1>4, <1>5, <1>7
<1> QED
  BY <1>3, <1>4, <1>6, <1>7

\* The keys' deadline covers every token a login has returned.
RegistryInv == KeysInv(registry) /\ TokensCovered

\* What keeps RegistryInv without a new token: the keys stay, or only lose sessions.
LEMMA KeysShrink ==
    ASSUME Types, RegistryInv, now' = now, login' = login,
           registry' = registry \/ \E S : registry' = remove_session(registry, S)
    PROVE  RegistryInv' /\ registry'.version = registry.version
<1>1. /\ KeysInv(registry') /\ registry'.version = registry.version
      /\ registry'.deadline = registry.deadline
  BY RemovedInv DEF RegistryInv
<1>2. KeysInv(registry)'
  BY <1>1 DEF KeysInv, WellFormed, Covered, WithinLimit
<1> QED
  BY <1>1, <1>2 DEF RegistryInv, TokensCovered

\* A login that answers returns a token only when the script answered 1.
LEMMA LoginRegistry ==
    ASSUME Types, RegistryInv, NEW l \in Login, LoginStep(l)
    PROVE  RegistryInv' /\ registry'.version >= registry.version
<1>1. registry.version \in Nat \cup {-1} /\ registry.deadline \in Nat
  BY DEF RegistryInv, KeysInv, WellFormed
<1>2. ASSUME now' = now, registry' = registry,
             \A m \in Login : login'[m].pc = "issued" => login'[m] = login[m]
      PROVE  RegistryInv' /\ registry'.version >= registry.version
  <2>1. KeysInv(registry)'
    BY <1>2 DEF RegistryInv, KeysInv, WellFormed, Covered, WithinLimit
  <2>2. TokensCovered'
    BY <1>2 DEF RegistryInv, TokensCovered
  <2> QED
    BY <1>1, <1>2, <2>1, <2>2 DEF RegistryInv
<1>3. ASSUME NEW pc, NEW outcome \in ACTIVATE_JTI(l), registry' = outcome.keys, now' = now,
             Answer(l, pc), pc = "issued" => outcome.result = 1
      PROVE  RegistryInv' /\ registry'.version >= registry.version
  <2>1. /\ KeysInv(registry') /\ registry'.version >= registry.version
        /\ registry'.deadline >= registry.deadline
        /\ pc = "issued" => login[l].exp <= registry'.deadline
    BY <1>3, ActivateOutcome DEF RegistryInv
  <2>2. registry'.deadline \in Nat
    BY <2>1 DEF KeysInv, WellFormed
  <2>3. \A m \in Login : login'[m].pc = "issued" =>
           \/ login'[m] = login[m]
           \/ m = l /\ pc = "issued" /\ login'[m].exp = login[m].exp
    BY <1>3 DEF Answer, Types, LoginRow, NewLogin
  <2>4. ASSUME NEW m \in Login, login'[m].pc = "issued"
        PROVE  login'[m].exp <= now \/ login'[m].exp <= registry'.deadline
    <3>1. login[m].exp \in Nat
      BY DEF Types, LoginRow
    <3> QED
      BY <1>1, <2>1, <2>2, <2>3, <2>4, <3>1 DEF RegistryInv, TokensCovered
  <2>5. TokensCovered'
    BY <1>3, <2>4 DEF TokensCovered
  <2>6. KeysInv(registry)'
    BY <2>1 DEF KeysInv, WellFormed, Covered, WithinLimit
  <2> QED
    BY <2>1, <2>5, <2>6 DEF RegistryInv
<1>4. CASE authenticate(l)
  BY <1>2, <1>4 DEF authenticate, Types, LoginRow
<1>5. ASSUME NEW ttl \in Lifetime, encode_access_token(l, ttl)
      PROVE  RegistryInv' /\ registry'.version >= registry.version
  BY <1>2, <1>5 DEF encode_access_token, Types, LoginRow
<1>6. CASE issue_access_token(l)
  <2>1. PICK outcome \in ACTIVATE_JTI(l) :
           /\ registry' = outcome.keys
           /\ Answer(l, AfterResult(l, outcome.result))
    BY <1>6 DEF issue_access_token
  <2>2. AfterResult(l, outcome.result) = "issued" => outcome.result = 1
    BY DEF AfterResult
  <2> QED
    BY <1>3, <1>6, <2>1, <2>2 DEF issue_access_token
<1>7. CASE issue_access_token_RedisError(l)
  <2>1. CASE registry' = registry
    BY <1>2, <1>7, <2>1 DEF issue_access_token_RedisError, Answer, Types, LoginRow, NewLogin
  <2>2. CASE \E outcome \in ACTIVATE_JTI(l) : registry' = outcome.keys
    BY <1>3, <1>7, <2>2 DEF issue_access_token_RedisError
  <2> QED
    BY <1>7, <2>1, <2>2 DEF issue_access_token_RedisError
<1> QED
  BY <1>4, <1>5, <1>6, <1>7 DEF LoginStep

\* The clock drops the keys only when they cover no live token.
LEMMA TickRegistry ==
    ASSUME Types, RegistryInv, Tick
    PROVE  /\ RegistryInv'
           /\ registry'.version < registry.version =>
                 \A l \in Login : login[l].pc = "issued" => login[l].exp <= now'
<1>1. /\ now \in Nat /\ now' = now + 1 /\ login' = login
      /\ \A l \in Login : login[l].exp \in Nat
      /\ registry.deadline \in Nat /\ registry.version \in Nat \cup {-1}
  BY DEF Tick, Types, LoginRow, RegistryInv, KeysInv, WellFormed
<1>2. CASE registry.deadline <= now'
  <2>1. registry' = NoKeys /\ NoKeys = [NoKeys EXCEPT !.deadline = 0]
    BY <1>2 DEF Tick, NoKeys
  <2>2. KeysInv(registry')
    BY <2>1, NoKeysInv
  <2>3. KeysInv(registry)'
    BY <2>2 DEF KeysInv, WellFormed, Covered, WithinLimit
  <2>4. \A l \in Login : login[l].pc = "issued" => login[l].exp <= now'
    BY <1>1, <1>2 DEF RegistryInv, TokensCovered
  <2> QED
    BY <1>1, <2>3, <2>4 DEF RegistryInv, TokensCovered
<1>3. CASE ~(registry.deadline <= now')
  <2>1. registry' = registry
    BY <1>3 DEF Tick
  <2>2. KeysInv(registry)'
    BY <2>1 DEF RegistryInv, KeysInv, WellFormed, Covered, WithinLimit
  <2>3. TokensCovered'
    BY <1>1, <2>1 DEF RegistryInv, TokensCovered
  <2> QED
    BY <1>1, <2>1, <2>2, <2>3 DEF RegistryInv
<1> QED
  BY <1>2, <1>3

\* Only the clock takes the version back, and only past every returned token.
LEMMA RegistryStep ==
    Types /\ RegistryInv /\ [Next]_vars =>
        /\ RegistryInv'
        /\ registry'.version < registry.version =>
              \A l \in Login : login[l].pc = "issued" => login[l].exp <= now'
<1> SUFFICES ASSUME Types, RegistryInv, [Next]_vars
             PROVE  /\ RegistryInv'
                    /\ registry'.version < registry.version =>
                          \A l \in Login : login[l].pc = "issued" => login[l].exp <= now'
  OBVIOUS
<1>1. registry.version \in Nat \cup {-1} /\ (RegistryInv' => registry'.version \in Nat \cup {-1})
  BY DEF RegistryInv, KeysInv, WellFormed
<1>2. ASSUME NEW l \in Login, LoginStep(l)
      PROVE  RegistryInv' /\ ~(registry'.version < registry.version)
  BY <1>1, <1>2, LoginRegistry
<1>3. ASSUME NEW r \in Request, RequestStep(r)
      PROVE  RegistryInv' /\ registry'.version = registry.version
  <2>1. now' = now /\ login' = login
    BY <1>3 DEF RequestStep, get_current_principal, get_current_principal_Inactive,
                get_authorization_context, logout_current_access_token,
                best_effort_revoke_invalid_principal, list_active_sessions, EndRequest
  <2>2. registry' = registry \/ \E S : registry' = remove_session(registry, S)
    BY <1>3 DEF RequestStep, get_current_principal, get_current_principal_Inactive,
                get_authorization_context, logout_current_access_token,
                best_effort_revoke_invalid_principal, list_active_sessions, EndRequest,
                COMPARE_AND_DELETE, prune_expired
  <2> QED
    BY <2>1, <2>2, KeysShrink
<1>4. CASE BumpTokenVersion \/ update_user_status \/ UNCHANGED vars
  <2>1. now' = now /\ login' = login /\ registry' = registry
    BY <1>4 DEF BumpTokenVersion, update_user_status, vars
  <2> QED
    BY <1>1, <2>1, KeysShrink
<1>5. CASE Tick
  BY <1>5, TickRegistry
<1> QED
  BY <1>1, <1>2, <1>3, <1>4, <1>5 DEF Next

\* No keys and no token.
LEMMA InitRegistry == Init => RegistryInv
<1> SUFFICES ASSUME Init PROVE RegistryInv
  OBVIOUS
<1>1. registry = [NoKeys EXCEPT !.deadline = 0]
  BY DEF Init, NoKeys
<1>2. KeysInv(registry)
  BY <1>1, NoKeysInv
<1> QED
  BY <1>2 DEF Init, NewLogin, RegistryInv, TokensCovered

\* The hash and its indexes list the same sessions, of one version, within the limit
\* and the deadline, whatever scripts ran: _ACTIVATE_JTI adds to keys of its own
\* version or to none, and evicts what is older than MaxSessions others.
THEOREM RegistryStaysConsistent == Safe => []RegistryConsistent
<1>1. RegistryInv => RegistryConsistent
  BY DEF RegistryInv, KeysInv, WellFormed, Covered, WithinLimit, RegistryConsistent
<1>2. Types /\ RowNotOlder /\ AuthorizedIsCurrent /\ RegistryInv /\ [Next]_vars
         => Types' /\ RowNotOlder' /\ AuthorizedIsCurrent' /\ RegistryInv'
  BY RevocationStep, RegistryStep
<1> QED
  BY InitTypes, InitRegistry, <1>1, <1>2, PTL DEF Safe

\* A delayed login of an older version is refused for as long as a newer token could
\* be alive: the keys, and _version with them, last as long as the longest token.
THEOREM WatermarkIsKept == Safe => WatermarkOutlivesTokens
<1>1. Types /\ RowNotOlder /\ AuthorizedIsCurrent /\ RegistryInv /\ [Next]_vars
         => /\ Types' /\ RowNotOlder' /\ AuthorizedIsCurrent' /\ RegistryInv'
            /\ registry'.version < registry.version =>
                  \A l \in Login : login[l].pc = "issued" => login[l].exp <= now'
  BY RevocationStep, RegistryStep
<1> QED
  BY InitTypes, InitRegistry, <1>1, PTL DEF Safe, WatermarkOutlivesTokens

(***************************************************************************)
(* How sessions end.                                                       *)
(***************************************************************************)

\* A login that has not registered its session yet has none in the keys.
FreshLogins ==
    \A l \in Login : login[l].pc \in {"idle", "verified", "encoded"} =>
        l \notin DOMAIN registry.records

\* One session more than the live ones: the newcomer has the highest score, so that
\* the eviction removes nothing, or the oldest of a full set.
LEMMA EvictedIsOldest ==
    ASSUME NEW keys, WellFormed(keys), NEW l \in DOMAIN keys.records,
           NEW live, live = DOMAIN keys.records \ {l}, Cardinality(live) <= MaxSessions,
           \A t \in live : keys.order[t] < keys.order[l]
    PROVE  /\ l \in DOMAIN evict_oldest(keys).records
           /\ \A s \in live : s \notin DOMAIN evict_oldest(keys).records =>
                 /\ Cardinality(live) = MaxSessions
                 /\ \A t \in live : keys.order[s] <= keys.order[t]
<1> DEFINE Newer(s) == {t \in DOMAIN keys.order : keys.order[t] > keys.order[s]}
           gone == {s \in DOMAIN keys.order : Cardinality(Newer(s)) >= MaxSessions}
<1>1. DOMAIN keys.order = DOMAIN keys.records /\ IsFiniteSet(DOMAIN keys.records)
  BY DEF WellFormed
<1>2. DOMAIN evict_oldest(keys).records = DOMAIN keys.records \ gone
  <2>1. evict_oldest(keys) = remove_session(keys, gone)
    BY DEF evict_oldest
  <2> HIDE DEF gone
  <2> QED
    BY <2>1, RemovedSessions
<1>3. \A t \in DOMAIN keys.records : keys.order[t] \in Nat
  BY DEF WellFormed
<1>4. IsFiniteSet(live) /\ Cardinality(live) \in Nat
  <2>1. live \in SUBSET DOMAIN keys.records
    OBVIOUS
  <2> QED
    BY <1>1, <2>1, FS_Subset, FS_CardinalityType
<1>5. l \notin gone
  <2>1. Newer(l) = {}
    BY <1>1, <1>3
  <2>2. Cardinality(Newer(l)) = 0
    BY <2>1, FS_EmptySet
  <2> HIDE DEF Newer
  <2> QED
    BY <2>2, MaxSessionsAssumption
<1>6. ASSUME NEW s \in live, s \in gone
      PROVE  /\ Cardinality(live) = MaxSessions
             /\ \A t \in live : keys.order[s] <= keys.order[t]
  <2> DEFINE others == (live \ {s}) \cup {l}
  <2>1. IsFiniteSet(others) /\ Cardinality(others) = Cardinality(live)
    <3>1. IsFiniteSet(live \ {s}) /\ Cardinality(live \ {s}) = Cardinality(live) - 1
      BY <1>4, FS_RemoveElement
    <3>2. l \notin live \ {s}
      OBVIOUS
    <3> QED
      BY <1>4, <3>1, <3>2, FS_AddElement
  <2>2. Newer(s) \in SUBSET others
    BY <1>1, <1>3
  <2>3. Cardinality(Newer(s)) >= MaxSessions
    BY <1>6
  <2> HIDE DEF Newer, others
  <2>4. Cardinality(Newer(s)) <= Cardinality(others) /\ Cardinality(Newer(s)) \in Nat
    BY <2>1, <2>2, FS_Subset, FS_CardinalityType
  <2>5. Cardinality(live) = MaxSessions /\ Cardinality(Newer(s)) = Cardinality(others)
    BY <1>4, <2>1, <2>3, <2>4, MaxSessionsAssumption
  <2>6. Newer(s) = others
    BY <2>1, <2>2, <2>5, FS_Subset
  <2>7. \A t \in live \ {s} : keys.order[t] > keys.order[s]
    BY <2>6 DEF Newer, others
  <2> QED
    BY <1>3, <2>5, <2>7
<1> QED
  BY <1>2, <1>5, <1>6

\* What the activation script does to the sessions: a session that has not expired
\* makes room for the login that it registers.
LEMMA ActivateReasons ==
    ASSUME Types, KeysInv(registry), NEW l \in Login, l \notin DOMAIN registry.records,
           NEW outcome \in ACTIVATE_JTI(l)
    PROVE  /\ DOMAIN outcome.keys.records \subseteq DOMAIN registry.records \cup {l}
           /\ outcome.result = 1 <=> l \in DOMAIN outcome.keys.records
           /\ \A s \in DOMAIN registry.records :
                 registry.expires[s] > now /\ s \notin DOMAIN outcome.keys.records =>
                    /\ l \in DOMAIN outcome.keys.records
                    /\ \/ login[l].version > registry.version
                       \/ /\ Cardinality(LiveSessions) = MaxSessions
                          /\ \A t \in LiveSessions : registry.order[s] <= registry.order[t]
<1> DEFINE exp     == login[l].exp
           version == login[l].version
           pruned  == prune_expired(registry)
           dropped == delete_older_version(pruned, version)
           value   == [token_version |-> version, exp |-> exp]
           stored  == add_session(dropped, l, value)
           kept    == extend_deadline(evict_oldest(stored), exp)
<1>1. exp \in Nat /\ version \in Nat /\ now \in Nat
  BY DEF Types, LoginRow
<1>2. value \in Record /\ value.token_version = version
  BY <1>1 DEF Record
<1>3. /\ registry.version \in Nat \cup {-1}
      /\ DOMAIN registry.expires = DOMAIN registry.records
      /\ \A s \in DOMAIN registry.records : registry.expires[s] \in Nat
  BY DEF KeysInv, WellFormed, Record
<1>4. /\ KeysInv(pruned) /\ pruned.version = registry.version
      /\ DOMAIN pruned.records = LiveSessions
      /\ \A s \in LiveSessions : pruned.order[s] = registry.order[s]
  <2> DEFINE S == {s \in DOMAIN registry.expires : registry.expires[s] <= now}
  <2>1. pruned = remove_session(registry, S)
    BY DEF prune_expired
  <2>2. LiveSessions = DOMAIN registry.records \ S
    BY <1>1, <1>3 DEF LiveSessions, Unexpired
  <2> HIDE DEF S, pruned
  <2> QED
    BY <2>1, <2>2, RemovedSessions, RemovedInv DEF KeysInv
<1> HIDE DEF pruned
<1>5. ASSUME exp > now, registry.version <= version
      PROVE  /\ DOMAIN kept.records \subseteq LiveSessions \cup {l}
             /\ l \in DOMAIN kept.records
             /\ \A s \in LiveSessions : s \notin DOMAIN kept.records =>
                   \/ version > registry.version
                   \/ /\ Cardinality(LiveSessions) = MaxSessions
                      /\ \A t \in LiveSessions : registry.order[s] <= registry.order[t]
  <2>1. /\ KeysInv(dropped)
        /\ dropped.version = version \/ DOMAIN dropped.records = {}
        /\ version > registry.version \/ dropped = pruned
        /\ DOMAIN dropped.records \subseteq LiveSessions
    <3>1. CASE registry.version = version
      <4>1. dropped = pruned
        BY <1>4, <3>1 DEF delete_older_version
      <4> QED
        BY <1>4, <3>1, <4>1
    <3>2. CASE registry.version # version
      <4>1. dropped = [NoKeys EXCEPT !.deadline = pruned.deadline]
        BY <1>4, <3>2 DEF delete_older_version
      <4>2. pruned.deadline \in Nat
        BY <1>4 DEF KeysInv, WellFormed
      <4>3. KeysInv(dropped) /\ dropped.records = <<>>
        BY <4>1, <4>2, NoKeysInv DEF NoKeys
      <4> QED
        BY <1>1, <1>3, <1>5, <3>2, <4>3
    <3> QED
      BY <3>1, <3>2
  <2> HIDE DEF dropped, value
  <2>2. /\ WellFormed(stored)
        /\ DOMAIN stored.records = DOMAIN dropped.records \cup {l}
        /\ \A s \in DOMAIN dropped.records \ {l} :
              stored.order[s] = dropped.order[s] /\ stored.order[s] < stored.order[l]
    BY <1>1, <1>2, <2>1, AddedSession DEF KeysInv
  <2>3. l \notin LiveSessions
    BY DEF LiveSessions
  <2> DEFINE live == DOMAIN dropped.records
  <2>4. /\ live = DOMAIN stored.records \ {l} /\ l \in DOMAIN stored.records
        /\ Cardinality(live) <= MaxSessions
        /\ \A t \in live : stored.order[t] < stored.order[l]
    BY <2>1, <2>2, <2>3 DEF KeysInv, WithinLimit
  <2> HIDE DEF stored, live
  <2>5. /\ l \in DOMAIN evict_oldest(stored).records
        /\ \A s \in live : s \notin DOMAIN evict_oldest(stored).records =>
              /\ Cardinality(live) = MaxSessions
              /\ \A t \in live : stored.order[s] <= stored.order[t]
    BY <2>2, <2>4, EvictedIsOldest
  <2>6. /\ kept.records = evict_oldest(stored).records
        /\ DOMAIN kept.records \subseteq live \cup {l}
    <3>1. /\ DOMAIN evict_oldest(stored) = Field
          /\ DOMAIN evict_oldest(stored).records \subseteq DOMAIN stored.records
      BY <2>2, EvictedSessions DEF WellFormed
    <3>2. kept.records = evict_oldest(stored).records
      BY <3>1 DEF extend_deadline, Field
    <3> QED
      BY <2>4, <3>1, <3>2
  <2> HIDE DEF kept
  <2>7. ASSUME NEW s \in LiveSessions, s \notin DOMAIN kept.records,
               ~(version > registry.version)
        PROVE  /\ Cardinality(LiveSessions) = MaxSessions
               /\ \A t \in LiveSessions : registry.order[s] <= registry.order[t]
    <3>1. live = LiveSessions
      BY <1>4, <2>1, <2>7 DEF live
    <3>2. \A t \in LiveSessions : stored.order[t] = registry.order[t]
      BY <1>4, <2>1, <2>2, <2>3, <2>7
    <3> QED
      BY <2>5, <2>6, <2>7, <3>1, <3>2
  <2> QED
    BY <2>1, <2>5, <2>6, <2>7 DEF live
<1>6. \/ outcome.keys = registry /\ outcome.result # 1
      \/ outcome.keys = pruned /\ outcome.result # 1
      \/ /\ exp > now /\ ~(registry.version > version)
         /\ outcome.keys = kept /\ outcome.result = 1
  BY ActivateCases DEF Registered, pruned
<1> HIDE DEF kept
<1>7. LiveSessions \subseteq DOMAIN registry.records
  BY DEF LiveSessions
<1>8. \A s \in DOMAIN registry.records : registry.expires[s] > now => s \in LiveSessions
  BY <1>3 DEF LiveSessions, Unexpired
<1>9. CASE outcome.keys \in {registry, pruned} /\ outcome.result # 1
  BY <1>4, <1>7, <1>8, <1>9
<1>10. CASE /\ exp > now /\ ~(registry.version > version)
            /\ outcome.keys = kept /\ outcome.result = 1
  <2>1. registry.version <= version
    BY <1>1, <1>3, <1>10
  <2> QED
    BY <1>5, <1>7, <1>8, <1>10, <2>1
<1> QED
  BY <1>6, <1>9, <1>10

\* Only a script that registers a login adds a session.
LEMMA FreshStep ==
    ASSUME Types, RegistryInv, FreshLogins, [Next]_vars
    PROVE  FreshLogins'
<1>1. ASSUME DOMAIN registry'.records \subseteq DOMAIN registry.records,
             \A l \in Login : login'[l].pc \in {"idle", "verified", "encoded"} =>
                login[l].pc \in {"idle", "verified", "encoded"}
      PROVE  FreshLogins'
  BY <1>1 DEF FreshLogins
<1>2. ASSUME NEW S
      PROVE  DOMAIN remove_session(registry, S).records \subseteq DOMAIN registry.records
  BY RemovedSessions DEF RegistryInv, KeysInv
<1>3. ASSUME NEW l \in Login, NEW pc, NEW outcome \in ACTIVATE_JTI(l), login[l].pc = "encoded",
             registry' = outcome.keys, Answer(l, pc), pc = "verified" => outcome.result # 1,
             pc \in {"verified", "issued", "refused", "failed"}
      PROVE  FreshLogins'
  <2>1. l \notin DOMAIN registry.records
    BY <1>3 DEF FreshLogins
  <2>2. /\ DOMAIN registry'.records \subseteq DOMAIN registry.records \cup {l}
        /\ pc = "verified" => l \notin DOMAIN registry'.records
    BY <1>3, <2>1, ActivateReasons DEF RegistryInv
  <2>3. /\ \A m \in Login \ {l} : login'[m] = login[m]
        /\ login'[l].pc = pc
    BY <1>3 DEF Answer, Types, LoginRow, NewLogin
  <2> QED
    BY <1>3, <2>2, <2>3 DEF FreshLogins
<1>4. ASSUME NEW l \in Login, LoginStep(l) PROVE FreshLogins'
  <2>1. CASE authenticate(l)
    BY <1>1, <2>1 DEF authenticate, Types, LoginRow
  <2>2. ASSUME NEW ttl \in Lifetime, encode_access_token(l, ttl) PROVE FreshLogins'
    BY <1>1, <2>2 DEF encode_access_token, Types, LoginRow
  <2>3. CASE issue_access_token(l)
    BY <1>3, <2>3 DEF issue_access_token, AfterResult
  <2>4. CASE issue_access_token_RedisError(l)
    <3>1. CASE UNCHANGED registry
      BY <1>1, <2>4, <3>1 DEF issue_access_token_RedisError, Answer, Types, LoginRow, NewLogin
    <3> QED
      BY <1>3, <2>4, <3>1 DEF issue_access_token_RedisError
  <2> QED
    BY <1>4, <2>1, <2>2, <2>3, <2>4 DEF LoginStep
<1>5. ASSUME NEW r \in Request, RequestStep(r) PROVE FreshLogins'
  <2>1. /\ login' = login
        /\ registry' = registry \/ \E S : registry' = remove_session(registry, S)
    BY <1>5 DEF RequestStep, get_current_principal, get_current_principal_Inactive,
                get_authorization_context, logout_current_access_token,
                best_effort_revoke_invalid_principal, list_active_sessions, EndRequest,
                COMPARE_AND_DELETE, prune_expired
  <2> QED
    BY <1>1, <1>2, <2>1
<1>6. CASE Tick
  BY <1>1, <1>6 DEF Tick, NoKeys
<1>7. CASE BumpTokenVersion \/ update_user_status \/ UNCHANGED vars
  BY <1>1, <1>7 DEF BumpTokenVersion, update_user_status, vars
<1> QED
  BY <1>4, <1>5, <1>6, <1>7 DEF Next

\* Why a session that has not expired is no longer in the keys.
EndsForAReason(s) ==
    \/ \E r \in Request : request[r].pc # "idle" /\ request[r].token = s
                             /\ request'[r].pc = "idle"
    \/ \E l \in Login :
         /\ Registers(l)
         /\ \/ login[l].version > registry.version
            \/ /\ Cardinality(LiveSessions) = MaxSessions
               /\ \A t \in LiveSessions : registry.order[s] <= registry.order[t]

\* The steps that can end a session, each with its reason.
LEMMA ReasonStep ==
    ASSUME Types, RegistryInv, FreshLogins, [Next]_vars
    PROVE  /\ \A l \in Login : login[l].pc = "encoded" /\ login'[l].pc = "issued" => Registers(l)
           /\ \A s \in DOMAIN registry.records :
                 registry.records[s].exp > now' /\ s \notin DOMAIN registry'.records =>
                    EndsForAReason(s)
<1> DEFINE Issued == \A l \in Login :
                        login[l].pc = "encoded" /\ login'[l].pc = "issued" => Registers(l)
           Ended == \A s \in DOMAIN registry.records :
                       registry.records[s].exp > now' /\ s \notin DOMAIN registry'.records =>
                          EndsForAReason(s)
<1>1. /\ DOMAIN registry.expires = DOMAIN registry.records
      /\ \A s \in DOMAIN registry.records : /\ registry.records[s].exp = registry.expires[s]
                                             /\ registry.expires[s] \in Nat
                                             /\ registry.expires[s] <= registry.deadline
      /\ now \in Nat /\ registry.deadline \in Nat
  BY DEF RegistryInv, KeysInv, WellFormed, Covered, Record, Types
<1>2. ASSUME NEW l \in Login, NEW pc, NEW outcome \in ACTIVATE_JTI(l), login[l].pc = "encoded",
             registry' = outcome.keys, now' = now, Answer(l, pc),
             pc = "issued" => outcome.result = 1
      PROVE  Issued /\ Ended
  <2>1. l \notin DOMAIN registry.records
    BY <1>2 DEF FreshLogins
  <2>2. /\ outcome.result = 1 <=> l \in DOMAIN registry'.records
        /\ \A s \in DOMAIN registry.records :
              registry.expires[s] > now /\ s \notin DOMAIN registry'.records =>
                 /\ l \in DOMAIN registry'.records
                 /\ \/ login[l].version > registry.version
                    \/ /\ Cardinality(LiveSessions) = MaxSessions
                       /\ \A t \in LiveSessions : registry.order[s] <= registry.order[t]
    BY <1>2, <2>1, ActivateReasons DEF RegistryInv
  <2>3. /\ \A m \in Login \ {l} : login'[m] = login[m]
        /\ login'[l].pc = pc
    BY <1>2 DEF Answer, Types, LoginRow, NewLogin
  <2>4. Issued
    BY <1>2, <2>1, <2>2, <2>3 DEF Registers
  <2>5. Ended
    BY <1>1, <1>2, <2>1, <2>2 DEF EndsForAReason, Registers
  <2> QED
    BY <2>4, <2>5
<1>3. ASSUME NEW S,
             \A s \in S \cap DOMAIN registry.records :
                registry.expires[s] <= now \/ EndsForAReason(s),
             registry' = registry \/ registry' = remove_session(registry, S),
             now' = now, login' = login
      PROVE  Issued /\ Ended
  <2>1. DOMAIN registry.records \ S \subseteq DOMAIN registry'.records
    BY <1>3, RemovedSessions DEF RegistryInv, KeysInv
  <2> QED
    BY <1>1, <1>3, <2>1
<1>4. ASSUME NEW l \in Login, LoginStep(l) PROVE Issued /\ Ended
  <2>1. CASE authenticate(l)
    BY <2>1 DEF authenticate, Types, LoginRow
  <2>2. ASSUME NEW ttl \in Lifetime, encode_access_token(l, ttl) PROVE Issued /\ Ended
    BY <2>2 DEF encode_access_token, Types, LoginRow
  <2>3. CASE issue_access_token(l)
    BY <1>2, <2>3 DEF issue_access_token, AfterResult
  <2>4. CASE issue_access_token_RedisError(l)
    <3>1. CASE UNCHANGED registry
      BY <2>4, <3>1 DEF issue_access_token_RedisError, Answer, Types, LoginRow, NewLogin
    <3> QED
      BY <1>2, <2>4, <3>1 DEF issue_access_token_RedisError
  <2> QED
    BY <1>4, <2>1, <2>2, <2>3, <2>4 DEF LoginStep
<1>5. ASSUME NEW r \in Request, RequestStep(r) PROVE Issued /\ Ended
  <2>1. now' = now /\ login' = login
    BY <1>5 DEF RequestStep, get_current_principal, get_current_principal_Inactive,
                get_authorization_context, logout_current_access_token,
                best_effort_revoke_invalid_principal, list_active_sessions, EndRequest
  <2>2. ASSUME NEW l \in Login, get_current_principal_Inactive(r, l) PROVE Issued /\ Ended
    <3>1. \A s \in {l} \cap DOMAIN registry.records : registry.expires[s] <= now
      BY <1>1, <2>2 DEF get_current_principal_Inactive, Unexpired
    <3> QED
      BY <1>3, <2>1, <2>2, <3>1 DEF get_current_principal_Inactive
  <2>3. CASE logout_current_access_token(r) \/ best_effort_revoke_invalid_principal(r)
    <3>1. request[r].pc # "idle" /\ request'[r].pc = "idle"
      BY <2>3 DEF logout_current_access_token, best_effort_revoke_invalid_principal, Finish,
                  NoPrincipal, Types
    <3>2. EndsForAReason(request[r].token)
      BY <3>1 DEF EndsForAReason
    <3> QED
      BY <1>3, <2>1, <2>3, <3>2
         DEF logout_current_access_token, best_effort_revoke_invalid_principal,
             COMPARE_AND_DELETE
  <2>4. CASE list_active_sessions(r)
    <3> DEFINE S == {s \in DOMAIN registry.expires : registry.expires[s] <= now}
    <3>1. registry' = registry \/ registry' = remove_session(registry, S)
      BY <2>4 DEF list_active_sessions, prune_expired
    <3>2. \A s \in S \cap DOMAIN registry.records : registry.expires[s] <= now
      OBVIOUS
    <3> HIDE DEF S
    <3> QED
      BY <1>3, <2>1, <3>1, <3>2
  <2>5. CASE registry' = registry
    BY <2>1, <2>5
  <2> QED
    BY <1>5, <2>2, <2>3, <2>4, <2>5
       DEF RequestStep, get_current_principal, get_authorization_context, EndRequest
<1>6. CASE Tick
  <2>1. /\ now' = now + 1 /\ login' = login
        /\ registry' = registry \/ registry.deadline <= now'
    BY <1>6 DEF Tick
  <2> QED
    BY <1>1, <2>1
<1>7. CASE BumpTokenVersion \/ update_user_status \/ UNCHANGED vars
  BY <1>7 DEF BumpTokenVersion, update_user_status, vars
<1> QED
  BY <1>4, <1>5, <1>6, <1>7 DEF Next

\* A token that a login returned is registered, and a live session leaves the registry
\* through its own logout or rejection, a login of a newer version, or as the oldest of
\* a full set: no expiry, listing, lost reply or failed login takes it along.
THEOREM SessionsEndForAReasonOnly == Safe => SessionsEndForAReason
<1>1. Init => FreshLogins
  BY DEF Init, NoKeys, FreshLogins
<1>2. Types /\ RowNotOlder /\ AuthorizedIsCurrent /\ RegistryInv /\ [Next]_vars
         => Types' /\ RowNotOlder' /\ AuthorizedIsCurrent' /\ RegistryInv'
  BY RevocationStep, RegistryStep
<1>3. Types /\ RegistryInv /\ FreshLogins /\ [Next]_vars => FreshLogins'
  BY FreshStep
<1>4. Types /\ RegistryInv /\ FreshLogins /\ [Next]_vars =>
        [/\ \A l \in Login : login[l].pc = "encoded" /\ login'[l].pc = "issued" => Registers(l)
         /\ \A s \in DOMAIN registry.records :
            registry.records[s].exp > now' /\ s \notin DOMAIN registry'.records =>
               \/ \E r \in Request : request[r].pc # "idle" /\ request[r].token = s
                                        /\ request'[r].pc = "idle"
               \/ \E l \in Login :
                    /\ Registers(l)
                    /\ \/ login[l].version > registry.version
                       \/ /\ Cardinality(LiveSessions) = MaxSessions
                          /\ \A t \in LiveSessions : registry.order[s] <= registry.order[t]]_vars
  BY ReasonStep DEF EndsForAReason
<1> QED
  BY InitTypes, InitRegistry, <1>1, <1>2, <1>3, <1>4, PTL DEF Safe, SessionsEndForAReason

\* A login draws one JTI, and a second one when the first was in use.
AttemptsCounted ==
    \A l \in Login :
        /\ login[l].pc = "encoded" => login[l].attempts \in 1 .. JTI_ISSUANCE_ATTEMPTS
        /\ login[l].pc # "encoded" => login[l].attempts \in 0 .. JTI_ISSUANCE_ATTEMPTS - 1

SessionsAreLogins == DOMAIN registry.records \subseteq Login

\* The invariants of this module together.
AllInv ==
    Types /\ RowNotOlder /\ AuthorizedIsCurrent /\ RegistryInv /\ FreshLogins
        /\ AttemptsCounted /\ SessionsAreLogins

\* Only a script result 0 sends a login back, and only for its second attempt.
LEMMA AttemptsStep ==
    ASSUME Types, AttemptsCounted, [Next]_vars
    PROVE  AttemptsCounted'
<1>1. ASSUME login' = login PROVE AttemptsCounted'
  BY <1>1 DEF AttemptsCounted
<1>2. ASSUME NEW l \in Login, login[l].pc = "encoded", NEW pc, Answer(l, pc),
             \/ pc \in {"issued", "refused", "failed"}
             \/ pc = "verified" /\ login[l].attempts < JTI_ISSUANCE_ATTEMPTS
      PROVE  AttemptsCounted'
  <2>1. login[l] \in LoginRow /\ login[l].attempts \in 1 .. JTI_ISSUANCE_ATTEMPTS
    BY <1>2 DEF Types, AttemptsCounted
  <2>2. /\ \A m \in Login \ {l} : login'[m] = login[m]
        /\ login'[l].pc = pc
        /\ login'[l].attempts = IF pc = "verified" THEN login[l].attempts ELSE 0
    BY <1>2, <2>1 DEF Answer, Types, LoginRow, NewLogin
  <2>3. pc # "encoded" /\ login'[l].attempts \in 0 .. JTI_ISSUANCE_ATTEMPTS - 1
    BY <1>2, <2>1, <2>2 DEF JTI_ISSUANCE_ATTEMPTS
  <2> QED
    BY <2>2, <2>3 DEF AttemptsCounted
<1>3. ASSUME NEW l \in Login, LoginStep(l) PROVE AttemptsCounted'
  <2>1. CASE authenticate(l)
    BY <2>1 DEF authenticate, Types, LoginRow, AttemptsCounted
  <2>2. ASSUME NEW ttl \in Lifetime, encode_access_token(l, ttl) PROVE AttemptsCounted'
    <3>1. login[l].attempts \in 0 .. JTI_ISSUANCE_ATTEMPTS - 1
      BY <2>2 DEF encode_access_token, AttemptsCounted
    <3>2. login[l].attempts + 1 \in 1 .. JTI_ISSUANCE_ATTEMPTS
      BY <3>1 DEF JTI_ISSUANCE_ATTEMPTS
    <3>3. /\ \A m \in Login \ {l} : login'[m] = login[m]
          /\ login'[l].pc = "encoded" /\ login'[l].attempts = login[l].attempts + 1
      BY <2>2 DEF encode_access_token, Types, LoginRow
    <3> QED
      BY <3>2, <3>3 DEF AttemptsCounted
  <2>3. CASE issue_access_token(l)
    <3>1. PICK outcome \in ACTIVATE_JTI(l) : Answer(l, AfterResult(l, outcome.result))
      BY <2>3 DEF issue_access_token
    <3> DEFINE pc == AfterResult(l, outcome.result)
    <3>2. \/ pc \in {"issued", "refused", "failed"}
          \/ pc = "verified" /\ login[l].attempts < JTI_ISSUANCE_ATTEMPTS
      BY DEF AfterResult
    <3>3. login[l].pc = "encoded"
      BY <2>3 DEF issue_access_token
    <3> HIDE DEF pc
    <3> QED
      BY <1>2, <3>1, <3>2, <3>3 DEF pc
  <2>4. CASE issue_access_token_RedisError(l)
    <3>1. login[l].pc = "encoded" /\ Answer(l, "failed")
      BY <2>4 DEF issue_access_token_RedisError
    <3> QED
      BY <1>2, <3>1
  <2> QED
    BY <1>3, <2>1, <2>2, <2>3, <2>4 DEF LoginStep
<1>4. ASSUME NEW r \in Request, RequestStep(r) PROVE login' = login
  BY <1>4 DEF RequestStep, get_current_principal, get_current_principal_Inactive,
              get_authorization_context, logout_current_access_token,
              best_effort_revoke_invalid_principal, list_active_sessions, EndRequest
<1> QED
  BY <1>1, <1>3, <1>4 DEF Next, BumpTokenVersion, update_user_status, Tick, vars

\* Only logins register sessions.
LEMMA SessionsStep ==
    ASSUME Types, RegistryInv, FreshLogins, SessionsAreLogins, [Next]_vars
    PROVE  SessionsAreLogins'
<1>1. ASSUME NEW S
      PROVE  DOMAIN remove_session(registry, S).records \subseteq DOMAIN registry.records
  BY RemovedSessions DEF RegistryInv, KeysInv
<1>2. ASSUME NEW l \in Login, LoginStep(l) PROVE SessionsAreLogins'
  <2>1. login[l].pc = "encoded" => l \notin DOMAIN registry.records
    BY DEF FreshLogins
  <2>2. ASSUME NEW outcome \in ACTIVATE_JTI(l), login[l].pc = "encoded"
        PROVE  DOMAIN outcome.keys.records \subseteq Login
    BY <2>1, <2>2, ActivateReasons DEF RegistryInv, SessionsAreLogins
  <2> QED
    BY <1>2, <2>2 DEF LoginStep, authenticate, encode_access_token, issue_access_token,
                      issue_access_token_RedisError, SessionsAreLogins
<1>3. ASSUME NEW r \in Request, RequestStep(r) PROVE SessionsAreLogins'
  BY <1>1, <1>3 DEF RequestStep, get_current_principal, get_current_principal_Inactive,
                    get_authorization_context, logout_current_access_token,
                    best_effort_revoke_invalid_principal, list_active_sessions, EndRequest,
                    COMPARE_AND_DELETE, prune_expired, SessionsAreLogins
<1> QED
  BY <1>2, <1>3 DEF Next, BumpTokenVersion, update_user_status, Tick, vars, NoKeys,
                    SessionsAreLogins

\* Every variable has its type: the keys name logins only, and no login draws more
\* JTIs than JTI_ISSUANCE_ATTEMPTS, however often its JTI is in use.
THEOREM RegistryTypes == Safe => []TypeOK
<1>1. Init => AllInv
  <2>1. Init => FreshLogins /\ AttemptsCounted /\ SessionsAreLogins
    BY DEF Init, NoKeys, NewLogin, FreshLogins, AttemptsCounted, SessionsAreLogins,
           JTI_ISSUANCE_ATTEMPTS
  <2> QED
    BY <2>1, InitTypes, InitRegistry DEF AllInv
<1>2. AllInv /\ [Next]_vars => AllInv'
  BY RevocationStep, RegistryStep, FreshStep, AttemptsStep, SessionsStep DEF AllInv
<1>3. AllInv => TypeOK
  <2> SUFFICES ASSUME AllInv PROVE TypeOK
    OBVIOUS
  <2>1. /\ now \in Nat
        /\ user \in [is_active : BOOLEAN, token_version : Nat]
        /\ request \in [Request -> PrincipalRow]
    BY DEF AllInv, Types
  <2>2. /\ DOMAIN registry = Field /\ registry.version \in Nat \cup {-1}
        /\ registry.deadline \in Nat /\ DOMAIN registry.records \subseteq Login
        /\ \A s \in DOMAIN registry.records : registry.records[s] \in Record
        /\ \A s \in DOMAIN registry.order : registry.order[s] \in Nat
        /\ \A s \in DOMAIN registry.expires : registry.expires[s] \in Nat
    BY DEF AllInv, RegistryInv, KeysInv, WellFormed, SessionsAreLogins, Record
  <2>3. login \in [Login -> [pc : {"idle", "verified", "encoded", "issued", "refused", "failed"},
                             version : Nat, exp : Nat, attempts : 0 .. JTI_ISSUANCE_ATTEMPTS]]
    <3>1. login \in [Login -> LoginRow]
      BY DEF AllInv, Types
    <3>2. \A l \in Login : login[l].attempts \in 0 .. JTI_ISSUANCE_ATTEMPTS
      BY DEF AllInv, AttemptsCounted, JTI_ISSUANCE_ATTEMPTS
    <3> QED
      BY <3>1, <3>2 DEF LoginRow
  <2> QED
    BY <2>1, <2>2, <2>3 DEF TypeOK, Field, PrincipalRow
<1> QED
  BY <1>1, <1>2, <1>3, PTL DEF Safe
=============================================================================
