-------------------------- MODULE SessionRegistry --------------------------
(***************************************************************************)
(* The active-login registry of one user (app/core/security/tokens.py):    *)
(* three Redis keys that Lua scripts change atomically, the logins that    *)
(* issue access tokens into it, and the requests that present them, which  *)
(* compare the registry with users.token_version in PostgreSQL.            *)
(*                                                                         *)
(* The keys of two users are disjoint, so one user is the whole of it.  A  *)
(* session is named by the login that issued it: uuid4 gives every login a *)
(* JTI of its own, except when it collides with a session in the registry. *)
(***************************************************************************)
EXTENDS Integers, FiniteSets, Functions

CONSTANTS
    Login,          \* login requests; also the JTIs they draw
    NoLogin,        \* the token of a request that has not started
    Request,        \* authenticated requests in flight
    MaxSessions,    \* settings.max_active_sessions_per_user
    Lifetime,       \* settings.jwt_access_token_ttl_seconds of the replicas
    Leeway,         \* JWT_CLOCK_LEEWAY_SECONDS
    TimeBound,      \* bound on the clock
    VersionBound    \* bound on users.token_version

ASSUME MaxSessionsAssumption == MaxSessions \in Nat \ {0}
ASSUME LifetimeAssumption == Lifetime \subseteq Nat \ {0}
ASSUME LeewayAssumption == Leeway \in Nat
ASSUME NoLoginAssumption == NoLogin \notin Login

JTI_ISSUANCE_ATTEMPTS == 2

VARIABLES
    now,        \* Redis TIME, in seconds
    user,       \* the row of users: is_active, token_version
    registry,   \* the three keys, with the deadline they share
    login,      \* what each login request has done so far
    request     \* what each authenticated request knows

vars == <<now, user, registry, login, request>>

(***************************************************************************)
(* The three keys.  records is the hash, version its field _version (-1    *)
(* when the hash is absent); order and expires are the two sorted sets.    *)
(***************************************************************************)
NoKeys ==
    [records |-> <<>>, order |-> <<>>, expires |-> <<>>, version |-> -1, deadline |-> 0]

Record == [token_version : Nat, exp : Nat]

NewLogin == [pc |-> "idle", version |-> 0, exp |-> 0, attempts |-> 0]

\* The principal of no request; since is the row's version when the request began.
NoPrincipal == [pc |-> "idle", token |-> NoLogin, version |-> 0, since |-> 0]

\* Every variable has its type; no login draws more JTIs than it may.
TypeOK ==
    /\ now \in Nat
    /\ user \in [is_active : BOOLEAN, token_version : Nat]
    /\ DOMAIN registry = {"records", "order", "expires", "version", "deadline"}
    /\ DOMAIN registry.records \subseteq Login
    /\ \A s \in DOMAIN registry.records : registry.records[s] \in Record
    /\ \A s \in DOMAIN registry.order : registry.order[s] \in Nat
    /\ \A s \in DOMAIN registry.expires : registry.expires[s] \in Nat
    /\ registry.version \in Nat \cup {-1}
    /\ registry.deadline \in Nat
    /\ login \in [Login -> [pc : {"idle", "verified", "encoded", "issued", "refused", "failed"},
                            version : Nat, exp : Nat, attempts : 0 .. JTI_ISSUANCE_ATTEMPTS]]
    /\ request \in [Request -> [pc : {"idle", "principal", "authorized", "rejected"},
                                token : Login \cup {NoLogin}, version : Nat, since : Nat]]

Init ==
    /\ now = 1
    /\ user = [is_active |-> TRUE, token_version |-> 0]
    /\ registry = NoKeys
    /\ login = [l \in Login |-> NewLogin]
    /\ request = [r \in Request |-> NoPrincipal]

(***************************************************************************)
(* Functions shared by the scripts.                                        *)
(***************************************************************************)
remove_session(keys, S) ==
    [keys EXCEPT !.records = Restrict(@, DOMAIN @ \ S),
                 !.order   = Restrict(@, DOMAIN @ \ S),
                 !.expires = Restrict(@, DOMAIN @ \ S)]

prune_expired(keys) ==
    remove_session(keys, {s \in DOMAIN keys.expires : keys.expires[s] <= now})

(***************************************************************************)
(* _ACTIVATE_JTI                                                           *)
(***************************************************************************)

\* HSETNX and ZADD: the newcomer scores above every session in the index.
add_session(keys, field, value) ==
    LET scores == {keys.order[s] : s \in DOMAIN keys.order}
        score  == CHOOSE n \in {now} \cup {x + 1 : x \in scores} :
                     n >= now /\ \A x \in scores : n > x
    IN  [keys EXCEPT !.records = [s \in DOMAIN @ \cup {field} |->
                                    IF s = field THEN value ELSE @[s]],
                     !.order   = [s \in DOMAIN @ \cup {field} |->
                                    IF s = field THEN score ELSE @[s]],
                     !.expires = [s \in DOMAIN @ \cup {field} |->
                                    IF s = field THEN value.exp ELSE @[s]],
                     !.version = value.token_version]

\* Mutant: ZREVRANGE instead of ZRANGE picks the session to remove.
evict_oldest_Newest(keys) ==
    remove_session(keys,
        {s \in DOMAIN keys.order :
            Cardinality({t \in DOMAIN keys.order : keys.order[t] < keys.order[s]})
                >= MaxSessions})

\* The loop that removes the oldest session until at most MaxSessions are left.
evict_oldest(keys) ==
    remove_session(keys,
        {s \in DOMAIN keys.order :
            Cardinality({t \in DOMAIN keys.order : keys.order[t] > keys.order[s]})
                >= MaxSessions})

\* Mutant: sessions of an older token_version stay in the keys.
delete_older_version_Kept(keys, version) == keys

\* DEL of the three keys when the incoming version is not the one they hold.
delete_older_version(keys, version) ==
    IF keys.version # version THEN [NoKeys EXCEPT !.deadline = keys.deadline] ELSE keys

\* Mutant: the keys take the deadline of the newest login.
extend_deadline_Newest(keys, exp) == [keys EXCEPT !.deadline = exp]

\* PEXPIREAT with the later of the retained deadline and the new one.
extend_deadline(keys, exp) == [keys EXCEPT !.deadline = IF @ > exp THEN @ ELSE exp]

\* The results the script can return for a login, each with the keys it leaves.
ACTIVATE_JTI(l) ==
    LET exp     == login[l].exp
        version == login[l].version
        pruned  == prune_expired(registry)
        stored  == add_session(delete_older_version(pruned, version), l,
                               [token_version |-> version, exp |-> exp])
    IN  CASE exp <= now                 -> {[result |-> -1, keys |-> registry]}
          [] exp > now /\ registry.version > version
                                        -> {[result |-> -2, keys |-> registry]}
          [] OTHER ->
               {[result |-> 1, keys |-> extend_deadline(evict_oldest(stored), exp)]}
                  \cup {[result |-> 0, keys |-> pruned] : s \in DOMAIN pruned.records}

(***************************************************************************)
(* A login.                                                                *)
(***************************************************************************)

\* AuthenticationService.authenticate has verified the password against the row.
authenticate(l) ==
    /\ login[l].pc = "idle"
    /\ user.is_active
    /\ login' = [login EXCEPT ![l].pc = "verified", ![l].version = user.token_version]
    /\ UNCHANGED <<now, user, registry, request>>

\* Mutant: attempts are not counted.
encode_access_token_Uncounted(l, ttl) ==
    /\ login[l].pc = "verified"
    /\ login' = [login EXCEPT ![l].pc = "encoded", ![l].exp = now + ttl]
    /\ UNCHANGED <<now, user, registry, request>>

encode_access_token(l, ttl) ==
    /\ login[l].pc = "verified"
    /\ login' = [login EXCEPT ![l].pc = "encoded", ![l].exp = now + ttl,
                              ![l].attempts = @ + 1]
    /\ UNCHANGED <<now, user, registry, request>>

\* The login answers; of what it knew only the expiry of a delivered token matters.
Answer(l, pc) ==
    login' = [login EXCEPT ![l] =
                CASE pc = "verified" -> [@ EXCEPT !.pc = pc]
                  [] pc = "issued"   -> [NewLogin EXCEPT !.pc = pc, !.exp = login[l].exp]
                  [] OTHER           -> [NewLogin EXCEPT !.pc = pc]]

\* What the login does with the script's result: return the token, answer 401,
\* draw another JTI, answer 503.
AfterResult(l, result) ==
    CASE result = 1  -> "issued"
      [] result = -2 -> "refused"
      [] result = 0 /\ login[l].attempts < JTI_ISSUANCE_ATTEMPTS -> "verified"
      [] OTHER       -> "failed"

issue_access_token(l) ==
    /\ login[l].pc = "encoded"
    /\ \E outcome \in ACTIVATE_JTI(l) :
          /\ registry' = outcome.keys
          /\ Answer(l, AfterResult(l, outcome.result))
    /\ UNCHANGED <<now, user, request>>

\* RedisError: the command was not sent, or it ran and its reply was lost.
issue_access_token_RedisError(l) ==
    /\ login[l].pc = "encoded"
    /\ \/ UNCHANGED registry
       \/ \E outcome \in ACTIVATE_JTI(l) : registry' = outcome.keys
    /\ Answer(l, "failed")
    /\ UNCHANGED <<now, user, request>>

(***************************************************************************)
(* A request that presents the token of session l.                         *)
(***************************************************************************)
decode_access_token(l) ==
    /\ login[l].pc = "issued"
    /\ login[l].exp > now - Leeway

Finish(r) == request' = [request EXCEPT ![r] = NoPrincipal]

Unexpired(s) == s \in DOMAIN registry.expires /\ registry.expires[s] > now

\* The conditions of _READ_ACTIVE_JTI after the expiry check, and the claims
\* comparison of require_active_jti.
RecordMatches(s) ==
    /\ s \in DOMAIN registry.records
    /\ registry.records[s].exp = registry.expires[s]
    /\ registry.records[s].exp = login[s].exp
    /\ registry.version = registry.records[s].token_version
    /\ s \in DOMAIN registry.order

\* get_current_principal: decode, then require_active_jti.
get_current_principal(r, l) ==
    /\ request[r].pc = "idle"
    /\ decode_access_token(l)
    /\ Unexpired(l) /\ RecordMatches(l)
    /\ request' = [request EXCEPT ![r] =
                     [pc |-> "principal", token |-> l,
                      version |-> registry.records[l].token_version,
                      since |-> user.token_version]]
    /\ UNCHANGED <<now, user, registry, login>>

\* 401: an expired session is removed on the way.
get_current_principal_Inactive(r, l) ==
    /\ request[r].pc = "idle"
    /\ decode_access_token(l)
    /\ ~Unexpired(l)
    /\ registry' = remove_session(registry, {l})
    /\ UNCHANGED <<now, user, login, request>>

\* Mutant: the registry alone decides.
PrincipalIsCurrent_RegistryOnly(r) == user.is_active

PrincipalIsCurrent(r) ==
    /\ user.is_active
    /\ user.token_version = request[r].version

get_authorization_context(r) ==
    /\ request[r].pc = "principal"
    /\ request' = [request EXCEPT ![r].pc =
                     IF PrincipalIsCurrent(r) THEN "authorized" ELSE "rejected"]
    /\ UNCHANGED <<now, user, registry, login>>

\* _COMPARE_AND_DELETE for the exact record of r's session.
COMPARE_AND_DELETE(r) ==
    LET s == request[r].token
        value == [token_version |-> request[r].version, exp |-> login[s].exp]
    IN  IF Unexpired(s) /\ (s \in DOMAIN registry.records => registry.records[s] # value)
        THEN registry
        ELSE remove_session(registry, {s})

\* logout_current_access_token, which asks for a principal only.  A Redis error
\* may hide that the script ran; either way the request is over.
logout_current_access_token(r) ==
    /\ request[r].pc = "principal"
    /\ registry' = COMPARE_AND_DELETE(r)
    /\ Finish(r)
    /\ UNCHANGED <<now, user, login>>

best_effort_revoke_invalid_principal(r) ==
    /\ request[r].pc = "rejected"
    /\ registry' = COMPARE_AND_DELETE(r)
    /\ Finish(r)
    /\ UNCHANGED <<now, user, login>>

\* my_active_sessions: _LIST_USER_SESSIONS prunes the keys of the caller's version.
list_active_sessions(r) ==
    /\ request[r].pc = "authorized"
    /\ registry' = IF registry.version = request[r].version
                   THEN prune_expired(registry) ELSE registry
    /\ Finish(r)
    /\ UNCHANGED <<now, user, login>>

\* Any other end: a rate limit, an error of Redis or PostgreSQL, or a handler that
\* leaves the registry alone.
EndRequest(r) ==
    /\ request[r].pc # "idle"
    /\ Finish(r)
    /\ UNCHANGED <<now, user, registry, login>>

(***************************************************************************)
(* The user row and the clock.                                             *)
(***************************************************************************)

\* revoke_user_sessions and every password rotation.
BumpTokenVersion ==
    /\ user.token_version < VersionBound
    /\ user' = [user EXCEPT !.token_version = @ + 1]
    /\ UNCHANGED <<now, registry, login, request>>

update_user_status ==
    /\ user.token_version < VersionBound
    /\ user' = [is_active |-> ~user.is_active, token_version |-> user.token_version + 1]
    /\ UNCHANGED <<now, registry, login, request>>

\* Redis drops the keys when their deadline passes.
Tick ==
    /\ now < TimeBound
    /\ now' = now + 1
    /\ registry' = IF registry.deadline <= now' THEN NoKeys ELSE registry
    /\ UNCHANGED <<user, login, request>>

LoginStep(l) ==
    \/ authenticate(l)
    \/ \E ttl \in Lifetime : encode_access_token(l, ttl)
    \/ issue_access_token(l)
    \/ issue_access_token_RedisError(l)

RequestStep(r) ==
    \/ \E l \in Login : get_current_principal(r, l) \/ get_current_principal_Inactive(r, l)
    \/ get_authorization_context(r)
    \/ logout_current_access_token(r)
    \/ best_effort_revoke_invalid_principal(r)
    \/ list_active_sessions(r)
    \/ EndRequest(r)

Next ==
    \/ \E l \in Login : LoginStep(l)
    \/ \E r \in Request : RequestStep(r)
    \/ BumpTokenVersion
    \/ update_user_status
    \/ Tick

\* The event loop resumes a login that has verified its password, and the socket
\* timeout ends a Redis call that does not answer.
AnswerLogin(l) ==
    \/ \E ttl \in Lifetime : encode_access_token(l, ttl)
    \/ issue_access_token(l)
    \/ issue_access_token_RedisError(l)

Safe == Init /\ [][Next]_vars
Spec == Safe /\ \A l \in Login : WF_vars(AnswerLogin(l))

(***************************************************************************)
(* Properties                                                              *)
(***************************************************************************)

\* The hash and its two indexes list the same sessions, at most MaxSessions of
\* them, all of the version in _version and none outliving the keys.  This is what
\* lets _LIST_USER_SESSIONS treat anything else as corruption and answer 503.
RegistryConsistent ==
    /\ DOMAIN registry.order = DOMAIN registry.records
    /\ DOMAIN registry.expires = DOMAIN registry.records
    /\ Cardinality(DOMAIN registry.records) <= MaxSessions
    /\ \A s \in DOMAIN registry.records :
          /\ registry.records[s].token_version = registry.version
          /\ registry.records[s].exp = registry.expires[s]
          /\ registry.expires[s] <= registry.deadline
    /\ \A s, t \in DOMAIN registry.order : registry.order[s] = registry.order[t] => s = t

\* A request is authorized only under a version at least as new as the user's row
\* was when the request began: revocation, rotation and deactivation reject every
\* later request although none of them touches Redis.
AuthorizedIsCurrent ==
    \A r \in Request : request[r].pc = "authorized" => request[r].version >= request[r].since

Registers(l) == l \in DOMAIN registry'.records \ DOMAIN registry.records

LiveSessions == {s \in DOMAIN registry.records : Unexpired(s)}

\* A token that a login returns is in the registry, and a session that has not
\* expired leaves it only through its own logout or rejection, through a login of a
\* newer token_version, or as the oldest of a full set when another login registers.
SessionsEndForAReason ==
    [][/\ \A l \in Login : login[l].pc = "encoded" /\ login'[l].pc = "issued" => Registers(l)
       /\ \A s \in DOMAIN registry.records :
          registry.records[s].exp > now' /\ s \notin DOMAIN registry'.records =>
             \/ \E r \in Request : request[r].pc # "idle" /\ request[r].token = s
                                      /\ request'[r].pc = "idle"
             \/ \E l \in Login :
                  /\ Registers(l)
                  /\ \/ login[l].version > registry.version
                     \/ /\ Cardinality(LiveSessions) = MaxSessions
                        /\ \A t \in LiveSessions : registry.order[s] <= registry.order[t]]_vars

\* _version never decreases, and it disappears only when every token issued so far
\* has expired: a delayed login of an older version is refused for as long as a
\* newer one could be alive, also after its logout.
WatermarkOutlivesTokens ==
    [][registry'.version < registry.version =>
          \A l \in Login : login[l].pc = "issued" => login[l].exp <= now']_vars

\* Claim of the local-password reference: an issuance that fails never logs out an
\* older session (of the user's current version; the others are dead already).
FailedIssuanceKeepsSessions ==
    [][\A l \in Login : login[l].pc = "encoded" /\ login'[l].pc \in {"failed", "refused"} =>
          \A s \in LiveSessions :
             registry.records[s].token_version = user.token_version
                => s \in DOMAIN registry'.records]_vars

\* A login whose password was verified gets an answer, whatever Redis replies.
EveryLoginAnswered ==
    \A l \in Login : login[l].pc = "verified"
                        ~> login[l].pc \in {"issued", "refused", "failed"}
=============================================================================
