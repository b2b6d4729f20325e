# A TLA+ model of the PostgreSQL RBAC template

The repository ships a FastAPI asset (`skills/fastapi-templates-xtn/assets/postgresql-rbac`,
below: the asset) with role-based access control in PostgreSQL, a registry of active logins in
Redis and local passwords, together with release scripts. This directory models the asset's own
logic and the one script that changes an installation. Paths without a prefix are relative to
the asset.

## 1. The system

| Component | State | Operations | Talks to | Correct when |
|---|---|---|---|---|
| Authorization policy (`app/core/security/policy.py`, `domain.py`) | none | `decide_*`, `is_administrative_*_visible` | called by every service | an actor only touches what is strictly below it |
| RBAC administration (`app/services/access.py`, `app/repositories/access.py`, `app/api/access.py`) | `users`, `roles`, `role_permissions`, `user_roles`, `rbac_state`, audit rows | user status, sessions, bind/unbind, role create/update/enable/disable/delete, permission bind/unbind | policy, row locks, audit | no escalation, no lost update, immediate revocation, caches can be invalidated |
| Provisioning, registration switch (`app/services/provisioning.py`, `authentication.py`) | `users`, `rbac_state` | register, create user, switch registration | row locks | every user has the mandatory role |
| Operator scripts (`sql/*.sql`, `app/commands/passwords.py`) | the same tables | bootstrap, handover, super-admin password reset | the same rows, offline | exactly one active super administrator |
| Row locks and deferred triggers (`lock_*`, `alembic/versions/000[124]*`) | PostgreSQL locks | `FOR UPDATE`, checks at COMMIT | all writers | canonical order, no deadlock |
| Active-login registry (`app/core/security/tokens.py`, `app/dependencies/authentication.py`) | three Redis keys per user | issue, require, revoke, list; Lua scripts | `users.token_version` | sessions end for a reason; revocation is seen by every later request |
| Local passwords (`app/services/authentication.py`, `app/core/security/passwords.py`) | `users.password_hash` and companions | login with hash upgrade, change, complete, reset | row locks, registry, Argon2 pool | a current token means the current password |
| CAPTCHA (`app/core/security/captcha.py`) | Redis records and pointers | issue, consume | login and account routes | an answer is used once, one live CAPTCHA per owner and scene |
| Rate limits (`app/core/security/rate_limit.py`, `app/dependencies/rate_limit.py`, `app/services/abuse_flow.py`) | Redis counters | check, inspect | all routes | at most `limit` admissions per window, closed on doubt |
| Argon2 pool (`passwords.py: _run_bounded`) | a semaphore | run in a thread | password flows | never more native workers than slots |
| Audited mutations (`_run_audited`, `write_denied_audit`, `app/core/business_audit.py`) | append-only rows | allowed row with the change, denied row afterwards | services | a change and its row are one transaction; a denial stands without its row |
| Log writer (`app/core/observability.py: BufferedLogHandler`) | queue, counters, lock, thread | emit, write loop, close, shutdown | everything | never blocks a request, counts what it drops |
| Request middleware, exception handlers (`app/main.py`) | per-request state | send, failure, completion record | every route | one completion record per request, and a true one |
| Lifespan (`app/main.py`, `app/db/redis.py`) | clients, log handler | start, stop | log writer, clients | everything opened is closed, whichever step raises |
| Readiness, liveness (`app/main.py`) | none that others read | probe under a deadline | clients | a probe never outlives its deadline |
| PostgreSQL client (`app/db/postgres.py`) | pool slots, `record_info` | checkout with probe, retire, invalidate, check in | services | one replacement at checkout, never after business SQL |
| Redis clients (`app/db/redis.py`) | connections of redis-py | create, close, command | CAPTCHA, quotas, registry | a lost reply is an outage, never a success |
| Config, contract, i18n, schemas | none | validation, rendering | routes | pure |
| Installed-skill updater (repository `scripts/update_installed_skill.py`) | directories | stage, verify, swap, roll back | file system | an interrupted update loses no installation |
| Release and CI validators (repository `scripts/`, `validate_country_csv.py`) | none | validate | file system | pure |

How they interact: a route decodes the bearer token, asks the registry whether its session is
active (Redis), then loads the user row and its authority (PostgreSQL) and compares
`token_version`. A service transaction then locks `rbac_state`, the users, the roles and the
policy rows it needs, loads everything again and decides. Revocation only moves
`users.token_version`; Redis is not told. Login and the other password flows verify Argon2
outside any transaction and compare the locked row with what they verified.

Before any of this a request passes its quotas (an inspection before PostgreSQL is queried, a
charge after it), and where the route asks for it a CAPTCHA, both in Redis; only then may it
take a slot of the Argon2 pool. Around it stand the connection pool, which it must never hold
while it asks for a second connection, the exception handlers and the middleware, which logs one
completion per request into the bounded queue that the lifespan drains at the end.

What is hard: whatever a request knows is old by the time its transaction runs; roles are
shared and may be disabled, so authority can come back long after it was granted; two stores
are kept consistent by one integer; a Redis script may run although its reply is lost; a hash
upgrade is a write outside the rotation protocol; database triggers take locks at COMMIT. A
CAPTCHA is read by one script and consumed by another; a cancelled request leaves a native
thread behind that nobody can stop; COMMIT may succeed although its acknowledgement is lost; a
log writer drains a queue that the shutdown drains as well; two updaters may rename the same
directory.
`PROJECT.json` lists each of these as a hazard at its line.

## 2. Modules

| Module | Models | Extends |
|---|---|---|
| `AccessPolicy` | `policy.py` and `domain.py` as operators on records | |
| `Rbac` | the authorization database and every transaction on it | `AccessPolicy` |
| `MCRbac` | users, seeds and requests for TLC | `Rbac` |
| `Rbac_proofs` | inductive invariants and twelve theorems | `Rbac` |
| `LockOrder` | row locks of the same transactions, statement by statement | |
| `MCLockOrder`, `LockOrder_proofs` | constants; five theorems: deadlock freedom and lock order for any number of sessions | `LockOrder` |
| `SessionRegistry` | the Redis keys of one user, logins, requests | |
| `MCSessionRegistry`, `SessionRegistry_proofs` | constants; five theorems: revocation, registry, ends of sessions and watermark | `SessionRegistry` |
| `PasswordAuth` | the password of one account | |
| `MCPasswordAuth`, `PasswordAuth_proofs` | constants; five theorems | `PasswordAuth` |
| `Requests` | the tasks that the service handles at one time | |
| `CaptchaPromise` | abstract: usable, spent and accepted challenges | |
| `Captcha` | the CAPTCHA scripts and their callers; refines `CaptchaPromise` | `Requests` |
| `RateLimit` | the fixed-window counters | |
| `PasswordPool` | semaphore, shielded threads, cancellation | `Requests` |
| `Admission` | quota, CAPTCHA and pool composed into the routes that use them | `Captcha`, `RateLimit`, `PasswordPool` |
| `MCAdmission`, `Admission_proofs` | constants; five theorems, one of them the refinement | `Admission` |
| `BufferedLog` | the log handler, its threads and its lock | |
| `AppLifespan` | start and stop of the application around it | `BufferedLog` |
| `MCAppLifespan`, `AppLifespan_proofs` | constants; three theorems | `AppLifespan` |
| `DatabaseClient` | the connection pool with its checkout probe | `Requests` |
| `AuditedRequest` | one protected POST from arrival to its completion record | `DatabaseClient` |
| `MCAuditedRequest`, `AuditedRequest_proofs` | constants; five theorems | `AuditedRequest` |
| `SkillUpdate` | the updater, call by call | |
| `MCSkillUpdate`, `SkillUpdate_proofs` | symmetry; one theorem | `SkillUpdate` |

Names are the source's where TLA+ allows. Definitions whose name has a suffix after the
name of another (`evict_oldest_Newest`) are deliberate mutations of it, each introduced by a
comment; they are used by no specification and show that the property named in `PROJECT.json`
notices the bug.

### AccessPolicy and Rbac
A snapshot is the set of grants its user holds; tier, permissions and protection derive from
it as in `AuthoritySnapshot.build`. A role's identifier stands for its key. *Effective*
authority counts active roles, *latent* authority disabled ones too
(`include_disabled_roles`). All transactions take `rbac_state FOR UPDATE` first and
read afterwards, so each is one action; the lock order behind that is the business of
`LockOrder`. The request around a transaction is not atomic: `ReadRoles` remembers the role
rows a client saw, with their versions, `Authenticate` the token version of the principal,
and the transaction that ends the request may come much later. `Refuse` stands for every
rejection; since a transaction may also be refused for reasons outside the model, an action
only says when the commit is possible. Transactions that commit without changing anything
(`changed = False`) are the second disjunct of their actions. The deferred triggers of the
migrations are not modelled in `Rbac`: the invariants say that they never have anything to
refuse. `users.is_protected` is not modelled because nothing in the program sets it; only the
`super_admin` role is protected.

### LockOrder
A transaction is the list of its lock statements; each locks its rows one at a time in
primary-key order, and a row is waited for while another session holds it. A transaction that
wrote `users` or `user_roles` locks `rbac_state` once more at COMMIT, as
`ct_users_require_base_role` does. Waiting may end by `lock_timeout`, a refusal or a lost
connection (`Rollback`), which no property relies on.

### SessionRegistry
The three keys of one user with their common deadline, changed by the Lua scripts as atomic
actions. Keys of different users are disjoint. A session is named by the login that issued
it; a JTI collides, if at all, with a session that is in the registry when the script runs.
`Lifetime` is a set, because replicas of two configurations run during a deployment; clock
differences between a replica and Redis show up as ticks between `encode_access_token` and
the script. A `RedisError` leaves open whether the script ran. The user row changes
independently: revocation, rotation, deactivation. Loss of the whole Redis data set is not
modelled: like early expiry it only ends sessions.

### PasswordAuth
One row of `users`, and requests of which each reads and verifies in one step (verification
is a function of the row read), and compares and writes in another. A hash records its
password, whether its parameters are current, and who computed it, because two hashes of one
password differ. `changed_at` counts changes of `password_changed_at`. `AuthorityChanges`
stands for everything that makes an administrator lose or gain the right to reset the user;
what that right is, is `Rbac`'s matter.

### Captcha, RateLimit, PasswordPool and Admission
`Captcha` has one action per Redis call: a Lua script is atomic, what its caller does between
two of them is not, and what the caller has read stays in `capOp`. `RedisFails` ends a call with
`captcha_store_unavailable` whether or not the script ran. `CaptchaPromise` says what the callers
rely on and knows no pointer, retry or reply; `Usable` and `Spent` are the refinement mapping,
read off the records and off the callers that are still about to store one. An identifier is a
fresh uuid4; a record is the scope it is bound to; answers are right or wrong. Rejected scenes,
malformed records and images are left out.

`RateLimit` has the counting and the inspecting script. A counter at its limit stays there,
since neither comparison tells it from a higher one. `rate_limit_enabled` is taken as `TRUE`: with
`FALSE` there is nothing to check. `PasswordPool` is `_run_bounded` over `asyncio.Semaphore`
(external: FIFO, hands a slot over before the waiter runs). The native thread has a variable of
its own, because it goes on when its request is gone.

`Admission` lets a request go through *inspect*, *charge*, *captcha* and *pool*, in the order of
its route. Which operation has which bucket and scope is a constant; the model instance has a
protected route that issues a CAPTCHA, a protected one that consumes it and hashes, and a public
one that issues. The inspection and the later charge of failed logins are left out. What the
password work does to the account is `PasswordAuth`'s matter.

### BufferedLog and AppLifespan
The handler's lock is a variable, because who holds it when is what the properties depend on:
`emit` runs under it, the writer takes it only to count. `emit` has three steps (the handler found
by the logger, the event looked at, the line queued), so that the handler may be removed or
closed in between. The sink returns, fails or blocks for ever; the writer thread may not start.
`AppLifespan` adds the order of start-up and shutdown, each of which may raise, and
`reconfigure`: a second application of the process closes the handler without draining it, in
which case the writer ends it. Formatting, redaction and context variables are left out.

### DatabaseClient and AuditedRequest
SQLAlchemy's `QueuePool` and asyncpg are external; the listeners that `postgres.py` installs are
the code modelled: the probe at checkout, its one replacement, the mark in `record_info`, the
deadline that retires one connection and the disconnect that invalidates the pool (`outdated`). A
connection breaks at any time. A slot that is `Absent` makes the pool smaller, so that one run
covers several sizes.

`AuditedRequest` has one action per await of a protected POST: the authority snapshot, the
mutation, its COMMIT, the denial row in its own session, the two `send`s, and the middleware's
records. An `RbacError` raised inside a session first leaves it, through the close of the read
session (`close_refused`) or the ROLLBACK of the mutation (`roll_back_refused`), and only then is
caught; when that await fails, its error takes the place of the `RbacError`, no denial row is
tried, and the answer is 503 or 500. `refusal` tells a refusal that was raised from one that its
handler has caught. What the mutation does to the tables is `Rbac`'s matter; here it is one row. The
answers are classes: `ok`, `refused` (a domain error, also 401, 422 and 429, which write no
denial row), `unavailable` (503) and `error` (500, which leaves the application as an exception
and is sent by Starlette's outermost layer, after the middleware has recorded it).
`failure_phase`, headers and bodies are left out.

### SkillUpdate
One action per file-system call of `update_skill`; a rename is atomic and fails over a directory
that is not empty. Where an interrupt may come between a call and the `try` that follows it, the
action has both outcomes. A run is killed between any two calls; what it has done to the file
system stays, because the system goes on. Trees are whole versions or mixtures; the checks of names, links and
manifests are the choice in `plan` and the comparison in `verify_staging`.

## 3. Runs

| Run | Bounds | Shows |
|---|---|---|
| `rbac_team` | 3 users, 2 custom roles, 2 names, tier 100, one permission set, requests name 1 role, at most 3 roles per user, 2 requests in flight, 2 epoch moves, token versions up to 1 | no escalation, hierarchy respected, cache keys move, no lost update, revoked requests change nothing, dead roles empty, role limit |
| `rbac_young` | the same users from a migrated and a young database, tiers 0, 100, 999 and 1000, 3 epoch moves, 1 request in flight | types, mandatory role, one active super administrator, immutable system roles, handover only by the operator |
| `lock_order` | 2 sessions, 2 users, 2 roles, no outdated hashes | canonical order, no deadlock, every transaction ends |
| `lock_order_rehash` | the same with outdated hashes | expected violation of the documented lock order (finding 1) |
| `session_registry` | 3 logins, 1 request at a time, at most 2 sessions, lifetimes 1 and 3, leeway 1, clock up to 4, versions up to 2 | registry consistency, reasons for a session to end, version watermark, revocation |
| `session_registry_live` | 2 logins, 1 session, clock up to 3 | every verified login is answered |
| `session_registry_lost_reply` | as `session_registry` | expected violation of the documented "failed issuance" rule (finding 2) |
| `password_auth` | 3 requests of any kind, 2 passwords, versions up to 2 | current tokens, upgrades, rotations |
| `admission` | 2 clients, 2 challenges, scopes `selfChange` (private) and `login` (public), limits 1, 1 slot, 2 Argon2 operations per change | bounded workers, quotas, work paid for, the CAPTCHA promise, every request ends |
| `app_log` | 2 emitters and the main thread, capacity 2, other threads begin at most 5 calls | accounting, nothing left queued, resources released, the lifespan ends |
| `audited_request` | 2 requests over pools of 1 and of 2 slots | true answers and completion records, replacement at checkout, every request ends |
| `skill_update` | 3 runs, 3 versions | no installation lost |

Why the bounds are enough: `rbac_team` starts from databases that earlier operations left
behind (a user with an enabled and a disabled role, a suspended user), so that the two
committed changes the epoch bound allows suffice for the interesting pairs: enabling a role
after it was bound, editing a role while its holder acts, deleting a role during a bind.
`rbac_young` asks for tiers on both sides of each edge of `decide_role_create`'s 1 to 999.
Without the lower edge the run fails; tier 1000 is refused twice, by the range and by the hierarchy.
`MaxRolesPerUser` is 3 so that the limit of ten is reached. Two sessions suffice for a
lock cycle of two classes, and the theorem covers any number. In `session_registry` three
logins against two sessions fill the registry and evict, a lifetime of 1 expires while one of
3 lives, and two version bumps separate an old, a current and a delayed login. Two passwords
and three requests allow two competing upgrades and a rotation between them.

In `admission` two clients are the fewest that race for a pointer, for the one record of a scope
and for the slot; a private scope with two challenges has an old and a new one, and a limit of one
is reached and exceeded. Two Argon2 operations let another request take the slot between the
verification and the hash of one change. In `app_log` a capacity of two is filled with
a line in the writer's hand and another thread waiting for the lock. In `audited_request` a pool of
one connection is what a request that held two would wait for, and the second slot is outdated
when the first invalidates the pool. In `skill_update` the third run overlaps a crashed and a
running one.

`CHECK_DEADLOCK FALSE` appears where the system stops by itself or the model stops at its
bounds: all logins used or the clock at `TimeBound` (`session_registry*`), every request of the
account ended and the versions at their bound (`password_auth`), the lifespan ended (`app_log`),
every POST ended (`audited_request`), every run ended (`skill_update`). The `rbac_*`,
`lock_order*` and `admission` runs check deadlock.

Bounds in the guards: `EpochBound`, `TokenVersionBound`, `MaxInFlight` and `MaxRequestedRoles` in
`Rbac`, `VersionBound` and `TimeBound` in `SessionRegistry`, `VersionBound` in `PasswordAuth`,
`ChallengesLeft` in `Admission` (the code never runs out of uuid4s), `MaxEmitted` in `BufferedLog`.

Fairness. `LockOrder`: strong fairness of `Acquire`, because PostgreSQL hands a released row
lock to a waiter and does not pass it over for ever, and weak fairness of `Commit`, because a
session that waits for nothing goes on. `SessionRegistry`: weak fairness of the steps of a
login that was verified (`AnswerLogin`): the event loop resumes it, and the socket timeout
turns a silent Redis into a `RedisError`. `Admission`: weak fairness of what the service does for
a request (`Handle`): the event loop runs ready tasks, Redis and PostgreSQL answer or fail within
their timeouts, and a native thread finishes; slots are handed over in order, so nothing
stronger is needed. `AppLifespan`: weak fairness of the lifespan, of a thread inside `emit`, of the
writer thread and of the shutdown coroutine, whose deadline is a clock; none of the sink, and
none of the server's end. `AuditedRequest`: weak fairness of a request's own steps and of its
checkout; none of `pool_timeout`, so that the property cannot lean on it, none of cancellation or of
broken connections. Nothing is assumed of clients, administrators or operators.

## 4. Findings

1. **A login that upgrades a hash breaks the documented lock order.**
   `_verify_login_snapshot` locks only the `users` row; when it writes `password_hash`, the
   deferred trigger `ct_users_require_base_role` locks `rbac_state` at COMMIT, an earlier
   class (`references/atomic-consistency.md`, "must never acquire an earlier class after a
   later one"). With a transaction that holds `rbac_state` and waits for the same user this
   is a deadlock, which PostgreSQL resolves by aborting one of the two with 40P01; the error
   is none `app/db/errors.py` knows. Only rows hashed under other Argon2 parameters are
   affected.
2. **A login that fails may have logged out another session.** `issue_access_token` answers
   503 on every `RedisError`, also when the script ran and its reply was lost. By then the
   session nobody will use is registered and the oldest one evicted;
   `references/local-password-authentication.md` says "Failed new issuance must never log
   out an older session."

## 5. Proofs

All theorems are about the specifications above with arbitrary constants, under the
`ASSUME`s of the modules: the roles' identifiers are disjoint from the system keys, the seeds
are databases the program can have left behind, custom roles are finitely many
(`CustomRoleFinite`, without which a number of roles means nothing), `roles` has a row
(`SystemRolesExist`: the migration seeds three), and the like.

* `Rbac_proofs`. The invariants are proved through one inductive invariant, `Safety`: types,
  mandatory role, one active holder, dead roles empty, system roles immutable. They need each
  other: that the super administrator stays active rests on the hierarchy (nobody can
  administer a subject that holds a protected role), that on the immutability of the role's
  row, and that a bind cannot revive a dead role on dead roles being empty. `NoUpdateIsLost`
  needs a second invariant, `ReadsAreConsistent`: a row a client has read is the present
  row whenever the versions agree, and its version is never ahead. `RevocationIsImmediate` is an
  action property that each action's guard gives.

  `HierarchyIsRespected` and `NobodyEscalates` share one statement about every transaction of a
  request: an existing user is either untouched (`Untouched`) or dominated by the actor before
  and after (`Dominated`), and a newcomer brings the role `user` only. For the tiers this needs
  that `management_tier` is the largest tier of a set, which exists because tiers are bounded by
  1000. `CacheKeysMove`: no version goes back (`Forward`), and whatever changes the grants of a
  user moves both `epoch` and `authz_version` (`Moved`). `SuperAdminStaysInHand`: the actor of a
  request never dominates a holder, so only the operator's steps are left. For
  `RolesStayWithinTheLimit` each step adds no role or checks the count.
* `LockOrder_proofs`. Call a login that upgrades a hash and waits for `rbac_state` at COMMIT
  *upgrading* (`Upgrading`). Whoever else waits while it holds a row holds the guard `rbac_state`
  (`GuardFirst`), and whoever else will have to lock it at COMMIT locks it first (`WriterGuarded`).
  In a circle of waiting sessions without an upgrading one, each is blocked by one that waits and
  holds a row, hence by the holder of the guard, and there is only one: `OnlyUpgradesDeadlock`. A
  row that a session still has to lock for the first time has at least the class of every row it
  holds and of every row planned before it, unless the session is upgrading (`OrderInv`):
  `OnlyUpgradesBreakTheOrder`. These two assume nothing of the hashes, so they say that finding 1
  is the only flaw of its kind; `WritersNeverDeadlock` and `WritersKeepTheOrder` follow for
  databases without outdated hashes, where nobody upgrades.
* `SessionRegistry_proofs`. `RevocationReachesEveryRequest`: the version a principal carries is
  compared with a row whose version never decreases. `RegistryStaysConsistent`: each script keeps
  `KeysInv`, which adds to the property that the hash is finite and its scores are bounded, so
  that the newcomer of `_ACTIVATE_JTI` finds a score above all others; what the eviction leaves is
  within the limit because its oldest session has fewer than `MaxSessions` above it.
  `SessionsEndForAReasonOnly` looks at the same scripts as steps: a login that has
  still to run its script has no session yet (`FreshLogins`), so that what `_ACTIVATE_JTI`
  registers is one session more, with a score above all others; hence the eviction removes nothing or, from a full
  set, the session with the lowest score (`EvictedIsOldest`), and no other script removes a session
  that has not expired unless it was asked for that one.
  `WatermarkIsKept`: the deadline covers every token that was returned (`TokensCovered`), hence
  Redis drops `_version` only when all of them have expired.
* `PasswordAuth_proofs`. One inductive invariant `IInv`: types; whatever a waiting request has
  proven holds of the row it read; and no issued token is newer than the row or, at the same
  version, of another password. The two theorems on upgrades rest on how the row a request has
  read relates to the present one (`ReadsFit`): at the same version only the hash may have
  been replaced, an outdated one by a current one of the same password.
* `Admission_proofs`. Three invariants, one per component, and one that joins them. `PoolInv`:
  the free slots, the granted ones and the held ones are `MaxOperations` together, and a busy
  thread has a held slot; this gives `NativeWorkersAreBounded`. The same invariant says that no
  cancellation loses a slot or a waiter and that a woken request is there to pass on what is free
  while others wait (`NoArgonSlotLost`), which rests on the queue holding exactly the waiting
  requests, each once. `QuotasAreKept` rests on the
  counter being at least what was granted. `AdmissionImplementsPromise` shows `CaptchaPromise`'s
  initial state and step for every step of `Admission`: a private scope has at most one record
  because its pointer names it, and a caller's identifier is fresh until it is stored.
  `WorkIsPaidByCaptcha` needs the join: a request in the pool keeps the acceptance it entered
  with.
* `AppLifespan_proofs`. `LockHeld`: whoever is inside `emit` has the lock and has seen the event
  unset, and the drain has the lock after the event; with `WriterStage` this gives
  `NoLineLeftBehind`. `NoRecordUncounted` is inductive given the types. `OpenAt` says what is
  still open at each stage of the lifespan and gives `NothingStaysOpen`.
* `AuditedRequest_proofs`. One inductive invariant relates the place of a request to what it has
  decided, committed, answered, sent and recorded (`Decided`, `SentInOrder`, `Logged`);
  a refusal on its way out of its session has written nothing, which is why the answer of one that
  fails there need not be a refusal. `AnswersStayTrue` and `CompletionIsUnique` follow and need of the pool only that sessions belong
  to requests at work. A second one, `PoolInv`, is about the pool: a slot is checked out exactly
  while one session carries it (`SlotsAreHeld`, `SlotsAreOwned`), which with the first gives
  `NoSlotLost`; and a mark in `record_info` that a checkout meets was set in this checkout
  (`DialsAreMarked`), because `check_in` and every way to abandon a slot remove it, which gives
  `StaleConnectionsCostNothing`.
* `SkillUpdate_proofs`. `Staged`: what a run may still move in is a whole version; `BackupFree`:
  a run moves the old tree only to a backup path that is free. Hence no rename overwrites a
  tree.

Out of the prover's reach and left to TLC: liveness (`EveryTransactionEnds`,
`EveryLoginAnswered`, `EveryRequestEnds`, `LifespanEnds`, `EveryRequestAnswered`) and what
recursive definitions compute. Every other property of the passing runs, invariants and action
properties alike, is stated by a theorem. The type invariants of the modules other than `Rbac` are
no runs' properties: `LocksAreExclusive`, `RegistryTypes`, `PasswordTypes` and `RequestTypes` prove
four of them, and the inductive invariants of the other modules carry what they need.

## 6. Plan

Done, in this order because authorization is what the asset is for: `AccessPolicy` and
`Rbac`; `LockOrder`, which justifies their atomic steps; `SessionRegistry`; `PasswordAuth`;
`Admission` with the components it composes; `BufferedLog` with `AppLifespan`; `DatabaseClient` with
`AuditedRequest`; `SkillUpdate`.

What would come next: a module `Account` that composes `PasswordAuth` and `SessionRegistry` over one
user row and refines an abstract account, in which a bearer is accepted only with the current
password's consent; the quotas of failed logins (inspection before the password check, charge after
it) in `Admission`.

## 7. Not modelled

* Readiness and liveness routes: three probes under one deadline each, without state that
  another part reads; their Redis keys have random names and a short TTL.
* Business and account audit rows: validated data added to the session of their caller. They
  commit or roll back with it, which `AuditedRequest` shows, and have no step of their own.
* Sentinel discovery and reconnection inside redis-py (its retries are switched off): what a
  failed or lost command means is modelled where it is used. Loss of the whole Redis data set only
  ends sessions and challenges.
* A machine that stops while the updater runs: renames and copies that the file system has not
  written yet may be lost or reordered, and nothing in `SkillUpdate` speaks of that.
* Configuration, schemas, response contract, translations, pagination and projections: pure data.
* The release and CI validators: sequential checks of files and processes, with no state that
  outlives a run. The load test and the tests were read for what the code is expected to do.
