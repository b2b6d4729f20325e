-------------------------- MODULE LockOrder_proofs --------------------------
(***************************************************************************)
(* Freedom from deadlock and the canonical lock order for any number of    *)
(* sessions, users and roles: the one exception to either is a login that  *)
(* upgrades a hash, and without outdated hashes there is none.             *)
(***************************************************************************)
EXTENDS LockOrder, SequenceTheorems, WellFoundedInduction, TLAPS

\* A login that has upgraded a hash: at COMMIT the deferred trigger asks for the
\* guard while the session holds the row of its user only.
Upgrading(t) ==
    /\ phase[t] = "committing"
    /\ plan[t] = << {rbac_state} >>
    /\ rbac_state \notin held[t]
    /\ held[t] # {}

\* A session that still has rows to lock holds the guard, or holds nothing and
\* starts with the guard, or is a login that locks a single row.
GuardFirst(t) ==
    \/ plan[t] = <<>>
    \/ rbac_state \in held[t]
    \/ held[t] = {} /\ Head(plan[t]) = {rbac_state}
    \/ held[t] = {} /\ (dirty[t] => NeedsRehash) /\ \E row \in Row : plan[t] = << {row} >>
    \/ Upgrading(t)

\* A session that writes users holds the guard before its triggers run, but for a
\* login that upgrades a hash.
WriterGuarded(t) ==
    dirty[t] => \/ NeedsRehash
                \/ rbac_state \in held[t]
                \/ held[t] = {} /\ plan[t] # <<>> /\ Head(plan[t]) = {rbac_state}

\* The inductive invariant.  NoDeadlock alone is not inductive: it needs to know
\* that whoever waits while holding a row is the one holder of the guard.
LockInv ==
    /\ phase \in [Txn -> {"idle", "running", "committing"}]
    /\ plan \in [Txn -> Seq(SUBSET Row)]
    /\ held = [t \in Txn |-> held[t]]
    /\ dirty \in [Txn -> BOOLEAN]
    /\ \A t \in Txn : phase[t] = "idle" => held[t] = {} /\ plan[t] = <<>>
    /\ \A t \in Txn : phase[t] = "committing" => dirty[t]
    /\ \A t \in Txn : GuardFirst(t) /\ WriterGuarded(t)
    /\ \A s, t \in Txn : s # t => held[s] \cap held[t] = {}

\* In every circle of waiting sessions there is a login that upgrades a hash.
CirclesUpgrade ==
    \A waiting \in NonEmptySubset(Txn) :
        (\A t \in waiting : \E s \in waiting : Blocks(s, t)) => \E t \in waiting : Upgrading(t)

\* The argument: in a circle of waiting sessions each one is blocked by one that
\* waits while it holds a row, hence by the holder of the guard, and two
\* different sessions would hold it.
LEMMA GuardExcludesCircles == LockInv => CirclesUpgrade
<1> SUFFICES ASSUME LockInv, NEW waiting \in NonEmptySubset(Txn),
                    \A t \in waiting : \E s \in waiting : Blocks(s, t),
                    \A t \in waiting : ~Upgrading(t)
             PROVE  FALSE
  BY DEF CirclesUpgrade
<1> waiting \in SUBSET Txn /\ waiting # {}
  BY DEF NonEmptySubset
<1>1. ASSUME NEW s \in waiting, held[s] # {} PROVE rbac_state \in held[s]
  <2>1. plan[s] # <<>>
    BY DEF Blocks
  <2> QED
    BY <1>1, <2>1 DEF LockInv, GuardFirst
<1>2. PICK t \in waiting : TRUE
  OBVIOUS
<1>3. PICK s \in waiting : Blocks(s, t)
  BY <1>2
<1>4. PICK r \in waiting : Blocks(r, s)
  BY <1>3
<1>5. rbac_state \in held[s] /\ rbac_state \in held[r] /\ r # s
  BY <1>1, <1>3, <1>4 DEF Blocks
<1> QED
  BY <1>5 DEF LockInv

\* Without outdated hashes nobody upgrades one.
LEMMA NobodyUpgrades ==
    ASSUME LockInv, ~NeedsRehash, NEW t \in Txn
    PROVE  ~Upgrading(t)
BY DEF LockInv, WriterGuarded, Upgrading

LEMMA NoCircles == LockInv /\ ~NeedsRehash => NoDeadlock
<1> SUFFICES ASSUME LockInv, ~NeedsRehash, NEW waiting \in NonEmptySubset(Txn)
             PROVE  \E t \in waiting : \A s \in waiting : ~Blocks(s, t)
  BY DEF NoDeadlock
<1>1. \A t \in waiting : ~Upgrading(t)
  BY NobodyUpgrades DEF NonEmptySubset
<1> QED
  BY <1>1, GuardExcludesCircles DEF CirclesUpgrade

\* Initially no session runs a transaction, so none holds or plans a lock.
LEMMA InitLockInv == Init => LockInv
BY DEF Init, LockInv, GuardFirst, WriterGuarded

\* A transaction that begins with the guard, or with one row, which it writes only to
\* upgrade a hash.
LEMMA BeginLockInv ==
    ASSUME LockInv, NEW t \in Txn, NEW statements \in Seq(SUBSET Row), NEW w \in BOOLEAN,
           statements # <<>>,
           \/ Head(statements) = {rbac_state}
           \/ (w => NeedsRehash) /\ \E row \in Row : statements = << {row} >>,
           Begin(t, statements, w)
    PROVE  LockInv'
<1>1. /\ phase[t] = "idle" /\ held' = held
      /\ phase' = [phase EXCEPT ![t] = "running"]
      /\ plan'  = [plan EXCEPT ![t] = statements]
      /\ dirty' = [dirty EXCEPT ![t] = w]
  BY DEF Begin
<1>2. held[t] = {}
  BY <1>1 DEF LockInv
<1>3. ASSUME NEW s \in Txn PROVE GuardFirst(s)' /\ WriterGuarded(s)'
  <2>1. CASE s = t
    BY <1>1, <1>2, <2>1 DEF LockInv, GuardFirst, WriterGuarded, Upgrading
  <2>2. CASE s # t
    BY <1>1, <2>2 DEF LockInv, GuardFirst, WriterGuarded, Upgrading
  <2> QED
    BY <2>1, <2>2
<1> QED
  BY <1>1, <1>3 DEF LockInv

\* A transaction that ends gives up every row and plans nothing.
LEMMA ReleaseLockInv ==
    ASSUME LockInv, NEW t \in Txn, Release(t)
    PROVE  LockInv'
<1>1. ASSUME NEW s \in Txn PROVE GuardFirst(s)' /\ WriterGuarded(s)'
  <2>1. CASE s = t
    BY <2>1 DEF Release, LockInv, GuardFirst, WriterGuarded, Upgrading
  <2>2. CASE s # t
    BY <2>2 DEF Release, LockInv, GuardFirst, WriterGuarded, Upgrading
  <2> QED
    BY <2>1, <2>2
<1>2. /\ phase' = [phase EXCEPT ![t] = "idle"]
      /\ plan'  = [plan EXCEPT ![t] = <<>>]
      /\ held'  = [held EXCEPT ![t] = {}]
      /\ dirty' = [dirty EXCEPT ![t] = FALSE]
  BY DEF Release
<1>3. ASSUME NEW s \in Txn
      PROVE  /\ held'[s] = IF s = t THEN {} ELSE held[s]
             /\ phase'[s] = "idle" => held'[s] = {} /\ plan'[s] = <<>>
             /\ phase'[s] = "committing" => dirty'[s]
  BY <1>2 DEF LockInv
<1>4. \A s, r \in Txn : s # r => held'[s] \cap held'[r] = {}
  BY <1>3 DEF LockInv
<1>5. /\ phase' \in [Txn -> {"idle", "running", "committing"}]
      /\ plan' \in [Txn -> Seq(SUBSET Row)]
      /\ held' = [s \in Txn |-> held'[s]]
      /\ dirty' \in [Txn -> BOOLEAN]
  <2>1. <<>> \in Seq(SUBSET Row)
    OBVIOUS
  <2>2. phase' \in [Txn -> {"idle", "running", "committing"}] /\ dirty' \in [Txn -> BOOLEAN]
    BY <1>2 DEF LockInv
  <2>3. plan' \in [Txn -> Seq(SUBSET Row)]
    BY <1>2, <2>1 DEF LockInv
  <2>4. held' = [s \in Txn |-> held'[s]]
    BY <1>2 DEF LockInv
  <2> QED
    BY <2>2, <2>3, <2>4
<1> QED
  BY <1>1, <1>3, <1>4, <1>5 DEF LockInv

\* A commit releases at once, or takes rbac_state for the deferred trigger first.
LEMMA CommitLockInv ==
    ASSUME LockInv, NEW t \in Txn, Commit(t)
    PROVE  LockInv'
<1>1. CASE /\ phase[t] = "running" /\ dirty[t] /\ plan[t] = <<>>
           /\ phase' = [phase EXCEPT ![t] = "committing"]
           /\ plan'  = [plan EXCEPT ![t] = << {rbac_state} >>]
           /\ UNCHANGED <<held, dirty>>
  <2>1. NeedsRehash \/ rbac_state \in held[t]
    BY <1>1 DEF LockInv, WriterGuarded
  <2>2. ASSUME NEW s \in Txn PROVE GuardFirst(s)' /\ WriterGuarded(s)'
    <3>1. CASE s = t
      <4>1. /\ plan'[t] = << {rbac_state} >> /\ Head(plan'[t]) = {rbac_state}
            /\ phase'[t] = "committing" /\ held' = held /\ dirty' = dirty
        BY <1>1 DEF LockInv
      <4> QED
        BY <2>1, <3>1, <4>1 DEF GuardFirst, WriterGuarded, Upgrading
    <3>2. CASE s # t
      BY <1>1, <3>2 DEF LockInv, GuardFirst, WriterGuarded, Upgrading
    <3> QED
      BY <3>1, <3>2
  <2>3. << {rbac_state} >> \in Seq(SUBSET Row)
    BY DEF Row
  <2> QED
    BY <1>1, <2>2, <2>3 DEF LockInv
<1>2. CASE Release(t)
  BY <1>2, ReleaseLockInv
<1> QED
  BY <1>1, <1>2 DEF Commit

\* Taking the next row keeps every plan ahead of what its session holds.
LEMMA AcquireLockInv ==
    ASSUME LockInv, NEW t \in Txn, Acquire(t)
    PROVE  LockInv'
<1> DEFINE row == NextRow(t)
           rest == IF Head(plan[t]) = {row} THEN Tail(plan[t])
                   ELSE << Head(plan[t]) \ {row} >> \o Tail(plan[t])
<1>1. /\ plan[t] # <<>>
      /\ held' = [held EXCEPT ![t] = held[t] \cup {row}]
      /\ plan' = [plan EXCEPT ![t] = rest]
      /\ UNCHANGED <<phase, dirty>>
      /\ \A s \in Txn : s # t => row \notin held[s]
  BY DEF Acquire, Blocks
<1>2. phase[t] # "idle"
  BY <1>1 DEF LockInv
<1>3. plan[t] \in Seq(SUBSET Row)
  BY DEF LockInv
<1>4. Head(plan[t]) \in SUBSET Row /\ Tail(plan[t]) \in Seq(SUBSET Row)
  BY <1>1, <1>3
<1>5. rest \in Seq(SUBSET Row)
  <2> HIDE DEF row
  <2>1. Head(plan[t]) \ {row} \in SUBSET Row
    BY <1>4
  <2>2. << Head(plan[t]) \ {row} >> \in Seq(SUBSET Row)
    BY <2>1
  <2>3. << Head(plan[t]) \ {row} >> \o Tail(plan[t]) \in Seq(SUBSET Row)
    BY <1>4, <2>2
  <2> QED
    BY <1>4, <2>3
<1>6. ASSUME Head(plan[t]) = {rbac_state} PROVE row = rbac_state
  BY <1>6 DEF NextRow, rbac_state
<1>7. ASSUME NEW x \in Row, plan[t] = << {x} >> PROVE rest = <<>>
  <2>1. Head(plan[t]) = {x} /\ Tail(plan[t]) = <<>>
    BY <1>7
  <2>2. x[2] \in Int
    BY KeyAssumption DEF Row, rbac_state, UserRows, RoleRows, PolicyRows
  <2>3. row = x
    BY <2>1, <2>2 DEF NextRow
  <2> QED
    BY <2>1, <2>3
<1> HIDE DEF row, rest
<1>8. held'[t] = held[t] \cup {row} /\ plan'[t] = rest /\ dirty'[t] = dirty[t]
  BY <1>1 DEF LockInv
<1>9. GuardFirst(t)' /\ WriterGuarded(t)'
  <2>1. CASE rbac_state \in held[t]
    BY <1>8, <2>1 DEF GuardFirst, WriterGuarded
  <2>2. CASE Head(plan[t]) = {rbac_state}
    BY <1>6, <1>8, <2>2 DEF GuardFirst, WriterGuarded
  <2>3. CASE (dirty[t] => NeedsRehash) /\ \E x \in Row : plan[t] = << {x} >>
    BY <1>7, <1>8, <2>3 DEF GuardFirst, WriterGuarded
  <2>4. Upgrading(t) => Head(plan[t]) = {rbac_state}
    BY DEF Upgrading
  <2> QED
    BY <1>1, <2>1, <2>2, <2>3, <2>4 DEF LockInv, GuardFirst
<1>10. ASSUME NEW s \in Txn, s # t
       PROVE  held'[s] = held[s] /\ GuardFirst(s)' /\ WriterGuarded(s)'
  BY <1>1, <1>10 DEF LockInv, GuardFirst, WriterGuarded, Upgrading
<1>11. ASSUME NEW s \in Txn, NEW r \in Txn, s # r PROVE held'[s] \cap held'[r] = {}
  <2>1. held[s] \cap held[r] = {}
    BY <1>11 DEF LockInv
  <2> QED
    BY <1>1, <1>8, <1>10, <1>11, <2>1
<1>12. /\ plan' \in [Txn -> Seq(SUBSET Row)]
       /\ held' = [s \in Txn |-> held'[s]]
  BY <1>1, <1>5 DEF LockInv
<1>13. \A s \in Txn : phase'[s] = "idle" => held'[s] = {} /\ plan'[s] = <<>>
  BY <1>1, <1>2 DEF LockInv
<1> QED
  BY <1>1, <1>9, <1>10, <1>11, <1>12, <1>13 DEF LockInv

\* Every lock plan a service or script starts with begins at the guard and ascends.
LEMMA StartLockInv ==
    ASSUME LockInv, NEW t \in Txn, Start(t)
    PROVE  LockInv'
<1>1. /\ {rbac_state} \in SUBSET Row
      /\ \A us \in SUBSET User : UserRows(us) \in SUBSET Row
      /\ \A rs \in SUBSET RoleId : RoleRows(rs) \in SUBSET Row /\ PolicyRows(rs) \in SUBSET Row
  BY DEF Row, UserRows, RoleRows, PolicyRows
<1> DEFINE Guarded(p) == p \in Seq(SUBSET Row) /\ p # <<>> /\ Head(p) = {rbac_state}
<1>2. ASSUME NEW p, Guarded(p), NEW w \in BOOLEAN, Begin(t, p, w) PROVE LockInv'
  BY <1>2, BeginLockInv
<1> HIDE DEF Guarded
<1>g. ASSUME NEW S1 \in SUBSET Row, NEW S2 \in SUBSET Row, NEW S3 \in SUBSET Row,
             NEW S4 \in SUBSET Row
      PROVE  /\ Guarded(<< {rbac_state}, S1 >>)
             /\ Guarded(<< {rbac_state}, S1, S2 >>)
             /\ Guarded(<< {rbac_state}, S1, S2, S3 >>)
             /\ Guarded(<< {rbac_state}, S1, S2, S3, S4 >>)
  BY <1>1 DEF Guarded
<1>3. ASSUME NEW a \in User, NEW target \in User, NEW rs \in SUBSET RoleId,
             lock_actor_and_target_user(t, a, target, rs) \/ create_role(t, a, rs)
      PROVE  LockInv'
  BY <1>1, <1>2, <1>3, <1>g DEF lock_actor_and_target_user, create_role
<1>4. ASSUME NEW a \in User, NEW us \in SUBSET User, NEW rs \in SUBSET RoleId, NEW r \in RoleId,
             lock_shared_role_change(t, a, us, rs, r)
      PROVE  LockInv'
  BY <1>1, <1>2, <1>4, <1>g DEF lock_shared_role_change
<1>5. ASSUME NEW a \in User, NEW r \in RoleId, create_user_by_administrator(t, a, r)
      PROVE  LockInv'
  BY <1>1, <1>2, <1>5, <1>g DEF create_user_by_administrator
<1>6. ASSUME NEW r \in RoleId, register(t, r) PROVE LockInv'
  BY <1>1, <1>2, <1>6, <1>g DEF register
<1>7. ASSUME NEW us \in SUBSET User, rotate_password(t, us) \/ bootstrap_super_admin(t, us)
      PROVE  LockInv'
  BY <1>1, <1>2, <1>7, <1>g DEF rotate_password, bootstrap_super_admin
<1>8. ASSUME NEW a \in User, set_registration_enabled(t, a) PROVE LockInv'
  BY <1>1, <1>2, <1>8, <1>g DEF set_registration_enabled
<1>9. ASSUME NEW old \in User, NEW new \in User, NEW r1 \in RoleId, NEW r2 \in RoleId,
             handover_super_admin(t, old, new, r1, r2)
      PROVE  LockInv'
  BY <1>1, <1>2, <1>9, <1>g DEF handover_super_admin
<1>11. ASSUME NEW u \in User, NEW rehash \in {FALSE, NeedsRehash},
              verify_login_snapshot(t, u, rehash)
       PROVE  LockInv'
  <2>1. UserRows({u}) = {<<20, u>>} /\ <<20, u>> \in Row
    BY DEF UserRows, Row
  <2>2. << UserRows({u}) >> \in Seq(SUBSET Row) /\ << UserRows({u}) >> # <<>>
    BY <2>1
  <2>3. rehash \in BOOLEAN /\ (rehash => NeedsRehash)
    <3>1. CASE rehash = FALSE
      BY <3>1
    <3>2. CASE rehash = NeedsRehash
      BY <3>2, NeedsRehashAssumption
    <3> QED
      BY <3>1, <3>2
  <2> QED
    BY <1>11, <2>1, <2>2, <2>3, BeginLockInv DEF verify_login_snapshot
<1>12. ASSUME NEW S, NEW rows \in NonEmptySubset(S) PROVE rows \in SUBSET S
  BY DEF NonEmptySubset
<1> QED
  BY ZenonT(40), <1>3, <1>4, <1>5, <1>6, <1>7, <1>8, <1>9, <1>11, <1>12 DEF Start

\* Every step keeps the invariant.
LEMMA LockStep == LockInv /\ [Next]_vars => LockInv'
<1> SUFFICES ASSUME LockInv, [Next]_vars PROVE LockInv'
  OBVIOUS
<1>1. CASE UNCHANGED vars
  BY <1>1 DEF vars, LockInv, GuardFirst, WriterGuarded, Upgrading
<1> QED
  BY <1>1, StartLockInv, AcquireLockInv, CommitLockInv, ReleaseLockInv DEF Next, Rollback

\* Whatever hashes are stored, a set of sessions waits in a circle for row locks only if
\* one of them is a login that upgrades a hash and waits for rbac_state at COMMIT.
THEOREM OnlyUpgradesDeadlock == Safe => []CirclesUpgrade
BY InitLockInv, LockStep, GuardExcludesCircles, PTL DEF Safe

\* While no stored hash needs an upgrade at login, no set of sessions, however
\* large, waits in a circle for row locks.
THEOREM WritersNeverDeadlock == ~NeedsRehash => (Safe => []NoDeadlock)
<1> SUFFICES ASSUME ~NeedsRehash PROVE Safe => []NoDeadlock
  OBVIOUS
<1>1. LockInv => NoDeadlock
  BY NoCircles
<1> QED
  BY <1>1, InitLockInv, LockStep, PTL DEF Safe

(***************************************************************************)
(* The canonical order of the classes.                                     *)
(***************************************************************************)
\* No statement of a plan is empty, and a row that is locked for the first time has at
\* least the class of the rows held and of those that come before it.
Ascends(t) ==
    \A i \in DOMAIN plan[t] :
        /\ plan[t][i] # {}
        /\ \A y \in plan[t][i] \ held[t] :
              (\A k \in 1..(i - 1) : y \notin plan[t][k]) =>
                  /\ \A row \in held[t] : row[1] <= y[1]
                  /\ \A k \in 1..i : \A x \in plan[t][k] : x[1] <= y[1]

OrderInv == \A t \in Txn : Ascends(t) \/ Upgrading(t)

\* A set of natural numbers has a least member.
LEMMA LeastMember ==
    ASSUME NEW T, T \subseteq Nat, T # {}
    PROVE  \E x \in T : \A y \in T : x <= y
<1>1. ASSUME NEW R, NEW S, IsWellFoundedOn(R, S), T \subseteq S
      PROVE  \E x \in T : \A y \in T : ~ (<<y, x>> \in R)
  BY <1>1, WFMin
<1>2. PICK x \in T : \A y \in T : ~ (<<y, x>> \in OpToRel(<, Nat))
  BY <1>1, NatLessThanWellFounded, Zenon
<1>3. ASSUME NEW y \in T PROVE ~(y < x)
  BY <1>2 DEF OpToRel
<1> QED
  BY <1>3

\* Classes and keys are numbers.
LEMMA RowNumbers == \A row \in Row : row[1] \in Nat /\ row[2] \in Nat
BY KeyAssumption DEF Row, rbac_state, UserRows, RoleRows, PolicyRows

\* The next row to lock is one of the current statement's.
LEMMA NextRowIsPlanned ==
    ASSUME LockInv, OrderInv, NEW t \in Txn, plan[t] # <<>>
    PROVE  /\ 1 \in DOMAIN plan[t] /\ plan[t][1] = Head(plan[t])
           /\ NextRow(t) \in Head(plan[t])
           /\ NextRow(t) \in Row
<1>1. plan[t] \in Seq(SUBSET Row)
  BY DEF LockInv
<1>2. 1 \in DOMAIN plan[t] /\ plan[t][1] = Head(plan[t]) /\ Head(plan[t]) \in SUBSET Row
  BY <1>1
<1>3. Head(plan[t]) # {}
  <2>1. Upgrading(t) => Head(plan[t]) = {rbac_state}
    BY DEF Upgrading
  <2> QED
    BY <1>2, <2>1 DEF OrderInv, Ascends
<1> DEFINE keys == {row[2] : row \in Head(plan[t])}
<1>4. keys \subseteq Nat /\ keys # {}
  BY <1>2, <1>3, RowNumbers
<1>5. PICK k \in keys : \A other \in keys : k <= other
  BY <1>4, LeastMember
<1>6. \E row \in Head(plan[t]) : \A other \in Head(plan[t]) : row[2] <= other[2]
  BY <1>5
<1>7. NextRow(t) \in Head(plan[t])
  BY <1>6 DEF NextRow
<1> QED
  BY <1>2, <1>7

\* Only a login that upgrades a hash acquires a row of an earlier class.
OnlyUpgradesDescend ==
    \A t \in Txn : plan[t] # <<>> /\ NextRow(t) \notin held[t] /\ ~Upgrading(t) =>
        \A row \in held[t] : row[1] <= NextRow(t)[1]

\* The invariant implies the order.
LEMMA AscendingIsCanonical == LockInv /\ OrderInv => OnlyUpgradesDescend
<1> SUFFICES ASSUME LockInv, OrderInv, NEW t \in Txn, plan[t] # <<>>,
                    NextRow(t) \notin held[t], ~Upgrading(t), NEW row \in held[t]
             PROVE  row[1] <= NextRow(t)[1]
  BY DEF OnlyUpgradesDescend
<1>1. 1 \in DOMAIN plan[t] /\ NextRow(t) \in plan[t][1] \ held[t]
  BY NextRowIsPlanned
<1> QED
  BY <1>1 DEF OrderInv, Ascends

\* A plan begun by a session that holds nothing.
LEMMA BeginOrder ==
    ASSUME LockInv, OrderInv, NEW t \in Txn, NEW statements, NEW w, Begin(t, statements, w),
           \A i \in DOMAIN statements :
              /\ statements[i] # {}
              /\ \A y \in statements[i] : (\A k \in 1..(i - 1) : y \notin statements[k]) =>
                    \A k \in 1..i : \A x \in statements[k] : x[1] <= y[1]
    PROVE  OrderInv'
<1>1. /\ held[t] = {} /\ held' = held /\ plan' = [plan EXCEPT ![t] = statements]
      /\ phase' = [phase EXCEPT ![t] = "running"]
  BY DEF Begin, LockInv
<1>2. /\ plan'[t] = statements
      /\ \A s \in Txn \ {t} : plan'[s] = plan[s] /\ phase'[s] = phase[s]
  BY <1>1 DEF LockInv
<1>3. Ascends(t)'
  BY <1>1, <1>2 DEF Ascends
<1>4. ASSUME NEW s \in Txn \ {t} PROVE Ascends(s)' \/ Upgrading(s)'
  BY <1>1, <1>2 DEF OrderInv, Ascends, Upgrading
<1> QED
  BY <1>3, <1>4 DEF OrderInv

\* A session without a plan is in order.
LEMMA EmptyPlanAscends ==
    ASSUME NEW t \in Txn, plan'[t] = <<>>
    PROVE  Ascends(t)'
BY DEF Ascends

\* Locking the next row keeps the order of those that are left.
LEMMA AcquireOrder ==
    ASSUME LockInv, OrderInv, NEW t \in Txn, Acquire(t)
    PROVE  OrderInv'
<1> DEFINE row == NextRow(t)
           p == plan[t]
<1>1. /\ p # <<>>
      /\ held'[t] = held[t] \cup {row}
      /\ plan'[t] = IF Head(p) = {row} THEN Tail(p) ELSE << Head(p) \ {row} >> \o Tail(p)
      /\ \A s \in Txn \ {t} : held'[s] = held[s] /\ plan'[s] = plan[s] /\ phase'[s] = phase[s]
  BY DEF Acquire, LockInv
<1>2. p \in Seq(SUBSET Row)
  BY DEF LockInv
<1>6. ASSUME NEW s \in Txn \ {t} PROVE Ascends(s)' \/ Upgrading(s)'
  BY <1>1, <1>6 DEF OrderInv, Ascends, Upgrading
<1>7. CASE Upgrading(t)
  <2>1. p = << {rbac_state} >> /\ Head(p) = {rbac_state} /\ Tail(p) = <<>>
    BY <1>7 DEF Upgrading
  <2>2. row = rbac_state
    BY <2>1 DEF NextRow, rbac_state
  <2>3. plan'[t] = <<>>
    BY <1>1, <2>1, <2>2
  <2> QED
    BY <1>6, <2>3, EmptyPlanAscends DEF OrderInv
<1> SUFFICES ASSUME ~Upgrading(t) PROVE OrderInv'
  BY <1>7
<1>3. row \in p[1] /\ p[1] = Head(p) /\ Ascends(t)
  BY <1>1, NextRowIsPlanned DEF OrderInv
<1> HIDE DEF row, p
<1>4. ASSUME Head(p) = {row} PROVE Ascends(t)'
  <2>1. /\ DOMAIN Tail(p) = 1..(Len(p) - 1) /\ DOMAIN p = 1..Len(p) /\ Len(p) \in Nat
        /\ \A i \in DOMAIN Tail(p) : Tail(p)[i] = p[i + 1] /\ i + 1 \in DOMAIN p
    BY <1>1, <1>2
  <2>2. ASSUME NEW i \in DOMAIN Tail(p)
        PROVE  /\ Tail(p)[i] # {}
               /\ \A y \in Tail(p)[i] \ held'[t] :
                     (\A k \in 1..(i - 1) : y \notin Tail(p)[k]) =>
                         /\ \A h \in held'[t] : h[1] <= y[1]
                         /\ \A k \in 1..i : \A x \in Tail(p)[k] : x[1] <= y[1]
    <3>1. p[i + 1] # {}
      BY <1>3, <2>1 DEF Ascends, p
    <3>2. ASSUME NEW y \in p[i + 1], y \notin held[t], y # row,
                 \A k \in 1..(i - 1) : y \notin Tail(p)[k]
          PROVE  /\ \A h \in held'[t] : h[1] <= y[1]
                 /\ \A k \in 1..i : \A x \in Tail(p)[k] : x[1] <= y[1]
      <4>1. ASSUME NEW k \in 1..i PROVE y \notin p[k]
        <5>1. CASE k = 1
          BY <1>3, <1>4, <3>2, <5>1
        <5>2. CASE k # 1
          <6>1. k - 1 \in 1..(i - 1) /\ k - 1 \in DOMAIN Tail(p) /\ (k - 1) + 1 = k
            BY <2>1, <5>2
          <6> QED
            BY <2>1, <3>2, <6>1
        <5> QED
          BY <5>1, <5>2
      <4>2. i + 1 \in DOMAIN p /\ (i + 1) - 1 = i
        BY <2>1
      <4>3. /\ \A h \in held[t] : h[1] <= y[1]
            /\ \A k \in 1..(i + 1) : \A x \in p[k] : x[1] <= y[1]
        BY <1>3, <3>2, <4>1, <4>2 DEF Ascends, p
      <4>4. row[1] <= y[1] /\ 1 \in 1..(i + 1)
        BY <1>3, <2>1, <4>3
      <4>5. \A k \in 1..i : Tail(p)[k] = p[k + 1] /\ k + 1 \in 1..(i + 1)
        BY <2>1
      <4> QED
        BY <1>1, <4>3, <4>4, <4>5
    <3> QED
      BY <1>1, <2>1, <3>1, <3>2
  <2>3. plan'[t] = Tail(p)
    BY <1>1, <1>4
  <2> QED
    BY <2>2, <2>3 DEF Ascends
<1>5. ASSUME Head(p) # {row} PROVE Ascends(t)'
  <2> DEFINE rest == << Head(p) \ {row} >> \o Tail(p)
  <2>1. /\ DOMAIN rest = DOMAIN p /\ DOMAIN p = 1..Len(p) /\ Len(p) \in Nat
        /\ \A i \in DOMAIN p : rest[i] = IF i = 1 THEN p[1] \ {row} ELSE p[i]
    <3> DEFINE first == << p[1] \ {row} >>
    <3>1. Tail(p) \in Seq(SUBSET Row) /\ Len(Tail(p)) = Len(p) - 1 /\ Len(p) \in Nat \ {0}
          /\ \A k \in 1..(Len(p) - 1) : Tail(p)[k] = p[k + 1]
      BY <1>1, <1>2
    <3>2. first \in Seq(SUBSET Row) /\ Len(first) = 1 /\ first[1] = p[1] \ {row}
      <4>1. p[1] \ {row} \in SUBSET Row
        BY <1>2, <3>1
      <4> QED
        BY <4>1
    <3>3. rest = first \o Tail(p)
      BY <1>3
    <3> HIDE DEF first, rest
    <3>4. /\ Len(rest) = Len(p) /\ DOMAIN rest = 1..Len(p)
          /\ \A i \in 1..Len(p) : rest[i] = IF i <= 1 THEN first[i] ELSE Tail(p)[i - 1]
      <4>1. /\ first \o Tail(p) \in Seq(SUBSET Row)
            /\ Len(first \o Tail(p)) = Len(first) + Len(Tail(p))
            /\ \A i \in 1..(Len(first) + Len(Tail(p))) : (first \o Tail(p))[i] =
                  IF i <= Len(first) THEN first[i] ELSE Tail(p)[i - Len(first)]
        <5>1. first \in Seq(SUBSET Row) /\ Tail(p) \in Seq(SUBSET Row)
          BY <3>1, <3>2
        <5> QED
          BY <5>1, ConcatProperties
      <4>2. Len(first) + Len(Tail(p)) = Len(p)
        BY <3>1, <3>2
      <4> QED
        BY <3>2, <3>3, <4>1, <4>2
    <3>5. DOMAIN p = 1..Len(p)
      BY <1>2
    <3>6. \A i \in 1..Len(p) : i # 1 => i - 1 \in 1..(Len(p) - 1) /\ (i - 1) + 1 = i
      BY <3>1
    <3>7. \A i \in 1..Len(p) : i # 1 => ~(i <= 1)
      BY <3>1
    <3> QED
      BY <3>1, <3>2, <3>4, <3>5, <3>6, <3>7
  <2> HIDE DEF rest
  <2>2. ASSUME NEW i \in DOMAIN p
        PROVE  /\ rest[i] # {}
               /\ \A y \in rest[i] \ held'[t] :
                     (\A k \in 1..(i - 1) : y \notin rest[k]) =>
                         /\ \A h \in held'[t] : h[1] <= y[1]
                         /\ \A k \in 1..i : \A x \in rest[k] : x[1] <= y[1]
    <3>1. rest[i] # {}
      BY <1>3, <1>5, <2>1 DEF Ascends, p
    <3>2. \A k \in 1..i : k \in DOMAIN p /\ rest[k] \subseteq p[k] /\ p[k] \subseteq rest[k] \cup {row}
      BY <2>1
    <3>3. ASSUME NEW y \in rest[i], y \notin held[t], y # row,
                 \A k \in 1..(i - 1) : y \notin rest[k]
          PROVE  /\ \A h \in held'[t] : h[1] <= y[1]
                 /\ \A k \in 1..i : \A x \in rest[k] : x[1] <= y[1]
      <4>1. y \in p[i] /\ \A k \in 1..(i - 1) : y \notin p[k]
        BY <2>1, <3>2, <3>3
      <4>2. /\ \A h \in held[t] : h[1] <= y[1]
            /\ \A k \in 1..i : \A x \in p[k] : x[1] <= y[1]
        BY <1>3, <3>3, <4>1 DEF Ascends, p
      <4>3. row[1] <= y[1]
        BY <1>3, <2>1, <4>2
      <4> QED
        BY <1>1, <3>2, <4>2, <4>3
    <3> QED
      BY <1>1, <3>1, <3>3
  <2>3. plan'[t] = rest
    BY <1>1, <1>5 DEF rest
  <2> QED
    BY <2>1, <2>2, <2>3 DEF Ascends
<1> QED
  BY <1>4, <1>5, <1>6 DEF OrderInv

\* The trigger at COMMIT asks for the guard, which a writer already holds unless it is a
\* login that upgrades a hash.
LEMMA CommitOrder ==
    ASSUME LockInv, OrderInv, NEW t \in Txn, Commit(t) \/ Rollback(t)
    PROVE  OrderInv'
<1>1. CASE Release(t)
  <2>1. /\ plan'[t] = <<>>
        /\ \A s \in Txn \ {t} : held'[s] = held[s] /\ plan'[s] = plan[s] /\ phase'[s] = phase[s]
    BY <1>1 DEF Release, LockInv
  <2>2. ASSUME NEW s \in Txn \ {t} PROVE Ascends(s)' \/ Upgrading(s)'
    BY <2>1 DEF OrderInv, Ascends, Upgrading
  <2> QED
    BY <2>1, <2>2, EmptyPlanAscends DEF OrderInv
<1>2. CASE /\ plan[t] = <<>> /\ dirty[t]
           /\ phase' = [phase EXCEPT ![t] = "committing"]
           /\ plan' = [plan EXCEPT ![t] = << {rbac_state} >>]
           /\ UNCHANGED held
  <2>1. /\ plan'[t] = << {rbac_state} >> /\ phase'[t] = "committing"
        /\ \A s \in Txn \ {t} : plan'[s] = plan[s] /\ phase'[s] = phase[s]
    BY <1>2 DEF LockInv
  <2>2. ASSUME rbac_state \in held[t] \/ held[t] = {} PROVE Ascends(t)'
    <3>1. held'[t] = held[t] /\ DOMAIN plan'[t] = 1..1 /\ plan'[t][1] = {rbac_state}
      BY <1>2, <2>1
    <3>2. \A i \in 1..1 : i = 1 /\ 1..i = 1..1
      OBVIOUS
    <3>3. CASE rbac_state \in held[t]
      BY <3>1, <3>2, <3>3 DEF Ascends
    <3>4. CASE held[t] = {}
      <4>1. rbac_state[1] <= rbac_state[1]
        BY DEF rbac_state
      <4> QED
        BY <3>1, <3>2, <3>4, <4>1 DEF Ascends
    <3> QED
      BY <2>2, <3>3, <3>4
  <2>3. ASSUME rbac_state \notin held[t], held[t] # {} PROVE Upgrading(t)'
    BY <1>2, <2>1, <2>3 DEF Upgrading
  <2>4. ASSUME NEW s \in Txn \ {t} PROVE Ascends(s)' \/ Upgrading(s)'
    <3>1. held'[s] = held[s] /\ plan'[s] = plan[s] /\ phase'[s] = phase[s]
      BY <1>2, <2>1
    <3> QED
      BY <3>1 DEF OrderInv, Ascends, Upgrading
  <2> QED
    BY <2>2, <2>3, <2>4 DEF OrderInv
<1> QED
  BY <1>1, <1>2 DEF Commit, Rollback

\* A plan whose rows are new at the places where its classes are the largest so far.
Ordered(p) ==
    \A i \in DOMAIN p :
        /\ p[i] # {}
        /\ \A y \in p[i] : (\A k \in 1..(i - 1) : y \notin p[k]) =>
              \A k \in 1..i : \A x \in p[k] : x[1] <= y[1]

OfClass(rows, c) == rows # {} /\ \A row \in rows : row[1] = c

\* The plans the services and scripts begin with.
LEMMA OrderedPlans ==
    ASSUME NEW G, OfClass(G, 10), NEW U, OfClass(U, 20), NEW R, OfClass(R, 30),
           NEW R2, OfClass(R2, 30), NEW P, OfClass(P, 40)
    PROVE  /\ Ordered(<< G, U >>)
           /\ Ordered(<< G, U, R >>)
           /\ Ordered(<< G, U, R, P >>)
           /\ Ordered(<< G, U, R, R2, P >>)
           /\ Ordered(<< G, U, G, U, R >>)
           /\ Ordered(<< U >>)
<1>1. Ordered(<< U >>)
  BY DEF Ordered, OfClass
<1>2. Ordered(<< G, U >>)
  BY DEF Ordered, OfClass
<1>3. Ordered(<< G, U, R >>)
  BY DEF Ordered, OfClass
<1>4. Ordered(<< G, U, R, P >>)
  BY DEF Ordered, OfClass
<1>5. Ordered(<< G, U, R, R2, P >>)
  BY DEF Ordered, OfClass
<1>6. Ordered(<< G, U, G, U, R >>)
  BY DEF Ordered, OfClass
<1> QED
  BY <1>1, <1>2, <1>3, <1>4, <1>5, <1>6

\* Every transaction begins with such a plan.
LEMMA StartOrder ==
    ASSUME LockInv, OrderInv, NEW t \in Txn, Start(t)
    PROVE  OrderInv'
<1>1. /\ OfClass({rbac_state}, 10)
      /\ \A us \in SUBSET User : us # {} => OfClass(UserRows(us), 20)
      /\ \A rs \in SUBSET RoleId : rs # {} =>
            OfClass(RoleRows(rs), 30) /\ OfClass(PolicyRows(rs), 40)
  <2>1. ASSUME NEW c \in {10, 20, 30, 40}, NEW keys, keys # {}
        PROVE  OfClass({<<c, k>> : k \in keys}, c)
    <3>1. PICK k \in keys : TRUE
      BY <2>1
    <3>2. <<c, k>> \in {<<c, j>> : j \in keys}
      BY <3>1
    <3>3. \A row \in {<<c, j>> : j \in keys} : row[1] = c
      OBVIOUS
    <3> QED
      BY <3>2, <3>3 DEF OfClass
  <2>2. OfClass({rbac_state}, 10)
    BY DEF OfClass, rbac_state
  <2>3. \A us \in SUBSET User : us # {} => OfClass(UserRows(us), 20)
    BY <2>1 DEF UserRows
  <2>4. \A rs \in SUBSET RoleId : rs # {} => OfClass(RoleRows(rs), 30)
    BY <2>1 DEF RoleRows
  <2>5. \A rs \in SUBSET RoleId : rs # {} => OfClass(PolicyRows(rs), 40)
    BY <2>1 DEF PolicyRows
  <2> QED
    BY <2>2, <2>3, <2>4, <2>5
<1>2. ASSUME NEW p, Ordered(p), NEW w, Begin(t, p, w) PROVE OrderInv'
  BY <1>2, BeginOrder DEF Ordered
<1>p. ASSUME NEW us \in SUBSET User, us # {}, NEW rs \in SUBSET RoleId, rs # {},
             NEW ss \in SUBSET RoleId, ss # {}
      PROVE  /\ Ordered(<< {rbac_state}, UserRows(us) >>)
             /\ Ordered(<< {rbac_state}, UserRows(us), RoleRows(rs) >>)
             /\ Ordered(<< {rbac_state}, UserRows(us), RoleRows(rs), PolicyRows(ss) >>)
             /\ Ordered(<< {rbac_state}, UserRows(us), RoleRows(rs), RoleRows(ss),
                           PolicyRows(RoleId) >>)
             /\ Ordered(<< {rbac_state}, UserRows(us), {rbac_state}, UserRows(us),
                           RoleRows(rs) >>)
             /\ Ordered(<< UserRows(us) >>)
  <2>1. RoleId \in SUBSET RoleId /\ RoleId # {}
    BY SystemRolesExist
  <2>2. /\ OfClass({rbac_state}, 10) /\ OfClass(UserRows(us), 20)
        /\ OfClass(RoleRows(rs), 30) /\ OfClass(RoleRows(ss), 30)
        /\ OfClass(PolicyRows(ss), 40) /\ OfClass(PolicyRows(RoleId), 40)
    BY <1>1, <1>p, <2>1
  <2> QED
    BY <2>2, OrderedPlans, Zenon
<1>3. ASSUME NEW a \in User, NEW target \in User, NEW rs \in NonEmptySubset(RoleId),
             lock_actor_and_target_user(t, a, target, rs) \/ create_role(t, a, rs)
      PROVE  OrderInv'
  <2>1. /\ rs \in SUBSET RoleId /\ rs # {}
        /\ {a, target} \in SUBSET User /\ {a, target} # {} /\ {a} \in SUBSET User /\ {a} # {}
    BY DEF NonEmptySubset
  <2> QED
    BY <1>2, <1>3, <1>p, <2>1 DEF lock_actor_and_target_user, create_role
<1>4. ASSUME NEW a \in User, NEW us \in SUBSET User, NEW rs \in NonEmptySubset(RoleId),
             NEW r \in RoleId, lock_shared_role_change(t, a, us, rs, r)
      PROVE  OrderInv'
  <2>1. /\ us \cup {a} \in SUBSET User /\ us \cup {a} # {}
        /\ rs \cup {r} \in SUBSET RoleId /\ rs \cup {r} # {}
        /\ {r} \in SUBSET RoleId /\ {r} # {}
    BY DEF NonEmptySubset
  <2> QED
    BY <1>2, <1>4, <1>p, <2>1 DEF lock_shared_role_change
<1>5. ASSUME NEW a \in User, NEW r \in RoleId, create_user_by_administrator(t, a, r)
      PROVE  OrderInv'
  <2>1. {a} \in SUBSET User /\ {a} # {} /\ {r} \in SUBSET RoleId /\ {r} # {}
    OBVIOUS
  <2> QED
    BY <1>2, <1>5, <1>p, <2>1 DEF create_user_by_administrator
<1>6. ASSUME NEW r \in RoleId, register(t, r) PROVE OrderInv'
  <2>1. {r} \in SUBSET RoleId /\ {r} # {}
    OBVIOUS
  <2>2. OfClass(RoleRows({r}), 30)
    BY <1>1, <2>1
  <2>3. Ordered(<< {rbac_state}, {rbac_state}, RoleRows({r}) >>)
    BY <1>1, <2>2 DEF Ordered, OfClass
  <2> QED
    BY <1>2, <1>6, <2>3 DEF register
<1>7. ASSUME NEW us \in NonEmptySubset(User), rotate_password(t, us) \/ bootstrap_super_admin(t, us)
      PROVE  OrderInv'
  <2>1. us \in SUBSET User /\ us # {} /\ RoleId \in SUBSET RoleId /\ RoleId # {}
    BY SystemRolesExist DEF NonEmptySubset
  <2> QED
    BY <1>2, <1>7, <1>p, <2>1 DEF rotate_password, bootstrap_super_admin
<1>8. ASSUME NEW u \in User, set_registration_enabled(t, u) \/ \E w : verify_login_snapshot(t, u, w)
      PROVE  OrderInv'
  <2>1. {u} \in SUBSET User /\ {u} # {} /\ RoleId \in SUBSET RoleId /\ RoleId # {}
    BY SystemRolesExist
  <2> QED
    BY <1>2, <1>8, <1>p, <2>1 DEF set_registration_enabled, verify_login_snapshot
<1>9. ASSUME NEW old \in User, NEW new \in User, NEW r1 \in RoleId, NEW r2 \in RoleId,
             handover_super_admin(t, old, new, r1, r2)
      PROVE  OrderInv'
  <2>1. /\ {old, new} \in SUBSET User /\ {old, new} # {}
        /\ {r1} \in SUBSET RoleId /\ {r1} # {} /\ {r2} \in SUBSET RoleId /\ {r2} # {}
    OBVIOUS
  <2> QED
    BY <1>2, <1>9, <1>p, <2>1 DEF handover_super_admin
<1> QED
  BY ZenonT(40), <1>3, <1>4, <1>5, <1>6, <1>7, <1>8, <1>9 DEF Start

\* What the order of the plans is kept by.
LEMMA OrderStep == LockInv /\ OrderInv /\ [Next]_vars => OrderInv'
<1> SUFFICES ASSUME LockInv, OrderInv, [Next]_vars PROVE OrderInv'
  OBVIOUS
<1>1. CASE UNCHANGED vars
  BY <1>1 DEF vars, OrderInv, Ascends, Upgrading
<1> QED
  BY <1>1, StartOrder, AcquireOrder, CommitOrder DEF Next

LEMMA InitOrder == Init => OrderInv
BY DEF Init, OrderInv, Ascends

\* Whatever hashes are stored, the one path that acquires a row of an earlier class after
\* a later one is the deferred trigger of a login that upgrades a hash.
THEOREM OnlyUpgradesBreakTheOrder == Safe => []OnlyUpgradesDescend
BY InitLockInv, InitOrder, LockStep, OrderStep, AscendingIsCanonical, PTL DEF Safe

\* While no stored hash needs an upgrade at login, no path acquires a row of an earlier
\* class of the canonical order after a later one.
THEOREM WritersKeepTheOrder == ~NeedsRehash => (Safe => []CanonicalLockOrder)
<1> SUFFICES ASSUME ~NeedsRehash PROVE Safe => []CanonicalLockOrder
  OBVIOUS
<1>1. LockInv /\ OrderInv => CanonicalLockOrder
  BY AscendingIsCanonical, NobodyUpgrades DEF OnlyUpgradesDescend, CanonicalLockOrder
<1> QED
  BY <1>1, InitLockInv, InitOrder, LockStep, OrderStep, PTL DEF Safe

\* Every variable has its type, a session without a transaction holds no row and no two
\* sessions hold the same row.
THEOREM LocksAreExclusive ==
    Safe => [](TypeOK /\ \A s, t \in Txn : s # t => held[s] \cap held[t] = {})
<1> DEFINE Held == \A t \in Txn : held[t] \in SUBSET Row
<1>1. Init => Held
  BY DEF Init
<1>2. LockInv /\ OrderInv /\ Held /\ [Next]_vars => Held'
  <2> SUFFICES ASSUME LockInv, OrderInv, Held, [Next]_vars, NEW t \in Txn
               PROVE  held'[t] \in SUBSET Row
    OBVIOUS
  <2>1. ASSUME NEW s \in Txn, Acquire(s) PROVE held'[t] \in SUBSET Row
    <3>1. NextRow(s) \in Row
      BY <2>1, NextRowIsPlanned DEF Acquire
    <3> QED
      BY <2>1, <3>1 DEF Acquire, LockInv
  <2>2. ASSUME NEW s \in Txn, Release(s) PROVE held'[t] \in SUBSET Row
    BY <2>2 DEF Release, LockInv
  <2>3. ASSUME NEW s \in Txn, Start(s) PROVE held' = held
    BY <2>3 DEF Start, Begin, lock_actor_and_target_user, create_role, lock_shared_role_change,
                register, create_user_by_administrator, set_registration_enabled,
                rotate_password, bootstrap_super_admin, handover_super_admin,
                verify_login_snapshot
  <2>4. CASE held' = held
    BY <2>4
  <2> QED
    BY <2>1, <2>2, <2>3, <2>4 DEF Next, Commit, Rollback, vars
<1>3. LockInv /\ Held => TypeOK /\ \A s, t \in Txn : s # t => held[s] \cap held[t] = {}
  BY DEF LockInv, TypeOK
<1> HIDE DEF Held
<1> QED
  BY <1>1, <1>2, <1>3, InitLockInv, InitOrder, LockStep, OrderStep, PTL DEF Safe

=============================================================================
