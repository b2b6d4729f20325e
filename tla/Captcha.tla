------------------------------ MODULE Captcha ------------------------------
(***************************************************************************)
(* The CAPTCHA store: app/core/security/captcha.py over Redis.             *)
(*                                                                         *)
(* Redis holds one record per challenge, with the scope it was issued for, *)
(* and one pointer per private scope.  Every record and the pointer set    *)
(* with it carry one expiry, so they disappear together.  A Lua script is  *)
(* one atomic step; what a caller does between two Redis calls is not, so  *)
(* every caller keeps what it has read in capOp.                           *)
(*                                                                         *)
(* An answer is abstracted to whether it is the right one, a record to the *)
(* scope it is bound to (its digest belongs to its challenge), malformed   *)
(* records and images are left out.                                        *)
(***************************************************************************)
EXTENDS Requests, Naturals, FiniteSets

CONSTANTS
  Challenge,       \* the uuid4 identifiers drawn for challenges
  PrivateScope,    \* a scene of _PRIVATE_SCENES with its owner
  PublicScope,     \* "login" and "register", which have no owner
  NoScope, NoChallenge

ASSUME CaptchaAssumption ==
  /\ PrivateScope \cap PublicScope = {}
  /\ NoScope \notin PrivateScope \cup PublicScope
  /\ NoChallenge \notin Challenge

Scope == PrivateScope \cup PublicScope

(* _POINTER_ATTEMPTS *)
PointerAttempts == 3

CaptchaStep == {"idle", "pointer", "issue", "look", "consume",
                "issued", "accepted", "invalid", "unavailable"}

CaptchaOp == [step: CaptchaStep, scope: Scope \cup {NoScope},
              challenge: Challenge \cup {NoChallenge},
              previous: Challenge \cup {NoChallenge},
              seen: Challenge \cup {NoChallenge},
              attempt: 0..PointerAttempts, right: BOOLEAN]

CaptchaIdle == [step |-> "idle", scope |-> NoScope, challenge |-> NoChallenge,
                previous |-> NoChallenge, seen |-> NoChallenge,
                attempt |-> 0, right |-> FALSE]

VARIABLES
  record,      \* the live records: the scope each challenge is bound to
  pointer,     \* the challenge each private scope points to
  minted,      \* the identifiers drawn so far
  accepted,    \* how many callers each challenge has admitted (history)
  capOp        \* each caller's progress in issue() or consume()

captchaStore == <<record, pointer, minted, accepted>>
captchaVars == <<record, pointer, minted, accepted, capOp>>

CaptchaTypeOK ==
  /\ record \in [Challenge -> Scope \cup {NoScope}]
  /\ pointer \in [PrivateScope -> Challenge \cup {NoChallenge}]
  /\ minted \subseteq Challenge
  /\ accepted \in [Challenge -> Nat]
  /\ capOp \in [Client -> CaptchaOp]

CaptchaInit ==
  /\ record = [c \in Challenge |-> NoScope]
  /\ pointer = [s \in PrivateScope |-> NoChallenge]
  /\ minted = {}
  /\ accepted = [c \in Challenge |-> 0]
  /\ capOp = [r \in Client |-> CaptchaIdle]

-----------------------------------------------------------------------------
(* issue() *)

CaptchaEnd(r, outcome) == capOp' = [capOp EXCEPT ![r] = [CaptchaIdle EXCEPT !.step = outcome]]

(* A fresh uuid4.  With the identifier of an earlier challenge the pointer *)
(* need not be read.                                                       *)
IssueBegin(r, s, c, previous) ==
  /\ capOp[r].step = "idle"
  /\ c \notin minted
  /\ minted' = minted \cup {c}
  /\ capOp' = [capOp EXCEPT ![r] =
       [CaptchaIdle EXCEPT !.step = IF s \in PrivateScope /\ previous = NoChallenge
                                    THEN "pointer" ELSE "issue",
                           !.scope = s, !.challenge = c, !.previous = previous,
                           !.attempt = 1]]
  /\ UNCHANGED <<record, pointer, accepted>>

IssueReadPointer(r) ==
  /\ capOp[r].step = "pointer"
  /\ capOp' = [capOp EXCEPT ![r].step = "issue", ![r].seen = pointer[capOp[r].scope]]
  /\ UNCHANGED captchaStore

(* A bug: _ISSUE does not compare the pointer with what its caller read. *)
PointerMoved_Unchecked(op) == FALSE

(* The result 2 of _ISSUE: the pointer is no longer the one that was read. *)
PointerMoved(op) ==
  /\ op.scope \in PrivateScope
  /\ op.previous = NoChallenge
  /\ pointer[op.scope] # op.seen

(* The result 0 of _ISSUE: the challenge to replace is not this caller's   *)
(* current one.                                                            *)
PreviousRefused(op) ==
  /\ op.previous # NoChallenge
  /\ \/ record[op.previous] # op.scope
     \/ op.scope \in PrivateScope /\ pointer[op.scope] # op.previous

(* The challenge _ISSUE deletes before it stores the new one. *)
Replaced(op) == IF op.previous # NoChallenge THEN {op.previous}
                ELSE IF op.scope \in PrivateScope THEN {op.seen} ELSE {}

(* The mutation part of _ISSUE. *)
IssueStore(op) ==
  /\ ~PointerMoved(op) /\ ~PreviousRefused(op)
  /\ record' = [c \in Challenge |-> CASE c = op.challenge -> op.scope
                                      [] c # op.challenge /\ c \in Replaced(op) -> NoScope
                                      [] OTHER -> record[c]]
  /\ pointer' = [s \in PrivateScope |-> IF s = op.scope THEN op.challenge ELSE pointer[s]]
  /\ UNCHANGED <<minted, accepted>>

IssueScript(r) ==
  LET op == capOp[r] IN
  /\ op.step = "issue"
  /\ \/ /\ PointerMoved(op)
        /\ IF op.attempt < PointerAttempts
           THEN capOp' = [capOp EXCEPT ![r].step = "pointer", ![r].seen = NoChallenge,
                                       ![r].attempt = @ + 1]
           ELSE CaptchaEnd(r, "unavailable")
        /\ UNCHANGED captchaStore
     \/ /\ PreviousRefused(op)
        /\ CaptchaEnd(r, "invalid")
        /\ UNCHANGED captchaStore
     \/ IssueStore(op) /\ CaptchaEnd(r, "issued")

-----------------------------------------------------------------------------
(* consume() *)

(* The client names any challenge, with the scene of the route and the     *)
(* caller's own identity.                                                  *)
ConsumeBegin(r, s, c, right) ==
  /\ capOp[r].step = "idle"
  /\ capOp' = [capOp EXCEPT ![r] =
       [CaptchaIdle EXCEPT !.step = "look", !.scope = s, !.challenge = c, !.right = right]]
  /\ UNCHANGED captchaStore

(* GET: the record is parsed outside Redis to find its pointer's key. *)
ConsumeLook(r) ==
  /\ capOp[r].step = "look"
  /\ IF record[capOp[r].challenge] = NoScope
     THEN CaptchaEnd(r, "invalid")
     ELSE capOp' = [capOp EXCEPT ![r].step = "consume"]
  /\ UNCHANGED captchaStore

(* A bug: the script leaves the record to its TTL. *)
Withdraw_LeftToExpire(c) == UNCHANGED <<record, pointer, minted>>

(* A present record is deleted whatever the answer, and its pointer with it. *)
Withdraw(c) ==
  /\ record' = [record EXCEPT ![c] = NoScope]
  /\ pointer' = [s \in PrivateScope |->
                   IF s = record[c] /\ pointer[s] = c THEN NoChallenge ELSE pointer[s]]
  /\ UNCHANGED minted

Answers(op) == record[op.challenge] = op.scope /\ op.right

ConsumeScript(r) ==
  LET op == capOp[r] IN
  /\ op.step = "consume"
  /\ \/ /\ record[op.challenge] = NoScope
        /\ CaptchaEnd(r, "invalid")
        /\ UNCHANGED captchaStore
     \/ /\ record[op.challenge] # NoScope
        /\ ~Answers(op)
        /\ Withdraw(op.challenge)
        /\ CaptchaEnd(r, "invalid")
        /\ UNCHANGED accepted
     \/ /\ Answers(op)
        /\ Withdraw(op.challenge)
        /\ capOp' = [capOp EXCEPT ![r].step = "accepted"]
        /\ accepted' = [accepted EXCEPT ![op.challenge] = @ + 1]

-----------------------------------------------------------------------------
(* Redis fails the call, or runs it and its reply is lost: the caller gets *)
(* captcha_store_unavailable.                                              *)
RedisFails(r) ==
  LET op == capOp[r] IN
  /\ op.step \in {"pointer", "issue", "look", "consume"}
  /\ CaptchaEnd(r, "unavailable")
  /\ \/ UNCHANGED captchaStore
     \/ op.step = "issue" /\ IssueStore(op)
     \/ /\ op.step = "consume"
        /\ record[op.challenge] # NoScope
        /\ Withdraw(op.challenge)
        /\ UNCHANGED accepted

(* The TTL of a record and of the pointer set with it. *)
CaptchaExpire(c) ==
  /\ record[c] # NoScope
  /\ Withdraw(c)
  /\ UNCHANGED <<accepted, capOp>>

CaptchaForget(r) ==
  /\ capOp[r].step \in {"issued", "accepted", "invalid", "unavailable"}
  /\ capOp' = [capOp EXCEPT ![r] = CaptchaIdle]
  /\ UNCHANGED captchaStore

CaptchaAdvance(r) == IssueReadPointer(r) \/ IssueScript(r) \/ ConsumeLook(r) \/ ConsumeScript(r)

CaptchaNext ==
  \/ \E r \in Client, s \in Scope, c \in Challenge :
       \/ \E previous \in minted \cup {NoChallenge} : IssueBegin(r, s, c, previous)
       \/ \E right \in BOOLEAN : ConsumeBegin(r, s, c, right)
  \/ \E r \in Client : CaptchaAdvance(r) \/ RedisFails(r) \/ CaptchaForget(r)
  \/ \E c \in Challenge : CaptchaExpire(c)

-----------------------------------------------------------------------------
(* What a right answer can be accepted for, read off the records alone. *)
Usable == [s \in Scope |-> {c \in Challenge : record[c] = s}]

(* Drawn, not usable, and no caller is still about to store it. *)
Spent == {c \in minted : record[c] = NoScope
            /\ \A r \in Client : ~(capOp[r].step \in {"pointer", "issue"}
                                   /\ capOp[r].challenge = c)}

Promise == INSTANCE CaptchaPromise WITH usable <- Usable, spent <- Spent, accepted <- accepted

(* The scripts and pointers keep the promise: at most one usable challenge *)
(* per private scope whatever races, a challenge admits a caller only while *)
(* it is usable, and never becomes usable again.                           *)
CaptchaPromiseKept == Promise!Spec
=============================================================================
