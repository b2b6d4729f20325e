----------------------------- MODULE Admission -----------------------------
(***************************************************************************)
(* How a request reaches password work: the routes of                      *)
(* app/api/authentication.py over IdentityAbuseFlow, AbuseDefenseService,  *)
(* the actor quota of get_authorization_context, CaptchaService and the    *)
(* Argon2 pool.                                                            *)
(*                                                                         *)
(*   public route      charge -> [captcha] -> pool                         *)
(*   protected route   inspect -> charge -> captcha -> pool                *)
(*   captcha route     (the same first stages) -> issue a challenge        *)
(*                                                                         *)
(* A request is charged to the bucket of its operation.  Any stage may     *)
(* reject it, Redis may fail at any stage, and the client may disconnect.  *)
(* Loading the caller's authority, between inspect and charge, changes     *)
(* nothing here: when it fails the request ends uncharged.                 *)
(***************************************************************************)
EXTENDS Captcha, RateLimit, PasswordPool

CONSTANTS
  Flow,         \* the operations a client may call
  Protected,    \* those behind get_authorization_context
  IssuesTo,     \* the scope of an operation that creates a challenge, or NoScope
  AnswersFor,   \* the scope of an operation that consumes one, or NoScope
  BucketOf,     \* the bucket an operation is charged to
  Operations    \* the most Argon2 operations one call of it makes

NoFlow == "none"

ASSUME AdmissionAssumption ==
  /\ Protected \subseteq Flow
  /\ NoFlow \notin Flow
  /\ IssuesTo \in [Flow -> Scope \cup {NoScope}]
  /\ AnswersFor \in [Flow -> Scope \cup {NoScope}]
  /\ BucketOf \in [Flow -> Bucket]
  /\ Operations \in [Flow -> Nat]

VARIABLES
  stage,      \* how far each request is
  flow,       \* the operation it calls
  worked      \* the Argon2 operations it has finished

admissionVars == <<stage, flow, worked>>
vars == <<captchaVars, rateVars, poolVars, admissionVars>>

Init ==
  /\ CaptchaInit /\ RateLimitInit /\ PasswordPoolInit
  /\ stage = [r \in Client |-> "idle"]
  /\ flow = [r \in Client |-> NoFlow]
  /\ worked = [r \in Client |-> 0]

Goto(r, next) == stage' = [stage EXCEPT ![r] = next] /\ UNCHANGED <<flow, worked>>

(* The response is sent: nothing of the request is left. *)
Respond(r) ==
  /\ stage' = [stage EXCEPT ![r] = "idle"]
  /\ flow' = [flow EXCEPT ![r] = NoFlow]
  /\ worked' = [worked EXCEPT ![r] = 0]

(* What follows the quotas: a challenge is issued or consumed, or the      *)
(* operation has neither and goes straight to its password work.           *)
AfterQuota(f) == IF IssuesTo[f] # NoScope THEN "issue"
                 ELSE IF AnswersFor[f] # NoScope THEN "consume" ELSE "work"

(* Bound: a call that creates a challenge begins while an identifier is    *)
(* left for it; the code never runs out of uuid4s.                         *)
ChallengesLeft(f) ==
  IssuesTo[f] = NoScope \/
  Cardinality({q \in Client : stage[q] # "idle" /\ IssuesTo[flow[q]] # NoScope
                              /\ capOp[q].challenge = NoChallenge})
    < Cardinality(Challenge \ minted)

Request(r, f) ==
  /\ stage[r] = "idle"
  /\ ChallengesLeft(f)
  /\ stage' = [stage EXCEPT ![r] = IF f \in Protected THEN "inspect" ELSE "charge"]
  /\ flow' = [flow EXCEPT ![r] = f]
  /\ UNCHANGED <<worked, captchaVars, rateVars, poolVars>>

(* precheck_principal_rate_limit: an exhausted bucket is refused before    *)
(* PostgreSQL is queried; the inspection does not charge it.               *)
Inspect(r) ==
  /\ stage[r] = "inspect"
  /\ \/ inspect_allows(BucketOf[flow[r]]) /\ Goto(r, "charge")
     \/ Respond(r)      \* exhausted, or Redis fails
  /\ UNCHANGED <<captchaVars, rateVars, poolVars>>

(* enforce_principal_rate_limit after load_authority_snapshot, or _check   *)
(* for a public route and for the scenes of a captcha route.               *)
Charge(r) ==
  LET b == BucketOf[flow[r]] IN
  /\ stage[r] = "charge"
  /\ \/ ChargeGranted(b) /\ Goto(r, AfterQuota(flow[r]))
     \/ (ChargeDenied(b) \/ ChargeFails(b)) /\ Respond(r)
  /\ UNCHANGED <<captchaVars, poolVars>>

IssueCaptcha(r) ==
  /\ stage[r] = "issue"
  /\ \E c \in Challenge, previous \in minted \cup {NoChallenge} :
       IssueBegin(r, IssuesTo[flow[r]], c, previous)
  /\ UNCHANGED <<rateVars, poolVars, admissionVars>>

ConsumeCaptcha(r) ==
  /\ stage[r] = "consume"
  /\ \E c \in Challenge, right \in BOOLEAN : ConsumeBegin(r, AnswersFor[flow[r]], c, right)
  /\ UNCHANGED <<rateVars, poolVars, admissionVars>>

CaptchaProgress(r) ==
  /\ CaptchaAdvance(r) \/ RedisFails(r)
  /\ UNCHANGED <<rateVars, poolVars, admissionVars>>

CaptchaResponds(r) ==
  /\ capOp[r].step \in {"issued", "invalid", "unavailable"}
  /\ CaptchaForget(r)
  /\ Respond(r)
  /\ UNCHANGED <<rateVars, poolVars>>

(* The answer was accepted, if one was asked for, so the callback runs.    *)
(* Its verify_or_dummy, hash_verified_password and hash_new_password all   *)
(* go through _run_bounded, one after the other.                           *)
StartWork(r) ==
  /\ stage[r] = "work" \/ (stage[r] = "consume" /\ capOp[r].step = "accepted")
  /\ worked[r] < Operations[flow[r]]
  /\ PoolEnter(r)
  /\ Goto(r, "pool")
  /\ UNCHANGED <<captchaVars, rateVars>>

(* The callback ends; it may need fewer operations than Operations allows. *)
WorkResponds(r) ==
  /\ stage[r] = "work"
  /\ worked[r] > 0
  /\ capOp' = [capOp EXCEPT ![r] = CaptchaIdle]
  /\ Respond(r)
  /\ UNCHANGED <<captchaStore, rateVars, poolVars>>

PoolProgress(r) ==
  /\ \/ PoolAdvance(r) /\ poolStep'[r] # "out" /\ UNCHANGED <<admissionVars, capOp>>
     \/ /\ PoolLeave(r) /\ r \notin cancelled
        /\ stage' = [stage EXCEPT ![r] = "work"]
        /\ worked' = [worked EXCEPT ![r] = @ + 1]
        /\ UNCHANGED <<flow, capOp>>
     \/ /\ PoolAdvance(r) /\ r \in cancelled /\ poolStep'[r] = "out"
        /\ capOp' = [capOp EXCEPT ![r] = CaptchaIdle]
        /\ Respond(r)
  /\ UNCHANGED <<captchaStore, rateVars>>

(* The request's task is cancelled while it is in the pool, which may      *)
(* happen again and again: the deadline, then a shutdown.                  *)
Cancel(r) ==
  /\ stage[r] = "pool"
  /\ PoolCancel(r)
  /\ IF poolStep[r] = "waiting"
     THEN Respond(r) /\ capOp' = [capOp EXCEPT ![r] = CaptchaIdle]
     ELSE UNCHANGED <<admissionVars, capOp>>
  /\ UNCHANGED <<captchaStore, rateVars>>

Expire ==
  \/ \E c \in Challenge : CaptchaExpire(c) /\ UNCHANGED <<rateVars, poolVars, admissionVars>>
  \/ \E b \in Bucket : WindowExpires(b) /\ UNCHANGED <<captchaVars, poolVars, admissionVars>>

(* What the service does for a request without the client's help. *)
Handle(r) ==
  \/ Inspect(r) \/ Charge(r)
  \/ IssueCaptcha(r) \/ ConsumeCaptcha(r) \/ CaptchaProgress(r)
  \/ CaptchaResponds(r)
  \/ StartWork(r) \/ WorkResponds(r) \/ PoolProgress(r)

Next == \/ \E r \in Client, f \in Flow : Request(r, f)
        \/ \E r \in Client : Handle(r) \/ Cancel(r)
        \/ Expire

Spec == Init /\ [][Next]_vars

(* The event loop runs every ready task, Redis and PostgreSQL answer or    *)
(* fail within their client timeouts, and a native thread finishes.        *)
LiveSpec == Spec /\ \A r \in Client : WF_vars(Handle(r))

-----------------------------------------------------------------------------
(* Password work is paid for: while a request's native Argon2 thread runs, *)
(* a route that asks for a CAPTCHA has had one accepted in its own scope,  *)
(* and nobody else was admitted with the same challenge.                   *)
WorkPaidByCaptcha ==
  \A r \in Client :
    thread[r] = "busy" /\ AnswersFor[flow[r]] # NoScope =>
      /\ capOp[r].step = "accepted"
      /\ capOp[r].scope = AnswersFor[flow[r]]
      /\ accepted[capOp[r].challenge] = 1
      /\ \A q \in Client \ {r} :
           capOp[q].step = "accepted" => capOp[q].challenge # capOp[r].challenge

(* Every request ends, whatever fails, races or is cancelled: no retry     *)
(* loop, queue or shield keeps it for ever.                                *)
EveryRequestEnds == \A r \in Client : stage[r] # "idle" ~> stage[r] = "idle"
=============================================================================
