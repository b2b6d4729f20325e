--------------------------- MODULE AuditedRequest ---------------------------
(***************************************************************************)
(* A protected POST from its arrival to the last line the service logs of  *)
(* it: the authorization dependency (app/dependencies/authentication.py),  *)
(* the audited mutation (RbacService._run_audited), the exception handlers *)
(* and RequestObservabilityMiddleware (app/main.py), over the connection   *)
(* pool of DatabaseClient.                                                 *)
(*                                                                         *)
(* Every wait of a request is a step of its own, so that other requests,   *)
(* broken connections, lost acknowledgements and cancellation come in      *)
(* between.  What the mutation changes is one row, "change"; "allowed" and *)
(* "denied" are the rbac_audit_events rows.                                *)
(***************************************************************************)
EXTENDS DatabaseClient

VARIABLES
  at,           \* where each request is
  rows,         \* what its transactions have committed
  refusal,      \* whether a refusal was raised for it, and caught by its handler
  answer,       \* the response chosen for it
  sent,         \* how much of the response the server has accepted
  recorded,     \* request.state.request_completion_recorded
  completions,  \* the http.request.completed records of each request
  outcome       \* the outcome field of the last of them

requestVars == <<at, rows, refusal, answer, sent, recorded, completions, outcome>>
vars == <<dbVars, requestVars>>

logVars == <<recorded, completions, outcome>>
responseVars == <<sent, logVars>>

Place == {"idle", "authorize", "close", "mutate", "rollback", "commit", "deny",
          "respond", "body", "after", "raised", "outer", "ended"}

RequestTypeOK ==
  /\ at \in [Client -> Place]
  /\ rows \in [Client -> SUBSET {"change", "allowed", "denied"}]
  /\ refusal \in [Client -> {"none", "raised", "caught"}]
  /\ answer \in [Client -> {"none", "ok", "refused", "unavailable", "error"}]
  /\ sent \in [Client -> {"nothing", "start", "all"}]
  /\ recorded \in [Client -> BOOLEAN]
  /\ completions \in [Client -> Nat]
  /\ outcome \in [Client -> {"none", "success", "failure", "error"}]

Init ==
  /\ DatabaseInit
  /\ at = [r \in Client |-> "idle"]
  /\ rows = [r \in Client |-> {}]
  /\ refusal = [r \in Client |-> "none"]
  /\ answer = [r \in Client |-> "none"]
  /\ sent = [r \in Client |-> "nothing"]
  /\ recorded = [r \in Client |-> FALSE]
  /\ completions = [r \in Client |-> 0]
  /\ outcome = [r \in Client |-> "none"]

Goto(r, place) == at' = [at EXCEPT ![r] = place]

(* A handler has a response; only an error nobody handles leaves the       *)
(* routed application as an exception.                                     *)
Respond(r, a) ==
  /\ answer' = [answer EXCEPT ![r] = a]
  /\ Goto(r, IF a = "error" THEN "raised" ELSE "respond")

(* database_error_category: recognized failures are answered 503. *)
ForFailure(c) == IF c = "unclassified" THEN "error" ELSE "unavailable"

begin_request(r) ==
  /\ at[r] = "idle"
  /\ Goto(r, "authorize")
  /\ session' = [session EXCEPT ![r] = Opening]
  /\ UNCHANGED <<conn, outdated, marked, owner, rows, refusal, answer, responseVars>>

(* The failure to write a denial answered instead of the denial. *)
checkout_failed_DenialReplaced(r) ==
  /\ session[r].stage = "failed"
  /\ session' = [session EXCEPT ![r] = NoSession]
  /\ Respond(r, ForFailure(session[r].failure))
  /\ UNCHANGED <<conn, outdated, marked, owner, rows, refusal, responseVars>>

(* No connection for the session.  The denial stands without its row. *)
checkout_failed(r) ==
  /\ session[r].stage = "failed"
  /\ session' = [session EXCEPT ![r] = NoSession]
  /\ Respond(r, IF at[r] = "deny" THEN "refused" ELSE ForFailure(session[r].failure))
  /\ UNCHANGED <<conn, outdated, marked, owner, rows, refusal, responseVars>>

(* An RbacError raised inside a session leaves it through an await, the    *)
(* close or the ROLLBACK; one raised outside is caught at once.            *)
raise_inside(r, exit) ==
  /\ refusal' = [refusal EXCEPT ![r] = "raised"]
  /\ Goto(r, exit)
  /\ UNCHANGED <<dbVars, answer>>

Caught(r) == refusal' = [refusal EXCEPT ![r] = "caught"]

(* A statement, ROLLBACK or close fails: its error is what the handlers    *)
(* see, also in the place of an RbacError on its way out of the session.   *)
session_fails(r) ==
  \E c \in Category :
    /\ handle_database_error(r, c, NoSession)
    /\ Respond(r, ForFailure(c))
    /\ UNCHANGED refusal

(* The permission that the route requires: the request goes on to its      *)
(* mutation, or its denial is written first.                               *)
require_permissions(r) ==
  /\ reopen_session(r)
  /\ \/ Goto(r, "mutate") /\ UNCHANGED refusal
     \/ Goto(r, "deny") /\ Caught(r)
  /\ UNCHANGED answer

(* The authority snapshot, its session closed before anything else opens   *)
(* one.  A principal that is no longer valid is refused inside of it; a    *)
(* full quota or a malformed body later, without a row; a missing          *)
(* rbac_state row is an outage.                                            *)
get_authorization_context(r) ==
  /\ at[r] = "authorize"
  /\ \/ /\ Answers(r)
        /\ \/ raise_inside(r, "close")
           \/ require_permissions(r)
           \/ /\ Caught(r)
              /\ close_session(r, NoSession)
              /\ Respond(r, "refused")
           \/ /\ close_session(r, NoSession)
              /\ Respond(r, "unavailable")
              /\ UNCHANGED refusal
     \/ session_fails(r)
  /\ UNCHANGED <<rows, responseVars>>

close_refused(r) ==
  /\ at[r] = "close"
  /\ \/ /\ Answers(r)
        /\ close_session(r, NoSession)
        /\ Caught(r)
        /\ Respond(r, "refused")
     \/ session_fails(r)
  /\ UNCHANGED <<rows, responseVars>>

(* operation(session) inside session.begin(): it succeeds, or raises an    *)
(* RbacError, or the database fails it.                                    *)
run_operation(r) ==
  /\ at[r] = "mutate"
  /\ \/ /\ Answers(r)
        /\ \/ /\ Goto(r, "commit")
              /\ UNCHANGED <<dbVars, refusal, answer>>
           \/ raise_inside(r, "rollback")
           \/ /\ close_session(r, NoSession)
              /\ Respond(r, "unavailable")
              /\ UNCHANGED refusal
     \/ session_fails(r)
  /\ UNCHANGED <<rows, responseVars>>

(* The RbacError leaves session.begin().  Only when ROLLBACK succeeds does *)
(* `except RbacError' see it and open the session of the denial row.       *)
roll_back_refused(r) ==
  /\ at[r] = "rollback"
  /\ \/ /\ Answers(r)
        /\ reopen_session(r)
        /\ Caught(r)
        /\ Goto(r, "deny")
        /\ UNCHANGED answer
     \/ session_fails(r)
  /\ UNCHANGED <<rows, responseVars>>

(* COMMIT writes all of the transaction or nothing.  It is acknowledged,   *)
(* or fails; when its answer is lost it may have been applied all the same.*)
commits(r, written) == rows' = [rows EXCEPT ![r] = @ \cup written]

commit_fails(r, written) ==
  \E c \in Category :
    /\ handle_database_error(r, c, NoSession)
    /\ \/ UNCHANGED rows
       \/ c \in {"connection", "timeout"} /\ commits(r, written)
    /\ Respond(r, ForFailure(c))

commit(r) ==
  /\ at[r] = "commit"
  /\ \/ /\ Answers(r)
        /\ commits(r, {"change", "allowed"})
        /\ close_session(r, NoSession)
        /\ Respond(r, "ok")
     \/ commit_fails(r, {"change", "allowed"})
  /\ UNCHANGED <<refusal, responseVars>>

(* The denial row, in a session of its own: whatever becomes of it, the    *)
(* refusal is the answer.                                                  *)
write_denied_audit(r) ==
  /\ at[r] = "deny"
  /\ \/ /\ Answers(r)
        /\ commits(r, {"denied"})
        /\ close_session(r, NoSession)
     \/ \E c \in Category :
          /\ handle_database_error(r, c, NoSession)
          /\ \/ UNCHANGED rows
             \/ c \in {"connection", "timeout"} /\ commits(r, {"denied"})
  /\ Respond(r, "refused")
  /\ UNCHANGED <<refusal, responseVars>>

-----------------------------------------------------------------------------
(* RequestObservabilityMiddleware. *)

(* The flag checked and never set. *)
log_request_completion_FlagForgotten(r, o) ==
  /\ ~recorded[r]
  /\ completions' = [completions EXCEPT ![r] = @ + 1]
  /\ outcome' = [outcome EXCEPT ![r] = o]
  /\ UNCHANGED recorded

(* The first completion of a request is the only one. *)
log_request_completion(r, o) ==
  IF recorded[r]
  THEN UNCHANGED logVars
  ELSE /\ recorded' = [recorded EXCEPT ![r] = TRUE]
       /\ completions' = [completions EXCEPT ![r] = @ + 1]
       /\ outcome' = [outcome EXCEPT ![r] = o]

(* An exception or a cancellation reaches the middleware: before the       *)
(* response was complete it is the completion, later a record of its own.  *)
observe_exception(r) == log_request_completion(r, "error")

send_start(r) ==
  /\ at[r] = "respond"
  /\ \/ /\ sent' = [sent EXCEPT ![r] = "start"]
        /\ Goto(r, "body")
        /\ UNCHANGED logVars
     \/ /\ observe_exception(r)
        /\ Goto(r, "ended")
        /\ UNCHANGED sent
  /\ UNCHANGED <<dbVars, rows, refusal, answer>>

send_body(r) ==
  /\ at[r] = "body"
  /\ \/ /\ sent' = [sent EXCEPT ![r] = "all"]
        /\ log_request_completion(r, IF answer[r] = "ok" THEN "success" ELSE "failure")
        /\ Goto(r, "after")
     \/ /\ observe_exception(r)
        /\ Goto(r, "ended")
        /\ UNCHANGED sent
  /\ UNCHANGED <<dbVars, rows, refusal, answer>>

(* The application returns after the response, or still raises: neither is *)
(* a completion any more.                                                  *)
application_returns(r) ==
  /\ at[r] = "after"
  /\ observe_exception(r)
  /\ Goto(r, "ended")
  /\ UNCHANGED <<dbVars, rows, refusal, answer, sent>>

(* An error nobody handles is logged with its status 500 on its way out;   *)
(* the server's outermost layer then sends handle_unexpected_error's body. *)
application_raises(r) ==
  /\ at[r] = "raised"
  /\ observe_exception(r)
  /\ Goto(r, "outer")
  /\ UNCHANGED <<dbVars, rows, refusal, answer, sent>>

handle_unexpected_error(r) ==
  /\ at[r] = "outer"
  /\ \E part \in {"nothing", "start", "all"} : sent' = [sent EXCEPT ![r] = part]
  /\ Goto(r, "ended")
  /\ UNCHANGED <<dbVars, rows, refusal, answer, logVars>>

(* The task is cancelled at any await, also while COMMIT is under way. *)
Cancel(r) ==
  /\ at[r] \notin {"idle", "raised", "ended"}
  /\ abandon(r)
  /\ \/ UNCHANGED rows
     \/ at[r] = "commit" /\ commits(r, {"change", "allowed"})
     \/ at[r] = "deny" /\ Answers(r) /\ commits(r, {"denied"})
  /\ observe_exception(r)
  /\ Goto(r, "ended")
  /\ UNCHANGED <<refusal, answer, sent>>

-----------------------------------------------------------------------------
Serve(r) ==
  \/ checkout_failed(r)
  \/ get_authorization_context(r) \/ close_refused(r)
  \/ run_operation(r) \/ roll_back_refused(r) \/ commit(r) \/ write_denied_audit(r)
  \/ send_start(r) \/ send_body(r) \/ application_returns(r)
  \/ application_raises(r) \/ handle_unexpected_error(r)

Pool(r) == Checkout(r) /\ UNCHANGED requestVars

Next ==
  \/ \E r \in Client :
       \/ begin_request(r) \/ Serve(r) \/ Pool(r) \/ Cancel(r)
       \/ PoolTimeout(r) /\ UNCHANGED requestVars
  \/ \E s \in Slot : Break(s) /\ UNCHANGED requestVars

Spec == Init /\ [][Next]_vars

(* Tasks run, PostgreSQL answers or the connection fails within its        *)
(* deadline.  Nothing is asked of pool_timeout, of cancellation or of      *)
(* broken connections.                                                     *)
LiveSpec == Spec /\ \A r \in Client : WF_vars(Serve(r) \/ Pool(r))

-----------------------------------------------------------------------------
(* What the client is told is what the database holds: 200 means that the  *)
(* change and its audit row are committed, a refusal that nothing changed, *)
(* and whatever happens, a lost COMMIT included, there is no change        *)
(* without its audit row.  A refusal that has left its session is the      *)
(* answer, also when its denial row cannot be written; one whose ROLLBACK  *)
(* or close failed is answered as that failure, with no row of either kind.*)
AnswersAreTrue ==
  \A r \in Client :
    /\ "change" \in rows[r] <=> "allowed" \in rows[r]
    /\ refusal[r] = "raised" => rows[r] = {}
    /\ refusal[r] = "caught" => rows[r] \subseteq {"denied"}
    /\ "denied" \in rows[r] => refusal[r] = "caught"
    /\ answer[r] = "ok" => "change" \in rows[r]
    /\ answer[r] # "none" => (answer[r] = "refused" <=> refusal[r] = "caught")

(* A request that has ended left exactly one completion record, and one    *)
(* that says "success" means a committed change whose response the server  *)
(* took whole: cancellation, a failed send, an error after the response or *)
(* an error nobody handles add no second record and claim no success.      *)
OneTrueCompletion ==
  \A r \in Client :
    /\ completions[r] <= 1
    /\ at[r] = "ended" => completions[r] = 1
    /\ outcome[r] = "success" <=>
         completions[r] = 1 /\ sent[r] = "all" /\ {"change", "allowed"} \subseteq rows[r]
           /\ answer[r] = "ok"

(* With any number of slots every request ends although nobody waits for   *)
(* pool_timeout: a request never holds one connection while it waits for   *)
(* another.                                                                *)
EveryRequestAnswered ==
  \A r \in Client : at[r] = "authorize" ~> at[r] = "ended"
=============================================================================
