----------------------- MODULE AuditedRequest_proofs ------------------------
(* The answers and the completion records of any number of requests over  *)
(* a pool of any size.                                                    *)
EXTENDS AuditedRequest, TLAPS

(* A request that may still be waiting for a connection. *)
Working == {"authorize", "close", "mutate", "rollback", "commit", "deny"}

(* The sessions belong to requests that are at work. *)
SessionsInUse ==
  /\ DOMAIN session = Client
  /\ \A r \in Client : session[r].stage # "none" => at[r] \in Working

(* Where a request is determines what is decided, answered and sent. *)
Decided ==
  \A r \in Client :
    /\ at[r] \in {"idle", "authorize", "mutate", "commit"} =>
         rows[r] = {} /\ refusal[r] = "none" /\ answer[r] = "none"
    /\ at[r] \in {"close", "rollback"} =>
         rows[r] = {} /\ refusal[r] = "raised" /\ answer[r] = "none"
    /\ at[r] = "deny" => rows[r] = {} /\ refusal[r] = "caught" /\ answer[r] = "none"
    /\ at[r] \in {"respond", "body", "after"} => answer[r] \in {"ok", "refused", "unavailable"}
    /\ at[r] \in {"raised", "outer"} => answer[r] = "error"

SentInOrder ==
  \A r \in Client :
    /\ at[r] \notin {"body", "after", "ended"} => sent[r] = "nothing"
    /\ at[r] = "body" => sent[r] = "start"
    /\ at[r] = "after" => sent[r] = "all"

Observed == {"after", "outer", "ended"}

Logged ==
  \A r \in Client :
    /\ recorded[r] <=> at[r] \in Observed
    /\ at[r] \in Observed => completions[r] = 1
    /\ at[r] \notin Observed => completions[r] = 0
    /\ outcome[r] = "success" <=> at[r] \in Observed /\ sent[r] = "all" /\ answer[r] = "ok"

(* The inductive invariant. *)
Inv == RequestTypeOK /\ SessionsInUse /\ Decided /\ SentInOrder /\ Logged /\ AnswersAreTrue

(* The initial states satisfy the invariant. *)
LEMMA InitInv == Init => Inv
  BY DEF Init, DatabaseInit, NoSession, Inv, RequestTypeOK, SessionsInUse, Working, Decided,
         SentInOrder, Logged, Observed, AnswersAreTrue, Place

(* The invariant shows both properties. *)
LEMMA InvTrueCompletion == Inv => OneTrueCompletion
  <1> SUFFICES ASSUME Inv, NEW r \in Client
               PROVE  /\ completions[r] <= 1
                      /\ at[r] = "ended" => completions[r] = 1
                      /\ outcome[r] = "success" <=>
                           completions[r] = 1 /\ sent[r] = "all"
                             /\ {"change", "allowed"} \subseteq rows[r] /\ answer[r] = "ok"
    BY DEF OneTrueCompletion
  <1>1. completions[r] = IF at[r] \in Observed THEN 1 ELSE 0
    BY DEF Inv, Logged
  <1>2. answer[r] = "ok" => {"change", "allowed"} \subseteq rows[r]
    BY DEF Inv, AnswersAreTrue
  <1>3. outcome[r] = "success" <=> at[r] \in Observed /\ sent[r] = "all" /\ answer[r] = "ok"
    BY DEF Inv, Logged
  <1>4. at[r] = "ended" => at[r] \in Observed
    BY DEF Observed
  <1> QED BY <1>1, <1>2, <1>3, <1>4

(* A step of the pool leaves the requests alone, and a session in use. *)
LEMMA PoolKeeps ==
  ASSUME NEW r \in Client, Inv, Checkout(r) \/ PoolTimeout(r), UNCHANGED requestVars
  PROVE  Inv'
  <1>1. DOMAIN session' = Client /\ session[r].stage # "none"
        /\ \A q \in Client \ {r} : session'[q] = session[q]
    BY DEF Inv, SessionsInUse, Checkout, Acquire, connect_database, probe, checkout_disconnected,
           checkout_fails, PoolTimeout
  <1>2. SessionsInUse'
    BY <1>1 DEF Inv, SessionsInUse, requestVars
  <1> QED BY <1>2 DEF Inv, RequestTypeOK, Decided, SentInOrder, Logged, AnswersAreTrue, requestVars

LogTypes ==
  /\ recorded \in [Client -> BOOLEAN]
  /\ completions \in [Client -> Nat]
  /\ outcome \in [Client -> {"none", "success", "failure", "error"}]

(* A completion record keeps the types. *)
LEMMA CompletionTypes ==
  ASSUME NEW r \in Client, NEW o \in {"success", "failure", "error"},
         LogTypes, log_request_completion(r, o)
  PROVE  LogTypes'
  <1> USE DEF LogTypes, log_request_completion, logVars
  <1>1. recorded' \in [Client -> BOOLEAN]
    <2>1. CASE UNCHANGED recorded
      BY <2>1
    <2>2. CASE recorded' = [recorded EXCEPT ![r] = TRUE]
      BY <2>2, Zenon
    <2> QED BY <2>1, <2>2
  <1>2. completions' \in [Client -> Nat]
    <2>1. CASE UNCHANGED completions
      BY <2>1
    <2>2. CASE completions' = [completions EXCEPT ![r] = @ + 1]
      BY <2>2
    <2> QED BY <2>1, <2>2
  <1>3. outcome' \in [Client -> {"none", "success", "failure", "error"}]
    OBVIOUS
  <1> QED BY <1>1, <1>2, <1>3

(* The steps of a request, its arrival and its cancellation included. *)
LEMMA ServeKeeps ==
  ASSUME NEW r \in Client, Inv, Serve(r) \/ begin_request(r) \/ Cancel(r)
  PROVE  Inv'
  <1> USE DEF Inv, RequestTypeOK, Place, Goto, responseVars, logVars
  <1>1. CASE begin_request(r)
    <2>1. SessionsInUse'
      BY <1>1 DEF begin_request, SessionsInUse, Working, Opening
    <2>2. (RequestTypeOK /\ Decided /\ SentInOrder /\ Logged /\ AnswersAreTrue)'
      BY <1>1 DEF begin_request, Decided, SentInOrder, Logged, Observed, AnswersAreTrue
    <2> QED BY <2>1, <2>2
  <1>2. CASE checkout_failed(r)
    <2>1. SessionsInUse' /\ at[r] \in Working
      BY <1>2 DEF checkout_failed, Respond, SessionsInUse, Working, NoSession
    <2>2. RequestTypeOK'
      BY <1>2 DEF checkout_failed, Respond, ForFailure
    <2>3. Decided' /\ AnswersAreTrue'
      BY <1>2, <2>1 DEF checkout_failed, Respond, ForFailure, Decided, AnswersAreTrue, Working
    <2>4. SentInOrder' /\ Logged'
      BY <1>2, <2>1 DEF checkout_failed, Respond, SentInOrder, Logged, Observed, Working
    <2> QED BY <2>1, <2>2, <2>3, <2>4
  <1>3. CASE get_authorization_context(r) \/ close_refused(r)
    <2> USE <1>3 DEF get_authorization_context, close_refused, require_permissions, raise_inside,
                     Caught, session_fails, Respond, reopen_session, close_session,
                     handle_database_error
    <2>1. SessionsInUse'
      BY DEF SessionsInUse, Working, NoSession, Opening, dbVars, Answers, Ready
    <2>2. RequestTypeOK'
      BY DEF ForFailure
    <2>3. Decided' /\ AnswersAreTrue'
      BY DEF ForFailure, Decided, AnswersAreTrue
    <2>4. SentInOrder' /\ Logged'
      BY DEF ForFailure, SentInOrder, Logged, Observed
    <2> QED BY <2>1, <2>2, <2>3, <2>4
  <1>4. CASE run_operation(r) \/ roll_back_refused(r)
    <2> USE <1>4 DEF run_operation, roll_back_refused, raise_inside, Caught, session_fails,
                     Respond, reopen_session, close_session, handle_database_error
    <2>1. SessionsInUse'
      BY DEF SessionsInUse, Working, NoSession, Opening, dbVars, Answers, Ready
    <2>2. RequestTypeOK'
      BY DEF ForFailure
    <2>3. Decided' /\ AnswersAreTrue'
      BY DEF ForFailure, Decided, AnswersAreTrue
    <2>4. SentInOrder' /\ Logged'
      BY DEF ForFailure, SentInOrder, Logged, Observed
    <2> QED BY <2>1, <2>2, <2>3, <2>4
  <1>5. CASE commit(r)
    <2> USE <1>5 DEF commit, commit_fails, commits, Respond
    <2>1. SessionsInUse'
      BY DEF SessionsInUse, Working, NoSession, close_session, handle_database_error
    <2>2. RequestTypeOK'
      BY DEF ForFailure
    <2>3. Decided' /\ AnswersAreTrue'
      BY DEF ForFailure, Decided, AnswersAreTrue
    <2>4. SentInOrder' /\ Logged'
      BY DEF ForFailure, SentInOrder, Logged, Observed
    <2> QED BY <2>1, <2>2, <2>3, <2>4
  <1>6. CASE write_denied_audit(r)
    <2> USE <1>6 DEF write_denied_audit, commits, Respond
    <2>1. SessionsInUse'
      BY DEF SessionsInUse, Working, NoSession, close_session, handle_database_error
    <2>2. RequestTypeOK'
      OBVIOUS
    <2>3. Decided' /\ AnswersAreTrue'
      BY DEF Decided, AnswersAreTrue
    <2>4. SentInOrder' /\ Logged'
      BY DEF SentInOrder, Logged, Observed
    <2> QED BY <2>1, <2>2, <2>3, <2>4
  <1>7. CASE send_start(r) \/ send_body(r)
    <2> USE <1>7 DEF send_start, send_body, observe_exception
    <2>1. SessionsInUse'
      BY DEF SessionsInUse, Working, dbVars
    <2>2. LogTypes'
      BY CompletionTypes DEF LogTypes
    <2>3. RequestTypeOK'
      BY <2>2 DEF LogTypes
    <2>4. Decided' /\ AnswersAreTrue'
      BY DEF Decided, AnswersAreTrue
    <2>5. SentInOrder' /\ Logged'
      BY DEF SentInOrder, Logged, Observed, Decided, log_request_completion
    <2> QED BY <2>1, <2>3, <2>4, <2>5
  <1>8. CASE application_returns(r) \/ application_raises(r) \/ handle_unexpected_error(r)
    <2> USE <1>8 DEF application_returns, application_raises, handle_unexpected_error,
                     observe_exception
    <2>1. SessionsInUse'
      BY DEF SessionsInUse, Working, dbVars
    <2>2. LogTypes'
      BY CompletionTypes DEF LogTypes
    <2>3. RequestTypeOK'
      BY <2>2 DEF LogTypes
    <2>4. Decided' /\ AnswersAreTrue'
      BY DEF Decided, AnswersAreTrue
    <2>5. SentInOrder' /\ Logged'
      BY DEF SentInOrder, Logged, Observed, Decided, log_request_completion
    <2> QED BY <2>1, <2>3, <2>4, <2>5
  <1>9. CASE Cancel(r)
    <2> USE <1>9 DEF Cancel, commits, observe_exception
    <2>1. SessionsInUse'
      BY DEF SessionsInUse, Working, abandon, NoSession
    <2>2. LogTypes'
      <3>1. LogTypes /\ log_request_completion(r, "error")
        BY DEF LogTypes
      <3> QED BY <3>1, CompletionTypes
    <2>3. RequestTypeOK'
      <3>1. rows' \in [Client -> SUBSET {"change", "allowed", "denied"}]
        OBVIOUS
      <3>2. at' \in [Client -> Place] /\ UNCHANGED <<refusal, answer, sent>>
        OBVIOUS
      <3> HIDE <1>9
      <3> QED BY <2>2, <3>1, <3>2 DEF LogTypes
    <2>4. Decided' /\ AnswersAreTrue'
      BY DEF Decided, AnswersAreTrue
    <2>5. SentInOrder' /\ Logged'
      BY DEF SentInOrder, Logged, Observed, Decided, log_request_completion
    <2> QED BY <2>1, <2>3, <2>4, <2>5
  <1> QED BY <1>1, <1>2, <1>3, <1>4, <1>5, <1>6, <1>7, <1>8, <1>9 DEF Serve

(* Every step preserves the invariant. *)
LEMMA NextInv == Inv /\ [Next]_vars => Inv'
  <1> SUFFICES ASSUME Inv, [Next]_vars PROVE Inv'
    OBVIOUS
  <1>1. CASE UNCHANGED vars
    BY <1>1 DEF vars, dbVars, requestVars, Inv, RequestTypeOK, SessionsInUse, Decided,
                SentInOrder, Logged, AnswersAreTrue
  <1>2. ASSUME NEW s \in Slot, Break(s), UNCHANGED requestVars PROVE Inv'
    BY <1>2 DEF Break, requestVars, Inv, RequestTypeOK, SessionsInUse, Decided,
                SentInOrder, Logged, AnswersAreTrue
  <1> QED BY <1>1, <1>2, PoolKeeps, ServeKeeps DEF Next, Pool

(* 200 means a committed change with its audit row.  A refusal that has    *)
(* left its session is the answer and nothing changed; one whose ROLLBACK  *)
(* or close failed is answered as that failure and wrote no row at all.    *)
THEOREM AnswersStayTrue == Spec => []AnswersAreTrue
  <1>1. Inv => AnswersAreTrue
    BY DEF Inv
  <1> QED BY <1>1, InitInv, NextInv, PTL DEF Spec

(* The middleware leaves one completion record per request that has ended, *)
(* and success is logged for a committed change sent whole.                *)
THEOREM CompletionIsUnique == Spec => []OneTrueCompletion
  BY InitInv, NextInv, InvTrueCompletion, PTL DEF Spec

-----------------------------------------------------------------------------
(* The connection pool.                                                    *)

(* A request that has checked a slot out. *)
Carries(r) == session[r].stage \in {"dialing", "probing", "ready"}

Idle == {NoSession, Opening} \cup {Failed(c) : c \in Category}

Carried == [stage : {"dialing", "probing", "ready"}, slot : Slot, dials : 0..2]

PoolTypes ==
  /\ conn \in [Slot -> {"none", "live", "dead"}]
  /\ outdated \subseteq Slot
  /\ marked \in [Slot -> BOOLEAN]
  /\ owner \in [Slot -> Client \cup {NoClient, Absent}]
  /\ DOMAIN session = Client
  /\ \A r \in Client : session[r] \in Idle \cup Carried

(* A slot is checked out by the request whose session carries it, and by   *)
(* nobody else: no slot is shared, and none is lost.  In the pool it has   *)
(* no mark.                                                                *)
SlotsAreHeld ==
  \A s \in Slot :
    /\ owner[s] \in Client => Carries(owner[s]) /\ session[owner[s]].slot = s
    /\ owner[s] \notin Client => ~marked[s]

SlotsAreOwned == \A r \in Client : Carries(r) => owner[session[r].slot] = r

(* Whoever replaces a connection has found one to be stale; a marked slot  *)
(* that is probed has been dialled in this checkout.                       *)
DialsAreMarked ==
  \A r \in Client :
    /\ session[r].stage = "dialing" => session[r].dials = 0 \/ marked[session[r].slot]
    /\ session[r].stage = "dialing" => session[r].dials \in 0..1
    /\ session[r].stage = "probing" /\ (marked[session[r].slot] \/ session[r].dials = 2)
         => marked[session[r].slot] /\ session[r].dials \in 1..2

PoolInv == PoolTypes /\ SlotsAreHeld /\ SlotsAreOwned /\ DialsAreMarked

(* What a session can look like. *)
LEMMA SessionShapes ==
  /\ \A x \in Idle : x.stage \in {"none", "waiting", "failed"}
  /\ \A x \in Carried : /\ x.stage \in {"dialing", "probing", "ready"}
                        /\ x.slot \in Slot /\ x.dials \in 0..2
  /\ NoSession \in Idle /\ Opening \in Idle /\ \A c \in Category : Failed(c) \in Idle
  <1>1. \A c \in Category : Failed(c).stage = "failed"
    BY DEF Failed
  <1>2. NoSession.stage = "none" /\ Opening.stage = "waiting"
    BY DEF NoSession, Opening
  <1>3. \A x \in Idle : x.stage \in {"none", "waiting", "failed"}
    BY <1>1, <1>2 DEF Idle
  <1>4. \A x \in Carried : /\ x.stage \in {"dialing", "probing", "ready"}
                          /\ x.slot \in Slot /\ x.dials \in 0..2
    BY DEF Carried
  <1> QED BY <1>3, <1>4 DEF Idle

(* A request without a slot changes only its session. *)
LEMMA IdleKeepsPool ==
  ASSUME PoolInv, NEW r \in Client, NEW x \in Idle, ~Carries(r),
         session' = [session EXCEPT ![r] = x], UNCHANGED <<conn, outdated, marked, owner>>
  PROVE  PoolInv'
  <1>1. /\ DOMAIN session' = Client /\ session'[r] = x
        /\ \A q \in Client \ {r} : session'[q] = session[q]
    BY DEF PoolInv, PoolTypes
  <1>2. x.stage \in {"none", "waiting", "failed"}
    BY SessionShapes
  <1>3. PoolTypes'
    BY <1>1 DEF PoolInv, PoolTypes
  <1>4. SlotsAreHeld' /\ SlotsAreOwned'
    BY <1>1, <1>2 DEF PoolInv, SlotsAreHeld, SlotsAreOwned, Carries
  <1>5. DialsAreMarked'
    BY <1>1, <1>2 DEF PoolInv, DialsAreMarked
  <1> QED BY <1>3, <1>4, <1>5 DEF PoolInv

(* A slot that is given back loses its owner and its mark. *)
LEMMA CheckInKeepsPool ==
  ASSUME PoolInv, NEW r \in Client, NEW x \in Idle, Carries(r),
         NEW c \in {"none", "live", "dead"}, check_in(session[r].slot, c),
         session' = [session EXCEPT ![r] = x], outdated' \subseteq Slot
  PROVE  PoolInv'
  <1> DEFINE s == session[r].slot
  <1>1. /\ DOMAIN session' = Client /\ session'[r] = x
        /\ \A q \in Client \ {r} : session'[q] = session[q]
    BY DEF PoolInv, PoolTypes
  <1>2. x.stage \in {"none", "waiting", "failed"} /\ s \in Slot /\ owner[s] = r
    BY SessionShapes DEF PoolInv, PoolTypes, SlotsAreOwned, Carries
  <1>3. /\ conn' = [conn EXCEPT ![s] = c] /\ marked' = [marked EXCEPT ![s] = FALSE]
        /\ owner' = [owner EXCEPT ![s] = NoClient] /\ NoClient \notin Client
    BY DatabaseAssumption DEF check_in
  <1>4. \A q \in Client \ {r} : Carries(q) => session[q].slot # s
    BY <1>2 DEF PoolInv, SlotsAreOwned
  <1>5. PoolTypes'
    BY <1>1, <1>2, <1>3 DEF PoolInv, PoolTypes
  <1>6. \A q \in Client : Carries(q) => session[q].slot \in Slot
    BY SessionShapes DEF PoolInv, PoolTypes, Carries
  <1> HIDE DEF s
  <1>7. SlotsAreHeld'
    BY <1>1, <1>2, <1>3 DEF PoolInv, PoolTypes, SlotsAreHeld, Carries, s
  <1>8. SlotsAreOwned'
    BY <1>1, <1>2, <1>3, <1>4, <1>6 DEF PoolInv, PoolTypes, SlotsAreOwned, Carries
  <1>9. DialsAreMarked'
    BY <1>1, <1>2, <1>3, <1>4, <1>6 DEF PoolInv, PoolTypes, DialsAreMarked, Carries
  <1> QED BY <1>5, <1>7, <1>8, <1>9 DEF PoolInv

(* A checkout moves on with the slot that it has, dialling or probing.     *)
LEMMA MoveKeepsPool ==
  ASSUME PoolInv, NEW r \in Client, Carries(r), NEW x \in Carried,
         x.slot = session[r].slot, session' = [session EXCEPT ![r] = x],
         NEW c \in {"none", "live", "dead"}, conn' = [conn EXCEPT ![x.slot] = c],
         NEW m \in BOOLEAN, marked' = [marked EXCEPT ![x.slot] = m],
         outdated' \subseteq Slot, UNCHANGED owner,
         x.stage = "dialing" => x.dials \in 0..1 /\ (x.dials = 0 \/ m),
         x.stage = "probing" /\ (m \/ x.dials = 2) => m /\ x.dials \in 1..2
  PROVE  PoolInv'
  <1> DEFINE s == x.slot
  <1>1. /\ DOMAIN session' = Client /\ session'[r] = x
        /\ \A q \in Client \ {r} : session'[q] = session[q]
    BY DEF PoolInv, PoolTypes
  <1>2. x.stage \in {"dialing", "probing", "ready"} /\ s \in Slot /\ owner[s] = r
    BY SessionShapes DEF PoolInv, SlotsAreOwned, Carries
  <1>3. \A q \in Client \ {r} : Carries(q) => session[q].slot # s
    BY <1>2 DEF PoolInv, SlotsAreOwned
  <1>4. \A q \in Client : Carries(q) => session[q].slot \in Slot
    BY SessionShapes DEF PoolInv, PoolTypes, Carries
  <1>5. PoolTypes'
    BY <1>1, <1>2 DEF PoolInv, PoolTypes
  <1>6. SlotsAreHeld'
    BY <1>1, <1>2 DEF PoolInv, PoolTypes, SlotsAreHeld, Carries
  <1>7. SlotsAreOwned'
    BY <1>1, <1>2, <1>3, <1>4 DEF PoolInv, SlotsAreOwned, Carries
  <1>8. DialsAreMarked'
    <2>1. marked'[s] = m /\ \A t \in Slot : t # s => marked'[t] = marked[t]
      BY <1>2 DEF PoolInv, PoolTypes
    <2> HIDE DEF s
    <2> SUFFICES ASSUME NEW q \in Client
                 PROVE  /\ session'[q].stage = "dialing" =>
                              session'[q].dials = 0 \/ marked'[session'[q].slot]
                        /\ session'[q].stage = "dialing" => session'[q].dials \in 0..1
                        /\ /\ session'[q].stage = "probing"
                           /\ marked'[session'[q].slot] \/ session'[q].dials = 2
                           => marked'[session'[q].slot] /\ session'[q].dials \in 1..2
      BY DEF DialsAreMarked
    <2>2. CASE q = r
      BY <1>1, <2>1, <2>2 DEF s
    <2>3. CASE q # r
      <3>1. session'[q] = session[q]
        BY <1>1, <2>3
      <3>2. Carries(q) => marked'[session[q].slot] = marked[session[q].slot]
        BY <1>3, <1>4, <2>1, <2>3
      <3> QED BY <3>1, <3>2 DEF PoolInv, DialsAreMarked, Carries
    <2> QED BY <2>2, <2>3
  <1> QED BY <1>5, <1>6, <1>7, <1>8 DEF PoolInv

(* The three steps of a checkout. *)
LEMMA CheckoutKeepsPool ==
  ASSUME PoolInv, NEW r \in Client, Checkout(r) \/ PoolTimeout(r)
  PROVE  PoolInv'
  <1>0. ASSUME Carries(r)
        PROVE  /\ session[r] \in Carried /\ session[r].slot \in Slot
               /\ conn[session[r].slot] \in {"none", "live", "dead"}
               /\ marked[session[r].slot] \in BOOLEAN /\ outdated \subseteq Slot
               /\ conn = [conn EXCEPT ![session[r].slot] = conn[session[r].slot]]
               /\ marked = [marked EXCEPT ![session[r].slot] = marked[session[r].slot]]
    <2>1. session[r] \in Carried /\ session[r].slot \in Slot
      BY <1>0, SessionShapes DEF PoolInv, PoolTypes, Carries
    <2> QED BY <2>1 DEF PoolInv, PoolTypes
  <1>1. ASSUME NEW c \in Category, Carries(r), checkout_fails(r, c) PROVE PoolInv'
    BY <1>0, <1>1, CheckInKeepsPool, SessionShapes DEF checkout_fails
  <1>2. CASE Acquire(r)
    <2>1. PICK s \in Slot :
            /\ owner[s] = NoClient
            /\ owner' = [owner EXCEPT ![s] = r]
            /\ session' = [session EXCEPT ![r] =
                 [stage |-> IF conn[s] = "none" \/ s \in outdated THEN "dialing" ELSE "probing",
                  slot |-> s, dials |-> 0]]
            /\ UNCHANGED <<conn, outdated, marked>>
      BY <1>2 DEF Acquire
    <2>2. ~Carries(r) /\ NoClient \notin Client /\ Absent \notin Client /\ ~marked[s]
      BY <1>2, <2>1, DatabaseAssumption DEF Acquire, Carries, PoolInv, SlotsAreHeld
    <2>3. /\ DOMAIN session' = Client
          /\ session'[r] \in Carried /\ session'[r].stage \in {"dialing", "probing"}
          /\ session'[r].slot = s /\ session'[r].dials = 0
          /\ \A q \in Client \ {r} : session'[q] = session[q]
      BY <2>1 DEF PoolInv, PoolTypes, Carried
    <2>4. PoolTypes'
      BY <2>1, <2>3 DEF PoolInv, PoolTypes
    <2>5. /\ owner'[s] = r /\ \A t \in Slot : t # s => owner'[t] = owner[t]
          /\ \A t \in Slot : owner[t] # r
      BY <2>1, <2>2 DEF PoolInv, PoolTypes, SlotsAreHeld
    <2>6. SlotsAreHeld'
      BY <2>1, <2>2, <2>3, <2>5 DEF PoolInv, SlotsAreHeld, Carries
    <2>7. SlotsAreOwned'
      <3>1. \A q \in Client : Carries(q) => session[q].slot \in Slot
        BY SessionShapes DEF PoolInv, PoolTypes, Carries
      <3> QED BY <2>1, <2>2, <2>3, <2>5, <3>1 DEF PoolInv, SlotsAreOwned, Carries
    <2>8. DialsAreMarked'
      BY <2>1, <2>2, <2>3 DEF PoolInv, DialsAreMarked
    <2> QED BY <2>4, <2>6, <2>7, <2>8 DEF PoolInv
  <1>3. CASE connect_database(r)
    <2>1. Carries(r) /\ session[r].stage = "dialing"
      BY <1>3 DEF connect_database, Carries
    <2>2. CASE /\ conn' = [conn EXCEPT ![session[r].slot] = "live"]
               /\ outdated' = outdated \ {session[r].slot}
               /\ session' = [session EXCEPT ![r].stage = "probing", ![r].dials = @ + 1]
               /\ UNCHANGED <<marked, owner>>
      <3> DEFINE n == session[r].dials + 1
                 x == [session[r] EXCEPT !.stage = "probing", !.dials = n]
      <3>1. /\ session[r] \in Carried /\ session[r].dials \in 0..1
            /\ session[r].dials = 0 \/ marked[session[r].slot]
        BY <1>0, <2>1 DEF PoolInv, DialsAreMarked
      <3>2. session' = [session EXCEPT ![r] = x]
        BY <2>2, <3>1 DEF Carried, PoolInv, PoolTypes
      <3>3. n \in 1..2 /\ n \in 0..2 /\ (n = 2 => marked[session[r].slot])
        BY <3>1
      <3> HIDE DEF n
      <3>4. x \in Carried /\ x.stage = "probing" /\ x.slot = session[r].slot /\ x.dials = n
        BY <3>1, <3>3 DEF Carried
      <3> HIDE DEF x
      <3> QED BY <1>0, <2>1, <2>2, <3>2, <3>3, <3>4, MoveKeepsPool
    <2> QED BY <1>1, <1>3, <2>1, <2>2 DEF connect_database
  <1>4. CASE probe(r)
    <2>1. Carries(r) /\ session[r].stage = "probing"
      BY <1>4 DEF probe, Carries
    <2>2. CASE /\ session' = [session EXCEPT ![r].stage = "ready"]
               /\ UNCHANGED <<conn, outdated, marked, owner>>
      <3> DEFINE x == [session[r] EXCEPT !.stage = "ready"]
      <3>1. x \in Carried /\ x.stage = "ready" /\ x.slot = session[r].slot
        BY <1>0, <2>1 DEF Carried
      <3>2. session' = [session EXCEPT ![r] = x]
        BY <2>2
      <3> HIDE DEF x
      <3> QED BY <1>0, <2>1, <2>2, <3>1, <3>2, MoveKeepsPool
    <2>3. CASE /\ ~marked[session[r].slot]
               /\ marked' = [marked EXCEPT ![session[r].slot] = TRUE]
               /\ conn' = [conn EXCEPT ![session[r].slot] = "none"]
               /\ session' = [session EXCEPT ![r].stage = "dialing"]
               /\ UNCHANGED <<outdated, owner>>
      <3> DEFINE x == [session[r] EXCEPT !.stage = "dialing"]
      <3>1. /\ x \in Carried /\ x.stage = "dialing" /\ x.slot = session[r].slot
            /\ x.dials = session[r].dials /\ session[r].dials \in 0..2
        BY <1>0, <2>1 DEF Carried
      <3>2. session[r].dials # 2
        BY <2>1, <2>3 DEF PoolInv, DialsAreMarked
      <3>3. session' = [session EXCEPT ![r] = x]
        BY <2>3
      <3> HIDE DEF x
      <3>4. x.dials \in 0..1
        BY <3>1, <3>2
      <3> QED BY <1>0, <2>1, <2>3, <3>1, <3>3, <3>4, MoveKeepsPool
    <2>4. CASE \E c \in Category : checkout_fails(r, c)
      BY <1>1, <2>1, <2>4
    <2> QED BY <1>4, <2>2, <2>3, <2>4 DEF probe, checkout_disconnected, Category
  <1>5. CASE PoolTimeout(r)
    BY <1>5, IdleKeepsPool, SessionShapes DEF PoolTimeout, Carries, Category
  <1> QED BY <1>2, <1>3, <1>4, <1>5 DEF Checkout

(* A statement that fails gives the slot back, as a session closed does.   *)
LEMMA FailedStatementKeepsPool ==
  ASSUME PoolInv, NEW r \in Client, NEW c \in Category, NEW x \in Idle,
         handle_database_error(r, c, x)
  PROVE  PoolInv'
  <1>1. Carries(r) /\ session' = [session EXCEPT ![r] = x]
    BY DEF handle_database_error, Ready, Carries
  <1>2. conn[session[r].slot] \in {"none", "live", "dead"}
    BY <1>1, SessionShapes DEF PoolInv, PoolTypes, Carries
  <1>3. outdated' \subseteq Slot
    BY DEF handle_database_error, PoolInv, PoolTypes
  <1>4. check_in(session[r].slot, "none") \/ check_in(session[r].slot, conn[session[r].slot])
    BY DEF handle_database_error
  <1> QED BY <1>1, <1>2, <1>3, <1>4, CheckInKeepsPool

LEMMA ClosedSessionKeepsPool ==
  ASSUME PoolInv, NEW r \in Client, NEW x \in Idle, Answers(r), close_session(r, x)
  PROVE  PoolInv'
  <1>1. Carries(r)
    BY DEF Answers, Ready, Carries
  <1>2. conn[session[r].slot] \in {"none", "live", "dead"} /\ outdated' \subseteq Slot
    BY <1>1, SessionShapes DEF PoolInv, PoolTypes, Carries, close_session
  <1> QED BY <1>1, <1>2, CheckInKeepsPool DEF close_session

(* What a request does with its session outside of a checkout. *)
SessionStep(r) ==
  \/ UNCHANGED dbVars
  \/ \E x \in {NoSession, Opening} :
       \/ /\ ~Carries(r)
          /\ session' = [session EXCEPT ![r] = x]
          /\ UNCHANGED <<conn, outdated, marked, owner>>
       \/ Answers(r) /\ close_session(r, x)
       \/ \E c \in Category : handle_database_error(r, c, x)
  \/ abandon(r)

LEMMA ServeIsSessionStep ==
  ASSUME NEW r \in Client, Inv, Serve(r) \/ begin_request(r) \/ Cancel(r)
  PROVE  SessionStep(r)
  <1>1. CASE begin_request(r)
    BY <1>1 DEF begin_request, SessionStep, Inv, SessionsInUse, Working, Carries
  <1>2. CASE checkout_failed(r)
    BY <1>2 DEF checkout_failed, SessionStep, Carries
  <1>3. CASE get_authorization_context(r)
    BY <1>3 DEF get_authorization_context, require_permissions, raise_inside, session_fails,
                reopen_session, SessionStep
  <1>4. CASE run_operation(r) \/ close_refused(r) \/ roll_back_refused(r)
    BY <1>4 DEF run_operation, close_refused, roll_back_refused, raise_inside, session_fails,
                reopen_session, SessionStep
  <1>5. CASE commit(r) \/ write_denied_audit(r)
    BY <1>5 DEF commit, commit_fails, write_denied_audit, SessionStep
  <1>6. CASE \/ send_start(r) \/ send_body(r) \/ application_returns(r)
             \/ application_raises(r) \/ handle_unexpected_error(r)
    BY <1>6 DEF send_start, send_body, application_returns, application_raises,
                handle_unexpected_error, SessionStep
  <1>7. CASE Cancel(r)
    BY <1>7 DEF Cancel, SessionStep
  <1> QED BY <1>1, <1>2, <1>3, <1>4, <1>5, <1>6, <1>7 DEF Serve

LEMMA SessionStepKeepsPool ==
  ASSUME PoolInv, NEW r \in Client, SessionStep(r)
  PROVE  PoolInv'
  <1>1. CASE UNCHANGED dbVars
    BY <1>1 DEF dbVars, PoolInv, PoolTypes, SlotsAreHeld, SlotsAreOwned, DialsAreMarked, Carries
  <1>2. CASE abandon(r)
    <2>1. CASE Carries(r)
      BY <1>2, <2>1, CheckInKeepsPool, SessionShapes DEF abandon, Carries, PoolInv, PoolTypes
    <2>2. CASE ~Carries(r)
      BY <1>2, <2>2, IdleKeepsPool, SessionShapes DEF abandon, Carries
    <2> QED BY <2>1, <2>2
  <1>3. {NoSession, Opening} \subseteq Idle
    BY SessionShapes
  <1> QED BY <1>1, <1>2, <1>3, IdleKeepsPool, ClosedSessionKeepsPool, FailedStatementKeepsPool
          DEF SessionStep

LEMMA InitPool == Init => PoolInv
  <1> SUFFICES ASSUME Init PROVE PoolInv
    OBVIOUS
  <1>1. NoSession \in Idle /\ NoSession.stage = "none"
    BY SessionShapes DEF NoSession
  <1>2. /\ conn = [s \in Slot |-> "none"] /\ outdated = {}
        /\ marked = [s \in Slot |-> FALSE] /\ session = [r \in Client |-> NoSession]
        /\ owner \in [Slot -> {NoClient, Absent}]
    BY DEF Init, DatabaseInit
  <1>3. \A r \in Client : session[r] = NoSession
    BY <1>2
  <1> QED BY <1>1, <1>2, <1>3, DatabaseAssumption
          DEF PoolInv, PoolTypes, SlotsAreHeld, SlotsAreOwned, DialsAreMarked, Carries

LEMMA NextPool == Inv /\ PoolInv /\ [Next]_vars => PoolInv'
  <1> SUFFICES ASSUME Inv, PoolInv, [Next]_vars PROVE PoolInv'
    OBVIOUS
  <1>1. CASE UNCHANGED vars
    BY <1>1 DEF vars, dbVars, PoolInv, PoolTypes, SlotsAreHeld, SlotsAreOwned, DialsAreMarked,
                Carries
  <1>2. ASSUME NEW s \in Slot, Break(s) PROVE PoolInv'
    BY <1>2 DEF Break, PoolInv, PoolTypes, SlotsAreHeld, SlotsAreOwned, DialsAreMarked, Carries
  <1> QED BY <1>1, <1>2, ServeIsSessionStep, SessionStepKeepsPool, CheckoutKeepsPool
          DEF Next, Pool

(* Every variable of a request and of the pool has its type: a session is  *)
(* without a slot or carries one, and no checkout dials a third time.      *)
THEOREM RequestTypes == Spec => [](RequestTypeOK /\ DatabaseTypeOK)
  <1>1. Inv /\ PoolInv => RequestTypeOK /\ DatabaseTypeOK
    BY DEF Inv, PoolInv, PoolTypes, DatabaseTypeOK, Idle, Carried
  <1> QED BY <1>1, InitInv, InitPool, NextInv, NextPool, PTL DEF Spec

(* A request that has its answer, or was cancelled, holds no slot.         *)
SlotsComeBack ==
  \A r \in Client, s \in Slot : at[r] \notin Working => owner[s] # r

(* Cancellation, failed statements, timeouts and broken connections leak   *)
(* no slot: whoever owns one carries it, in one session only, and has not  *)
(* finished; a slot in the pool has no mark (check_in, abandon).           *)
THEOREM NoSlotLost == Spec => [](SlotsAreHeld /\ SlotsAreOwned /\ SlotsComeBack)
  <1>1. Inv /\ PoolInv => SlotsAreHeld /\ SlotsAreOwned /\ SlotsComeBack
    BY DEF Inv, SessionsInUse, PoolInv, SlotsAreHeld, SlotsComeBack, Carries
  <1> QED BY <1>1, InitInv, InitPool, NextInv, NextPool, PTL DEF Spec

(* Only a probe in a checkout that has dialled gives up for want of a      *)
(* connection: checkout_disconnected finds the mark of its own retry.      *)
LEMMA RefusedWhenFresh ==
  ASSUME Inv, PoolInv, [Next]_vars, NEW q \in Client,
         session[q].stage = "probing", session'[q] = Failed("connection")
  PROVE  session[q].dials \in 1..2
  <1>1. /\ DOMAIN session = Client /\ session[q].slot \in Slot
        /\ Failed("connection").stage = "failed" /\ Failed("connection").failure = "connection"
    BY SessionShapes DEF PoolInv, PoolTypes, Failed
  <1>2. session'[q] # session[q] /\ session'[q] \notin {NoSession, Opening}
    BY <1>1 DEF NoSession, Opening
  <1>3. ASSUME NEW r \in Client, SessionStep(r) PROVE FALSE
    BY <1>1, <1>2, <1>3
       DEF SessionStep, dbVars, close_session, handle_database_error, abandon
  <1>4. \A r \in Client : ~(Serve(r) \/ begin_request(r) \/ Cancel(r))
    BY <1>3, ServeIsSessionStep
  <1>5. ASSUME NEW r \in Client, Checkout(r) \/ PoolTimeout(r)
        PROVE  r = q /\ probe(q)
    <2>1. r = q
      BY <1>1, <1>2, <1>5
         DEF Checkout, Acquire, connect_database, probe, checkout_disconnected, checkout_fails,
             PoolTimeout
    <2> QED BY <1>5, <2>1 DEF Checkout, Acquire, connect_database, PoolTimeout
  <1>6. probe(q)
    BY <1>2, <1>4, <1>5 DEF Next, Pool, Break, vars, dbVars
  <1>7. marked[session[q].slot]
    <2> DEFINE passed == [session[q] EXCEPT !.stage = "ready"]
               retried == [session[q] EXCEPT !.stage = "dialing"]
    <2>0. session[q] \in Carried
      BY SessionShapes DEF PoolInv, PoolTypes
    <2>1. session' # [session EXCEPT ![q] = passed]
      <3>1. passed.stage = "ready"
        BY <2>0 DEF Carried
      <3> HIDE DEF passed
      <3> QED BY <1>1, <3>1
    <2>2. session' # [session EXCEPT ![q] = retried]
      <3>1. retried.stage = "dialing"
        BY <2>0 DEF Carried
      <3> HIDE DEF retried
      <3> QED BY <1>1, <3>1
    <2>3. \A c \in Category \ {"connection"} : ~checkout_fails(q, c)
      BY <1>1 DEF checkout_fails, Failed
    <2> QED BY <1>6, <2>1, <2>2, <2>3 DEF probe, checkout_disconnected
  <1> QED BY <1>7 DEF PoolInv, DialsAreMarked

(* A stale pooled connection costs one replacement, never a request: a     *)
(* checkout that reports the database unavailable has dialled itself.      *)
THEOREM StaleConnectionsCostNothing == Spec => OnlyFreshConnectionsRefuse
  <1>1. Inv /\ PoolInv /\ [Next]_vars =>
          [\A r \in Client :
             session[r].stage = "probing" /\ session'[r] = Failed("connection")
               => session[r].dials \in 1..2]_dbVars
    BY RefusedWhenFresh
  <1> QED BY <1>1, InitInv, InitPool, NextInv, NextPool, PTL
          DEF Spec, OnlyFreshConnectionsRefuse
=============================================================================
