--------------------------- MODULE DatabaseClient ---------------------------
(***************************************************************************)
(* The connection pool of app/db/postgres.py as the requests see it: a     *)
(* session waits for a slot, dials when the slot has no connection, probes *)
(* the connection, and gives the slot back.  SQLAlchemy's QueuePool and    *)
(* asyncpg are external; the listeners that the module installs on them    *)
(* are the code modelled.                                                  *)
(*                                                                         *)
(* A slot keeps its mark "retried" across the connections it carries, as   *)
(* ConnectionPoolEntry.record_info does.                                   *)
(***************************************************************************)
EXTENDS Requests, Naturals

CONSTANTS
  Slot,         \* pool entries; a pool has some of them
  NoClient,     \* nobody: the owner of a slot that is in the pool
  Absent        \* the owner of a slot beyond the size of the pool

ASSUME DatabaseAssumption == NoClient # Absent /\ {NoClient, Absent} \cap Client = {}

VARIABLES
  conn,         \* the physical connection of each slot: "none", "live" or "dead"
  outdated,     \* the slots whose connection predates an invalidation of the pool
  marked,       \* _CHECKOUT_RETRIED in the slot's record_info
  owner,        \* the request that has checked each slot out
  session       \* each request's AsyncSession: its stage, slot, dials and failure

dbVars == <<conn, outdated, marked, owner, session>>

(* DatabaseErrorCategory, and the errors that have none. *)
Category == {"connection", "pool_exhausted", "timeout", "unclassified"}

NoSession == [stage |-> "none", dials |-> 0]
Opening   == [stage |-> "waiting", dials |-> 0]
Failed(c) == [stage |-> "failed", dials |-> 0, failure |-> c]

(* database_pool_size + database_max_overflow slots, at least one. *)
DatabaseInit ==
  /\ conn = [s \in Slot |-> "none"]
  /\ outdated = {}
  /\ marked = [s \in Slot |-> FALSE]
  /\ \E pool \in SUBSET Slot \ {{}} :
       owner = [s \in Slot |-> IF s \in pool THEN NoClient ELSE Absent]
  /\ session = [r \in Client |-> NoSession]

DatabaseTypeOK ==
  /\ conn \in [Slot -> {"none", "live", "dead"}]
  /\ outdated \subseteq Slot
  /\ marked \in [Slot -> BOOLEAN]
  /\ owner \in [Slot -> Client \cup {NoClient, Absent}]
  /\ \A r \in Client :
       \/ session[r] \in {NoSession, Opening} \cup {Failed(c) : c \in Category}
       \/ session[r] \in [stage : {"dialing", "probing", "ready"}, slot : Slot, dials : 0..2]

(* The check-in listener forgotten: only a new record is unmarked. *)
check_in_MarkKept(s, c) ==
  /\ conn' = [conn EXCEPT ![s] = c]
  /\ UNCHANGED marked
  /\ owner' = [owner EXCEPT ![s] = NoClient]

(* A slot goes back to the pool; the listener forgets the mark, also when  *)
(* it is the checkout that failed.                                         *)
check_in(s, c) ==
  /\ conn' = [conn EXCEPT ![s] = c]
  /\ marked' = [marked EXCEPT ![s] = FALSE]
  /\ owner' = [owner EXCEPT ![s] = NoClient]

Acquire(r) ==
  /\ session[r].stage = "waiting"
  /\ \E s \in Slot :
       /\ owner[s] = NoClient
       /\ owner' = [owner EXCEPT ![s] = r]
       /\ session' = [session EXCEPT ![r] =
            [stage |-> IF conn[s] = "none" \/ s \in outdated THEN "dialing" ELSE "probing",
             slot |-> s, dials |-> 0]]
  /\ UNCHANGED <<conn, outdated, marked>>

(* pool_timeout: QueuePool raises its TimeoutError. *)
PoolTimeout(r) ==
  /\ session[r].stage = "waiting"
  /\ \A s \in Slot : owner[s] # NoClient
  /\ session' = [session EXCEPT ![r] = Failed("pool_exhausted")]
  /\ UNCHANGED <<conn, outdated, marked, owner>>

(* An exception out of do_connect or checkout retires what the slot had.  *)
checkout_fails(r, c) ==
  /\ check_in(session[r].slot, "none")
  /\ outdated' = outdated \ {session[r].slot}
  /\ session' = [session EXCEPT ![r] = Failed(c)]

connect_database(r) ==
  /\ session[r].stage = "dialing"
  /\ LET s == session[r].slot
     IN \/ /\ conn' = [conn EXCEPT ![s] = "live"]
           /\ outdated' = outdated \ {s}
           /\ session' = [session EXCEPT ![r].stage = "probing", ![r].dials = @ + 1]
           /\ UNCHANGED <<marked, owner>>
        \/ \E c \in Category : checkout_fails(r, c)

(* One replacement per checkout: the pool dials again after the first      *)
(* DisconnectionError, the second becomes DatabaseUnavailableError.        *)
checkout_disconnected(r, s) ==
  \/ /\ marked[s]
     /\ checkout_fails(r, "connection")
  \/ /\ ~marked[s]
     /\ marked' = [marked EXCEPT ![s] = TRUE]
     /\ conn' = [conn EXCEPT ![s] = "none"]
     /\ session' = [session EXCEPT ![r].stage = "dialing"]
     /\ UNCHANGED <<outdated, owner>>

(* SELECT 1 under the command deadline; whatever fails is terminated.      *)
probe(r) ==
  /\ session[r].stage = "probing"
  /\ LET s == session[r].slot
     IN \/ /\ conn[s] = "live"
           /\ session' = [session EXCEPT ![r].stage = "ready"]
           /\ UNCHANGED <<conn, outdated, marked, owner>>
        \/ conn[s] = "dead" /\ checkout_disconnected(r, s)
        \/ \E c \in Category \ {"connection"} : checkout_fails(r, c)

Checkout(r) == Acquire(r) \/ connect_database(r) \/ probe(r)

(* The server, a proxy or the network ends a connection at any time. *)
Break(s) ==
  /\ conn[s] = "live"
  /\ conn' = [conn EXCEPT ![s] = "dead"]
  /\ UNCHANGED <<outdated, marked, owner, session>>

-----------------------------------------------------------------------------
(* What a request does with its session.  Ready: it may send a statement.  *)
Ready(r) == session[r].stage = "ready"

Answers(r) == Ready(r) /\ conn[session[r].slot] = "live"

(* AsyncSession.close: the connection returns to the pool, and the request *)
(* goes on with no session or opens its next one.                          *)
close_session(r, next) ==
  /\ check_in(session[r].slot, conn[session[r].slot])
  /\ session' = [session EXCEPT ![r] = next]
  /\ UNCHANGED outdated

(* A statement fails.  A driver deadline retires this connection alone; a  *)
(* lost connection invalidates the pool; any other error keeps both.       *)
handle_database_error(r, c, next) ==
  LET s == session[r].slot
  IN /\ Ready(r)
     /\ session' = [session EXCEPT ![r] = next]
     /\ \/ /\ c = "connection" /\ conn[s] = "dead"
           /\ check_in(s, "none")
           /\ outdated' = {t \in Slot \ {s} : conn[t] # "none"}
        \/ /\ c = "timeout"
           /\ check_in(s, "none")
           /\ outdated' = outdated \ {s}
        \/ /\ c \in {"timeout", "pool_exhausted", "unclassified"} /\ conn[s] = "live"
           /\ check_in(s, conn[s])
           /\ UNCHANGED outdated

(* The session left open while the next one waits for a slot. *)
reopen_session_Holding(r) ==
  /\ session' = [session EXCEPT ![r] = Opening]
  /\ UNCHANGED <<conn, outdated, marked, owner>>

(* The next session opens only when this one has given its slot back. *)
reopen_session(r) == close_session(r, Opening)

(* The request is cancelled at an await: the driver is terminated. *)
abandon(r) ==
  /\ session' = [session EXCEPT ![r] = NoSession]
  /\ IF session[r].stage \in {"dialing", "probing", "ready"}
     THEN /\ check_in(session[r].slot, "none")
          /\ outdated' = outdated \ {session[r].slot}
     ELSE UNCHANGED <<conn, outdated, marked, owner>>

(* A checkout gives up for want of a connection only over one that it has  *)
(* just opened itself: a stale pooled connection costs one replacement,    *)
(* never a request, whatever happened to the slot before.                  *)
OnlyFreshConnectionsRefuse ==
  [][\A r \in Client :
       session[r].stage = "probing" /\ session'[r] = Failed("connection")
         => session[r].dials \in 1..2]_dbVars
=============================================================================
