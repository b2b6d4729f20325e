---------------------------- MODULE AppLifespan ----------------------------
(***************************************************************************)
(* The lifespan of the application (app/main.py) around its log handler:   *)
(* logging first, then the two Redis clients of app/db/redis.py, then the  *)
(* server; and back again, whatever was opened and whatever raises.        *)
(*                                                                         *)
(* The lifespan and shutdown() are coroutines of Main: each of their steps *)
(* waits until a call of emit() by Main has returned.                      *)
(***************************************************************************)
EXTENDS BufferedLog

VARIABLES
  life,         \* the next thing the lifespan does
  opened,       \* the clients it has created
  released      \* what it has closed or tried to close

vars == <<logVars, life, opened, released>>

Stage == {"new", "redis", "rate_limit_redis", "started", "serving", "close_rate_limit_redis",
          "close_redis", "dispose", "stopped", "remove", "shutdown", "draining", "ended"}

Client == {"redis", "rate_limit_redis"}

LifespanTypeOK ==
  /\ life \in Stage
  /\ opened \subseteq Client
  /\ released \subseteq Client \cup {"engine"}

Init ==
  /\ BufferedLogInit
  /\ life = "new"
  /\ opened = {}
  /\ released = {}

MainAt(stage) == life = stage /\ emitting[Main] = "idle"

start_logging ==
  /\ MainAt("new")
  /\ configure_logging
  /\ life' = "redis"
  /\ UNCHANGED <<opened, released>>

(* Creating a client may raise; the finally blocks entered so far run. *)
Create(client, next, cleanup) ==
  /\ MainAt(client)
  /\ \/ opened' = opened \cup {client} /\ life' = next
     \/ UNCHANGED opened /\ life' = cleanup
  /\ UNCHANGED <<released, logVars>>

create_redis_client == Create("redis", "rate_limit_redis", "dispose")
create_rate_limit_redis_client == Create("rate_limit_redis", "started", "close_redis")

(* safe_log, which never raises; the level may suppress the event. *)
LogEvent(stage, next) ==
  /\ MainAt(stage)
  /\ life' = next
  /\ reach_handler(Main) \/ UNCHANGED logVars
  /\ UNCHANGED <<opened, released>>

(* The server stops, or the lifespan is cancelled. *)
serving_ends ==
  /\ MainAt("serving")
  /\ life' = "close_rate_limit_redis"
  /\ UNCHANGED <<logVars, opened, released>>

(* A bug: the closes follow each other in one finally block. *)
Release_OneFinally(stage, resource, next) ==
  /\ MainAt(stage)
  /\ released' = released \cup {resource}
  /\ life' \in {next, "stopped"}
  /\ UNCHANGED <<logVars, opened>>

(* Each close is awaited in a finally of its own, so that the next one     *)
(* follows also when this one raises.                                      *)
Release(stage, resource, next) ==
  /\ MainAt(stage)
  /\ released' = released \cup {resource}
  /\ life' = next
  /\ UNCHANGED <<logVars, opened>>

close_redis_clients ==
  \/ Release("close_rate_limit_redis", "rate_limit_redis", "close_redis")
  \/ Release("close_redis", "redis", "dispose")

dispose == Release("dispose", "engine", "stopped")

removeHandler ==
  /\ MainAt("remove")
  /\ attached' = FALSE
  /\ life' = "shutdown"
  /\ UNCHANGED <<lock, stopping, queued, writer, emitting, counters, draining, emitted,
                 opened, released>>

begin_shutdown ==
  /\ MainAt("shutdown")
  /\ shutdown_begin
  /\ life' = "draining"
  /\ UNCHANGED <<opened, released>>

end_lifespan ==
  /\ MainAt("draining")
  /\ draining = "done"
  /\ life' = "ended"
  /\ UNCHANGED <<logVars, opened, released>>

(* A second application of the process configures logging: it takes the    *)
(* handler away and closes it, and nothing drains it.                      *)
reconfigure ==
  /\ life = "serving"
  /\ attached
  /\ close
  /\ attached' = FALSE
  /\ UNCHANGED <<draining, life, opened, released>>

LifeStep ==
  \/ start_logging \/ create_redis_client \/ create_rate_limit_redis_client
  \/ LogEvent("started", "serving")
  \/ close_redis_clients \/ dispose
  \/ LogEvent("stopped", "remove")
  \/ removeHandler \/ begin_shutdown \/ end_lifespan

LogStep(step) == step /\ UNCHANGED <<life, opened, released>>

Next ==
  \/ LifeStep \/ serving_ends \/ reconfigure
  \/ \E t \in Emitter : LogStep(reach_handler(t))
  \/ \E t \in Thread : LogStep(EmitterStep(t))
  \/ LogStep(WriterStep) \/ LogStep(sink_returns)
  \/ LogStep(ShutdownStep)

Spec == Init /\ [][Next]_vars

(* Threads and tasks that can run do run, and the clients' close calls     *)
(* return within their timeouts.  Nothing is assumed of the sink, nor that *)
(* the server ever stops.                                                  *)
Fairness ==
  /\ WF_vars(LifeStep)
  /\ \A t \in Thread : WF_vars(LogStep(EmitterStep(t)))
  /\ WF_vars(LogStep(WriterStep))
  /\ WF_vars(LogStep(ShutdownStep))

LiveSpec == Spec /\ Fairness

-----------------------------------------------------------------------------
(* When the lifespan has ended, everything it opened has been closed, the  *)
(* engine disposed, the handler taken away and its queue emptied, wherever *)
(* the start-up failed and whichever close raised.                         *)
ResourcesReleased ==
  life = "ended" => /\ opened \cup {"engine"} \subseteq released
                    /\ ~attached
                    /\ draining = "done"

(* Start-up and shutdown always finish: a sink that blocks for ever, a     *)
(* writer that never started and threads that go on logging do not hold    *)
(* them up.                                                                *)
LifespanEnds == life \notin {"new", "serving"} ~> life \in {"serving", "ended"}
=============================================================================
