------------------------- MODULE AppLifespan_proofs -------------------------
(***************************************************************************)
(* The log handler and the lifespan around it, for any number of threads   *)
(* that log and any capacity of the queue.                                 *)
(***************************************************************************)
EXTENDS AppLifespan, TLAPS

(* A thread inside emit() has the lock and has seen the event unset; the   *)
(* drain has the lock and comes after the event.                           *)
LockHeld ==
  /\ \A t \in Thread : emitting[t] = "locked" => lock = t /\ ~stopping
  /\ draining = "draining" => lock = Main
  /\ draining # "no" => stopping

(* Nothing happens before the handler exists, and a writer that is gone    *)
(* was told to stop.                                                       *)
WriterStage ==
  /\ writer = "unstarted" => /\ ~attached /\ queued = 0
                             /\ \A t \in Thread : emitting[t] = "idle"
  /\ writer \in {"failed", "ended"} => stopping

(* What is still open at each stage of the lifespan. *)
OpenAt ==
  /\ life \in {"new", "redis"} => opened = {}
  /\ life = "rate_limit_redis" => opened \subseteq {"redis"}
  /\ life = "close_redis" => opened \subseteq released \cup {"redis"}
  /\ life = "dispose" => opened \subseteq released
  /\ life \in {"stopped", "remove", "shutdown", "draining", "ended"}
       => opened \cup {"engine"} \subseteq released
  /\ life \in {"shutdown", "draining", "ended"} => ~attached
  /\ life = "ended" => draining = "done"

LogInv == BufferedLogTypeOK /\ LockHeld /\ WriterStage /\ NothingLeftQueued

LifeInv == LifespanTypeOK /\ OpenAt

-----------------------------------------------------------------------------
\* Nothing is open and nothing is logged before the first start.
LEMMA InitInv == Init => LogInv /\ LifeInv /\ RecordsAccounted
<1> SUFFICES ASSUME Init
             PROVE  LogInv /\ LifeInv /\ RecordsAccounted
  OBVIOUS
<1> USE BufferedLogAssumption DEF Init, BufferedLogInit
<1>1. BufferedLogTypeOK
  <2>1. attached \in BOOLEAN /\ stopping \in BOOLEAN
    BY Zenon
  <2>2. LogTypeOK
    BY DEF LogTypeOK
  <2> QED BY <2>1, <2>2, Zenon DEF BufferedLogTypeOK
<1>2. LockHeld /\ WriterStage /\ NothingLeftQueued /\ RecordsAccounted
  BY DEF LockHeld, WriterStage, NothingLeftQueued, RecordsAccounted, InHand, StartFailures
<1>3. LifeInv
  BY DEF LifeInv, LifespanTypeOK, OpenAt, Stage, Client
<1> QED BY <1>1, <1>2, <1>3 DEF LogInv

(* The steps of the threads that log. *)
LEMMA EmitterInv ==
  ASSUME LogInv, RecordsAccounted, NEW t \in Thread, reach_handler(t) \/ EmitterStep(t)
  PROVE  LogInv' /\ RecordsAccounted'
<1> USE BufferedLogAssumption
    DEF LogInv, RecordsAccounted, BufferedLogTypeOK, LogTypeOK, LockHeld, WriterStage, NothingLeftQueued,
        InHand, StartFailures, counters
<1>1. CASE reach_handler(t)
  BY <1>1 DEF reach_handler
<1>2. CASE emit(t)
  <2>1. CASE stopping
    BY <1>2, <2>1 DEF emit, Return
  <2>2. CASE ~stopping
    BY <1>2, <2>2 DEF emit
  <2> QED BY <2>1, <2>2
<1>3. CASE put_nowait(t)
  <2>1. ~stopping /\ draining = "no" /\ lock = t /\ writer \notin {"failed", "ended", "unstarted"}
    BY <1>3 DEF put_nowait
  <2> QED BY <1>3, <2>1 DEF put_nowait, Return
<1> QED BY <1>1, <1>2, <1>3 DEF EmitterStep

(* The writer's steps. *)
LEMMA WriterInv ==
  ASSUME LogInv, RecordsAccounted, WriterStep \/ sink_returns
  PROVE  LogInv' /\ RecordsAccounted'
<1> USE BufferedLogAssumption
    DEF LogInv, RecordsAccounted, BufferedLogTypeOK, LogTypeOK, LockHeld, WriterStage, NothingLeftQueued,
        InHand, StartFailures, counters
<1>1. CASE take_line
  BY <1>1 DEF take_line
<1>2. CASE end_loop
  BY <1>2 DEF end_loop
<1>3. CASE sink_returns
  BY <1>3 DEF sink_returns
<1>4. CASE count_line
  BY <1>4 DEF count_line
<1> QED BY <1>1, <1>2, <1>3, <1>4 DEF WriterStep

(* Closing the handler and draining its queue. *)
LEMMA ShutdownInv ==
  ASSUME LogInv, RecordsAccounted,
         \/ shutdown_begin
         \/ ShutdownStep
         \/ close /\ attached' = FALSE /\ UNCHANGED draining
  PROVE  LogInv' /\ RecordsAccounted'
<1> USE BufferedLogAssumption
    DEF LogInv, RecordsAccounted, BufferedLogTypeOK, LogTypeOK, LockHeld, WriterStage, NothingLeftQueued,
        InHand, StartFailures, counters
<1>1. CASE shutdown_begin
  BY <1>1 DEF shutdown_begin, close, SetStopping
<1>2. CASE close /\ attached' = FALSE /\ UNCHANGED draining
  <2>1. lock = "free" /\ stopping' = TRUE /\ attached' = FALSE
        /\ UNCHANGED <<lock, queued, writer, emitting, counters, draining, emitted>>
    BY <1>2 DEF close, SetStopping
  <2>2. BufferedLogTypeOK'
    <3>1. attached' \in BOOLEAN /\ stopping' \in BOOLEAN
      BY <2>1, Zenon
    <3>2. LogTypeOK'
      BY <2>1
    <3> HIDE DEF LogTypeOK
    <3> QED BY <3>1, <3>2, Zenon
  <2>3. LockHeld' /\ WriterStage'
    BY <2>1
  <2>4. NothingLeftQueued' /\ RecordsAccounted'
    BY <2>1
  <2> QED BY <2>2, <2>3, <2>4
<1>3. CASE shutdown_stops_waiting
  BY <1>3 DEF shutdown_stops_waiting
<1>4. CASE shutdown_acquires
  BY <1>4 DEF shutdown_acquires, Thread
<1>5. CASE drain_line
  BY <1>5 DEF drain_line
<1>6. CASE shutdown_ends
  BY <1>6 DEF shutdown_ends
<1> HIDE DEF LogInv, RecordsAccounted
<1>7. CASE ShutdownStep
  BY <1>3, <1>4, <1>5, <1>6, <1>7 DEF ShutdownStep
<1> QED BY <1>1, <1>2, <1>7

-----------------------------------------------------------------------------
(* Every step of the lifespan is a step of the handler, or leaves it alone,*)
(* or only takes it away.                                                  *)
LEMMA NextLogInv ==
  ASSUME LogInv, RecordsAccounted, [Next]_vars
  PROVE  LogInv' /\ RecordsAccounted'
<1>1. CASE UNCHANGED logVars
  BY <1>1 DEF logVars, LogInv, RecordsAccounted, BufferedLogTypeOK, LogTypeOK, LockHeld, WriterStage,
              NothingLeftQueued, InHand, StartFailures, counters
<1>2. CASE start_logging
  <2> USE <1>2, BufferedLogAssumption
      DEF start_logging, configure_logging, LogInv, RecordsAccounted, BufferedLogTypeOK, LogTypeOK,
          LockHeld, WriterStage, NothingLeftQueued, InHand, StartFailures, counters
  <2>1. BufferedLogTypeOK'
    <3>1. attached' \in BOOLEAN /\ stopping' \in BOOLEAN
      BY Zenon
    <3>2. LogTypeOK'
      OBVIOUS
    <3> HIDE DEF LogTypeOK
    <3> QED BY <3>1, <3>2, Zenon
  <2>2. LockHeld' /\ WriterStage'
    OBVIOUS
  <2>3. NothingLeftQueued' /\ RecordsAccounted'
    OBVIOUS
  <2> HIDE DEF LogInv, RecordsAccounted
  <2> QED BY <2>1, <2>2, <2>3 DEF LogInv
<1>3. CASE \E t \in Thread : reach_handler(t) \/ EmitterStep(t)
  BY <1>3, EmitterInv
<1>4. CASE WriterStep \/ sink_returns
  BY <1>4, WriterInv
<1>5. CASE \/ shutdown_begin
           \/ ShutdownStep
           \/ close /\ attached' = FALSE /\ UNCHANGED draining
  BY <1>5, ShutdownInv
<1>6. CASE removeHandler
  BY <1>6 DEF removeHandler, LogInv, RecordsAccounted, BufferedLogTypeOK, LogTypeOK, LockHeld, WriterStage,
              NothingLeftQueued, InHand, StartFailures, counters
<1>7. CASE reconfigure
  BY <1>7, <1>5 DEF reconfigure
<1>8. CASE LifeStep
  <2>1. CASE create_redis_client \/ create_rate_limit_redis_client
    BY <2>1, <1>1 DEF create_redis_client, create_rate_limit_redis_client, Create
  <2>2. CASE LogEvent("started", "serving") \/ LogEvent("stopped", "remove")
    BY <2>2, <1>1, <1>3 DEF LogEvent, Thread
  <2>3. CASE close_redis_clients \/ dispose
    BY <2>3, <1>1 DEF close_redis_clients, dispose, Release
  <2>4. CASE begin_shutdown
    BY <2>4, <1>5 DEF begin_shutdown
  <2>5. CASE end_lifespan
    BY <2>5, <1>1 DEF end_lifespan
  <2> QED BY <1>2, <1>6, <1>8, <2>1, <2>2, <2>3, <2>4, <2>5 DEF LifeStep
<1>9. CASE serving_ends
  BY <1>9, <1>1 DEF serving_ends
<1>10. CASE UNCHANGED vars
  BY <1>10, <1>1 DEF vars
<1> QED BY <1>3, <1>4, <1>5, <1>7, <1>8, <1>9, <1>10 DEF Next, LogStep, Thread

(* What each stage of the lifespan has opened and closed. *)
LEMMA NextLifeInv == LifeInv /\ [Next]_vars => LifeInv'
<1> SUFFICES ASSUME LifeInv, [Next]_vars
             PROVE  LifeInv'
  OBVIOUS
<1> USE DEF LifeInv, LifespanTypeOK, OpenAt, Stage, Client
<1>1. CASE LifeStep
  <2>1. CASE start_logging
    BY <2>1 DEF start_logging, configure_logging, MainAt
  <2>2. CASE create_redis_client \/ create_rate_limit_redis_client
    BY <2>2 DEF create_redis_client, create_rate_limit_redis_client, Create, MainAt, logVars
  <2>3. CASE LogEvent("started", "serving") \/ LogEvent("stopped", "remove")
    BY <2>3 DEF LogEvent, reach_handler, MainAt, logVars
  <2>4. CASE close_redis_clients \/ dispose
    BY <2>4 DEF close_redis_clients, dispose, Release, MainAt, logVars
  <2>5. CASE removeHandler
    BY <2>5 DEF removeHandler, MainAt
  <2>6. CASE begin_shutdown
    BY <2>6 DEF begin_shutdown, shutdown_begin, MainAt
  <2>7. CASE end_lifespan
    BY <2>7 DEF end_lifespan, MainAt, logVars
  <2> QED BY <1>1, <2>1, <2>2, <2>3, <2>4, <2>5, <2>6, <2>7 DEF LifeStep
<1>2. CASE serving_ends
  BY <1>2 DEF serving_ends, logVars, MainAt
<1>3. CASE reconfigure
  BY <1>3 DEF reconfigure
<1>4. CASE \E t \in Thread : LogStep(reach_handler(t)) \/ LogStep(EmitterStep(t))
  <2>1. UNCHANGED <<life, opened, released, attached, draining>>
    BY <1>4 DEF LogStep, reach_handler, EmitterStep, emit, put_nowait
  <2> QED BY <2>1
<1>5. CASE LogStep(WriterStep) \/ LogStep(sink_returns)
  <2>1. UNCHANGED <<life, opened, released, attached, draining>>
    BY <1>5 DEF LogStep, WriterStep, take_line, end_loop, count_line, sink_returns
  <2> QED BY <2>1
<1>6. CASE LogStep(ShutdownStep)
  BY <1>6 DEF LogStep, ShutdownStep, shutdown_stops_waiting, shutdown_acquires, drain_line,
              shutdown_ends
<1>7. CASE UNCHANGED vars
  BY <1>7 DEF vars, logVars
<1> QED BY <1>1, <1>2, <1>3, <1>4, <1>5, <1>6, <1>7 DEF Next, Thread

\* The invariants of the handler and of the lifespan are inductive together.
LEMMA InductiveInv == Spec => [](LogInv /\ LifeInv /\ RecordsAccounted)
<1>1. (LogInv /\ LifeInv /\ RecordsAccounted) /\ [Next]_vars
        => (LogInv /\ LifeInv /\ RecordsAccounted)'
  BY NextLogInv, NextLifeInv
<1> QED BY <1>1, InitInv, PTL DEF Spec

-----------------------------------------------------------------------------
(* No call of emit() is lost from the counts of the handler.               *)
THEOREM NoRecordUncounted == Spec => []RecordsAccounted
  BY InductiveInv, PTL

(* No accepted line stays behind a writer that ended or a shutdown that    *)
(* returned.                                                               *)
THEOREM NoLineLeftBehind == Spec => []NothingLeftQueued
<1>1. LogInv => NothingLeftQueued
  BY DEF LogInv
<1> QED BY <1>1, InductiveInv, PTL

(* An ended lifespan has closed whatever it opened.                        *)
THEOREM NothingStaysOpen == Spec => []ResourcesReleased
<1>1. LifeInv => ResourcesReleased
  BY DEF LifeInv, OpenAt, ResourcesReleased
<1> QED BY <1>1, InductiveInv, PTL
=============================================================================
