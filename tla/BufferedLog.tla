---------------------------- MODULE BufferedLog ----------------------------
(***************************************************************************)
(* BufferedLogHandler of app/core/observability.py: threads that log put   *)
(* lines into a bounded queue, one daemon thread writes them to the sink,  *)
(* and a shutdown gives up on a sink that stays blocked.                   *)
(*                                                                         *)
(* The handler's lock is explicit.  emit() runs under it, close() and the  *)
(* final drain take it, and so does the writer, but only to count: never   *)
(* while it takes a line or writes one.  A line is abstracted to its place *)
(* in the counts: in the queue, in the writer's hand, or counted.          *)
(***************************************************************************)
EXTENDS Naturals, FiniteSets

CONSTANTS
  Emitter,       \* the threads that log
  Main,          \* the thread that runs the lifespan, which logs too
  Capacity,      \* Settings.log_queue_capacity
  MaxEmitted     \* bound: no other thread logs once so many calls were made

Thread == Emitter \cup {Main}

ASSUME BufferedLogAssumption ==
  /\ IsFiniteSet(Emitter)
  /\ Main \notin Emitter
  /\ "free" \notin Thread
  /\ Capacity \in Nat \ {0}      \* at most 10000 in the code
  /\ MaxEmitted \in Nat

VARIABLES
  attached,          \* the handler is in the logger's list
  lock,              \* who holds the handler's lock, or "free"
  stopping,          \* the event of that name
  queued,            \* the length of the queue
  writer,            \* the writer thread
  emitting,          \* where each thread is on its way through emit()
  written, dropped, write_failures, format_failures,
  draining,          \* the coroutine of shutdown()
  emitted            \* the calls of emit() that have returned (history)

counters == <<written, dropped, write_failures, format_failures>>
logVars == <<attached, lock, stopping, queued, writer, emitting, counters, draining, emitted>>

LogTypeOK ==
  /\ lock \in Thread \cup {"free"}
  /\ queued \in 0..Capacity
  /\ writer \in {"unstarted", "failed", "polling", "writing", "wrote", "lost", "ended"}
  /\ emitting \in [Thread -> {"idle", "reached", "locked"}]
  /\ written \in Nat /\ dropped \in Nat /\ write_failures \in Nat /\ format_failures \in Nat
  /\ draining \in {"no", "waiting", "acquiring", "draining", "done"}
  /\ emitted \in Nat

BufferedLogTypeOK == attached \in BOOLEAN /\ stopping \in BOOLEAN /\ LogTypeOK

BufferedLogInit ==
  /\ attached = FALSE
  /\ lock = "free"
  /\ stopping = FALSE
  /\ queued = 0
  /\ writer = "unstarted"
  /\ emitting = [t \in Thread |-> "idle"]
  /\ written = 0 /\ dropped = 0 /\ write_failures = 0 /\ format_failures = 0
  /\ draining = "no"
  /\ emitted = 0

-----------------------------------------------------------------------------
(* configure_logging: the handler starts its thread, which may fail, and   *)
(* replaces what the application's logger had.                             *)
configure_logging ==
  /\ writer = "unstarted"
  /\ attached' = TRUE
  /\ \/ writer' = "polling" /\ UNCHANGED <<stopping, write_failures>>
     \/ writer' = "failed" /\ stopping' = TRUE /\ write_failures' = write_failures + 1
  /\ UNCHANGED <<lock, queued, emitting, written, dropped, format_failures, draining, emitted>>

-----------------------------------------------------------------------------
(* Bound on the other threads' calls; those on their way count too. *)
EmissionsLeft(t) ==
  t = Main \/ emitted + Cardinality({u \in Thread : emitting[u] # "idle"}) < MaxEmitted

(* Logger.callHandlers has found the handler; it may be removed meanwhile. *)
reach_handler(t) ==
  /\ attached
  /\ emitting[t] = "idle"
  /\ EmissionsLeft(t)
  /\ emitting' = [emitting EXCEPT ![t] = "reached"]
  /\ UNCHANGED <<attached, lock, stopping, queued, writer, counters, draining, emitted>>

Return(t) ==
  /\ emitting' = [emitting EXCEPT ![t] = "idle"]
  /\ emitted' = emitted + 1
  /\ lock' = "free"

(* Handler.handle takes the lock; emit() looks at the event first. *)
emit(t) ==
  /\ emitting[t] = "reached"
  /\ lock = "free"
  /\ IF stopping
     THEN dropped' = dropped + 1 /\ Return(t)
     ELSE /\ lock' = t
          /\ emitting' = [emitting EXCEPT ![t] = "locked"]
          /\ UNCHANGED <<dropped, emitted>>
  /\ UNCHANGED <<attached, stopping, queued, writer, written, write_failures,
                 format_failures, draining>>

(* The line is queued, or it is too long, or the queue is full, or it      *)
(* cannot be formatted.                                                    *)
put_nowait(t) ==
  /\ emitting[t] = "locked"
  /\ \/ queued < Capacity /\ queued' = queued + 1 /\ UNCHANGED <<dropped, format_failures>>
     \/ dropped' = dropped + 1 /\ UNCHANGED <<queued, format_failures>>
     \/ format_failures' = format_failures + 1 /\ UNCHANGED <<queued, dropped>>
  /\ Return(t)
  /\ UNCHANGED <<attached, stopping, writer, written, write_failures, draining>>

-----------------------------------------------------------------------------
(* _write_loop: its condition, then a get() that may time out. *)
take_line ==
  /\ writer = "polling"
  /\ queued > 0
  /\ writer' = "writing"
  /\ queued' = queued - 1
  /\ UNCHANGED <<attached, lock, stopping, emitting, counters, draining, emitted>>

end_loop ==
  /\ writer = "polling"
  /\ stopping /\ queued = 0
  /\ writer' = "ended"
  /\ UNCHANGED <<attached, lock, stopping, queued, emitting, counters, draining, emitted>>

(* write() and flush() return, short or not, or raise; or they never do.   *)
sink_returns ==
  /\ writer = "writing"
  /\ writer' \in {"wrote", "lost"}
  /\ UNCHANGED <<attached, lock, stopping, queued, emitting, counters, draining, emitted>>

count_line ==
  /\ writer \in {"wrote", "lost"}
  /\ lock = "free"
  /\ writer' = "polling"
  /\ IF writer = "wrote"
     THEN written' = written + 1 /\ UNCHANGED write_failures
     ELSE write_failures' = write_failures + 1 /\ UNCHANGED written
  /\ UNCHANGED <<attached, lock, stopping, queued, emitting, dropped, format_failures,
                 draining, emitted>>

-----------------------------------------------------------------------------
SetStopping ==
  /\ stopping' = TRUE
  /\ UNCHANGED <<lock, queued, writer, emitting, counters, emitted>>

(* A bug: close() sets the event without the lock. *)
close_Unlocked == SetStopping

(* close() waits for a call of emit() that has seen the event unset. *)
close == lock = "free" /\ SetStopping

(* A bug: the thread is joined, however long its sink blocks. *)
shutdown_stops_waiting_JoinsWriter ==
  /\ draining = "waiting"
  /\ writer \in {"failed", "ended"}
  /\ draining' = "acquiring"
  /\ UNCHANGED <<attached, lock, stopping, queued, writer, emitting, counters, emitted>>

(* A bug: the lines thrown away at the deadline are not counted. *)
drain_line_Uncounted ==
  /\ draining = "draining"
  /\ queued > 0
  /\ queued' = queued - 1
  /\ UNCHANGED <<attached, lock, stopping, writer, emitting, counters, draining, emitted>>

(* shutdown() polls the thread until its deadline, which may be now, or    *)
(* until it is cancelled; what is still queued then is dropped.            *)
shutdown_begin == draining = "no" /\ draining' = "waiting" /\ close /\ UNCHANGED attached

shutdown_stops_waiting ==
  /\ draining = "waiting"
  /\ draining' = "acquiring"
  /\ UNCHANGED <<attached, lock, stopping, queued, writer, emitting, counters, emitted>>

shutdown_acquires ==
  /\ draining = "acquiring"
  /\ lock = "free"
  /\ lock' = Main
  /\ draining' = "draining"
  /\ UNCHANGED <<attached, stopping, queued, writer, emitting, counters, emitted>>

drain_line ==
  /\ draining = "draining"
  /\ queued > 0
  /\ queued' = queued - 1
  /\ dropped' = dropped + 1
  /\ UNCHANGED <<attached, lock, stopping, writer, emitting, written, write_failures,
                 format_failures, draining, emitted>>

shutdown_ends ==
  /\ draining = "draining"
  /\ queued = 0
  /\ lock' = "free"
  /\ draining' = "done"
  /\ UNCHANGED <<attached, stopping, queued, writer, emitting, counters, emitted>>

EmitterStep(t) == emit(t) \/ put_nowait(t)
WriterStep == take_line \/ end_loop \/ count_line
ShutdownStep == shutdown_stops_waiting \/ shutdown_acquires \/ drain_line \/ shutdown_ends

-----------------------------------------------------------------------------
InHand == IF writer \in {"writing", "wrote", "lost"} THEN 1 ELSE 0

(* write_failures also counts a thread that could not be started. *)
StartFailures == IF writer = "failed" THEN 1 ELSE 0

(* Every call of emit() that returned is in exactly one place: written, a  *)
(* counted loss, still queued, or in the writer's hand.  Neither a full    *)
(* queue nor a blocked or missing writer nor a shutdown that drains the    *)
(* queue beside the writer loses count.                                    *)
RecordsAccounted ==
  emitted + StartFailures =
    written + dropped + write_failures + format_failures + queued + InHand

(* A line that emit() accepted is never left behind: the writer ends only  *)
(* after the last one, and nothing enters the queue once it ended or the   *)
(* shutdown has returned.                                                  *)
NothingLeftQueued == writer \in {"failed", "ended"} \/ draining = "done" => queued = 0
=============================================================================
