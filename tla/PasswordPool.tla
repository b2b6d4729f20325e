---------------------------- MODULE PasswordPool ----------------------------
(***************************************************************************)
(* The Argon2 worker pool: PasswordManager._run_bounded in                 *)
(* app/core/security/passwords.py.                                         *)
(*                                                                         *)
(* A semaphore of MaxOperations slots, taken in the order of arrival.  A   *)
(* holder hands its operation to a native thread, which nothing can stop:  *)
(* a cancelled request keeps its slot until the thread has finished.  The  *)
(* thread is a variable of its own, so that a request that went away early *)
(* would still leave it running.                                           *)
(***************************************************************************)
EXTENDS Requests, Naturals, Sequences, FiniteSets

CONSTANT MaxOperations      \* Settings.argon2_max_concurrent_operations

ASSUME PasswordPoolAssumption ==
  /\ IsFiniteSet(Client)
  /\ MaxOperations \in 1..32

VARIABLES
  free,         \* the value of the semaphore
  waiters,      \* the requests whose acquire() has no slot yet, oldest first
  poolStep,     \* where each request is in _run_bounded
  thread,       \* the native thread that runs each request's operation
  cancelled     \* requests whose task was cancelled and has not ended

poolVars == <<free, waiters, poolStep, thread, cancelled>>

PasswordPoolTypeOK ==
  /\ free \in Nat
  /\ waiters \in Seq(Client)
  /\ poolStep \in [Client -> {"out", "waiting", "granted", "holding"}]
  /\ thread \in [Client -> {"none", "busy", "finished"}]
  /\ cancelled \subseteq Client

PasswordPoolInit ==
  /\ free = MaxOperations
  /\ waiters = <<>>
  /\ poolStep = [r \in Client |-> "out"]
  /\ thread = [r \in Client |-> "none"]
  /\ cancelled = {}

(* asyncio.Semaphore._wake_up_next, n times or while there are waiters: a  *)
(* slot goes to the oldest waiter before its task runs again.              *)
Wake(n, value, queue, step) ==
  LET k == IF n <= Len(queue) THEN n ELSE Len(queue)
      woken == {queue[i] : i \in 1..k}
  IN /\ free' = value - k
     /\ waiters' = SubSeq(queue, k + 1, Len(queue))
     /\ poolStep' = [r \in Client |-> IF r \in woken THEN "granted" ELSE step[r]]

(* A newcomer waits behind every earlier waiter, also behind one that has  *)
(* been given its slot and has not run yet.                                *)
PoolEnter(r) ==
  /\ poolStep[r] = "out"
  /\ IF free > 0 /\ waiters = <<>> /\ \A q \in Client : poolStep[q] # "granted"
     THEN /\ free' = free - 1
          /\ poolStep' = [poolStep EXCEPT ![r] = "holding"]
          /\ thread' = [thread EXCEPT ![r] = "busy"]
          /\ UNCHANGED waiters
     ELSE /\ waiters' = Append(waiters, r)
          /\ poolStep' = [poolStep EXCEPT ![r] = "waiting"]
          /\ UNCHANGED <<free, thread>>
  /\ UNCHANGED cancelled

(* The task of a waiter that was given a slot runs again.  One cancelled   *)
(* in between gives the slot back.                                         *)
PoolResume(r) ==
  /\ poolStep[r] = "granted"
  /\ IF r \in cancelled
     THEN /\ Wake(free + 1, free + 1, waiters, [poolStep EXCEPT ![r] = "out"])
          /\ cancelled' = cancelled \ {r}
          /\ UNCHANGED thread
     ELSE /\ Wake(free, free, waiters, [poolStep EXCEPT ![r] = "holding"])
          /\ thread' = [thread EXCEPT ![r] = "busy"]
          /\ UNCHANGED cancelled

ThreadFinishes(r) ==
  /\ thread[r] = "busy"
  /\ thread' = [thread EXCEPT ![r] = "finished"]
  /\ UNCHANGED <<free, waiters, poolStep, cancelled>>

(* A bug: the worker is awaited and its slot not given back. *)
PoolLeave_SlotLost(r) ==
  /\ poolStep[r] = "holding"
  /\ thread[r] = "finished"
  /\ Wake(0, free, waiters, [poolStep EXCEPT ![r] = "out"])
  /\ thread' = [thread EXCEPT ![r] = "none"]
  /\ cancelled' = cancelled \ {r}

(* Leaving `async with`: the worker is done and the slot released. *)
PoolLeave(r) ==
  /\ poolStep[r] = "holding"
  /\ thread[r] = "finished"
  /\ Wake(1, free + 1, waiters, [poolStep EXCEPT ![r] = "out"])
  /\ thread' = [thread EXCEPT ![r] = "none"]
  /\ cancelled' = cancelled \ {r}

(* A bug: the worker is not shielded, so that a cancelled holder frees its *)
(* slot while its thread goes on.                                          *)
PoolCancel_Unshielded(r) ==
  /\ poolStep[r] \in {"waiting", "holding"}
  /\ Wake(1, free + (IF poolStep[r] = "holding" THEN 1 ELSE 0),
          SelectSeq(waiters, LAMBDA q : q # r), [poolStep EXCEPT ![r] = "out"])
  /\ UNCHANGED <<thread, cancelled>>

(* A waiter leaves at once; a holder goes round the shield loop, as often  *)
(* as it is cancelled, and leaves when its worker is done.                 *)
PoolCancel(r) ==
  \/ /\ poolStep[r] = "waiting"
     /\ \E i \in 1..Len(waiters) :
          /\ waiters[i] = r
          /\ Wake(free, free,
                  SubSeq(waiters, 1, i - 1) \o SubSeq(waiters, i + 1, Len(waiters)),
                  [poolStep EXCEPT ![r] = "out"])
     /\ UNCHANGED <<thread, cancelled>>
  \/ /\ poolStep[r] \in {"granted", "holding"}
     /\ cancelled' = cancelled \cup {r}
     /\ UNCHANGED <<free, waiters, poolStep, thread>>

PoolAdvance(r) == PoolResume(r) \/ ThreadFinishes(r) \/ PoolLeave(r)

PasswordPoolNext == \E r \in Client : PoolEnter(r) \/ PoolAdvance(r) \/ PoolCancel(r)

(* Never more native Argon2 threads than MAX_CONCURRENT operations: a      *)
(* cancelled request does not give its slot away while its thread runs.    *)
WorkersBounded == Cardinality({r \in Client : thread[r] = "busy"}) <= MaxOperations
=============================================================================
