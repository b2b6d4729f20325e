----------------------------- MODULE RateLimit -----------------------------
(***************************************************************************)
(* The fixed-window quotas: app/core/security/rate_limit.py over Redis.    *)
(*                                                                         *)
(* A bucket is one policy with one subject (an address or a user): one     *)
(* Redis key.  Each script is one atomic step.  Both comparisons tell a    *)
(* counter at its limit from the higher ones in nothing, so it stays there.*)
(***************************************************************************)
EXTENDS Naturals

CONSTANTS Bucket, Limit      \* Limit[b]: the calls admitted in one window of b

ASSUME RateLimitAssumption == Limit \in [Bucket -> Nat \ {0}]

VARIABLES
  count,      \* the counter of each bucket's window, 0 when there is none
  granted     \* how many callers were let through in this window (history)

rateVars == <<count, granted>>

RateLimitTypeOK ==
  /\ count \in [Bucket -> Nat]
  /\ \A b \in Bucket : count[b] <= Limit[b]
  /\ granted \in [Bucket -> Nat]

RateLimitInit ==
  /\ count = [b \in Bucket |-> 0]
  /\ granted = [b \in Bucket |-> 0]

(* INCR: the first call of a window creates it with its expiry. *)
Increment(b) == count' = [count EXCEPT ![b] = IF @ >= Limit[b] THEN @ ELSE @ + 1]

(* A bug: the counter is compared as if it did not include this call. *)
check_allows_BeforeThisCall(b) == count[b] <= Limit[b]

(* _parse_result: the counter includes this call. *)
check_allows(b) == count[b] + 1 <= Limit[b]

(* _parse_inspection: whether the next call can be admitted. *)
inspect_allows(b) == count[b] < Limit[b]

ChargeGranted(b) ==
  /\ check_allows(b)
  /\ Increment(b)
  /\ granted' = [granted EXCEPT ![b] = @ + 1]

ChargeDenied(b) ==
  /\ ~check_allows(b)
  /\ Increment(b)
  /\ UNCHANGED granted

(* RedisError: the script did not run, or its reply was lost. *)
ChargeFails(b) == (Increment(b) \/ UNCHANGED count) /\ UNCHANGED granted

WindowExpires(b) ==
  /\ count[b] > 0
  /\ count' = [count EXCEPT ![b] = 0]
  /\ granted' = [granted EXCEPT ![b] = 0]

(* No window lets more callers through than its limit, however many of     *)
(* them had seen room in an earlier inspection and whatever replies were   *)
(* lost: a lost reply only costs quota.                                    *)
QuotaKept == \A b \in Bucket : granted[b] <= Limit[b]
=============================================================================
