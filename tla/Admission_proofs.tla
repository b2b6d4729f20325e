-------------------------- MODULE Admission_proofs --------------------------
(***************************************************************************)
(* Proofs about Admission, for any number of requests, challenges, scopes, *)
(* buckets and Argon2 slots.  The Argon2 pool comes first, then the quota, *)
(* the CAPTCHA store with its refinement, and the requests that join them. *)
(***************************************************************************)
EXTENDS Admission, FiniteSetTheorems, SequenceTheorems, TLAPS

-----------------------------------------------------------------------------
(* The Argon2 pool *)

PoolSteps == {"out", "waiting", "granted", "holding"}

\* The requests that own a slot at the given steps.
Held(step) == {r \in Client : step[r] \in {"granted", "holding"}}

\* A queue of distinct requests, each of them waiting at the given steps.
WaitingQueue(queue, step) ==
    /\ \A i \in 1..Len(queue) : step[queue[i]] = "waiting"
    /\ \A i, j \in 1..Len(queue) : i # j => queue[i] # queue[j]

\* Whoever waits is in the queue, so that a release finds it.
AllQueued(queue, step) ==
    \A r \in Client : step[r] = "waiting" => \E i \in 1..Len(queue) : queue[i] = r

\* Nobody waits beside a free slot, unless somebody woken is about to pass it on.
NoLostWakeup == free > 0 /\ waiters # <<>> => \E r \in Client : poolStep[r] = "granted"

PoolInv ==
    /\ PasswordPoolTypeOK
    /\ WaitingQueue(waiters, poolStep)
    /\ \A r \in Client : thread[r] = "busy" => poolStep[r] = "holding"
    /\ AllQueued(waiters, poolStep)
    /\ NoLostWakeup
    /\ free + Cardinality(Held(poolStep)) = MaxOperations

\* Who owns a slot is a finite set.
LEMMA HeldFinite ==
    ASSUME NEW step
    PROVE  IsFiniteSet(Held(step)) /\ Cardinality(Held(step)) \in Nat
<1>1. IsFiniteSet(Held(step))
  BY PasswordPoolAssumption, FS_Subset DEF Held
<1>2. QED
  BY <1>1, FS_CardinalityType

\* The first k of a queue of distinct requests are k requests.
LEMMA WokenCount ==
    ASSUME NEW queue \in Seq(Client), NEW k \in 0..Len(queue),
           \A i, j \in 1..Len(queue) : i # j => queue[i] # queue[j]
    PROVE  /\ IsFiniteSet({queue[i] : i \in 1..k})
           /\ Cardinality({queue[i] : i \in 1..k}) = k
<1> DEFINE T == {queue[i] : i \in 1..k}
           f == [i \in 1..k |-> queue[i]]
<1>1. f \in Surjection(1..k, T)
  BY DEF Surjection
<1>2. f \in Injection(1..k, T)
  <2>1. f \in [1..k -> T]
    OBVIOUS
  <2>2. ASSUME NEW i \in 1..k, NEW j \in 1..k, f[i] = f[j] PROVE i = j
    <3>1. i \in 1..Len(queue) /\ j \in 1..Len(queue) /\ queue[i] = queue[j]
      BY <2>2
    <3> QED
      BY <3>1
  <2> HIDE DEF T, f
  <2> QED
    BY <2>1, <2>2 DEF Injection, IsInjective
<1>3. IsFiniteSet(1..k) /\ Cardinality(1..k) = k
  BY FS_Interval
<1> HIDE DEF T, f
<1>4. IsFiniteSet(T) /\ Cardinality(T) = k
  BY <1>1, <1>2, <1>3, FS_Surjection
<1>5. QED
  BY <1>4 DEF T

\* Handing slots over keeps the queue a queue and makes no slot.
LEMMA WakeKeeps ==
    ASSUME NEW value \in Nat, NEW n \in 0..value, NEW queue \in Seq(Client),
           NEW step \in [Client -> PoolSteps], WaitingQueue(queue, step),
           AllQueued(queue, step), n = value \/ n > 0,
           value + Cardinality(Held(step)) = MaxOperations,
           Wake(n, value, queue, step)
    PROVE  /\ free' \in Nat
           /\ waiters' \in Seq(Client)
           /\ poolStep' \in [Client -> PoolSteps]
           /\ WaitingQueue(waiters', poolStep') /\ AllQueued(waiters', poolStep')
           /\ NoLostWakeup'
           /\ \A r \in Client : step[r] # "waiting" => poolStep'[r] = step[r]
           /\ free' + Cardinality(Held(poolStep')) = MaxOperations
<1> DEFINE k == IF n <= Len(queue) THEN n ELSE Len(queue)
           woken == {queue[i] : i \in 1..k}
<1>1. /\ k \in 0..Len(queue) /\ k <= value /\ k \in Nat
  OBVIOUS
<1>2. /\ free' = value - k
      /\ waiters' = SubSeq(queue, k + 1, Len(queue))
      /\ poolStep' = [r \in Client |-> IF r \in woken THEN "granted" ELSE step[r]]
  BY DEF Wake
<1> HIDE DEF k
<1>3. free' \in Nat /\ poolStep' \in [Client -> PoolSteps]
  BY <1>1, <1>2 DEF PoolSteps
<1>4. /\ waiters' \in Seq(Client)
      /\ Len(waiters') = Len(queue) - k
      /\ \A i \in 1..Len(waiters') : waiters'[i] = queue[i + k] /\ i + k \in 1..Len(queue)
  <2>0. k \in Int /\ k + 1 \in 1..(Len(queue) + 1) /\ Len(queue) \in Nat
    BY <1>1
  <2>1. waiters' \in Seq(Client) /\ Len(waiters') = Len(queue) - k
    BY <2>0, <1>2, SubSeqProperties
  <2>2. \A i \in 1..Len(waiters') : waiters'[i] = queue[i + k] /\ i + k \in 1..Len(queue)
    BY <2>0, <2>1, <1>2, SubSeqProperties
  <2>3. QED
    BY <2>1, <2>2
<1>5. \A i \in 1..Len(waiters') : waiters'[i] \notin woken /\ waiters'[i] \in Client
  <2> SUFFICES ASSUME NEW i \in 1..Len(waiters') PROVE waiters'[i] \notin woken /\ waiters'[i] \in Client
    OBVIOUS
  <2>1. waiters'[i] = queue[i + k] /\ i + k \in 1..Len(queue) /\ i + k > k
    BY <1>1, <1>4
  <2>2. \A j \in 1..k : queue[j] # queue[i + k]
    BY <1>1, <2>1 DEF WaitingQueue
  <2>3. QED
    BY <2>1, <2>2
<1>6. WaitingQueue(waiters', poolStep')
  <2>1. ASSUME NEW i \in 1..Len(waiters') PROVE poolStep'[waiters'[i]] = "waiting"
    <3>1. waiters'[i] \in Client /\ waiters'[i] \notin woken
      BY <1>5
    <3>2. poolStep'[waiters'[i]] = step[waiters'[i]]
      BY <3>1, <1>2
    <3>3. waiters'[i] = queue[i + k] /\ i + k \in 1..Len(queue)
      BY <1>4
    <3>4. QED
      BY <3>2, <3>3 DEF WaitingQueue
  <2>2. ASSUME NEW i \in 1..Len(waiters'), NEW j \in 1..Len(waiters'), i # j
        PROVE  waiters'[i] # waiters'[j]
    <3>0. i + k # j + k
      BY <1>1, <1>4, <2>2
    <3>1. /\ waiters'[i] = queue[i + k] /\ i + k \in 1..Len(queue)
          /\ waiters'[j] = queue[j + k] /\ j + k \in 1..Len(queue)
          /\ i + k # j + k
      BY <1>4, <3>0
    <3>2. QED
      BY <3>1 DEF WaitingQueue
  <2>3. QED
    BY <2>1, <2>2 DEF WaitingQueue
<1>7. \A r \in Client : step[r] # "waiting" => poolStep'[r] = step[r]
  <2>1. \A r \in woken : step[r] = "waiting"
    BY <1>1 DEF WaitingQueue
  <2>2. QED
    BY <1>2, <2>1
<1>8. free' + Cardinality(Held(poolStep')) = MaxOperations
  <2>1. Held(poolStep') = Held(step) \cup woken
    <3>1. woken \subseteq Client
      BY <1>1
    <3>2. QED
      BY <1>2, <3>1 DEF Held
  <2>2. Held(step) \cap woken = {}
    BY <1>1 DEF Held, WaitingQueue
  <2>3. IsFiniteSet(woken) /\ Cardinality(woken) = k
    BY <1>1, WokenCount DEF WaitingQueue
  <2> HIDE DEF woken
  <2>4. IsFiniteSet(Held(step)) /\ Cardinality(Held(step)) \in Nat
    BY HeldFinite
  <2>5. Cardinality(Held(poolStep')) = Cardinality(Held(step)) + k - Cardinality({})
    BY <2>1, <2>2, <2>3, <2>4, FS_Union
  <2>6. Cardinality({}) = 0
    BY FS_EmptySet
  <2>7. QED
    BY <1>1, <1>2, <2>4, <2>5, <2>6, PasswordPoolAssumption
<1>9. AllQueued(waiters', poolStep')
  <2> SUFFICES ASSUME NEW r \in Client, poolStep'[r] = "waiting"
               PROVE  \E i \in 1..Len(waiters') : waiters'[i] = r
    BY DEF AllQueued
  <2>1. r \notin woken /\ step[r] = "waiting"
    BY <1>2
  <2>2. PICK j \in 1..Len(queue) : queue[j] = r
    BY <2>1 DEF AllQueued
  <2>3. j \notin 1..k
    BY <2>1, <2>2
  <2>4. j - k \in 1..Len(waiters') /\ (j - k) + k = j
    BY <1>1, <1>4, <2>3
  <2>5. waiters'[j - k] = queue[j]
    BY <1>4, <2>4
  <2> QED
    BY <2>2, <2>4, <2>5
<1>10. NoLostWakeup'
  <2> SUFFICES ASSUME free' > 0, waiters' # <<>>
               PROVE  \E r \in Client : poolStep'[r] = "granted"
    BY DEF NoLostWakeup
  <2>1. Len(waiters') # 0
    BY <1>4
  <2>2. k = n
    BY <1>1, <1>4, <2>1 DEF k
  <2>3. k > 0
    BY <1>1, <1>2, <2>2
  <2>4. 1 \in 1..k /\ queue[1] \in Client
    BY <1>1, <2>3
  <2>5. queue[1] \in woken
    BY <2>4
  <2> QED
    BY <1>2, <2>4, <2>5
<1> QED
  BY <1>3, <1>4, <1>6, <1>7, <1>8, <1>9, <1>10

\* Slots freed or taken one at a time.
LEMMA HeldOne ==
    ASSUME NEW step \in [Client -> PoolSteps], NEW r \in Client, NEW to \in PoolSteps
    PROVE  LET held == Held([step EXCEPT ![r] = to]) IN
           /\ to \in {"granted", "holding"} =>
                Cardinality(held) = IF r \in Held(step) THEN Cardinality(Held(step))
                                    ELSE Cardinality(Held(step)) + 1
           /\ to \notin {"granted", "holding"} =>
                Cardinality(held) = IF r \in Held(step) THEN Cardinality(Held(step)) - 1
                                    ELSE Cardinality(Held(step))
           /\ to \in {"granted", "holding"} /\ r \in Held(step) => held = Held(step)
<1> DEFINE held == Held([step EXCEPT ![r] = to])
<1>0. IsFiniteSet(Held(step)) /\ Cardinality(Held(step)) \in Nat
  BY HeldFinite
<1>1. CASE to \in {"granted", "holding"}
  <2>1. held = Held(step) \cup {r}
    BY <1>1 DEF Held
  <2>2. r \in Held(step) => held = Held(step)
    BY <2>1
  <2> HIDE DEF held
  <2>3. Cardinality(held) = IF r \in Held(step) THEN Cardinality(Held(step))
                            ELSE Cardinality(Held(step)) + 1
    BY <1>0, <2>1, FS_AddElement
  <2>4. QED
    BY <1>1, <2>2, <2>3 DEF held
<1>2. CASE to \notin {"granted", "holding"}
  <2>1. held = Held(step) \ {r}
    BY <1>2 DEF Held
  <2> HIDE DEF held
  <2>2. Cardinality(held) = IF r \in Held(step) THEN Cardinality(Held(step)) - 1
                            ELSE Cardinality(Held(step))
    BY <1>0, <2>1, FS_RemoveElement
  <2>3. QED
    BY <1>2, <2>2 DEF held
<1>3. QED
  BY <1>1, <1>2

\* A queue keeps its waiters when one that is not in it moves.
LEMMA QueueOfOthers ==
    ASSUME NEW step \in [Client -> PoolSteps], NEW queue \in Seq(Client), NEW r \in Client,
           NEW to \in PoolSteps, WaitingQueue(queue, step), step[r] # "waiting"
    PROVE  /\ WaitingQueue(queue, [step EXCEPT ![r] = to])
           /\ AllQueued(queue, step) /\ to # "waiting" =>
                AllQueued(queue, [step EXCEPT ![r] = to])
<1>1. WaitingQueue(queue, [step EXCEPT ![r] = to])
  BY DEF WaitingQueue
<1>2. ASSUME AllQueued(queue, step), to # "waiting"
      PROVE  AllQueued(queue, [step EXCEPT ![r] = to])
  BY <1>2 DEF AllQueued
<1> QED
  BY <1>1, <1>2

\* No request enters or leaves the pool but the one that moves.
OthersStayOut(r) ==
    \A q \in Client : poolStep[q] = "out" /\ q # r => poolStep'[q] = "out"

LEMMA EnterKeeps ==
    ASSUME PoolInv, NEW r \in Client, PoolEnter(r)
    PROVE  PoolInv' /\ OthersStayOut(r)
<1>0. /\ PasswordPoolTypeOK /\ WaitingQueue(waiters, poolStep)
      /\ poolStep \in [Client -> PoolSteps] /\ poolStep[r] = "out"
      /\ AllQueued(waiters, poolStep) /\ NoLostWakeup
      /\ free + Cardinality(Held(poolStep)) = MaxOperations
      /\ \A q \in Client : thread[q] = "busy" => poolStep[q] = "holding"
  BY DEF PoolInv, PoolEnter, PasswordPoolTypeOK, PoolSteps
<1>00. MaxOperations \in Nat /\ free \in Nat /\ Cardinality(Held(poolStep)) \in Nat
  BY <1>0, HeldFinite, PasswordPoolAssumption DEF PasswordPoolTypeOK
<1>1. CASE free > 0 /\ waiters = <<>> /\ \A q \in Client : poolStep[q] # "granted"
  <2>1. /\ free' = free - 1 /\ waiters' = waiters /\ cancelled' = cancelled
        /\ poolStep' = [poolStep EXCEPT ![r] = "holding"]
        /\ thread' = [thread EXCEPT ![r] = "busy"]
    BY <1>1 DEF PoolEnter
  <2>2. PasswordPoolTypeOK'
    BY <1>0, <1>1, <2>1 DEF PasswordPoolTypeOK
  <2>3. WaitingQueue(waiters', poolStep')
    BY <1>0, <2>1, QueueOfOthers DEF PoolSteps, PasswordPoolTypeOK
  <2>4. Cardinality(Held(poolStep')) = Cardinality(Held(poolStep)) + 1
    <3>1. r \notin Held(poolStep)
      BY <1>0 DEF Held
    <3>2. QED
      BY <1>0, <2>1, <3>1, HeldOne DEF PoolSteps
  <2>4a. AllQueued(waiters', poolStep') /\ NoLostWakeup'
    BY <1>0, <1>1, <2>1, QueueOfOthers DEF PoolSteps, PasswordPoolTypeOK, NoLostWakeup
  <2>5. free' + Cardinality(Held(poolStep')) = MaxOperations
    BY <1>0, <1>00, <1>1, <2>1, <2>4
  <2>6. \A q \in Client : thread'[q] = "busy" => poolStep'[q] = "holding"
    BY <1>0, <2>1 DEF PasswordPoolTypeOK
  <2>7. QED
    BY <1>0, <2>1, <2>2, <2>3, <2>4a, <2>5, <2>6 DEF PoolInv, OthersStayOut
<1>2. CASE ~(free > 0 /\ waiters = <<>> /\ \A q \in Client : poolStep[q] # "granted")
  <2>1. /\ free' = free /\ waiters' = Append(waiters, r) /\ cancelled' = cancelled
        /\ poolStep' = [poolStep EXCEPT ![r] = "waiting"]
        /\ thread' = thread
    BY <1>2 DEF PoolEnter
  <2>2. PasswordPoolTypeOK'
    BY <1>0, <2>1 DEF PasswordPoolTypeOK
  <2>3. WaitingQueue(waiters', poolStep')
    BY <1>0, <2>1 DEF WaitingQueue, PasswordPoolTypeOK
  <2>4. Cardinality(Held(poolStep')) = Cardinality(Held(poolStep))
    <3>1. r \notin Held(poolStep)
      BY <1>0 DEF Held
    <3>2. QED
      BY <1>0, <2>1, <3>1, HeldOne DEF PoolSteps
  <2>5. \A q \in Client : thread'[q] = "busy" => poolStep'[q] = "holding"
    BY <1>0, <2>1 DEF PasswordPoolTypeOK
  <2>6. AllQueued(waiters', poolStep')
    <3> SUFFICES ASSUME NEW q \in Client, poolStep'[q] = "waiting"
                 PROVE  \E i \in 1..Len(waiters') : waiters'[i] = q
      BY DEF AllQueued
    <3>0. waiters \in Seq(Client) /\ waiters' = Append(waiters, r)
      BY <1>0, <2>1 DEF PasswordPoolTypeOK
    <3>1. CASE q = r
      <4>1. Len(waiters') = Len(waiters) + 1 /\ waiters'[Len(waiters) + 1] = r
        BY <3>0
      <4> QED
        BY <3>0, <3>1, <4>1
    <3>2. CASE q # r
      <4>1. PICK i \in 1..Len(waiters) : waiters[i] = q
        BY <1>0, <2>1, <3>2 DEF AllQueued
      <4>2. i \in 1..Len(waiters') /\ waiters'[i] = q
        BY <3>0, <4>1
      <4> QED
        BY <4>2
    <3> QED
      BY <3>1, <3>2
  <2>7. NoLostWakeup'
    <3> SUFFICES ASSUME free' > 0 PROVE \E q \in Client : poolStep'[q] = "granted"
      BY DEF NoLostWakeup
    <3>1. PICK q \in Client : poolStep[q] = "granted"
      BY <1>0, <1>2, <2>1 DEF NoLostWakeup
    <3> QED
      BY <1>0, <2>1, <3>1
  <2>8. QED
    BY <1>0, <2>1, <2>2, <2>3, <2>4, <2>5, <2>6, <2>7 DEF PoolInv, OthersStayOut
<1>3. QED
  BY <1>1, <1>2

LEMMA ResumeKeeps ==
    ASSUME PoolInv, NEW r \in Client, PoolResume(r)
    PROVE  PoolInv' /\ OthersStayOut(r)
<1>0. /\ PasswordPoolTypeOK /\ WaitingQueue(waiters, poolStep)
      /\ poolStep \in [Client -> PoolSteps] /\ poolStep[r] = "granted"
      /\ waiters \in Seq(Client) /\ r \in Held(poolStep)
      /\ AllQueued(waiters, poolStep) /\ NoLostWakeup
      /\ free + Cardinality(Held(poolStep)) = MaxOperations
      /\ \A q \in Client : thread[q] = "busy" => poolStep[q] = "holding"
  BY DEF PoolInv, PoolResume, PasswordPoolTypeOK, PoolSteps, Held
<1>00. MaxOperations \in Nat /\ free \in Nat /\ Cardinality(Held(poolStep)) \in Nat
  BY <1>0, HeldFinite, PasswordPoolAssumption DEF PasswordPoolTypeOK
<1>1. CASE r \in cancelled
  <2> DEFINE step == [poolStep EXCEPT ![r] = "out"]
  <2>1. Wake(free + 1, free + 1, waiters, step) /\ cancelled' = cancelled \ {r}
        /\ thread' = thread
    BY <1>1 DEF PoolResume
  <2>2. step \in [Client -> PoolSteps] /\ WaitingQueue(waiters, step) /\ AllQueued(waiters, step)
    BY <1>0, QueueOfOthers DEF PoolSteps
  <2>3. Cardinality(Held(step)) = Cardinality(Held(poolStep)) - 1
    BY <1>0, HeldOne DEF PoolSteps
  <2>4. free + 1 + Cardinality(Held(step)) = MaxOperations /\ free + 1 \in Nat
    BY <1>0, <1>00, <2>3
  <2>5. /\ \A q \in Client : thread[q] = "busy" => step[q] = "holding"
        /\ \A q \in Client : q # r => step[q] = poolStep[q]
    BY <1>0
  <2> HIDE DEF step
  <2>6. /\ free' \in Nat /\ waiters' \in Seq(Client) /\ poolStep' \in [Client -> PoolSteps]
        /\ WaitingQueue(waiters', poolStep') /\ AllQueued(waiters', poolStep') /\ NoLostWakeup'
        /\ \A q \in Client : step[q] # "waiting" => poolStep'[q] = step[q]
        /\ free' + Cardinality(Held(poolStep')) = MaxOperations
    <3>1. free + 1 \in 0..(free + 1)
      BY <1>00
    <3>2. QED
      BY <1>0, <2>1, <2>2, <2>4, <3>1, WakeKeeps
  <2>7. PasswordPoolTypeOK'
    BY <1>0, <2>1, <2>6 DEF PasswordPoolTypeOK, PoolSteps
  <2>8. QED
    BY <2>1, <2>5, <2>6, <2>7 DEF PoolInv, OthersStayOut
<1>2. CASE r \notin cancelled
  <2> DEFINE step == [poolStep EXCEPT ![r] = "holding"]
  <2>1. Wake(free, free, waiters, step) /\ cancelled' = cancelled
        /\ thread' = [thread EXCEPT ![r] = "busy"]
    BY <1>2 DEF PoolResume
  <2>2. step \in [Client -> PoolSteps] /\ WaitingQueue(waiters, step) /\ AllQueued(waiters, step)
    BY <1>0, QueueOfOthers DEF PoolSteps
  <2>3. Held(step) = Held(poolStep)
    BY <1>0, HeldOne DEF PoolSteps
  <2>5. /\ \A q \in Client : thread'[q] = "busy" => step[q] = "holding"
        /\ \A q \in Client : q # r => step[q] = poolStep[q]
    BY <1>0, <2>1 DEF PasswordPoolTypeOK
  <2> HIDE DEF step
  <2>6. /\ free' \in Nat /\ waiters' \in Seq(Client) /\ poolStep' \in [Client -> PoolSteps]
        /\ WaitingQueue(waiters', poolStep') /\ AllQueued(waiters', poolStep') /\ NoLostWakeup'
        /\ \A q \in Client : step[q] # "waiting" => poolStep'[q] = step[q]
        /\ free' + Cardinality(Held(poolStep')) = MaxOperations
    <3>1. free \in 0..free /\ free + Cardinality(Held(step)) = MaxOperations
      BY <1>0, <1>00, <2>3
    <3>2. QED
      BY <1>0, <1>00, <2>1, <2>2, <3>1, WakeKeeps
  <2>7. PasswordPoolTypeOK'
    BY <1>0, <2>1, <2>6 DEF PasswordPoolTypeOK, PoolSteps
  <2>8. QED
    BY <2>1, <2>5, <2>6, <2>7 DEF PoolInv, OthersStayOut
<1>3. QED
  BY <1>1, <1>2

LEMMA FinishKeeps ==
    ASSUME PoolInv, NEW r \in Client, ThreadFinishes(r)
    PROVE  PoolInv' /\ OthersStayOut(r)
BY DEF PoolInv, ThreadFinishes, PasswordPoolTypeOK, OthersStayOut, AllQueued, NoLostWakeup

LEMMA LeaveKeeps ==
    ASSUME PoolInv, NEW r \in Client, PoolLeave(r)
    PROVE  PoolInv' /\ OthersStayOut(r) /\ poolStep'[r] = "out"
<1>0. /\ PasswordPoolTypeOK /\ WaitingQueue(waiters, poolStep)
      /\ poolStep \in [Client -> PoolSteps] /\ poolStep[r] = "holding"
      /\ waiters \in Seq(Client) /\ r \in Held(poolStep)
      /\ AllQueued(waiters, poolStep) /\ NoLostWakeup
      /\ free + Cardinality(Held(poolStep)) = MaxOperations
      /\ \A q \in Client : thread[q] = "busy" => poolStep[q] = "holding"
  BY DEF PoolInv, PoolLeave, PasswordPoolTypeOK, PoolSteps, Held
<1>00. MaxOperations \in Nat /\ free \in Nat /\ Cardinality(Held(poolStep)) \in Nat
  BY <1>0, HeldFinite, PasswordPoolAssumption DEF PasswordPoolTypeOK
<1> DEFINE step == [poolStep EXCEPT ![r] = "out"]
<1>1. Wake(1, free + 1, waiters, step) /\ cancelled' = cancelled \ {r}
      /\ thread' = [thread EXCEPT ![r] = "none"]
  BY DEF PoolLeave
<1>2. step \in [Client -> PoolSteps] /\ WaitingQueue(waiters, step) /\ AllQueued(waiters, step)
  BY <1>0, QueueOfOthers DEF PoolSteps
<1>3. Cardinality(Held(step)) = Cardinality(Held(poolStep)) - 1
  BY <1>0, HeldOne DEF PoolSteps
<1>4. free + 1 + Cardinality(Held(step)) = MaxOperations /\ free + 1 \in Nat
  BY <1>0, <1>00, <1>3
<1>5. /\ \A q \in Client : thread'[q] = "busy" => step[q] = "holding"
      /\ \A q \in Client : q # r => step[q] = poolStep[q]
      /\ step[r] = "out"
  BY <1>0, <1>1 DEF PasswordPoolTypeOK
<1> HIDE DEF step
<1>6. /\ free' \in Nat /\ waiters' \in Seq(Client) /\ poolStep' \in [Client -> PoolSteps]
      /\ WaitingQueue(waiters', poolStep') /\ AllQueued(waiters', poolStep') /\ NoLostWakeup'
      /\ \A q \in Client : step[q] # "waiting" => poolStep'[q] = step[q]
      /\ free' + Cardinality(Held(poolStep')) = MaxOperations
  <2>1. 1 \in 0..(free + 1)
    BY <1>00
  <2>2. QED
    BY <1>0, <1>1, <1>2, <1>4, <2>1, WakeKeeps
<1>7. PasswordPoolTypeOK'
  BY <1>0, <1>1, <1>6 DEF PasswordPoolTypeOK, PoolSteps
<1>8. QED
  BY <1>1, <1>5, <1>6, <1>7 DEF PoolInv, OthersStayOut

\* Taking one waiter out of the queue leaves a queue of the others.
LEMMA QueueWithout ==
    ASSUME NEW queue \in Seq(Client), NEW step \in [Client -> PoolSteps],
           WaitingQueue(queue, step), NEW i \in 1..Len(queue), NEW to \in PoolSteps
    PROVE  LET rest == SubSeq(queue, 1, i - 1) \o SubSeq(queue, i + 1, Len(queue)) IN
           /\ rest \in Seq(Client) /\ WaitingQueue(rest, [step EXCEPT ![queue[i]] = to])
           /\ AllQueued(queue, step) /\ to # "waiting" =>
                AllQueued(rest, [step EXCEPT ![queue[i]] = to])
<1> DEFINE front == SubSeq(queue, 1, i - 1)
           back == SubSeq(queue, i + 1, Len(queue))
           rest == front \o back
           at(j) == IF j < i THEN j ELSE j + 1
<1>0. /\ i \in Int /\ i - 1 \in Int /\ i + 1 \in Int /\ Len(queue) \in Nat
      /\ \A j \in 1..Len(queue) : queue[j] \in Client
  OBVIOUS
<1>1. /\ front \in Seq(Client) /\ Len(front) = i - 1
      /\ \A j \in 1..(i - 1) : front[j] = queue[j]
  <2>1. \A j \in 1..(i - 1) : queue[j] \in Client
    BY <1>0
  <2>2. /\ front \in Seq(Client)
        /\ Len(front) = IF 1 <= i - 1 THEN i - 1 - 1 + 1 ELSE 0
        /\ \A j \in 1..(i - 1 - 1 + 1) : front[j] = queue[1 + j - 1]
    BY <1>0, <2>1, SubSeqProperties
  <2>3. QED
    BY <1>0, <2>2
<1>2. /\ back \in Seq(Client) /\ Len(back) = Len(queue) - i
      /\ \A j \in 1..(Len(queue) - i) : back[j] = queue[i + j]
  <2>1. \A j \in (i + 1)..Len(queue) : queue[j] \in Client
    BY <1>0
  <2>2. /\ back \in Seq(Client)
        /\ Len(back) = IF i + 1 <= Len(queue) THEN Len(queue) - (i + 1) + 1 ELSE 0
        /\ \A j \in 1..(Len(queue) - (i + 1) + 1) : back[j] = queue[i + 1 + j - 1]
    BY <1>0, <2>1, SubSeqProperties
  <2>3. QED
    BY <1>0, <2>2
<1> HIDE DEF front, back
<1>3. /\ rest \in Seq(Client) /\ Len(rest) = Len(queue) - 1
      /\ \A j \in 1..Len(rest) : rest[j] = queue[at(j)]
  <2>1. rest \in Seq(Client) /\ Len(rest) = Len(queue) - 1
    BY <1>0, <1>1, <1>2
  <2>2. ASSUME NEW j \in 1..Len(rest) PROVE rest[j] = queue[at(j)]
    <3>1. CASE j < i
      BY <1>0, <1>1, <1>2, <2>1, <3>1
    <3>2. CASE j >= i
      <4>1. rest[j] = back[j - (i - 1)] /\ j - (i - 1) \in 1..(Len(queue) - i)
        BY <1>0, <1>1, <1>2, <2>1, <3>2
      <4>2. back[j - (i - 1)] = queue[i + (j - (i - 1))]
        BY <1>2, <4>1
      <4>3. i + (j - (i - 1)) = j + 1 /\ ~(j < i)
        BY <1>0, <3>2
      <4>4. QED
        BY <4>1, <4>2, <4>3
    <3>3. QED
      BY <1>0, <3>1, <3>2
  <2>3. QED
    BY <2>1, <2>2
<1>4. /\ \A j \in 1..Len(rest) : at(j) \in 1..Len(queue) /\ at(j) # i
      /\ \A j, k \in 1..Len(rest) : j # k => at(j) # at(k)
  BY <1>0, <1>3
<1> HIDE DEF rest, at
<1>5. \A j \in 1..Len(rest) : rest[j] # queue[i] /\ rest[j] \in Client
  BY <1>0, <1>3, <1>4 DEF WaitingQueue
<1>6. \A j \in 1..Len(rest) : [step EXCEPT ![queue[i]] = to][rest[j]] = "waiting"
  BY <1>3, <1>4, <1>5 DEF WaitingQueue
<1>7. ASSUME NEW j \in 1..Len(rest), NEW k \in 1..Len(rest), j # k PROVE rest[j] # rest[k]
  <2>1. /\ at(j) \in 1..Len(queue) /\ at(k) \in 1..Len(queue) /\ at(j) # at(k)
        /\ rest[j] = queue[at(j)] /\ rest[k] = queue[at(k)]
    BY <1>3, <1>4, <1>7
  <2> QED
    BY <2>1 DEF WaitingQueue
<1>8. ASSUME AllQueued(queue, step), to # "waiting"
      PROVE  AllQueued(rest, [step EXCEPT ![queue[i]] = to])
  <2> SUFFICES ASSUME NEW q \in Client, [step EXCEPT ![queue[i]] = to][q] = "waiting"
               PROVE  \E j \in 1..Len(rest) : rest[j] = q
    BY DEF AllQueued
  <2>1. step[q] = "waiting" /\ q # queue[i]
    BY <1>8
  <2>2. PICK m \in 1..Len(queue) : queue[m] = q
    BY <1>8, <2>1 DEF AllQueued
  <2>3. m # i
    BY <2>1, <2>2
  <2>4. PICK j \in 1..Len(rest) : at(j) = m
    <3>1. CASE m < i
      BY <1>0, <1>3, <2>2, <3>1 DEF at
    <3>2. CASE m > i
      <4>1. m - 1 \in 1..Len(rest) /\ at(m - 1) = m
        BY <1>0, <1>3, <2>2, <3>2 DEF at
      <4> QED
        BY <4>1
    <3> QED
      BY <1>0, <2>2, <2>3, <3>1, <3>2
  <2> QED
    BY <1>3, <2>2, <2>4
<1> QED
  BY <1>3, <1>6, <1>7, <1>8 DEF WaitingQueue, rest, front, back

LEMMA CancelKeeps ==
    ASSUME PoolInv, NEW r \in Client, PoolCancel(r)
    PROVE  /\ PoolInv' /\ OthersStayOut(r)
           /\ poolStep[r] = "waiting" => poolStep'[r] = "out"
<1>0. /\ PasswordPoolTypeOK /\ WaitingQueue(waiters, poolStep)
      /\ poolStep \in [Client -> PoolSteps] /\ waiters \in Seq(Client)
      /\ AllQueued(waiters, poolStep) /\ NoLostWakeup
      /\ free + Cardinality(Held(poolStep)) = MaxOperations
      /\ \A q \in Client : thread[q] = "busy" => poolStep[q] = "holding"
  BY DEF PoolInv, PasswordPoolTypeOK, PoolSteps
<1>00. MaxOperations \in Nat /\ free \in Nat /\ Cardinality(Held(poolStep)) \in Nat
  BY <1>0, HeldFinite, PasswordPoolAssumption DEF PasswordPoolTypeOK
<1>1. CASE poolStep[r] = "waiting" /\ thread' = thread /\ cancelled' = cancelled
  <2> DEFINE step == [poolStep EXCEPT ![r] = "out"]
  <2>1. PICK i \in 1..Len(waiters) :
          /\ waiters[i] = r
          /\ Wake(free, free,
                  SubSeq(waiters, 1, i - 1) \o SubSeq(waiters, i + 1, Len(waiters)), step)
    BY <1>1 DEF PoolCancel
  <2> DEFINE rest == SubSeq(waiters, 1, i - 1) \o SubSeq(waiters, i + 1, Len(waiters))
  <2>2. /\ rest \in Seq(Client) /\ WaitingQueue(rest, step) /\ AllQueued(rest, step)
        /\ step \in [Client -> PoolSteps]
    BY <1>0, <2>1, QueueWithout DEF PoolSteps
  <2>3. Cardinality(Held(step)) = Cardinality(Held(poolStep))
    <3>1. r \notin Held(poolStep)
      BY <1>1 DEF Held
    <3>2. QED
      BY <1>0, <3>1, HeldOne DEF PoolSteps
  <2>5. /\ \A q \in Client : thread'[q] = "busy" => step[q] = "holding"
        /\ \A q \in Client : q # r => step[q] = poolStep[q]
        /\ step[r] = "out"
    BY <1>0, <1>1
  <2>5a. Wake(free, free, rest, step)
    BY <2>1
  <2> HIDE DEF step, rest
  <2>6. /\ free' \in Nat /\ waiters' \in Seq(Client) /\ poolStep' \in [Client -> PoolSteps]
        /\ WaitingQueue(waiters', poolStep') /\ AllQueued(waiters', poolStep') /\ NoLostWakeup'
        /\ \A q \in Client : step[q] # "waiting" => poolStep'[q] = step[q]
        /\ free' + Cardinality(Held(poolStep')) = MaxOperations
    <3>1. free \in 0..free /\ free + Cardinality(Held(step)) = MaxOperations
      BY <1>0, <1>00, <2>3
    <3>2. QED
      BY <1>00, <2>2, <2>5a, <3>1, WakeKeeps
  <2>7. PasswordPoolTypeOK'
    BY <1>0, <1>1, <2>6 DEF PasswordPoolTypeOK, PoolSteps
  <2>8. QED
    BY <2>5, <2>6, <2>7 DEF PoolInv, OthersStayOut
<1>2. CASE /\ poolStep[r] \in {"granted", "holding"} /\ cancelled' = cancelled \cup {r}
           /\ UNCHANGED <<free, waiters, poolStep, thread>>
  BY <1>2 DEF PoolInv, PasswordPoolTypeOK, OthersStayOut, AllQueued, NoLostWakeup
<1>3. QED
  BY <1>1, <1>2 DEF PoolCancel

\* Every step of Admission is a step of the pool or leaves it alone.
LEMMA PoolStepKeeps ==
    ASSUME PoolInv, [Next]_vars
    PROVE  PoolInv'
<1>1. CASE UNCHANGED poolVars
  BY <1>1 DEF PoolInv, PasswordPoolTypeOK, poolVars, WaitingQueue, AllQueued, NoLostWakeup, Held
<1>2. ASSUME NEW r \in Client, StartWork(r) PROVE PoolInv'
  BY <1>2, EnterKeeps DEF StartWork
<1>3. ASSUME NEW r \in Client, PoolProgress(r) PROVE PoolInv'
  BY <1>3, ResumeKeeps, FinishKeeps, LeaveKeeps DEF PoolProgress, PoolAdvance
<1>4. ASSUME NEW r \in Client, Cancel(r) PROVE PoolInv'
  BY <1>4, CancelKeeps DEF Cancel
<1>5. QED
  <2>1. ASSUME NEW r \in Client,
               Inspect(r) \/ Charge(r) \/ IssueCaptcha(r) \/ ConsumeCaptcha(r)
                 \/ CaptchaProgress(r) \/ CaptchaResponds(r) \/ WorkResponds(r)
        PROVE  UNCHANGED poolVars
    BY <2>1 DEF Inspect, Charge, IssueCaptcha, ConsumeCaptcha, CaptchaProgress,
                CaptchaResponds, WorkResponds
  <2>2. ASSUME NEW r \in Client, NEW f \in Flow, Request(r, f) PROVE UNCHANGED poolVars
    BY <2>2 DEF Request
  <2>3. Expire => UNCHANGED poolVars
    BY DEF Expire
  <2>4. UNCHANGED vars => UNCHANGED poolVars
    BY DEF vars
  <2>5. QED
    BY <1>1, <1>2, <1>3, <1>4, <2>1, <2>2, <2>3, <2>4 DEF Next, Handle

LEMMA PoolInit == Init => PoolInv
<1> SUFFICES ASSUME Init PROVE PoolInv
  OBVIOUS
<1>1. /\ PasswordPoolTypeOK /\ WaitingQueue(waiters, poolStep) /\ free = MaxOperations
      /\ AllQueued(waiters, poolStep) /\ NoLostWakeup
  BY PasswordPoolAssumption
  DEF Init, PasswordPoolInit, PasswordPoolTypeOK, WaitingQueue, AllQueued, NoLostWakeup
<1>2. Held(poolStep) = {}
  BY DEF Init, PasswordPoolInit, Held
<1>3. Cardinality(Held(poolStep)) = 0
  BY <1>2, FS_EmptySet
<1>4. QED
  BY <1>1, <1>3, PasswordPoolAssumption DEF PoolInv, Init, PasswordPoolInit

LEMMA PoolInvBounds == PoolInv => WorkersBounded
<1> SUFFICES ASSUME PoolInv PROVE WorkersBounded
  OBVIOUS
<1> DEFINE busy == {r \in Client : thread[r] = "busy"}
<1>1. busy \subseteq Held(poolStep)
  BY DEF PoolInv, Held
<1>2. Cardinality(busy) <= Cardinality(Held(poolStep)) /\ Cardinality(busy) \in Nat
  BY <1>1, HeldFinite, FS_Subset, FS_CardinalityType
<1>3. Cardinality(Held(poolStep)) <= MaxOperations
  BY HeldFinite, PasswordPoolAssumption DEF PoolInv, PasswordPoolTypeOK
<1>4. QED
  BY <1>2, <1>3, HeldFinite, PasswordPoolAssumption DEF WorkersBounded

\* No cancellation lets more native Argon2 threads run than there are slots
\* (PasswordManager._run_bounded): a slot is given back only when its thread is done.
THEOREM NativeWorkersAreBounded == Spec => []WorkersBounded
<1>1. Init => PoolInv
  BY PoolInit
<1>2. PoolInv /\ [Next]_vars => PoolInv'
  BY PoolStepKeeps
<1>3. PoolInv => WorkersBounded
  BY PoolInvBounds
<1>4. QED
  BY <1>1, <1>2, <1>3, PTL DEF Spec

\* Every slot of the semaphore is free or in the hand of one request, however often requests
\* are cancelled while they wait, after they were woken or while their thread runs; whoever
\* waits is in the queue, and nobody waits beside a free slot that nobody will pass on
\* (`async with self._semaphore` and the shield loop of PasswordManager._run_bounded).
THEOREM NoArgonSlotLost ==
    Spec => []( /\ free + Cardinality(Held(poolStep)) = MaxOperations
                /\ AllQueued(waiters, poolStep)
                /\ NoLostWakeup )
<1>1. Init => PoolInv
  BY PoolInit
<1>2. PoolInv /\ [Next]_vars => PoolInv'
  BY PoolStepKeeps
<1>3. PoolInv => /\ free + Cardinality(Held(poolStep)) = MaxOperations
                 /\ AllQueued(waiters, poolStep)
                 /\ NoLostWakeup
  BY DEF PoolInv
<1>4. QED
  BY <1>1, <1>2, <1>3, PTL DEF Spec

-----------------------------------------------------------------------------
(* The quotas *)

\* Every caller let through in a window is counted in it.
QuotaInv == RateLimitTypeOK /\ \A b \in Bucket : granted[b] <= count[b]

LEMMA ChargeKeeps ==
    ASSUME QuotaInv, NEW b, ChargeGranted(b) \/ ChargeDenied(b) \/ ChargeFails(b)
    PROVE  QuotaInv'
<1>1. count \in [Bucket -> Nat] /\ granted \in [Bucket -> Nat] /\ Limit \in [Bucket -> Nat \ {0}]
      /\ \A d \in Bucket : granted[d] <= count[d] /\ count[d] <= Limit[d]
  BY RateLimitAssumption DEF QuotaInv, RateLimitTypeOK
<1>2. CASE UNCHANGED <<count, granted>>
  BY <1>1, <1>2 DEF QuotaInv, RateLimitTypeOK
<1>3. CASE Increment(b)
  <2>1. /\ count' \in [Bucket -> Nat]
        /\ \A d \in Bucket : /\ d # b => count'[d] = count[d]
                             /\ d = b => count'[d] = IF count[d] >= Limit[d] THEN count[d]
                                                     ELSE count[d] + 1
    <3>1. CASE b \in Bucket
      BY <1>1, <1>3, <3>1 DEF Increment
    <3>2. CASE b \notin Bucket
      <4>1. count' = count
        BY <1>1, <1>3, <3>2 DEF Increment
      <4>2. QED
        BY <1>1, <3>2, <4>1
    <3>3. QED
      BY <3>1, <3>2
  <2>2. \A d \in Bucket : count'[d] <= Limit[d] /\ count[d] <= count'[d]
    BY <1>1, <2>1
  <2>3. CASE granted' = granted
    BY <1>1, <2>1, <2>2, <2>3 DEF QuotaInv, RateLimitTypeOK
  <2>4. CASE check_allows(b) /\ granted' = [granted EXCEPT ![b] = @ + 1]
    <3>1. /\ granted' \in [Bucket -> Nat]
          /\ \A d \in Bucket : granted'[d] = IF d = b THEN granted[d] + 1 ELSE granted[d]
      <4>1. CASE b \in Bucket
        BY <1>1, <2>4, <4>1
      <4>2. CASE b \notin Bucket
        <5>1. granted' = granted
          BY <1>1, <2>4, <4>2
        <5>2. QED
          BY <1>1, <4>2, <5>1
      <4>3. QED
        BY <4>1, <4>2
    <3>2. b \in Bucket => count'[b] = count[b] + 1
      BY <1>1, <2>1, <2>4 DEF check_allows
    <3>3. \A d \in Bucket : granted'[d] <= count'[d]
      BY <1>1, <2>1, <3>1, <3>2
    <3>4. QED
      BY <2>1, <2>2, <3>1, <3>3 DEF QuotaInv, RateLimitTypeOK
  <2>5. QED
    BY <2>3, <2>4 DEF ChargeGranted, ChargeDenied, ChargeFails
<1>4. QED
  BY <1>2, <1>3 DEF ChargeGranted, ChargeDenied, ChargeFails

LEMMA QuotaStepKeeps ==
    ASSUME QuotaInv, [Next]_vars
    PROVE  QuotaInv'
<1>1. CASE UNCHANGED rateVars
  BY <1>1 DEF QuotaInv, RateLimitTypeOK, rateVars
<1>2. ASSUME NEW r \in Client, Charge(r) PROVE QuotaInv'
  BY <1>2, ChargeKeeps DEF Charge
<1>3. ASSUME NEW b \in Bucket, WindowExpires(b) PROVE QuotaInv'
  <2>1. /\ count' \in [Bucket -> Nat] /\ granted' \in [Bucket -> Nat]
        /\ \A d \in Bucket : /\ count'[d] = IF d = b THEN 0 ELSE count[d]
                             /\ granted'[d] = IF d = b THEN 0 ELSE granted[d]
    BY <1>3 DEF QuotaInv, RateLimitTypeOK, WindowExpires
  <2>2. \A d \in Bucket : Limit[d] \in Nat /\ count[d] <= Limit[d] /\ granted[d] <= count[d]
    BY RateLimitAssumption DEF QuotaInv, RateLimitTypeOK
  <2>3. QED
    BY <2>1, <2>2 DEF QuotaInv, RateLimitTypeOK
<1>4. ASSUME NEW r \in Client,
             Inspect(r) \/ IssueCaptcha(r) \/ ConsumeCaptcha(r) \/ CaptchaProgress(r)
               \/ CaptchaResponds(r) \/ StartWork(r) \/ WorkResponds(r) \/ PoolProgress(r)
               \/ Cancel(r)
      PROVE  UNCHANGED rateVars
  BY <1>4 DEF Inspect, IssueCaptcha, ConsumeCaptcha, CaptchaProgress, CaptchaResponds,
              StartWork, WorkResponds, PoolProgress, Cancel
<1>5. ASSUME NEW r \in Client, NEW f \in Flow, Request(r, f) PROVE UNCHANGED rateVars
  BY <1>5 DEF Request
<1>6. QED
  BY <1>1, <1>2, <1>3, <1>4, <1>5 DEF Next, Handle, Expire, vars

\* No window of a bucket lets more callers through than its limit, for every limit
\* (FIXED_WINDOW_SCRIPT and _parse_result).
THEOREM QuotasAreKept == Spec => []QuotaKept
<1>1. Init => QuotaInv
  BY RateLimitAssumption DEF Init, RateLimitInit, QuotaInv, RateLimitTypeOK
<1>2. QuotaInv /\ [Next]_vars => QuotaInv'
  BY QuotaStepKeeps
<1>3. QuotaInv => QuotaKept
  BY RateLimitAssumption DEF QuotaInv, QuotaKept, RateLimitTypeOK
<1>4. QED
  BY <1>1, <1>2, <1>3, PTL DEF Spec

-----------------------------------------------------------------------------
(* The CAPTCHA store *)

\* What Redis holds: the pointer of a private scope names its only record, and a
\* challenge that has admitted someone is gone.
StoreInv ==
    /\ record \in [Challenge -> Scope \cup {NoScope}]
    /\ pointer \in [PrivateScope -> Challenge \cup {NoChallenge}]
    /\ minted \subseteq Challenge
    /\ accepted \in [Challenge -> Nat]
    /\ \A c \in Challenge : record[c] # NoScope => c \in minted
    /\ \A c \in Challenge, s \in PrivateScope : record[c] = s => pointer[s] = c
    /\ \A s \in PrivateScope : pointer[s] # NoChallenge => record[pointer[s]] = s
    /\ \A c \in Challenge : accepted[c] # 0 =>
         accepted[c] = 1 /\ c \in minted /\ record[c] = NoScope

Pending(r) == capOp[r].step \in {"pointer", "issue"}

\* What the callers hold: an identifier about to be stored is one caller's own.
OpInv ==
    /\ capOp \in [Client -> CaptchaOp]
    /\ \A r \in Client : Pending(r) =>
         /\ capOp[r].scope \in Scope
         /\ capOp[r].challenge \in minted
         /\ record[capOp[r].challenge] = NoScope
         /\ accepted[capOp[r].challenge] = 0
    /\ \A r \in Client : capOp[r].step = "pointer" => capOp[r].scope \in PrivateScope
    /\ \A r, q \in Client : Pending(r) /\ Pending(q) /\ r # q =>
         capOp[r].challenge # capOp[q].challenge
    /\ \A r \in Client : capOp[r].step \in {"look", "consume", "accepted"} =>
         capOp[r].scope \in Scope /\ capOp[r].challenge \in Challenge
    /\ \A r \in Client : capOp[r].step = "accepted" => accepted[capOp[r].challenge] = 1
    /\ \A r, q \in Client :
         capOp[r].step = "accepted" /\ capOp[q].step = "accepted" /\ r # q =>
           capOp[r].challenge # capOp[q].challenge

CaptchaInv == StoreInv /\ OpInv

PromiseVars == <<Usable, Spent, accepted>>

\* The store part of _ISSUE: the new challenge takes the place of what it replaces.
LEMMA IssueStoreKeeps ==
    ASSUME StoreInv, NEW op \in CaptchaOp, op.scope \in Scope, op.challenge \in minted,
           record[op.challenge] = NoScope, accepted[op.challenge] = 0, IssueStore(op)
    PROVE  /\ StoreInv'
           /\ \A c \in Challenge : c # op.challenge => record'[c] \in {record[c], NoScope}
           /\ record'[op.challenge] = op.scope
           /\ op.scope \in PrivateScope =>
                \A c \in Challenge : record'[c] # record[c] \/ record'[c] = op.scope =>
                  c = op.challenge \/ record[c] = op.scope
           /\ op.scope \in PrivateScope =>
                \A c \in Challenge : record[c] = op.scope => record'[c] = NoScope
           /\ op.scope \notin PrivateScope /\ op.previous = NoChallenge =>
                \A c \in Challenge : c # op.challenge => record'[c] = record[c]
           /\ op.scope \notin PrivateScope /\ op.previous # NoChallenge =>
                /\ op.previous \in Challenge /\ record[op.previous] = op.scope
                /\ record'[op.previous] = NoScope
                /\ \A c \in Challenge : c \notin {op.challenge, op.previous} =>
                     record'[c] = record[c]
<1>0. /\ op.previous \in Challenge \cup {NoChallenge} /\ op.seen \in Challenge \cup {NoChallenge}
      /\ op.challenge \in Challenge /\ NoChallenge \notin Challenge
      /\ NoScope \notin Scope /\ PrivateScope \subseteq Scope
  BY CaptchaAssumption DEF CaptchaOp, StoreInv, Scope
<1>1. /\ record' \in [Challenge -> Scope \cup {NoScope}]
      /\ \A c \in Challenge : record'[c] = IF c = op.challenge THEN op.scope
                                           ELSE IF c \in Replaced(op) THEN NoScope
                                           ELSE record[c]
      /\ pointer' = [s \in PrivateScope |-> IF s = op.scope THEN op.challenge ELSE pointer[s]]
      /\ minted' = minted /\ accepted' = accepted
  BY <1>0 DEF IssueStore, StoreInv
<1>2. op.scope \in PrivateScope =>
        \A c \in Challenge : record[c] = op.scope => c \in Replaced(op)
  BY <1>0 DEF IssueStore, PointerMoved, PreviousRefused, Replaced, StoreInv
<1>3. op.scope \in PrivateScope =>
        \A c \in Challenge : c \in Replaced(op) => record[c] = op.scope
  BY <1>0 DEF IssueStore, PointerMoved, PreviousRefused, Replaced, StoreInv
<1>4. op.scope \notin PrivateScope =>
        /\ op.previous = NoChallenge => Replaced(op) = {}
        /\ op.previous # NoChallenge => /\ Replaced(op) = {op.previous}
                                        /\ record[op.previous] = op.scope
  BY <1>0 DEF IssueStore, PreviousRefused, Replaced
<1>5. \A c \in Challenge, s \in PrivateScope : record'[c] = s => pointer'[s] = c
  BY <1>0, <1>1, <1>2 DEF StoreInv
<1>6. \A s \in PrivateScope : pointer'[s] # NoChallenge => record'[pointer'[s]] = s
  <2> SUFFICES ASSUME NEW s \in PrivateScope, pointer'[s] # NoChallenge
               PROVE  record'[pointer'[s]] = s
    OBVIOUS
  <2>1. CASE s = op.scope
    BY <1>0, <1>1, <2>1
  <2>2. CASE s # op.scope
    <3>1. pointer'[s] = pointer[s] /\ pointer[s] \in Challenge /\ record[pointer[s]] = s
      BY <1>0, <1>1, <2>2 DEF StoreInv
    <3>2. pointer[s] # op.challenge /\ pointer[s] \notin Replaced(op)
      BY <1>0, <1>3, <1>4, <2>2, <3>1
    <3>3. QED
      BY <1>1, <3>1, <3>2
  <2>3. QED
    BY <2>1, <2>2
<1>7. StoreInv'
  BY <1>0, <1>1, <1>5, <1>6 DEF StoreInv
<1>8. QED
  BY <1>0, <1>1, <1>2, <1>3, <1>4, <1>7

\* Deleting a record, and its pointer with it.
LEMMA WithdrawKeeps ==
    ASSUME StoreInv, NEW c \in Challenge, record[c] # NoScope, Withdraw(c),
           \/ accepted' = accepted
           \/ accepted' = [accepted EXCEPT ![c] = @ + 1]
    PROVE  /\ StoreInv'
           /\ record' = [record EXCEPT ![c] = NoScope]
           /\ \A d \in Challenge : d # c => accepted'[d] = accepted[d]
           /\ accepted[c] = 0
<1>0. /\ NoScope \notin Scope /\ PrivateScope \subseteq Scope /\ NoChallenge \notin Challenge
      /\ accepted[c] = 0 /\ c \in minted /\ record[c] \in Scope
  BY CaptchaAssumption DEF StoreInv, Scope
<1>1. /\ record' = [record EXCEPT ![c] = NoScope]
      /\ pointer' = [s \in PrivateScope |->
                       IF s = record[c] /\ pointer[s] = c THEN NoChallenge ELSE pointer[s]]
      /\ minted' = minted
  BY DEF Withdraw
<1>2. /\ record' \in [Challenge -> Scope \cup {NoScope}]
      /\ \A d \in Challenge : record'[d] = IF d = c THEN NoScope ELSE record[d]
  BY <1>1 DEF StoreInv
<1>3. /\ accepted' \in [Challenge -> Nat]
      /\ \A d \in Challenge : d # c => accepted'[d] = accepted[d]
      /\ accepted'[c] \in {0, 1}
  BY <1>0 DEF StoreInv
<1>4. \A d \in Challenge, s \in PrivateScope : record'[d] = s => pointer'[s] = d
  BY <1>0, <1>1, <1>2 DEF StoreInv
<1>5. \A s \in PrivateScope : pointer'[s] # NoChallenge => record'[pointer'[s]] = s
  <2> SUFFICES ASSUME NEW s \in PrivateScope, pointer'[s] # NoChallenge
               PROVE  record'[pointer'[s]] = s
    OBVIOUS
  <2>1. pointer'[s] = pointer[s] /\ pointer[s] \in Challenge /\ record[pointer[s]] = s
    BY <1>1 DEF StoreInv
  <2>2. pointer[s] # c
    BY <1>1, <2>1
  <2>3. QED
    BY <1>2, <2>1, <2>2
<1>6. StoreInv'
  BY <1>0, <1>1, <1>2, <1>3, <1>4, <1>5 DEF StoreInv
<1>7. QED
  BY <1>0, <1>1, <1>3, <1>6

\* One caller moves; the others keep what they hold.
LEMMA CallerMoves ==
    ASSUME CaptchaInv, NEW r \in Client, NEW new \in CaptchaOp,
           capOp' = [capOp EXCEPT ![r] = new], minted \subseteq minted',
           \A q \in Client \ {r} : Pending(q) =>
             record'[capOp[q].challenge] = NoScope /\ accepted'[capOp[q].challenge] = 0,
           \A c \in Challenge : accepted[c] = 1 => accepted'[c] = 1,
           new.step \in {"pointer", "issue"} =>
             /\ new.scope \in Scope /\ new.challenge \in minted'
             /\ record'[new.challenge] = NoScope /\ accepted'[new.challenge] = 0
             /\ \A q \in Client \ {r} : Pending(q) => capOp[q].challenge # new.challenge,
           new.step = "pointer" => new.scope \in PrivateScope,
           new.step \in {"look", "consume", "accepted"} =>
             new.scope \in Scope /\ new.challenge \in Challenge,
           new.step = "accepted" =>
             /\ accepted'[new.challenge] = 1
             /\ \A q \in Client \ {r} :
                  capOp[q].step = "accepted" => capOp[q].challenge # new.challenge
    PROVE  OpInv'
<1>1. /\ capOp' \in [Client -> CaptchaOp] /\ capOp'[r] = new
      /\ \A q \in Client \ {r} : capOp'[q] = capOp[q]
  BY DEF CaptchaInv, OpInv
<1>2. \A q \in Client : Pending(q)' =>
        /\ capOp'[q].scope \in Scope /\ capOp'[q].challenge \in minted'
        /\ record'[capOp'[q].challenge] = NoScope
        /\ accepted'[capOp'[q].challenge] = 0
  BY <1>1 DEF CaptchaInv, OpInv, Pending
<1>3. \A p, q \in Client : Pending(p)' /\ Pending(q)' /\ p # q =>
        capOp'[p].challenge # capOp'[q].challenge
  BY <1>1 DEF CaptchaInv, OpInv, Pending
<1>4. \A q \in Client : capOp'[q].step \in {"look", "consume", "accepted"} =>
        capOp'[q].scope \in Scope /\ capOp'[q].challenge \in Challenge
  BY <1>1 DEF CaptchaInv, OpInv
<1>5. \A q \in Client : capOp'[q].step = "accepted" => accepted'[capOp'[q].challenge] = 1
  BY <1>1, <1>4 DEF CaptchaInv, OpInv
<1>6. \A p, q \in Client :
        capOp'[p].step = "accepted" /\ capOp'[q].step = "accepted" /\ p # q =>
          capOp'[p].challenge # capOp'[q].challenge
  BY <1>1 DEF CaptchaInv, OpInv
<1>7. \A q \in Client : capOp'[q].step = "pointer" => capOp'[q].scope \in PrivateScope
  BY <1>1 DEF CaptchaInv, OpInv
<1>8. QED
  BY <1>1, <1>2, <1>3, <1>4, <1>5, <1>6, <1>7 DEF OpInv, Pending

LEMMA IdleIsOp == CaptchaIdle \in CaptchaOp /\ CaptchaIdle.step = "idle"
BY DEF CaptchaIdle, CaptchaOp, CaptchaStep, PointerAttempts

\* A caller that ends, or forgets its result, holds nothing.
LEMMA CallerEnds ==
    ASSUME CaptchaInv, NEW r \in Client, NEW outcome \in CaptchaStep,
           outcome \in {"idle", "issued", "invalid", "unavailable"},
           CaptchaEnd(r, outcome), minted' = minted,
           \A q \in Client \ {r} : Pending(q) =>
             record'[capOp[q].challenge] = NoScope /\ accepted'[capOp[q].challenge] = 0,
           \A c \in Challenge : accepted[c] = 1 => accepted'[c] = 1
    PROVE  OpInv'
<1> DEFINE new == [CaptchaIdle EXCEPT !.step = outcome]
<1>1. new \in CaptchaOp /\ new.step = outcome
  BY IdleIsOp DEF CaptchaOp
<1>2. capOp' = [capOp EXCEPT ![r] = new]
  BY DEF CaptchaEnd
<1> HIDE DEF new
<1>3. QED
  BY <1>1, <1>2, CallerMoves

-----------------------------------------------------------------------------
(* The refinement: what the steps of one caller are to the promise. *)

\* The identifier r is about to store is fresh, and its own.
LEMMA PendingIsFresh ==
    ASSUME CaptchaInv, NEW r \in Client, Pending(r)
    PROVE  /\ capOp[r].challenge \in Challenge
           /\ Promise!Fresh(capOp[r].challenge)
BY CaptchaAssumption DEF CaptchaInv, StoreInv, OpInv, Pending, Promise!Fresh, Usable, Spent,
                         Promise!Scope, Scope

\* Giving up an identifier that was not stored.
LEMMA GivingUpDiscards ==
    ASSUME CaptchaInv, NEW r \in Client, Pending(r), NEW outcome,
           CaptchaEnd(r, outcome), outcome \notin {"pointer", "issue"},
           UNCHANGED captchaStore
    PROVE  Promise!Next
<1> DEFINE c == capOp[r].challenge
<1>0. c \in Challenge /\ Promise!Fresh(c) /\ c \in minted /\ record[c] = NoScope
      /\ capOp[r].scope \in Scope
  BY PendingIsFresh DEF CaptchaInv, OpInv
<1>1. record' = record /\ minted' = minted /\ accepted' = accepted
  BY DEF captchaStore
<1>2. /\ capOp'[r].step = outcome
      /\ \A q \in Client \ {r} : capOp'[q] = capOp[q]
  BY DEF CaptchaEnd, CaptchaInv, OpInv, CaptchaIdle
<1>3. \A q \in Client \ {r} : Pending(q) => capOp[q].challenge # c
  BY DEF CaptchaInv, OpInv
<1>4. Usable' = Usable
  BY <1>1 DEF Usable
<1>5. Spent' = Spent \cup {c}
  <2>1. ASSUME NEW d \in minted
        PROVE  d \in Spent' <=> d \in Spent \/ d = c
    <3>1. CASE d = c
      BY <1>0, <1>1, <1>2, <1>3, <3>1 DEF Spent, Pending
    <3>2. CASE d # c
      BY <1>1, <1>2, <3>2 DEF Spent
    <3>3. QED
      BY <3>1, <3>2
  <2>2. QED
    BY <1>0, <1>1, <2>1 DEF Spent
<1>6. Promise!Discard(c)
  BY <1>0, <1>1, <1>4, <1>5 DEF Promise!Discard
<1>7. QED
  BY <1>0, <1>6 DEF Promise!Next, Promise!Scope, Scope

\* Storing the new challenge issues it.
LEMMA StoringIssues ==
    ASSUME CaptchaInv, NEW r \in Client, capOp[r].step = "issue", IssueStore(capOp[r]),
           NEW outcome, CaptchaEnd(r, outcome), outcome \notin {"pointer", "issue"}
    PROVE  Promise!Next
<1> DEFINE op == capOp[r]
           c == capOp[r].challenge
           s == capOp[r].scope
<1>0. /\ Pending(r) /\ c \in Challenge /\ Promise!Fresh(c) /\ c \in minted
      /\ record[c] = NoScope /\ accepted[c] = 0 /\ s \in Scope /\ op \in CaptchaOp
  BY PendingIsFresh DEF CaptchaInv, OpInv, Pending
<1>00. NoScope \notin Scope /\ PrivateScope \subseteq Scope /\ c \notin Spent
  BY <1>0, CaptchaAssumption DEF Scope, Promise!Fresh
<1>1. minted' = minted /\ accepted' = accepted
  BY DEF IssueStore
<1>2. /\ capOp'[r].step = outcome
      /\ \A q \in Client \ {r} : capOp'[q] = capOp[q]
  BY DEF CaptchaEnd, CaptchaInv, OpInv, CaptchaIdle
<1>3. \A q \in Client \ {r} : Pending(q) => capOp[q].challenge # c
  BY <1>0 DEF CaptchaInv, OpInv
<1>4. /\ StoreInv'
      /\ \A d \in Challenge : d # c => record'[d] \in {record[d], NoScope}
      /\ record'[c] = s
      /\ s \in PrivateScope =>
           /\ \A d \in Challenge : record'[d] # record[d] \/ record'[d] = s => d = c \/ record[d] = s
           /\ \A d \in Challenge : record[d] = s => record'[d] = NoScope
      /\ s \notin PrivateScope /\ op.previous = NoChallenge =>
           \A d \in Challenge : d # c => record'[d] = record[d]
      /\ s \notin PrivateScope /\ op.previous # NoChallenge =>
           /\ op.previous \in Challenge /\ record[op.previous] = s
           /\ record'[op.previous] = NoScope
           /\ \A d \in Challenge : d \notin {c, op.previous} => record'[d] = record[d]
  BY <1>0, IssueStoreKeeps DEF CaptchaInv
\* What else becomes spent is what the store deletes.
<1>5. \A d \in Challenge : d \in Spent' <=>
        d \in Spent \/ (d # c /\ record[d] # NoScope /\ record'[d] = NoScope)
  <2> SUFFICES ASSUME NEW d \in Challenge
               PROVE  d \in Spent' <=>
                        d \in Spent \/ (d # c /\ record[d] # NoScope /\ record'[d] = NoScope)
    OBVIOUS
  <2>1. CASE d = c
    BY <1>0, <1>00, <1>4, <2>1 DEF Spent
  <2>2. CASE d # c
    <3>1. \A q \in Client : (Pending(q)' /\ capOp'[q].challenge = d)
                              <=> (Pending(q) /\ capOp[q].challenge = d)
      BY <1>0, <1>2, <2>2 DEF Pending
    <3>2. record[d] # NoScope => \A q \in Client : ~(Pending(q) /\ capOp[q].challenge = d)
      BY DEF CaptchaInv, OpInv
    <3>3. record[d] # NoScope => d \in minted
      BY DEF CaptchaInv, StoreInv
    <3>4. QED
      BY <1>1, <1>4, <2>2, <3>1, <3>2, <3>3 DEF Spent, Pending
  <2>3. QED
    BY <2>1, <2>2
<1>5a. Spent \subseteq Challenge /\ Spent' \subseteq Challenge
  BY <1>1 DEF Spent, CaptchaInv, StoreInv
<1>6. CASE s \in PrivateScope
  <2>1. \A t \in Scope : Usable'[t] = IF t = s THEN {c} ELSE Usable[t]
    BY <1>0, <1>00, <1>4, <1>6 DEF Usable
  <2>2. Usable' = [Usable EXCEPT ![s] = IF s \in PrivateScope THEN {c} ELSE @ \cup {c}]
    BY <1>0, <1>6, <2>1 DEF Usable
  <2>3. Spent' = Spent \cup Usable[s]
    BY <1>0, <1>00, <1>4, <1>5, <1>5a, <1>6 DEF Usable
  <2>4. Promise!Issue(s, c)
    BY <1>0, <1>1, <1>6, <2>2, <2>3 DEF Promise!Issue
  <2>5. QED
    BY <1>0, <2>4 DEF Promise!Next, Promise!Scope, Scope
<1>7. CASE s \notin PrivateScope /\ op.previous = NoChallenge
  <2>1. \A t \in Scope : Usable'[t] = IF t = s THEN Usable[t] \cup {c} ELSE Usable[t]
    BY <1>0, <1>00, <1>4, <1>7 DEF Usable
  <2>2. Usable' = [Usable EXCEPT ![s] = IF s \in PrivateScope THEN {c} ELSE @ \cup {c}]
    BY <1>0, <1>7, <2>1 DEF Usable
  <2>3. Spent' = Spent
    BY <1>0, <1>00, <1>4, <1>5, <1>5a, <1>7
  <2>4. Promise!Issue(s, c)
    BY <1>0, <1>1, <1>7, <2>2, <2>3 DEF Promise!Issue
  <2>5. QED
    BY <1>0, <2>4 DEF Promise!Next, Promise!Scope, Scope
<1>8. CASE s \notin PrivateScope /\ op.previous # NoChallenge
  <2>0. op.previous # c
    BY <1>0, <1>00, <1>4, <1>8
  <2>1. \A t \in Scope : Usable'[t] = IF t = s THEN (Usable[t] \ {op.previous}) \cup {c}
                                      ELSE Usable[t]
    BY <1>0, <1>00, <1>4, <1>8, <2>0 DEF Usable
  <2>2. Usable' = [Usable EXCEPT ![s] = (@ \ {op.previous}) \cup {c}]
    BY <1>0, <2>1 DEF Usable
  <2>3. Spent' = Spent \cup {op.previous}
    BY <1>0, <1>00, <1>4, <1>5, <1>5a, <1>8, <2>0
  <2>4. op.previous \in Usable[s]
    BY <1>0, <1>4, <1>8 DEF Usable
  <2>5. Promise!Refresh(s, op.previous, c)
    BY <1>0, <1>1, <2>2, <2>3, <2>4 DEF Promise!Refresh
  <2>6. QED
    BY <1>0, <1>4, <1>8, <2>5 DEF Promise!Next, Promise!Scope, Scope
<1>9. QED
  BY <1>6, <1>7, <1>8

\* Deleting a record that is there drops its challenge, or accepts it.
LEMMA WithdrawingDrops ==
    ASSUME CaptchaInv, NEW c \in Challenge, record[c] # NoScope, Withdraw(c),
           \A r \in Client : Pending(r)' <=> Pending(r),
           \A r \in Client : Pending(r) => capOp'[r].challenge = capOp[r].challenge,
           \/ accepted' = accepted
           \/ accepted' = [accepted EXCEPT ![c] = @ + 1]
    PROVE  Promise!Next
<1> DEFINE s == record[c]
<1>0. /\ record' = [record EXCEPT ![c] = NoScope] /\ minted' = minted
      /\ s \in Scope /\ NoScope \notin Scope /\ c \in minted
  BY CaptchaAssumption DEF Withdraw, CaptchaInv, StoreInv, Scope
<1>1. \A r \in Client : Pending(r) => capOp[r].challenge # c
  BY DEF CaptchaInv, OpInv
<1>2. \A t \in Scope : Usable'[t] = IF t = s THEN Usable[t] \ {c} ELSE Usable[t]
  BY <1>0 DEF Usable, CaptchaInv, StoreInv
<1>3. Usable' = [Usable EXCEPT ![s] = @ \ {c}]
  <2>1. /\ Usable = [t \in Scope |-> Usable[t]]
        /\ Usable' = [t \in Scope |-> Usable'[t]]
    BY DEF Usable
  <2>2. QED
    BY <1>0, <1>2, <2>1
<1>4. Spent' = Spent \cup {c}
  <2>1. ASSUME NEW d \in minted
        PROVE  d \in Spent' <=> d \in Spent \/ d = c
    <3>1. CASE d = c
      <4>1. record'[c] = NoScope /\ d \in minted'
        BY <1>0, <3>1 DEF CaptchaInv, StoreInv
      <4>2. QED
        BY <1>1, <3>1, <4>1 DEF Spent, Pending
    <3>2. CASE d # c
      <4>1. record'[d] = record[d] /\ d \in minted'
        BY <1>0, <3>2 DEF CaptchaInv, StoreInv
      <4>2. QED
        BY <4>1, <3>2 DEF Spent, Pending
    <3>3. QED
      BY <3>1, <3>2
  <2>2. QED
    BY <1>0, <2>1 DEF Spent
<1>5. c \in Usable[s]
  BY <1>0 DEF Usable
<1>6. Promise!Drop(s, c) \/ Promise!Accept(s, c)
  BY <1>3, <1>4, <1>5 DEF Promise!Drop, Promise!Accept
<1>7. QED
  BY <1>0, <1>6 DEF Promise!Next, Promise!Scope, Scope

\* A step that neither changes a record nor drops a pending identifier is a stutter.
LEMMA StoreKeptStutters ==
    ASSUME record' = record, accepted' = accepted,
           Spent' = Spent
    PROVE  UNCHANGED PromiseVars
BY DEF PromiseVars, Usable

\* Beginning to store a fresh identifier.
LEMMA IssueBeginKeeps ==
    ASSUME CaptchaInv, NEW r \in Client, NEW s \in Scope, NEW c \in Challenge,
           NEW previous \in minted \cup {NoChallenge}, IssueBegin(r, s, c, previous)
    PROVE  CaptchaInv' /\ UNCHANGED PromiseVars
<1> DEFINE step == IF s \in PrivateScope /\ previous = NoChallenge THEN "pointer" ELSE "issue"
           new == [CaptchaIdle EXCEPT !.step = step, !.scope = s, !.challenge = c,
                                      !.previous = previous, !.attempt = 1]
<1>1. /\ c \notin minted /\ minted' = minted \cup {c} /\ record' = record
      /\ pointer' = pointer /\ accepted' = accepted /\ capOp[r].step = "idle"
      /\ capOp' = [capOp EXCEPT ![r] = new]
  BY DEF IssueBegin
<1>2. /\ new \in CaptchaOp /\ new.step \in {"pointer", "issue"}
      /\ new.scope = s /\ new.challenge = c
      /\ new.step = "pointer" => s \in PrivateScope
  <2>1. /\ step \in {"pointer", "issue"} /\ step \in CaptchaStep
        /\ step = "pointer" => s \in PrivateScope
    BY DEF CaptchaStep
  <2>2. 1 \in 0..PointerAttempts /\ previous \in Challenge \cup {NoChallenge}
    BY DEF PointerAttempts, CaptchaInv, StoreInv
  <2> HIDE DEF step
  <2>3. QED
    BY <2>1, <2>2, IdleIsOp DEF CaptchaOp
<1> HIDE DEF new, step
<1>3. record[c] = NoScope /\ accepted[c] = 0
  BY <1>1 DEF CaptchaInv, StoreInv
<1>4. StoreInv'
  BY <1>1 DEF CaptchaInv, StoreInv
<1>5. \A q \in Client \ {r} : Pending(q) =>
        /\ capOp[q].challenge # c
        /\ record'[capOp[q].challenge] = NoScope /\ accepted'[capOp[q].challenge] = 0
  BY <1>1 DEF CaptchaInv, OpInv
<1>6. OpInv'
  BY <1>1, <1>2, <1>3, <1>5, CallerMoves
<1>7. Spent' = Spent
  <2>1. capOp'[r] = new /\ \A q \in Client \ {r} : capOp'[q] = capOp[q]
    BY <1>1, <1>2 DEF CaptchaInv, OpInv
  <2>2. ~Pending(r) /\ Pending(r)'
    BY <1>1, <1>2, <2>1 DEF Pending
  <2>3. c \notin Spent' /\ c \notin Spent
    BY <1>1, <1>2, <2>1, <2>2 DEF Spent, Pending
  <2>4. ASSUME NEW d \in minted PROVE d \in Spent' <=> d \in Spent
    BY <1>1, <1>2, <2>1, <2>2, <2>4 DEF Spent, Pending
  <2>5. QED
    BY <1>1, <2>3, <2>4 DEF Spent
<1>8. QED
  BY <1>1, <1>4, <1>6, <1>7, StoreKeptStutters DEF CaptchaInv

\* A caller's move that touches neither the store nor what is pending.
LEMMA QuietMove ==
    ASSUME CaptchaInv, NEW r \in Client, NEW new \in CaptchaOp,
           capOp' = [capOp EXCEPT ![r] = new], UNCHANGED captchaStore,
           new.step \in {"pointer", "issue"} <=> Pending(r),
           new.step = "pointer" => new.scope \in PrivateScope,
           Pending(r) => new.scope = capOp[r].scope /\ new.challenge = capOp[r].challenge,
           new.step \in {"look", "consume"} =>
             new.scope \in Scope /\ new.challenge \in Challenge,
           new.step # "accepted"
    PROVE  CaptchaInv' /\ UNCHANGED PromiseVars
<1>1. record' = record /\ pointer' = pointer /\ minted' = minted /\ accepted' = accepted
  BY DEF captchaStore
<1>2. StoreInv'
  BY <1>1 DEF CaptchaInv, StoreInv
<1>3. \A q \in Client : Pending(q) =>
        /\ capOp[q].scope \in Scope /\ capOp[q].challenge \in minted
        /\ record[capOp[q].challenge] = NoScope /\ accepted[capOp[q].challenge] = 0
        /\ \A p \in Client \ {q} : Pending(p) => capOp[p].challenge # capOp[q].challenge
  BY DEF CaptchaInv, OpInv
<1>4. OpInv'
  BY <1>1, <1>3, CallerMoves
<1>5. Spent' = Spent
  <2>1. capOp'[r] = new /\ \A q \in Client \ {r} : capOp'[q] = capOp[q]
    BY DEF CaptchaInv, OpInv
  <2>2. \A q \in Client, d \in Challenge :
          (Pending(q)' /\ capOp'[q].challenge = d) <=> (Pending(q) /\ capOp[q].challenge = d)
    BY <2>1 DEF Pending
  <2>3. minted \subseteq Challenge
    BY DEF CaptchaInv, StoreInv
  <2>4. QED
    BY <1>1, <2>2, <2>3 DEF Spent, Pending
<1>6. QED
  BY <1>1, <1>2, <1>4, <1>5, StoreKeptStutters DEF CaptchaInv

LEMMA StoringKeeps ==
    ASSUME CaptchaInv, NEW r \in Client, capOp[r].step = "issue", IssueStore(capOp[r]),
           NEW outcome \in {"issued", "unavailable"}, CaptchaEnd(r, outcome)
    PROVE  CaptchaInv'
<1> DEFINE op == capOp[r]
<1>0. /\ op.challenge \in minted /\ record[op.challenge] = NoScope
      /\ accepted[op.challenge] = 0 /\ op.scope \in Scope /\ op \in CaptchaOp
      /\ minted' = minted /\ accepted' = accepted /\ Pending(r)
  BY DEF CaptchaInv, OpInv, Pending, IssueStore
<1>1. StoreInv' /\ \A c \in Challenge : c # op.challenge => record'[c] \in {record[c], NoScope}
  BY <1>0, IssueStoreKeeps DEF CaptchaInv
<1>2. \A q \in Client \ {r} : Pending(q) =>
        record'[capOp[q].challenge] = NoScope /\ accepted'[capOp[q].challenge] = 0
  BY <1>0, <1>1 DEF CaptchaInv, StoreInv, OpInv
<1>3. outcome \in CaptchaStep
  BY DEF CaptchaStep
<1>4. OpInv'
  BY <1>0, <1>2, <1>3, CallerEnds
<1>5. QED
  BY <1>1, <1>4 DEF CaptchaInv

\* A caller's result, with nothing of it pending before.
LEMMA QuietEnd ==
    ASSUME CaptchaInv, NEW r \in Client, ~Pending(r), UNCHANGED captchaStore,
           NEW outcome \in {"idle", "issued", "invalid", "unavailable"},
           CaptchaEnd(r, outcome)
    PROVE  CaptchaInv' /\ UNCHANGED PromiseVars
<1> DEFINE new == [CaptchaIdle EXCEPT !.step = outcome]
<1>1. outcome \in CaptchaStep
  BY DEF CaptchaStep
<1>2. new \in CaptchaOp /\ new.step = outcome
  BY <1>1, IdleIsOp DEF CaptchaOp
<1>3. capOp' = [capOp EXCEPT ![r] = new]
  BY DEF CaptchaEnd
<1> HIDE DEF new
<1>4. QED
  BY <1>2, <1>3, QuietMove

\* A caller's result that leaves others' pending identifiers alone.
LEMMA StoreQuiet ==
    ASSUME CaptchaInv, UNCHANGED captchaStore
    PROVE  /\ StoreInv' /\ minted' = minted
           /\ \A q \in Client : Pending(q) =>
                record'[capOp[q].challenge] = NoScope /\ accepted'[capOp[q].challenge] = 0
           /\ \A c \in Challenge : accepted[c] = 1 => accepted'[c] = 1
BY DEF CaptchaInv, StoreInv, OpInv, captchaStore

LEMMA ReadPointerKeeps ==
    ASSUME CaptchaInv, NEW r \in Client, IssueReadPointer(r)
    PROVE  CaptchaInv' /\ UNCHANGED PromiseVars
<1> DEFINE new == [capOp[r] EXCEPT !.step = "issue", !.seen = pointer[capOp[r].scope]]
<1>1. capOp' = [capOp EXCEPT ![r] = new]
  BY DEF IssueReadPointer, CaptchaInv, OpInv
<1>2. /\ capOp[r] \in CaptchaOp /\ Pending(r)
      /\ pointer[capOp[r].scope] \in Challenge \cup {NoChallenge}
  BY DEF IssueReadPointer, CaptchaInv, StoreInv, OpInv, Pending
<1>3. /\ new \in CaptchaOp /\ new.step = "issue"
      /\ new.scope = capOp[r].scope /\ new.challenge = capOp[r].challenge
  BY <1>2 DEF CaptchaOp, CaptchaStep
<1> HIDE DEF new
<1>4. QED
  BY <1>1, <1>2, <1>3, QuietMove DEF IssueReadPointer

LEMMA IssueScriptKeeps ==
    ASSUME CaptchaInv, NEW r \in Client, IssueScript(r)
    PROVE  CaptchaInv' /\ (Promise!Next \/ UNCHANGED PromiseVars)
<1> DEFINE op == capOp[r]
<1>0. Pending(r) /\ op \in CaptchaOp /\ op.step = "issue" /\ op.scope \in Scope
  BY DEF IssueScript, Pending, CaptchaInv, OpInv
<1>1. CASE /\ PointerMoved(op) /\ op.attempt < PointerAttempts /\ UNCHANGED captchaStore
           /\ capOp' = [capOp EXCEPT ![r].step = "pointer", ![r].seen = NoChallenge,
                                     ![r].attempt = @ + 1]
  <2> DEFINE new == [op EXCEPT !.step = "pointer", !.seen = NoChallenge, !.attempt = @ + 1]
  <2>1. capOp' = [capOp EXCEPT ![r] = new]
    BY <1>1 DEF CaptchaInv, OpInv
  <2>2. op.attempt + 1 \in 0..PointerAttempts
    BY <1>0, <1>1 DEF CaptchaOp, PointerAttempts
  <2>3. /\ new \in CaptchaOp /\ new.step = "pointer"
        /\ new.scope = op.scope /\ new.challenge = op.challenge
    BY <1>0, <2>2 DEF CaptchaOp, CaptchaStep
  <2>4. op.scope \in PrivateScope
    BY <1>1 DEF PointerMoved
  <2> HIDE DEF new
  <2>5. QED
    BY <1>0, <1>1, <2>1, <2>3, <2>4, QuietMove
<1>2. ASSUME NEW outcome \in {"invalid", "unavailable"}, CaptchaEnd(r, outcome),
             UNCHANGED captchaStore
      PROVE  CaptchaInv' /\ Promise!Next
  <2>1. outcome \in CaptchaStep
    BY DEF CaptchaStep
  <2>2. CaptchaInv'
    BY <1>2, <2>1, StoreQuiet, CallerEnds DEF CaptchaInv
  <2>3. QED
    BY <1>0, <1>2, <2>2, GivingUpDiscards
<1>3. CASE IssueStore(op) /\ CaptchaEnd(r, "issued")
  <2>1. CaptchaInv' /\ Promise!Next
    BY <1>0, <1>3, StoringKeeps, StoringIssues DEF CaptchaStep
  <2>2. QED
    BY <2>1
<1>4. QED
  BY <1>1, <1>2, <1>3 DEF IssueScript

LEMMA ConsumeBeginKeeps ==
    ASSUME CaptchaInv, NEW r \in Client, NEW s \in Scope, NEW c \in Challenge,
           NEW right \in BOOLEAN, ConsumeBegin(r, s, c, right)
    PROVE  CaptchaInv' /\ UNCHANGED PromiseVars
<1> DEFINE new == [CaptchaIdle EXCEPT !.step = "look", !.scope = s, !.challenge = c,
                                      !.right = right]
<1>1. /\ capOp' = [capOp EXCEPT ![r] = new] /\ UNCHANGED captchaStore /\ ~Pending(r)
  BY DEF ConsumeBegin, Pending
<1>2. new \in CaptchaOp /\ new.step = "look" /\ new.scope = s /\ new.challenge = c
  BY IdleIsOp DEF CaptchaOp, CaptchaStep
<1> HIDE DEF new
<1>3. QED
  BY <1>1, <1>2, QuietMove

LEMMA ConsumeLookKeeps ==
    ASSUME CaptchaInv, NEW r \in Client, ConsumeLook(r)
    PROVE  CaptchaInv' /\ UNCHANGED PromiseVars
<1>1. /\ capOp[r] \in CaptchaOp /\ ~Pending(r) /\ UNCHANGED captchaStore
      /\ capOp[r].scope \in Scope /\ capOp[r].challenge \in Challenge
  BY DEF ConsumeLook, Pending, CaptchaInv, OpInv
<1>2. CASE CaptchaEnd(r, "invalid")
  BY <1>1, <1>2, QuietEnd
<1>3. CASE capOp' = [capOp EXCEPT ![r].step = "consume"]
  <2> DEFINE new == [capOp[r] EXCEPT !.step = "consume"]
  <2>1. capOp' = [capOp EXCEPT ![r] = new]
    BY <1>3 DEF CaptchaInv, OpInv
  <2>2. /\ new \in CaptchaOp /\ new.step = "consume"
        /\ new.scope = capOp[r].scope /\ new.challenge = capOp[r].challenge
    BY <1>1 DEF CaptchaOp, CaptchaStep
  <2> HIDE DEF new
  <2>3. QED
    BY <1>1, <2>1, <2>2, QuietMove
<1>4. QED
  BY <1>2, <1>3 DEF ConsumeLook

\* What deleting a record means to the callers.
LEMMA WithdrawOthers ==
    ASSUME CaptchaInv, NEW c \in Challenge, record[c] # NoScope, Withdraw(c),
           \/ accepted' = accepted
           \/ accepted' = [accepted EXCEPT ![c] = @ + 1]
    PROVE  /\ StoreInv' /\ minted' = minted
           /\ \A q \in Client : Pending(q) =>
                /\ capOp[q].challenge # c
                /\ record'[capOp[q].challenge] = NoScope /\ accepted'[capOp[q].challenge] = 0
           /\ \A d \in Challenge : accepted[d] = 1 => accepted'[d] = 1
<1>1. /\ StoreInv' /\ record' = [record EXCEPT ![c] = NoScope]
      /\ \A d \in Challenge : d # c => accepted'[d] = accepted[d]
      /\ accepted[c] = 0
  BY WithdrawKeeps DEF CaptchaInv
<1>2. minted' = minted
  BY DEF Withdraw
<1>3. \A q \in Client : Pending(q) =>
        /\ capOp[q].challenge # c /\ capOp[q].challenge \in Challenge
        /\ record[capOp[q].challenge] = NoScope /\ accepted[capOp[q].challenge] = 0
  BY DEF CaptchaInv, StoreInv, OpInv
<1>4. QED
  BY <1>1, <1>2, <1>3 DEF CaptchaInv, StoreInv

\* The answer's record is deleted and its caller told the outcome, or not.
LEMMA DeletingKeeps ==
    ASSUME CaptchaInv, NEW r \in Client, capOp[r].step = "consume",
           record[capOp[r].challenge] # NoScope, Withdraw(capOp[r].challenge),
           UNCHANGED accepted, NEW outcome \in {"invalid", "unavailable"},
           CaptchaEnd(r, outcome)
    PROVE  CaptchaInv' /\ Promise!Next
<1> DEFINE c == capOp[r].challenge
<1>1. c \in Challenge /\ ~Pending(r) /\ outcome \in CaptchaStep
  BY DEF CaptchaInv, OpInv, Pending, CaptchaStep
<1>2. CaptchaInv'
  BY <1>1, WithdrawOthers, CallerEnds DEF CaptchaInv
<1>3. \A q \in Client : /\ Pending(q)' <=> Pending(q)
                        /\ Pending(q) => capOp'[q].challenge = capOp[q].challenge
  <2>1. capOp'[r].step = outcome /\ \A q \in Client \ {r} : capOp'[q] = capOp[q]
    BY IdleIsOp DEF CaptchaEnd, CaptchaInv, OpInv, CaptchaOp
  <2>2. QED
    BY <1>1, <2>1 DEF Pending
<1>4. Promise!Next
  BY <1>1, <1>3, WithdrawingDrops
<1>5. QED
  BY <1>2, <1>4

LEMMA ConsumeScriptKeeps ==
    ASSUME CaptchaInv, NEW r \in Client, ConsumeScript(r)
    PROVE  CaptchaInv' /\ (Promise!Next \/ UNCHANGED PromiseVars)
<1> DEFINE op == capOp[r]
           c == capOp[r].challenge
<1>0. /\ op.step = "consume" /\ ~Pending(r) /\ op \in CaptchaOp
      /\ op.scope \in Scope /\ c \in Challenge
  BY DEF ConsumeScript, Pending, CaptchaInv, OpInv
<1>1. CASE record[c] = NoScope /\ CaptchaEnd(r, "invalid") /\ UNCHANGED captchaStore
  BY <1>0, <1>1, QuietEnd
<1>2. CASE record[c] # NoScope /\ Withdraw(c) /\ CaptchaEnd(r, "invalid") /\ UNCHANGED accepted
  BY <1>0, <1>2, DeletingKeeps
<1>3. CASE /\ Answers(op) /\ Withdraw(c)
           /\ capOp' = [capOp EXCEPT ![r].step = "accepted"]
           /\ accepted' = [accepted EXCEPT ![c] = @ + 1]
  <2> DEFINE new == [op EXCEPT !.step = "accepted"]
  <2>1. record[c] # NoScope
    BY <1>0, <1>3, CaptchaAssumption DEF Answers, Scope
  <2>2. capOp' = [capOp EXCEPT ![r] = new]
    BY <1>3 DEF CaptchaInv, OpInv
  <2>3. /\ new \in CaptchaOp /\ new.step = "accepted"
        /\ new.scope = op.scope /\ new.challenge = c
    BY <1>0 DEF CaptchaOp, CaptchaStep
  <2> HIDE DEF new
  <2>4. accepted[c] = 0 /\ accepted'[c] = 1
    BY <1>0, <1>3, <2>1, WithdrawKeeps DEF CaptchaInv, StoreInv
  <2>5. \A q \in Client \ {r} : capOp[q].step = "accepted" => capOp[q].challenge # c
    BY <2>4 DEF CaptchaInv, OpInv
  <2>6. /\ StoreInv' /\ minted' = minted
        /\ \A q \in Client : Pending(q) =>
             record'[capOp[q].challenge] = NoScope /\ accepted'[capOp[q].challenge] = 0
        /\ \A d \in Challenge : accepted[d] = 1 => accepted'[d] = 1
    BY <1>0, <1>3, <2>1, WithdrawOthers
  <2>7. OpInv'
    BY <1>0, <2>2, <2>3, <2>4, <2>5, <2>6, CallerMoves
  <2>8. \A q \in Client : /\ Pending(q)' <=> Pending(q)
                          /\ Pending(q) => capOp'[q].challenge = capOp[q].challenge
    <3>1. capOp'[r] = new /\ \A q \in Client \ {r} : capOp'[q] = capOp[q]
      BY <2>2 DEF CaptchaInv, OpInv
    <3>2. QED
      BY <1>0, <2>3, <3>1 DEF Pending
  <2>9. Promise!Next
    BY <1>0, <1>3, <2>1, <2>8, WithdrawingDrops
  <2>10. QED
    BY <2>6, <2>7, <2>9 DEF CaptchaInv
<1>4. QED
  BY <1>1, <1>2, <1>3 DEF ConsumeScript

LEMMA RedisFailsKeeps ==
    ASSUME CaptchaInv, NEW r \in Client, RedisFails(r)
    PROVE  CaptchaInv' /\ (Promise!Next \/ UNCHANGED PromiseVars)
<1>0. CaptchaEnd(r, "unavailable") /\ "unavailable" \in CaptchaStep
  BY DEF RedisFails, CaptchaStep
<1>1. CASE UNCHANGED captchaStore /\ Pending(r)
  <2>1. CaptchaInv'
    BY <1>0, <1>1, StoreQuiet, CallerEnds DEF CaptchaInv
  <2>2. QED
    BY <1>0, <1>1, <2>1, GivingUpDiscards
<1>2. CASE UNCHANGED captchaStore /\ ~Pending(r)
  BY <1>0, <1>2, QuietEnd
<1>3. CASE capOp[r].step = "issue" /\ IssueStore(capOp[r])
  BY <1>0, <1>3, StoringKeeps, StoringIssues
<1>4. CASE /\ capOp[r].step = "consume" /\ record[capOp[r].challenge] # NoScope
           /\ Withdraw(capOp[r].challenge) /\ UNCHANGED accepted
  BY <1>0, <1>4, DeletingKeeps
<1>5. QED
  BY <1>1, <1>2, <1>3, <1>4 DEF RedisFails

LEMMA ExpireKeeps ==
    ASSUME CaptchaInv, NEW c \in Challenge, CaptchaExpire(c)
    PROVE  CaptchaInv' /\ Promise!Next
<1>1. record[c] # NoScope /\ Withdraw(c) /\ accepted' = accepted /\ capOp' = capOp
  BY DEF CaptchaExpire
<1>2. /\ StoreInv' /\ minted' = minted
      /\ \A q \in Client : Pending(q) =>
           record'[capOp[q].challenge] = NoScope /\ accepted'[capOp[q].challenge] = 0
  BY <1>1, WithdrawOthers
<1>3. OpInv'
  BY <1>1, <1>2 DEF CaptchaInv, OpInv, Pending
<1>4. Promise!Next
  BY <1>1, WithdrawingDrops DEF Pending
<1>5. QED
  BY <1>2, <1>3, <1>4 DEF CaptchaInv

-----------------------------------------------------------------------------
(* The requests *)

Stages == {"idle", "inspect", "charge", "issue", "consume", "work", "pool"}

\* Where a request is in its CAPTCHA and in the pool agrees with its stage.
Joined(r) ==
    /\ stage[r] # "idle" => flow[r] \in Flow
    /\ stage[r] = "issue" => IssuesTo[flow[r]] \in Scope
    /\ stage[r] = "consume" => AnswersFor[flow[r]] \in Scope
    /\ capOp[r].step \in CaptchaStep
    /\ capOp[r].step \in {"pointer", "issue", "issued"} => stage[r] = "issue"
    /\ capOp[r].step \in {"look", "consume"} => stage[r] = "consume"
    /\ capOp[r].step \in {"invalid", "unavailable"} => stage[r] \in {"issue", "consume"}
    /\ capOp[r].step = "accepted" => stage[r] \in {"consume", "work", "pool"}
    /\ capOp[r].step \in {"look", "consume", "accepted"} =>
         capOp[r].scope = AnswersFor[flow[r]]
    /\ stage[r] \in {"work", "pool"} /\ AnswersFor[flow[r]] # NoScope =>
         capOp[r].step = "accepted"
    /\ poolStep[r] # "out" => stage[r] = "pool"

JoinInv ==
    /\ stage \in [Client -> Stages]
    /\ flow \in [Client -> Flow \cup {NoFlow}]
    /\ \A r \in Client : Joined(r)

IInv == PoolInv /\ QuotaInv /\ CaptchaInv /\ JoinInv

\* A step of r's own, and what it leaves of the others.
LEMMA OneJoins ==
    ASSUME JoinInv, NEW r \in Client,
           stage' \in [Client -> Stages], flow' \in [Client -> Flow \cup {NoFlow}],
           \A q \in Client \ {r} :
             /\ stage'[q] = stage[q] /\ flow'[q] = flow[q] /\ capOp'[q] = capOp[q],
           OthersStayOut(r), Joined(r)'
    PROVE  JoinInv'
<1>1. ASSUME NEW q \in Client, q # r PROVE Joined(q)'
  <2>1. Joined(q) /\ (poolStep'[q] # "out" => poolStep[q] # "out")
    BY <1>1 DEF JoinInv, OthersStayOut
  <2>2. QED
    BY <1>1, <2>1 DEF Joined
<1>2. QED
  BY <1>1 DEF JoinInv

\* The result of a challenge's issue or answer leaves its step in the open.
LEMMA EndStep ==
    ASSUME CaptchaInv, NEW r \in Client, NEW outcome, CaptchaEnd(r, outcome)
    PROVE  capOp'[r].step = outcome /\ \A q \in Client \ {r} : capOp'[q] = capOp[q]
BY IdleIsOp DEF CaptchaEnd, CaptchaInv, OpInv, CaptchaOp

LEMMA CaptchaMovesOnlyOne ==
    ASSUME CaptchaInv, NEW r \in Client, CaptchaAdvance(r) \/ RedisFails(r)
    PROVE  /\ \A q \in Client \ {r} : capOp'[q] = capOp[q]
           /\ capOp[r].step \in {"pointer", "issue"} =>
                capOp'[r].step \in {"pointer", "issue", "issued", "invalid", "unavailable"}
           /\ capOp[r].step \in {"look", "consume"} =>
                \/ capOp'[r].step \in {"invalid", "unavailable"}
                \/ /\ capOp'[r].step \in {"consume", "accepted"}
                   /\ capOp'[r].scope = capOp[r].scope
           /\ capOp[r].step \in {"pointer", "issue", "look", "consume"}
<1>1. capOp \in [Client -> CaptchaOp]
  BY DEF CaptchaInv, OpInv
<1>2. CASE IssueReadPointer(r)
  BY <1>1, <1>2 DEF IssueReadPointer, CaptchaOp
<1>3. CASE IssueScript(r)
  <2>1. CASE capOp' = [capOp EXCEPT ![r].step = "pointer", ![r].seen = NoChallenge,
                                    ![r].attempt = @ + 1]
    BY <1>1, <1>3, <2>1 DEF IssueScript, CaptchaOp
  <2>2. CASE \E outcome \in {"invalid", "unavailable", "issued"} : CaptchaEnd(r, outcome)
    BY <1>3, <2>2, EndStep DEF IssueScript
  <2>3. QED
    BY <1>3, <2>1, <2>2 DEF IssueScript
<1>4. CASE ConsumeLook(r)
  <2>1. CASE capOp' = [capOp EXCEPT ![r].step = "consume"]
    BY <1>1, <1>4, <2>1 DEF ConsumeLook, CaptchaOp
  <2>2. CASE CaptchaEnd(r, "invalid")
    BY <1>4, <2>2, EndStep DEF ConsumeLook
  <2>3. QED
    BY <1>4, <2>1, <2>2 DEF ConsumeLook
<1>5. CASE ConsumeScript(r)
  <2>1. CASE capOp' = [capOp EXCEPT ![r].step = "accepted"]
    BY <1>1, <1>5, <2>1 DEF ConsumeScript, CaptchaOp
  <2>2. CASE CaptchaEnd(r, "invalid")
    BY <1>5, <2>2, EndStep DEF ConsumeScript
  <2>3. QED
    BY <1>5, <2>1, <2>2 DEF ConsumeScript
<1>6. CASE RedisFails(r)
  BY <1>6, EndStep DEF RedisFails
<1>7. QED
  BY <1>2, <1>3, <1>4, <1>5, <1>6 DEF CaptchaAdvance

\* A request that ends with nothing left in the store or the pool.
LEMMA Responding ==
    ASSUME IInv, NEW r \in Client, Respond(r), capOp'[r].step = "idle",
           \A q \in Client \ {r} : capOp'[q] = capOp[q],
           OthersStayOut(r), poolStep'[r] = "out"
    PROVE  JoinInv'
<1>1. /\ stage' \in [Client -> Stages] /\ flow' \in [Client -> Flow \cup {NoFlow}]
      /\ stage'[r] = "idle"
      /\ \A q \in Client \ {r} : stage'[q] = stage[q] /\ flow'[q] = flow[q]
  BY DEF IInv, JoinInv, Respond, Stages
<1>2. Joined(r)'
  BY <1>1 DEF Joined, CaptchaStep
<1>3. JoinInv
  BY DEF IInv
<1>4. QED
  BY <1>1, <1>2, <1>3, OneJoins

\* A request that moves on to another stage.
LEMMA GoingOn ==
    ASSUME IInv, NEW r \in Client, NEW next \in Stages, Goto(r, next),
           \A q \in Client \ {r} : capOp'[q] = capOp[q],
           OthersStayOut(r), Joined(r)'
    PROVE  JoinInv'
<1>1. /\ stage' \in [Client -> Stages] /\ flow' \in [Client -> Flow \cup {NoFlow}]
      /\ \A q \in Client \ {r} : stage'[q] = stage[q] /\ flow'[q] = flow[q]
  BY DEF IInv, JoinInv, Goto
<1>2. JoinInv
  BY DEF IInv
<1>3. QED
  BY <1>1, <1>2, OneJoins

\* The invariant of the requests, one step at a time.
LEMMA FirstStagesJoin ==
    ASSUME IInv, NEW r \in Client,
           \/ \E f \in Flow : Request(r, f)
           \/ Inspect(r) \/ Charge(r)
    PROVE  JoinInv'
<1>0. /\ Joined(r) /\ stage \in [Client -> Stages] /\ flow \in [Client -> Flow \cup {NoFlow}]
  BY DEF IInv, JoinInv
<1>1. CASE \E f \in Flow : Request(r, f)
  <2>1. PICK f \in Flow : Request(r, f)
    BY <1>1
  <2>2. /\ stage' = [stage EXCEPT ![r] = IF f \in Protected THEN "inspect" ELSE "charge"]
        /\ flow' = [flow EXCEPT ![r] = f] /\ capOp' = capOp /\ poolStep' = poolStep
        /\ stage[r] = "idle"
    BY <2>1 DEF Request, captchaVars, poolVars
  <2>3. Joined(r)'
    BY <1>0, <2>2 DEF Joined, CaptchaStep
  <2>4. /\ stage' \in [Client -> Stages] /\ flow' \in [Client -> Flow \cup {NoFlow}]
        /\ \A q \in Client \ {r} :
             /\ stage'[q] = stage[q] /\ flow'[q] = flow[q] /\ capOp'[q] = capOp[q]
        /\ OthersStayOut(r) /\ JoinInv
    BY <1>0, <2>2 DEF IInv, OthersStayOut, Stages
  <2>5. QED
    BY <2>3, <2>4, OneJoins
<1>2. CASE Inspect(r)
  <2>1. capOp' = capOp /\ poolStep' = poolStep /\ stage[r] = "inspect"
    BY <1>2 DEF Inspect, captchaVars, poolVars
  <2>2. capOp[r].step = "idle" /\ poolStep[r] = "out"
    BY <1>0, <2>1 DEF Joined, CaptchaStep
  <2>3. CASE Respond(r)
    BY <2>1, <2>2, <2>3, Responding DEF OthersStayOut
  <2>4. CASE Goto(r, "charge")
    <3>1. stage'[r] = "charge" /\ flow' = flow
      BY <1>0, <2>4 DEF Goto
    <3>2. Joined(r)'
      BY <1>0, <2>1, <2>2, <3>1 DEF Joined
    <3>3. /\ \A q \in Client \ {r} : capOp'[q] = capOp[q]
          /\ OthersStayOut(r) /\ "charge" \in Stages
      BY <2>1 DEF OthersStayOut, Stages
    <3>4. QED
      BY <2>4, <3>2, <3>3, GoingOn
  <2>5. QED
    BY <1>2, <2>3, <2>4 DEF Inspect
<1>3. CASE Charge(r)
  <2>1. capOp' = capOp /\ poolStep' = poolStep /\ stage[r] = "charge"
    BY <1>3 DEF Charge, captchaVars, poolVars
  <2>2. capOp[r].step = "idle" /\ poolStep[r] = "out" /\ flow[r] \in Flow
    BY <1>0, <2>1 DEF Joined, CaptchaStep
  <2>3. CASE Respond(r)
    BY <2>1, <2>2, <2>3, Responding DEF OthersStayOut
  <2>4. CASE Goto(r, AfterQuota(flow[r]))
    <3>1. stage'[r] = AfterQuota(flow[r]) /\ flow' = flow /\ AfterQuota(flow[r]) \in Stages
      BY <1>0, <2>4 DEF Goto, AfterQuota, Stages
    <3>2. Joined(r)'
      BY <1>0, <2>1, <2>2, <3>1, AdmissionAssumption DEF Joined, AfterQuota
    <3>3. (\A q \in Client \ {r} : capOp'[q] = capOp[q]) /\ OthersStayOut(r)
      BY <2>1 DEF OthersStayOut
    <3>4. QED
      BY <2>4, <3>1, <3>2, <3>3, GoingOn
  <2>5. QED
    BY <1>3, <2>3, <2>4 DEF Charge
<1>4. QED
  BY <1>1, <1>2, <1>3

\* The stages that only move the CAPTCHA: the stage and the pool stay as they are.
LEMMA CaptchaStagesJoin ==
    ASSUME IInv, NEW r \in Client,
           IssueCaptcha(r) \/ ConsumeCaptcha(r) \/ CaptchaProgress(r) \/ CaptchaResponds(r)
    PROVE  JoinInv'
<1>0. /\ Joined(r) /\ stage \in [Client -> Stages] /\ flow \in [Client -> Flow \cup {NoFlow}]
      /\ capOp \in [Client -> CaptchaOp] /\ JoinInv /\ CaptchaInv
  BY DEF IInv, JoinInv, CaptchaInv, OpInv
<1>1. ASSUME UNCHANGED <<poolVars, admissionVars>>,
             \A q \in Client \ {r} : capOp'[q] = capOp[q], Joined(r)'
      PROVE  JoinInv'
  <2>1. stage' = stage /\ flow' = flow /\ poolStep' = poolStep
    BY <1>1 DEF poolVars, admissionVars
  <2>2. OthersStayOut(r)
    BY <2>1 DEF OthersStayOut
  <2>3. QED
    BY <1>0, <1>1, <2>1, <2>2, OneJoins
<1>2. CASE IssueCaptcha(r)
  <2>1. PICK c \in Challenge, previous \in minted \cup {NoChallenge} :
          IssueBegin(r, IssuesTo[flow[r]], c, previous)
    BY <1>2 DEF IssueCaptcha
  <2>2. /\ UNCHANGED <<poolVars, admissionVars>> /\ stage[r] = "issue"
        /\ stage' = stage /\ flow' = flow /\ poolStep' = poolStep
    BY <1>2 DEF IssueCaptcha, poolVars, admissionVars
  <2>3. /\ capOp'[r].step \in {"pointer", "issue"}
        /\ \A q \in Client \ {r} : capOp'[q] = capOp[q]
    BY <1>0, <2>1, IdleIsOp DEF IssueBegin, CaptchaOp
  <2>4. Joined(r)'
    BY <1>0, <2>2, <2>3 DEF Joined, CaptchaStep
  <2>5. QED
    BY <1>1, <2>2, <2>3, <2>4
<1>3. CASE ConsumeCaptcha(r)
  <2>1. PICK c \in Challenge, right \in BOOLEAN :
          ConsumeBegin(r, AnswersFor[flow[r]], c, right)
    BY <1>3 DEF ConsumeCaptcha
  <2>2. /\ UNCHANGED <<poolVars, admissionVars>> /\ stage[r] = "consume"
        /\ stage' = stage /\ flow' = flow /\ poolStep' = poolStep
    BY <1>3 DEF ConsumeCaptcha, poolVars, admissionVars
  <2>3. /\ capOp'[r].step = "look" /\ capOp'[r].scope = AnswersFor[flow[r]]
        /\ \A q \in Client \ {r} : capOp'[q] = capOp[q]
    BY <1>0, <2>1, IdleIsOp DEF ConsumeBegin, CaptchaOp
  <2>4. Joined(r)'
    BY <1>0, <2>2, <2>3 DEF Joined, CaptchaStep
  <2>5. QED
    BY <1>1, <2>2, <2>3, <2>4
<1>4. CASE CaptchaProgress(r)
  <2>1. /\ UNCHANGED <<poolVars, admissionVars>>
        /\ stage' = stage /\ flow' = flow /\ poolStep' = poolStep
    BY <1>4 DEF CaptchaProgress, poolVars, admissionVars
  <2>2. /\ \A q \in Client \ {r} : capOp'[q] = capOp[q]
        /\ capOp[r].step \in {"pointer", "issue"} =>
             capOp'[r].step \in {"pointer", "issue", "issued", "invalid", "unavailable"}
        /\ capOp[r].step \in {"look", "consume"} =>
             \/ capOp'[r].step \in {"invalid", "unavailable"}
             \/ /\ capOp'[r].step \in {"consume", "accepted"}
                /\ capOp'[r].scope = capOp[r].scope
        /\ capOp[r].step \in {"pointer", "issue", "look", "consume"}
    BY <1>0, <1>4, CaptchaMovesOnlyOne DEF CaptchaProgress
  <2>3. Joined(r)'
    <3>1. CASE capOp[r].step \in {"pointer", "issue"}
      BY <1>0, <2>1, <2>2, <3>1 DEF Joined, CaptchaStep
    <3>2. CASE capOp[r].step \in {"look", "consume"}
      BY <1>0, <2>1, <2>2, <3>2 DEF Joined, CaptchaStep
    <3>3. QED
      BY <2>2, <3>1, <3>2
  <2>4. QED
    BY <1>1, <2>1, <2>2, <2>3
<1>5. CASE CaptchaResponds(r)
  <2>1. /\ Respond(r) /\ poolStep' = poolStep
        /\ capOp[r].step \in {"issued", "invalid", "unavailable"}
        /\ capOp' = [capOp EXCEPT ![r] = CaptchaIdle]
    BY <1>5 DEF CaptchaResponds, CaptchaForget, poolVars
  <2>2. /\ capOp'[r].step = "idle" /\ \A q \in Client \ {r} : capOp'[q] = capOp[q]
        /\ poolStep'[r] = "out" /\ OthersStayOut(r)
    BY <1>0, <2>1, IdleIsOp DEF Joined, OthersStayOut
  <2>3. QED
    BY <2>1, <2>2, Responding
<1>6. QED
  BY <1>2, <1>3, <1>4, <1>5

\* The stages of the password work.
LEMMA WorkStagesJoin ==
    ASSUME IInv, NEW r \in Client,
           StartWork(r) \/ WorkResponds(r) \/ PoolProgress(r) \/ Cancel(r)
    PROVE  JoinInv'
<1>0. /\ Joined(r) /\ stage \in [Client -> Stages] /\ flow \in [Client -> Flow \cup {NoFlow}]
      /\ capOp \in [Client -> CaptchaOp] /\ JoinInv /\ PoolInv
  BY DEF IInv, JoinInv, CaptchaInv, OpInv
\* Only a request in the pool can be granted a slot, hold one or wait.
<1>00. thread[r] = "busy" \/ poolStep[r] # "out" => stage[r] = "pool"
  BY <1>0 DEF Joined, PoolInv
<1>000. \A new : capOp' = [capOp EXCEPT ![r] = new] =>
          capOp'[r] = new /\ \A q \in Client \ {r} : capOp'[q] = capOp[q]
  BY <1>0
<1>1. CASE StartWork(r)
  <2>1. /\ stage[r] = "work" \/ (stage[r] = "consume" /\ capOp[r].step = "accepted")
        /\ PoolEnter(r) /\ Goto(r, "pool") /\ capOp' = capOp
    BY <1>1 DEF StartWork, captchaVars
  <2>2. OthersStayOut(r)
    BY <1>0, <2>1, EnterKeeps
  <2>3. stage'[r] = "pool" /\ flow' = flow
    BY <1>0, <2>1 DEF Goto
  <2>4. Joined(r)'
    BY <1>0, <2>1, <2>3 DEF Joined
  <2>5. "pool" \in Stages /\ \A q \in Client \ {r} : capOp'[q] = capOp[q]
    BY <2>1 DEF Stages
  <2>6. QED
    BY <2>1, <2>2, <2>4, <2>5, GoingOn
<1>2. CASE WorkResponds(r)
  <2>1. /\ stage[r] = "work" /\ Respond(r) /\ poolStep' = poolStep
        /\ capOp' = [capOp EXCEPT ![r] = CaptchaIdle]
    BY <1>2 DEF WorkResponds, poolVars
  <2>2. /\ capOp'[r].step = "idle" /\ \A q \in Client \ {r} : capOp'[q] = capOp[q]
        /\ poolStep'[r] = "out" /\ OthersStayOut(r)
    BY <1>0, <1>000, <2>1, IdleIsOp DEF Joined, OthersStayOut
  <2>3. QED
    BY <2>1, <2>2, Responding
<1>3. CASE PoolProgress(r)
  <2>1. /\ OthersStayOut(r)
        /\ PoolAdvance(r) => stage[r] = "pool"
        /\ PoolLeave(r) => PoolAdvance(r) /\ poolStep'[r] = "out"
    <3>1. PoolAdvance(r)
      BY <1>3 DEF PoolProgress, PoolAdvance
    <3>2. OthersStayOut(r)
      BY <1>0, <3>1, ResumeKeeps, FinishKeeps, LeaveKeeps DEF PoolAdvance
    <3>3. stage[r] = "pool"
      BY <1>00, <3>1 DEF PoolAdvance, PoolResume, ThreadFinishes, PoolLeave
    <3>4. PoolLeave(r) => poolStep'[r] = "out"
      BY <1>0, LeaveKeeps
    <3>5. QED
      BY <3>1, <3>2, <3>3, <3>4
  <2>2. CASE PoolAdvance(r) /\ UNCHANGED <<admissionVars, capOp>>
    <3>1. stage' = stage /\ flow' = flow /\ capOp' = capOp
      BY <2>2 DEF admissionVars
    <3>2. Joined(r)'
      BY <1>0, <2>1, <2>2, <3>1 DEF Joined
    <3>3. QED
      BY <1>0, <2>1, <3>1, <3>2, OneJoins
  <2>3. CASE /\ PoolLeave(r) /\ stage' = [stage EXCEPT ![r] = "work"]
             /\ UNCHANGED <<flow, capOp>>
    <3>1. /\ stage'[r] = "work" /\ flow' = flow /\ capOp' = capOp
          /\ \A q \in Client \ {r} : stage'[q] = stage[q]
          /\ stage' \in [Client -> Stages]
      BY <1>0, <2>3 DEF Stages
    <3>2. Joined(r)'
      BY <1>0, <2>1, <2>3, <3>1 DEF Joined
    <3>3. QED
      BY <1>0, <2>1, <3>1, <3>2, OneJoins
  <2>4. CASE /\ Respond(r) /\ poolStep'[r] = "out"
             /\ capOp' = [capOp EXCEPT ![r] = CaptchaIdle]
    <3>1. capOp'[r].step = "idle" /\ \A q \in Client \ {r} : capOp'[q] = capOp[q]
      BY <1>000, <2>4, IdleIsOp
    <3>2. QED
      BY <2>1, <2>4, <3>1, Responding
  <2>5. QED
    BY <1>3, <2>2, <2>3, <2>4 DEF PoolProgress
<1>4. CASE Cancel(r)
  <2>1. /\ stage[r] = "pool" /\ OthersStayOut(r)
        /\ poolStep[r] = "waiting" => poolStep'[r] = "out"
    BY <1>0, <1>4, CancelKeeps DEF Cancel
  <2>2. CASE /\ poolStep[r] = "waiting" /\ Respond(r)
             /\ capOp' = [capOp EXCEPT ![r] = CaptchaIdle]
    <3>1. capOp'[r].step = "idle" /\ \A q \in Client \ {r} : capOp'[q] = capOp[q]
      BY <1>000, <2>2, IdleIsOp
    <3>2. QED
      BY <2>1, <2>2, <3>1, Responding
  <2>3. CASE UNCHANGED <<admissionVars, capOp>>
    <3>1. stage' = stage /\ flow' = flow /\ capOp' = capOp
      BY <2>3 DEF admissionVars
    <3>2. Joined(r)'
      BY <1>0, <2>1, <3>1 DEF Joined
    <3>3. QED
      BY <1>0, <2>1, <3>1, <3>2, OneJoins
  <2>4. QED
    BY <1>4, <2>2, <2>3 DEF Cancel
<1>5. QED
  BY <1>1, <1>2, <1>3, <1>4

\* The CAPTCHA store, one step of the requests at a time.
LEMMA CaptchaStepKeeps ==
    ASSUME IInv, [Next]_vars
    PROVE  CaptchaInv' /\ (Promise!Next \/ UNCHANGED PromiseVars)
<1>0. CaptchaInv /\ capOp \in [Client -> CaptchaOp] /\ \A r \in Client : Joined(r)
  BY DEF IInv, JoinInv, CaptchaInv, OpInv
<1>1. CASE UNCHANGED captchaVars
  BY <1>0, <1>1 DEF CaptchaInv, StoreInv, OpInv, Pending, PromiseVars, Usable, Spent, captchaVars
<1>2. ASSUME NEW r \in Client, capOp' = [capOp EXCEPT ![r] = CaptchaIdle],
             UNCHANGED captchaStore, ~Pending(r)
      PROVE  CaptchaInv' /\ UNCHANGED PromiseVars
  BY <1>0, <1>2, IdleIsOp, QuietMove
<1>3. ASSUME NEW r \in Client, IssueCaptcha(r)
      PROVE  CaptchaInv' /\ UNCHANGED PromiseVars
  BY <1>0, <1>3, IssueBeginKeeps DEF IssueCaptcha, Joined
<1>4. ASSUME NEW r \in Client, ConsumeCaptcha(r)
      PROVE  CaptchaInv' /\ UNCHANGED PromiseVars
  BY <1>0, <1>4, ConsumeBeginKeeps DEF ConsumeCaptcha, Joined
<1>5. ASSUME NEW r \in Client, CaptchaProgress(r)
      PROVE  CaptchaInv' /\ (Promise!Next \/ UNCHANGED PromiseVars)
  BY <1>0, <1>5, ReadPointerKeeps, IssueScriptKeeps, ConsumeLookKeeps, ConsumeScriptKeeps,
     RedisFailsKeeps DEF CaptchaProgress, CaptchaAdvance
<1>6. ASSUME NEW r \in Client, CaptchaResponds(r)
      PROVE  CaptchaInv' /\ UNCHANGED PromiseVars
  BY <1>2, <1>6 DEF CaptchaResponds, CaptchaForget, Pending
<1>7. ASSUME NEW r \in Client, WorkResponds(r) \/ PoolProgress(r) \/ Cancel(r)
      PROVE  CaptchaInv' /\ UNCHANGED PromiseVars
  <2>1. UNCHANGED captchaStore
    BY <1>7 DEF WorkResponds, PoolProgress, Cancel
  <2>2. CASE capOp' = capOp
    BY <1>0, <2>1, <2>2 DEF CaptchaInv, StoreInv, OpInv, Pending, PromiseVars, Usable, Spent,
                            captchaStore
  <2>3. CASE capOp' = [capOp EXCEPT ![r] = CaptchaIdle]
    <3>1. stage[r] \in {"work", "pool"}
      <4>1. WorkResponds(r) \/ Cancel(r) => stage[r] \in {"work", "pool"}
        BY DEF WorkResponds, Cancel
      <4>2. PoolProgress(r) => stage[r] = "pool"
        BY <1>0 DEF IInv, PoolInv, Joined, PoolProgress, PoolAdvance, PoolResume,
                    ThreadFinishes, PoolLeave
      <4>3. QED
        BY <1>7, <4>1, <4>2
    <3>2. ~Pending(r)
      BY <1>0, <3>1 DEF Joined, Pending
    <3>3. QED
      BY <1>2, <2>1, <2>3, <3>2
  <2>4. QED
    BY <1>7, <2>2, <2>3 DEF WorkResponds, PoolProgress, Cancel
<1>8. ASSUME NEW r \in Client, Inspect(r) \/ Charge(r) \/ StartWork(r)
      PROVE  UNCHANGED captchaVars
  BY <1>8 DEF Inspect, Charge, StartWork
<1>9. ASSUME NEW r \in Client, NEW f \in Flow, Request(r, f) PROVE UNCHANGED captchaVars
  BY <1>9 DEF Request
<1>10. ASSUME Expire PROVE (CaptchaInv' /\ Promise!Next) \/ UNCHANGED captchaVars
  BY <1>0, <1>10, ExpireKeeps DEF Expire
<1>11. QED
  BY <1>1, <1>3, <1>4, <1>5, <1>6, <1>7, <1>8, <1>9, <1>10 DEF Next, Handle, vars

LEMMA JoinStepKeeps ==
    ASSUME IInv, [Next]_vars
    PROVE  JoinInv'
<1>1. CASE UNCHANGED <<capOp, poolStep, stage, flow>>
  BY <1>1 DEF IInv, JoinInv, Joined
<1>2. Expire => UNCHANGED <<capOp, poolStep, stage, flow>>
  BY DEF Expire, CaptchaExpire, captchaVars, poolVars, admissionVars
<1>3. UNCHANGED vars => UNCHANGED <<capOp, poolStep, stage, flow>>
  BY DEF vars, captchaVars, poolVars, admissionVars
<1>4. QED
  BY <1>1, <1>2, <1>3, FirstStagesJoin, CaptchaStagesJoin, WorkStagesJoin DEF Next, Handle

LEMMA CaptchaInit0 == Init => CaptchaInv /\ JoinInv /\ Promise!Init
<1> SUFFICES ASSUME Init PROVE CaptchaInv /\ JoinInv /\ Promise!Init
  OBVIOUS
<1>1. /\ record = [c \in Challenge |-> NoScope]
      /\ pointer = [s \in PrivateScope |-> NoChallenge]
      /\ minted = {} /\ accepted = [c \in Challenge |-> 0]
      /\ capOp = [r \in Client |-> CaptchaIdle]
      /\ stage = [r \in Client |-> "idle"] /\ flow = [r \in Client |-> NoFlow]
      /\ poolStep = [r \in Client |-> "out"]
  BY DEF Init, CaptchaInit, PasswordPoolInit
<1>2. \A r \in Client : capOp[r] = CaptchaIdle /\ capOp[r] \in CaptchaOp /\ capOp[r].step = "idle"
  BY <1>1, IdleIsOp
<1>3. CaptchaInv
  BY <1>1, <1>2, CaptchaAssumption DEF CaptchaInv, StoreInv, OpInv, Pending, Scope
<1>4. JoinInv
  BY <1>1, <1>2 DEF JoinInv, Joined, Stages, CaptchaStep
<1>5. Promise!Init
  BY <1>1, CaptchaAssumption DEF Promise!Init, Promise!Scope, Usable, Spent, Scope
<1>6. QED
  BY <1>3, <1>4, <1>5

\* The inductive invariant: the pool, the quotas, the store and the requests together.
LEMMA InductiveInv == Spec => []IInv
<1>1. Init => IInv
  <2>1. Init => QuotaInv
    BY RateLimitAssumption DEF Init, RateLimitInit, QuotaInv, RateLimitTypeOK
  <2>2. QED
    BY <2>1, PoolInit, CaptchaInit0 DEF IInv
<1>2. IInv /\ [Next]_vars => IInv'
  BY PoolStepKeeps, QuotaStepKeeps, CaptchaStepKeeps, JoinStepKeeps DEF IInv
<1>3. QED
  BY <1>1, <1>2, PTL DEF Spec

\* captcha.py keeps its promise in the whole service: the scripts, the pointers, the
\* three attempts and every lost reply implement at most one usable challenge per
\* private scope, each accepted at most once.
THEOREM AdmissionImplementsPromise == Spec => CaptchaPromiseKept
<1>1. Init => Promise!Init
  BY CaptchaInit0
<1>2. IInv /\ [Next]_vars => [Promise!Next]_(Promise!vars)
  BY CaptchaStepKeeps DEF Promise!vars, PromiseVars
<1>3. QED
  BY <1>1, <1>2, InductiveInv, PTL DEF Spec, CaptchaPromiseKept, Promise!Spec

\* While an Argon2 thread runs for a route that asks for a CAPTCHA, that request alone
\* was admitted with its challenge (_consume_captcha before _run_bounded).
THEOREM WorkIsPaidByCaptcha == Spec => []WorkPaidByCaptcha
<1>1. IInv => WorkPaidByCaptcha
  <2> SUFFICES ASSUME IInv, NEW r \in Client, thread[r] = "busy", AnswersFor[flow[r]] # NoScope
               PROVE  /\ capOp[r].step = "accepted"
                      /\ capOp[r].scope = AnswersFor[flow[r]]
                      /\ accepted[capOp[r].challenge] = 1
                      /\ \A q \in Client \ {r} : capOp[q].step = "accepted" =>
                           capOp[q].challenge # capOp[r].challenge
    BY DEF WorkPaidByCaptcha
  <2>1. stage[r] = "pool" /\ Joined(r)
    BY DEF IInv, PoolInv, JoinInv, Joined
  <2>2. capOp[r].step = "accepted" /\ capOp[r].scope = AnswersFor[flow[r]]
    BY <2>1 DEF Joined
  <2>3. QED
    BY <2>2 DEF IInv, CaptchaInv, OpInv
<1>2. QED
  BY <1>1, InductiveInv, PTL
=============================================================================
