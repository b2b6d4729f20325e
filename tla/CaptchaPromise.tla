--------------------------- MODULE CaptchaPromise ---------------------------
(***************************************************************************)
(* What app/core/security/captcha.py promises to its callers, with none of *)
(* its scripts, pointers or retries.                                       *)
(*                                                                         *)
(* A scope is a scene with its owner.  A challenge is usable in one scope  *)
(* at a time, becomes usable once, and stops being usable for good when it *)
(* is accepted, dropped or replaced.  A private scope ("self_change" of    *)
(* one user, for example) has at most one usable challenge.                *)
(***************************************************************************)
EXTENDS Naturals, FiniteSets

CONSTANTS Challenge, PrivateScope, PublicScope

Scope == PrivateScope \cup PublicScope

VARIABLES usable,      \* the challenges a right answer is accepted for, by scope
          spent,       \* the challenges that will never be usable again
          accepted     \* how many callers each challenge has admitted

vars == <<usable, spent, accepted>>

Init == /\ usable = [s \in Scope |-> {}]
        /\ spent = {}
        /\ accepted = [c \in Challenge |-> 0]

Fresh(c) == c \notin spent /\ \A s \in Scope : c \notin usable[s]

(* A new challenge.  In a private scope it takes the place of the old one. *)
Issue(s, c) ==
  /\ Fresh(c)
  /\ usable' = [usable EXCEPT ![s] = IF s \in PrivateScope THEN {c} ELSE @ \cup {c}]
  /\ spent' = IF s \in PrivateScope THEN spent \cup usable[s] ELSE spent
  /\ UNCHANGED accepted

(* An identifier that was drawn and never reached the store. *)
Discard(c) ==
  /\ Fresh(c)
  /\ spent' = spent \cup {c}
  /\ UNCHANGED <<usable, accepted>>

(* A public refresh names the challenge it replaces. *)
Refresh(s, old, c) ==
  /\ Fresh(c)
  /\ old \in usable[s]
  /\ usable' = [usable EXCEPT ![s] = (@ \ {old}) \cup {c}]
  /\ spent' = spent \cup {old}
  /\ UNCHANGED accepted

(* Expiry, a wrong answer, or a right one whose reply was lost. *)
Drop(s, c) ==
  /\ c \in usable[s]
  /\ usable' = [usable EXCEPT ![s] = @ \ {c}]
  /\ spent' = spent \cup {c}
  /\ UNCHANGED accepted

Accept(s, c) ==
  /\ c \in usable[s]
  /\ usable' = [usable EXCEPT ![s] = @ \ {c}]
  /\ spent' = spent \cup {c}
  /\ accepted' = [accepted EXCEPT ![c] = @ + 1]

Next == \E s \in Scope, c \in Challenge :
          \/ Issue(s, c)
          \/ Discard(c)
          \/ \E old \in Challenge : Refresh(s, old, c)
          \/ Drop(s, c)
          \/ Accept(s, c)

Spec == Init /\ [][Next]_vars
=============================================================================
