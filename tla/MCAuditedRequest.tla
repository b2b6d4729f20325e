-------------------------- MODULE MCAuditedRequest --------------------------
(* Two requests and pools of one slot, in which they wait for each other, *)
(* and of two, in which one invalidates the connection of the other.      *)
EXTENDS AuditedRequest
=============================================================================
