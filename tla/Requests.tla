------------------------------ MODULE Requests ------------------------------
(***************************************************************************)
(* The requests that the service handles at one time: one asyncio task     *)
(* each.  A client slot is free again when its response has been sent.     *)
(***************************************************************************)
CONSTANT Client
=============================================================================
