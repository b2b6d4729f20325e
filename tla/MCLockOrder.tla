---------------------------- MODULE MCLockOrder ----------------------------
(***************************************************************************)
(* Constants of the LockOrder runs.                                        *)
(***************************************************************************)
EXTENDS LockOrder, TLC

CONSTANTS t1, t2

MCTxn == {t1, t2}
=============================================================================
