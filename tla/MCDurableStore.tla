---------------------------- MODULE MCDurableStore ----------------------------
(***************************************************************************)
(* A task of two parts, one retry job and one idempotency key for TLC.     *)
(***************************************************************************)
EXTENDS DurableStore, TLC
=============================================================================
