--------------------------- MODULE MCProviderFetch ---------------------------
(***************************************************************************)
(* One shop, two broadcasts at once and two fetch slots, with the code's   *)
(* threshold, decay and credit and one of its ban signals.                 *)
(***************************************************************************)
EXTENDS ProviderFetch, TLC

CONSTANT jd
=============================================================================
