------------------------- MODULE MCConnectorDelivery -------------------------
(***************************************************************************)
(* Two dispatches at once and one administrator.                           *)
(***************************************************************************)
EXTENDS ConnectorDelivery, TLC

CallersAlike == Permutations(Dispatches) \cup Permutations(Leases)
=============================================================================
