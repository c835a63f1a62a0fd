------------------------------ MODULE MCPrayers ------------------------------
(* Prayers with both kinds at different prices. *)
EXTENDS Prayers

MCCost == [minor |-> 1, major |-> 2]
=============================================================================
