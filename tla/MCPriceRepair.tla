----------------------------- MODULE MCPriceRepair -----------------------------
(***************************************************************************)
(* Five events: the first and third in the pool that quotes the anchor     *)
(* directly, the others in a pool priced through the anchor.               *)
(***************************************************************************)
EXTENDS PriceRepair

MCPools == <<"direct", "cross", "direct", "cross", "cross">>
=============================================================================
