------------------------------ MODULE MCKeeper ------------------------------
(* The Keeper runs take the orders and the markets of MCOrders. *)
EXTENDS Keeper, MCOrders
=============================================================================
