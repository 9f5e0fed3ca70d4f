----------------------------- MODULE MCInventory -----------------------------
(* Two products in one warehouse (a, b) and the first of them in another (c). *)
(* c has no row yet.  Two carts name a and b in opposite orders.               *)
EXTENDS Inventory

CONSTANTS a, b, c, t1, p1

MCSource      == [t \in Transfers |-> a]
MCDestination == [t \in Transfers |-> c]
MCMoves       == [t \in Transfers |-> 1]
MCDeliveries  == [p \in Purchases |-> {<<a, b>>, <<b>>}]
MCCarts       == {<<a, b>>, <<b, a>>}
MCSheets      == {<<b, a>>}
MCAdjustments == {-1, 1}
=============================================================================
