----------------------------- MODULE MCCustomers -----------------------------
(* A customer and the one who brought it; cashback may exceed the cart. *)
EXTENDS Customers

CONSTANTS ann, bob

MCReferrer == [c \in Customers |-> IF c = ann THEN bob ELSE NoCustomer]
MCCarts    == {[total |-> 4500, redeem |-> 0], [total |-> 4500, redeem |-> 400],
               [total |-> -200, redeem |-> 400]}
=============================================================================
