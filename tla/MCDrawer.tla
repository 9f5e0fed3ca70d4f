------------------------------ MODULE MCDrawer ------------------------------
(* One branch and the tenant's own scope; calls are interchangeable.          *)
EXTENDS Drawer, TLC

MCSymmetry == Permutations(Requests) \cup Permutations(Users)
=============================================================================
