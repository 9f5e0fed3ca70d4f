---------------------------- MODULE MCNumbering ----------------------------
(* Three orders of one branch and one of a user without a branch, over two    *)
(* business days; the receipt counter wraps at 2, so that it does wrap.       *)
EXTENDS Numbering

CONSTANTS b1, r1, r2, r3, r4

MCBranch == [r \in Requests |-> IF r = r4 THEN NoBranch ELSE b1]
=============================================================================
