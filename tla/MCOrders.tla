------------------------------ MODULE MCOrders ------------------------------
(* Two products and two lines: i1 is two units of pA, i2 a combo of one pA   *)
(* and one pB.  Every unit of a line costs 1 and the shelves start with 2.   *)
EXTENDS Orders, FiniteSetsExt, TLC

CONSTANTS i1, i2, pA, pB, t1

MCQty     == [i \in Items |-> IF i = i1 THEN 2 ELSE 1]
MCPerUnit == [i \in Items |-> [p \in Products |-> IF i = i1 /\ p = pB THEN 0 ELSE 1]]
MCLoad    == [S \in SUBSET Items |-> [p \in Products |->
                MapThenSumSet(LAMBDA i : MCQty[i] * MCPerUnit[i][p], S)]]
MCPrice   == [i \in Items |-> 1]
MCBill    == [S \in SUBSET Items |-> MapThenSumSet(LAMBDA i : MCQty[i] * MCPrice[i], S)]
MCOpening == [p \in Products |-> 2]

MCPreOrder == {TRUE, FALSE}
MCNoPreOrder == {FALSE}
MCOnlyPreOrders == {TRUE}

\* Workers are interchangeable; the orders and the lines are not.
MCSymmetry == Permutations(Workers)
=============================================================================
