------------------------------ MODULE MCFloor ------------------------------
(* Two tables; the requests in flight and the tables are interchangeable.    *)
EXTENDS Floor, TLC

MCSymmetry == Permutations(Workers) \cup Permutations(Tables)
=============================================================================
