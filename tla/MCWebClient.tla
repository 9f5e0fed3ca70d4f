----------------------------- MODULE MCWebClient -----------------------------
(* Two tabs of one device, their requests, and one call from elsewhere. *)
EXTENDS WebClient, TLC

CONSTANTS a1

MCCalls == Requests \cup {a1}
Symmetry == Permutations(Tabs)
=============================================================================
