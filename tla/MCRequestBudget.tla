-------------------------- MODULE MCRequestBudget --------------------------
(* The request budget with small numbers for TLC. *)
EXTENDS RequestBudget, TLC

CONSTANTS r1, r2, r3, w1, b1

Reads == Requests \ (Writes \cup Background)

Symmetry == Permutations(Reads)
=============================================================================
