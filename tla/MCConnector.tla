---------------------------- MODULE MCConnector ----------------------------
(* The connector's runtime with small numbers for TLC. *)
EXTENDS Connector, TLC

CONSTANTS g1, r1, r2

\* Both guardians share the second child.
MCGuardians == {"owner", "other"}
MCFamily == [p \in MCGuardians |-> IF p = "owner" THEN {"a", "b"} ELSE {"b"}]

MCSymmetry == Permutations(Requests)
=============================================================================
