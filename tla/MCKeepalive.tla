---------------------------- MODULE MCKeepalive ----------------------------
(* Instances of KeepaliveScheduler for TLC. *)
EXTENDS KeepaliveScheduler

CONSTANTS AppInterval, WebInterval, j1, j2, j3

MCInterval == [t \in Tasks |-> IF t = "app" THEN AppInterval ELSE WebInterval]

MCWanted == {-1, 1}
=============================================================================
