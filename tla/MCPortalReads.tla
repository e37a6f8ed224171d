---------------------------- MODULE MCPortalReads ----------------------------
(* PortalReads for TLC.  Whether a call's read began in the present epoch *)
(* matters only while there is something to keep it under.                *)
EXTENDS PortalReads, TLC

MCSymmetry == Permutations(Callers) \cup Permutations(Children)

MCView == <<host, portal, session, lock, cache, used, call,
            {c \in epoch : call[c].scope # NoChild}>>
=============================================================================
