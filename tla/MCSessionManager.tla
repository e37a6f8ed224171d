-------------------------- MODULE MCSessionManager --------------------------
(* Instances of SessionManager for TLC. *)
EXTENDS SessionManager, TLC

\* Callers and objects are interchangeable; only safety runs use this.
Symmetry == Permutations(Callers) \cup Permutations(Objects)

\* What an object held when its last reference was dropped is never read
\* again: getSession() makes it anew.
View ==
    <<saved, portal, object, established, lock, task, signIn,
      [o \in (Held \cup {object}) \ {NoObject} |-> cell[o]]>>
=============================================================================
