-------------------------- MODULE MCConnectorOAuth --------------------------
(* Instances of ConnectorOAuth for TLC. *)
EXTENDS ConnectorOAuth, TLC

MCGrantLifetimes == GrantIds \cup Pairs \cup Codes

\* What has run out and is gone from memory and disk is never looked at again.
View ==
    <<state, disk, over \cap (Mortal(state) \cup Mortal(disk)), run, held, born,
      revoked, spent, unsure>>
=============================================================================
