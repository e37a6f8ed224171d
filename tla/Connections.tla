---------------------------- MODULE Connections ----------------------------
(*************************************************************************)
(* What the connector's authorization server promises the owner and the  *)
(* connected apps, without registrations, codes, tables or files: each   *)
(* connection is approved once, hands out pairs of tokens one after the  *)
(* other while it lasts, and once it has ended it never comes back.  One *)
(* step may move several of them.                                        *)
(*************************************************************************)
EXTENDS Naturals

CONSTANT Ids

VARIABLES
    life,     \* of each: "new", "live", "ended"
    newest    \* the number of the newest pair its app has got

connectionVars == <<life, newest>>

Init ==
    /\ life = [g \in Ids |-> "new"]
    /\ newest = [g \in Ids |-> 0]

Rests(g) == life'[g] = life[g] /\ newest'[g] = newest[g]

Starts(g) == life[g] = "new" /\ life'[g] = "live" /\ newest'[g] = newest[g]

\* Pairs are numbered; an app may miss an answer, but no number comes twice.
HandsOut(g) == life[g] = "live" /\ life'[g] = "live" /\ newest'[g] > newest[g]

\* Revoked, run out, or withdrawn because a code or a token came twice.
Ends(g) == life[g] = "live" /\ life'[g] = "ended" /\ newest'[g] = newest[g]

Next == \A g \in Ids : Rests(g) \/ Starts(g) \/ HandsOut(g) \/ Ends(g)

Spec == Init /\ [][Next]_connectionVars
=============================================================================
