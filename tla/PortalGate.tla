----------------------------- MODULE PortalGate -----------------------------
(*************************************************************************)
(* What the request budget promises its callers and the portal, without  *)
(* clocks, tokens or queues: a gate in front of the portal, and requests *)
(* that are sent once or not at all.  Only an answer of the portal shuts *)
(* or reopens the gate, and behind a shut gate only one user's read at a *)
(* time may find out whether the portal is back.                         *)
(*************************************************************************)
EXTENDS FiniteSets

CONSTANTS
    Requests,
    MayProbe    \* the requests that may test the water

VARIABLES
    gate,     \* "closed": requests flow; "open": none does; "half_open"
    prober,   \* the request that tests the water, if any
    fate      \* of each request

gateVars == <<gate, prober, fate>>

Init ==
    /\ gate = "closed"
    /\ prober = {}
    /\ fate = [r \in Requests |-> "new"]

Fate(r, was, is) ==
    /\ fate[r] \in was
    /\ fate' = [fate EXCEPT ![r] = is]

\* Time may turn an open gate into a half-open one whenever somebody looks.
MayCool ==
    /\ gate' = gate \/ (gate = "open" /\ gate' = "half_open")
    /\ UNCHANGED prober

Look == MayCool /\ UNCHANGED fate

Admit(r) == Fate(r, {"new", "waiting"}, "waiting") /\ MayCool

AdmitProbe(r) ==
    /\ Fate(r, {"new", "waiting"}, "waiting")
    /\ r \in MayProbe
    /\ gate # "closed" /\ gate' = "half_open"
    /\ prober = {} /\ prober' = {r}

\* Refused, cancelled or flushed; a prober makes room for the next one.
GiveUp(r) ==
    /\ Fate(r, {"new", "waiting"}, "unsent")
    /\ \/ MayCool
       \/ r \in prober /\ prober' = {} /\ UNCHANGED gate

Send(r) == Fate(r, {"waiting"}, "sent") /\ UNCHANGED <<gate, prober>>

Answer(r) ==
    /\ Fate(r, {"sent"}, "answered")
    /\ \/ r \notin prober /\ MayCool
       \/ gate = "closed" /\ gate' = "open" /\ UNCHANGED prober
       \/ r \in prober /\ prober' = {} /\ gate' \in {"closed", "open"}

Next ==
    \/ Look
    \/ \E r \in Requests :
         Admit(r) \/ AdmitProbe(r) \/ GiveUp(r) \/ Send(r) \/ Answer(r)

Spec == Init /\ [][Next]_gateVars
=============================================================================
