---------------------------- MODULE Confirmations ----------------------------
(*****************************************************************************)
(* Preview and confirm: what a host must hold to have a write sent, and how  *)
(* often it is sent (http/probe/confirmations.ts, and confirmedWrite of      *)
(* http/probe/tools.ts).  A confirmation is bound to the caller and the      *)
(* intent it was previewed for, lives ten minutes and is claimed once; the   *)
(* table lets its oldest entry go when it is full.                           *)
(*****************************************************************************)
EXTENDS Naturals, Sequences, FiniteSets

CONSTANTS
  Callers,      \* bindings: one per grant, or "local"
  Intents,      \* what can be asked for: date and part of the day
  MaxHeld,      \* options.max
  Ttl,          \* ttlMs
  MaxTime,      \* bound on the clock
  MaxPreviews   \* bound on the previews made

VARIABLES
  now,
  records,   \* the Map; a record's number tells when it was inserted
  shown,     \* every preview ever made: what it was for, and until when it is good
  sends      \* how often each was answered "sent"

vars == <<now, records, shown, sends>>

Id == 1 .. MaxPreviews

Init == now = 0 /\ records = {} /\ shown = <<>> /\ sends = [id \in Id |-> 0]

prune(rs) == {r \in rs : r.expires > now}

Oldest(rs) == {r \in rs : \A s \in rs : r.id <= s.id}

\* Wrong: a full table takes one more.
MakeRoomForOneMore(rs) == rs

MakeRoom(rs) == IF Cardinality(rs) >= MaxHeld THEN rs \ Oldest(rs) ELSE rs

preview(b, i) ==
  LET r == [id |-> Len(shown) + 1, binding |-> b, intent |-> i,
            expires |-> now + Ttl, sent |-> FALSE] IN
  /\ Len(shown) < MaxPreviews
  /\ records' = MakeRoom(prune(records)) \cup {r}
  /\ shown' = Append(shown, r)
  /\ UNCHANGED <<now, sends>>

\* Wrong: what was sent is not remembered.
Unclaimed(r) == records

Claimed(r) == (records \ {r}) \cup {[r EXCEPT !.sent = TRUE]}

(* Unknown or another caller's: "invalid", and nothing changes.  Too late:   *)
(* "expired".  Another intent: "input_changed", and the confirmation is      *)
(* void.  Otherwise "sent" the first time and "replayed" from then on.       *)
confirm(b, i, id) ==
  /\ \E r \in records :
       /\ r.id = id
       /\ \/ /\ r.expires <= now
             /\ records' = records \ {r} /\ sends' = sends
          \/ /\ r.expires > now /\ r.binding # b
             /\ UNCHANGED <<records, sends>>
          \/ /\ r.expires > now /\ r.binding = b /\ r.intent # i
             /\ records' = records \ {r} /\ sends' = sends
          \/ /\ r.expires > now /\ r.binding = b /\ r.intent = i
             /\ records' = Claimed(r)
             /\ sends' = [sends EXCEPT ![id] = IF r.sent THEN @ ELSE @ + 1]
  /\ UNCHANGED <<now, shown>>

Tick == now < MaxTime /\ now' = now + 1 /\ UNCHANGED <<records, shown, sends>>

Next ==
  \/ \E b \in Callers, i \in Intents : preview(b, i) \/ \E id \in Id : confirm(b, i, id)
  \/ Tick

Spec == Init /\ [][Next]_vars

-----------------------------------------------------------------------------
(* Properties. *)

Records == [id : Id, binding : Callers, intent : Intents, expires : Nat, sent : BOOLEAN]

TypeOK ==
  /\ now \in 0 .. MaxTime
  /\ records \subseteq Records /\ Cardinality(records) <= MaxHeld
  /\ shown \in Seq(Records) /\ Len(shown) <= MaxPreviews
  /\ sends \in [Id -> Nat]

(* However often a confirmation is repeated, and whatever was pruned or let  *)
(* go in between, its write is sent at most once.                            *)
SentOnce == \A id \in Id : sends[id] <= 1

(* Only the caller it was shown to, asking for exactly what was shown, while *)
(* it is good, has a write sent.                                             *)
SentAsShown ==
  \A b \in Callers, i \in Intents, id \in Id :
    confirm(b, i, id) /\ sends'[id] > sends[id] =>
      shown[id].binding = b /\ shown[id].intent = i /\ now < shown[id].expires
=============================================================================
