--------------------------- MODULE ConnectorProofs ---------------------------
(***************************************************************************)
(* Proofs about Connector, for any guardians and children, any number of   *)
(* requests, grants and logins, and every way in which the portal fails.   *)
(*                                                                         *)
(* The inductive invariant is Kept.  Who is under way has the turn         *)
(* (InTurn), the live session is the saved one and one guardian's          *)
(* (OwnSession), and what a request holds is that guardian's and what its  *)
(* approval names (Meant).  Every step is one of four kinds: asked from    *)
(* outside (Outside), of the login, the logout or a tick in its turn       *)
(* (InItsTurn), of a request in its turn (Moves and Keeps), or of a        *)
(* request that has no turn (AsideKeeps).                                  *)
(***************************************************************************)
EXTENDS Connector, FiniteSetTheorems, SequenceTheorems, TLAPS

------------------------------------------------------------------------------
(* Types. *)

Owners == {"login", "logout", "tick", "close"}
Asks ==
    [at: {"idle", "waiting", "verify", "answered"} \cup Running,
     kind: {"list", "read", "overview", "session", "approve"}, grant: Grants,
     child: Children \cup {NoChild}, allowed: SUBSET Children, aborted: BOOLEAN,
     bound: {"none", "live", "dropped"}, left: 0 .. Sections, retried: BOOLEAN,
     data: SUBSET (Guardians \X Children)]

\* The variables but for the count, each with its type.
Typed ==
    /\ saved \in [who: Guardians \cup {NoOne}, focus: Children \cup {NoChild},
                  by: 0 .. MaxLogins]
    /\ pin \in Guardians \cup {NoOne}
    /\ live \in [who: Guardians \cup {NoOne}, kids: SUBSET Children,
                 focus: Children \cup {NoChild}]
    /\ established \in BOOLEAN
    /\ login \in [at: {"none", "queued", "user", "tokens", "establish", "done", "failed"},
                  cancelled: BOOLEAN, number: 0 .. MaxLogins]
    /\ queue \in Seq(Requests \cup Owners)
    /\ closed \in BOOLEAN
    /\ request \in [Requests -> Asks]
    /\ grant \in [Grants -> [life: {"none", "asked", "live", "over"},
                             children: SUBSET Children]]
    /\ ended \subseteq 0 .. MaxLogins

LEMMA IdleAsks == Idle \in Asks
  BY ConnectorAssumption DEF Idle, Asks, Running

LEMMA NobodyTyped ==
    /\ NoSession \in [who: Guardians \cup {NoOne}, focus: Children \cup {NoChild},
                      by: 0 .. MaxLogins]
    /\ Nobody \in [who: Guardians \cup {NoOne}, kids: SUBSET Children,
                   focus: Children \cup {NoChild}]
  <1>1. 0 \in 0 .. MaxLogins
    BY ConnectorAssumption
  <1> QED BY <1>1 DEF NoSession, Nobody

LEMMA TypedAtFirst == Init => Typed
  <1> SUFFICES ASSUME Init PROVE Typed
    OBVIOUS
  <1>1. \A p \in Guardians : Family[p] \subseteq Children
    BY DEF Children
  <1>2. NoSession \in [who: Guardians \cup {NoOne}, focus: Children \cup {NoChild},
                       by: 0 .. MaxLogins]
    BY ConnectorAssumption DEF NoSession
  <1>3. /\ pin \in Guardians \cup {NoOne}
        /\ saved \in [who: Guardians \cup {NoOne}, focus: Children \cup {NoChild},
                       by: 0 .. MaxLogins]
        /\ grant \in [Grants -> [life: {"none", "asked", "live", "over"},
                                 children: SUBSET Children]]
    BY <1>1, <1>2, ConnectorAssumption DEF Init
  <1>4. login \in [at: {"none", "queued", "user", "tokens", "establish", "done", "failed"},
                   cancelled: BOOLEAN, number: 0 .. MaxLogins]
    BY ConnectorAssumption DEF Init
  <1>5. live \in [who: Guardians \cup {NoOne}, kids: SUBSET Children,
                   focus: Children \cup {NoChild}]
    BY NobodyTyped DEF Init
  <1>6. request \in [Requests -> Asks]
    BY IdleAsks DEF Init
  <1>7. queue = <<>> /\ established = FALSE /\ closed = FALSE /\ ended = {}
    BY DEF Init
  <1>8. queue \in Seq(Requests \cup Owners)
    BY <1>7, EmptySeq
  <1>9. established \in BOOLEAN /\ closed \in BOOLEAN /\ ended \subseteq 0 .. MaxLogins
    BY <1>7
  <1> QED BY <1>3, <1>4, <1>5, <1>6, <1>8, <1>9 DEF Typed

LEMMA ForgetTyped == ASSUME Forget PROVE
     /\ saved' \in [who: Guardians \cup {NoOne}, focus: Children \cup {NoChild},
                  by: 0 .. MaxLogins]
     /\ live' \in [who: Guardians \cup {NoOne}, kids: SUBSET Children,
                 focus: Children \cup {NoChild}]
     /\ established' \in BOOLEAN
  BY NobodyTyped DEF Forget, Reset

LEMMA EstablishTyped == 
  ASSUME NEW who \in Guardians, NEW before, NEW by \in 0 .. MaxLogins, Establish(who, before, by)
  PROVE
     /\ saved' \in [who: Guardians \cup {NoOne}, focus: Children \cup {NoChild},
                  by: 0 .. MaxLogins]
     /\ live' \in [who: Guardians \cup {NoOne}, kids: SUBSET Children,
                 focus: Children \cup {NoChild}]
     /\ established' \in BOOLEAN
     /\ established' = TRUE
     /\ live'.who = who /\ live'.kids \subseteq Family[who]
     /\ saved'.who = who /\ saved'.by = by
  <1>1. PICK kids \in SUBSET Family[who] : \E c \in kids :
        /\ live' = [who |-> who, kids |-> kids, focus |-> c]
        /\ saved' = [who |-> who, focus |-> c, by |-> by]
        /\ established' = TRUE
    BY DEF Establish
  <1>3. PICK c \in kids :
        /\ live' = [who |-> who, kids |-> kids, focus |-> c]
        /\ saved' = [who |-> who, focus |-> c, by |-> by]
        /\ established' = TRUE
    BY <1>1
  <1>2. kids \subseteq Children /\ c \in Children
    BY DEF Children
  <1> QED BY <1>3, <1>2

LEMMA QueueTyped ==
  ASSUME queue \in Seq(Requests \cup Owners)
  PROVE  /\ queue # <<>> => Tail(queue) \in Seq(Requests \cup Owners)
         /\ queue # <<>> => Head(queue) \in Requests \cup Owners
         /\ \A t \in Requests \cup Owners : Append(queue, t) \in Seq(Requests \cup Owners)
  OBVIOUS

------------------------------------------------------------------------------
(* The inductive invariant, and what a turn may do to the requests. *)

\* The live session is the saved one, of one guardian and of children of that
\* guardian; a login that waits for the portal has none.
OwnSession ==
    /\ established => /\ live.who \in Guardians
                      /\ live.kids \subseteq Family[live.who]
                      /\ saved.who = live.who
    /\ ~established => live = Nobody
    /\ login.at \in {"user", "tokens", "establish"} => ~established

\* Who is under way is at the head of the queue.
InTurn ==
    /\ login.at \in {"user", "tokens", "establish", "done", "failed"} => Turn("login")
    /\ \A r \in Requests : request[r].at \in Running => Turn(r)

\* What a request holds is the guardian's, and what its approval names.
Meant(q) ==
    /\ q.at = "permit" => established
    /\ q.at \in {"focus", "read", "portal", "recover", "refocus"} =>
          pin # NoOne /\ saved.who \in {NoOne, pin}
    /\ q.data # {} => pin # NoOne /\ q.data \subseteq {pin} \X Family[pin]
    /\ q.at \notin {"idle", "answered"} =>
          IF q.kind = "approve"
            THEN q.allowed # {}
            ELSE /\ pin # NoOne
                 /\ grant[q.grant].life \in {"live", "over"}
                 /\ q.allowed = grant[q.grant].children
    /\ q.kind \in Counted =>
          q.data \subseteq Guardians \X
            (q.allowed \cap (IF q.kind = "list" THEN Children ELSE {q.child}))

AllMeant == \A r \in Requests : Meant(request[r])

\* What a turn of r may do to everything but the session and the pin.
Moves(r) ==
    /\ Turn(r)
    /\ UNCHANGED <<login, closed, grant, ended>>
    /\ request' \in [Requests -> Asks]
    /\ \A s \in Requests : s # r => request'[s] = request[s]
    /\ \/ /\ request'[r].at \in Running
          /\ request'[r].kind = request[r].kind
          /\ UNCHANGED <<queue, outstanding>>
       \/ /\ request'[r].at \in {"idle", "verify"}
          /\ queue' = Tail(queue)
          /\ Settled(r)

LEMMA StepIs ==
    ASSUME Typed, NEW r \in Requests, NEW to \in Running, Step(r, to)
    PROVE  /\ request' \in [Requests -> Asks]
           /\ \A s \in Requests : s # r => request'[s] = request[s]
           /\ request'[r] = [request[r] EXCEPT !.at = to]
           /\ request'[r].at = to
           /\ request'[r].kind = request[r].kind
  <1>1. request[r] \in Asks
    BY DEF Typed
  <1>2. /\ [request[r] EXCEPT !.at = to] \in Asks
        /\ [request[r] EXCEPT !.at = to].at = to
        /\ [request[r] EXCEPT !.at = to].kind = request[r].kind
    BY <1>1 DEF Asks
  <1>3. request' = [request EXCEPT ![r] = [request[r] EXCEPT !.at = to]]
    BY DEF Step, Typed
  <1> QED BY <1>2, <1>3 DEF Typed

LEMMA FailIs ==
    ASSUME Typed, NEW r \in Requests, Fail(r)
    PROVE  /\ request' \in [Requests -> Asks]
           /\ \A s \in Requests : s # r => request'[s] = request[s]
           /\ request'[r] = Idle /\ request'[r].at = "idle"
           /\ queue' = Tail(queue) /\ Settled(r)
  BY IdleAsks DEF Fail, Leaves, Typed, Idle

LEMMA AdvanceIs ==
    ASSUME Typed, NEW r \in Requests, request[r].at \in Running,
           NEW data \in SUBSET (Guardians \X Children), Advance(r, data)
    PROVE  /\ request' \in [Requests -> Asks]
           /\ \A s \in Requests : s # r => request'[s] = request[s]
           /\ \/ /\ request'[r].at = "read" /\ request'[r].kind = request[r].kind
                 /\ UNCHANGED <<queue, outstanding>>
              \/ /\ request'[r].at = "verify" /\ queue' = Tail(queue)
                 /\ Settled(r) /\ ValidFocus(r)
           /\ request'[r].data = request[r].data \cup data
           /\ \A f \in {"kind", "grant", "child", "allowed", "aborted"} :
                 request'[r][f] = request[r][f]
  <1>0. request[r] \in Asks /\ request \in [Requests -> Asks] /\ request[r].left \in 0 .. Sections
    BY DEF Typed, Asks
  <1>1. CASE request[r].left > 1
    <2>1. request[r].left - 1 \in 0 .. Sections
      BY <1>0, <1>1, ConnectorAssumption
    <2> QED BY <1>0, <1>1, <2>1 DEF Advance, Asks, Running
  <1>2. CASE ~(request[r].left > 1)
    <2>1. 0 \in 0 .. Sections
      BY ConnectorAssumption
    <2> QED BY <1>0, <1>2, <2>1 DEF Advance, Asks, Leaves
  <1> QED BY <1>1, <1>2

\* What is read is of the pinned guardian's own child.
LEMMA ReadIs ==
    ASSUME Typed, OwnSession, NEW r \in Requests, Meant(request[r]),
           request[r].at = "portal", ValidFocus(r)
    PROVE  /\ pin \in Guardians /\ live.who = pin
           /\ Read(r) = <<pin, request[r].child>>
           /\ request[r].child \in Family[pin] /\ request[r].child \in Children
           /\ request[r].child \in request[r].allowed
  <1>1. pin \in Guardians /\ live.who = pin
    BY DEF Meant, Typed, ValidFocus, ValidChild, SameGuardian
  <1>2. request[r].child \in Family[pin] /\ live.focus = request[r].child
    BY <1>1 DEF ValidFocus, ValidChild, OwnSession
  <1> QED BY <1>1, <1>2 DEF Read, Children, ValidFocus, ValidChild

LEMMA PermitIs ==
    ASSUME Typed, OwnSession, NEW r \in Requests, Meant(request[r]), Permit(r)
    PROVE  /\ live.who \in Guardians /\ live.kids \subseteq Family[live.who]
           /\ live.kids \subseteq Children
           /\ pin' = live.who /\ (pin # NoOne => pin' = pin) /\ saved.who = pin'
           /\ request' \in [Requests -> Asks]
           /\ \A s \in Requests : s # r => request'[s] = request[s]
           /\ \A f \in {"kind", "grant", "allowed", "aborted"} :
                 request'[r][f] = request[r][f]
           /\ \/ /\ request'[r].at = "focus" /\ UNCHANGED <<queue, outstanding>>
                 /\ request[r].kind \in {"read", "overview"}
                 /\ request'[r].child = Chosen(r)
                 /\ request'[r].data = request[r].data
              \/ /\ request'[r].at = "verify" /\ queue' = Tail(queue) /\ Settled(r)
                 /\ request'[r].child = request[r].child
                 /\ \/ /\ request[r].kind = "list"
                       /\ request'[r].data = {live.who} \X Permitted(r)
                    \/ /\ request[r].kind \notin Counted
                       /\ request'[r].data = {live.who} \X live.kids
  <1>0. request[r] \in Asks /\ request \in [Requests -> Asks]
    BY DEF Typed
  <1>1. established /\ live.who \in Guardians /\ live.kids \subseteq Family[live.who]
        /\ saved.who = live.who /\ live.kids \subseteq Children /\ Permitted(r) \subseteq Children
        /\ NoOne \notin Guardians
    BY ConnectorAssumption DEF Permit, Meant, OwnSession, Children, Permitted
  <1>2. pin' = live.who /\ (pin # NoOne => pin' = pin)
    BY DEF Permit, Pinned, SameGuardian
  <1>3. Chosen(r) \in Children \cup {NoChild}
    BY <1>0 DEF Chosen, Typed, Asks
  <1>4. {live.who} \X Permitted(r) \subseteq Guardians \X Children
        /\ {live.who} \X live.kids \subseteq Guardians \X Children
    BY <1>1
  <1>5. CASE request[r].kind \in {"read", "overview"}
    <2> DEFINE c == Chosen(r)
    <2>1. /\ request' = [request EXCEPT ![r].at = "focus", ![r].child = c]
          /\ UNCHANGED <<queue, outstanding>>
      BY <1>5 DEF Permit
    <2>2. c \in Children \cup {NoChild} /\ c = Chosen(r)
      BY <1>3
    <2> HIDE DEF c
    <2>3. /\ request' \in [Requests -> Asks]
          /\ \A s \in Requests : s # r => request'[s] = request[s]
          /\ request'[r].at = "focus" /\ request'[r].child = c
          /\ request'[r].data = request[r].data
          /\ \A f \in {"kind", "grant", "allowed", "aborted"} :
                request'[r][f] = request[r][f]
      BY <2>1, <2>2, <1>0 DEF Asks, Running
    <2> QED BY <2>1, <2>2, <2>3, <1>1, <1>2, <1>5
  <1>6. CASE request[r].kind = "list"
    <2> DEFINE d == {live.who} \X Permitted(r)
    <2>1. request' = [request EXCEPT ![r].at = "verify", ![r].data = d]
          /\ queue' = Tail(queue) /\ Settled(r)
      BY <1>6 DEF Permit, Leaves
    <2>2. d \subseteq Guardians \X Children /\ d = {live.who} \X Permitted(r)
      BY <1>4
    <2> HIDE DEF d
    <2> QED BY <2>1, <2>2, <1>0, <1>1, <1>2, <1>6 DEF Asks
  <1>7. CASE request[r].kind \notin Counted
    <2> DEFINE d == {live.who} \X live.kids
    <2>1. request' = [request EXCEPT ![r].at = "verify", ![r].data = d]
          /\ queue' = Tail(queue) /\ Settled(r)
      BY <1>7 DEF Permit, Leaves, Counted
    <2>2. d \subseteq Guardians \X Children /\ d = {live.who} \X live.kids
      BY <1>4
    <2> HIDE DEF d
    <2> QED BY <2>1, <2>2, <1>0, <1>1, <1>2, <1>7 DEF Asks
  <1> QED BY <1>5, <1>6, <1>7 DEF Counted

LEMMA TurnsMove == ASSUME Typed, OwnSession, NEW r \in Requests,
                          Meant(request[r]), Turns(r)
                   PROVE  Moves(r)
  <1>0. request[r] \in Asks /\ request \in [Requests -> Asks]
    BY DEF Typed
  <1>1. CASE Begin(r)
    BY <1>1, StepIs DEF Begin, Moves, rest, Running
  <1>2. CASE Restored(r)
    BY <1>2, StepIs DEF Restored, Moves, rest, Running
  <1>3. CASE Permit(r)
    BY <1>3, PermitIs DEF Permit, Moves, Running
  <1>4. CASE Focus(r)
    BY <1>4, <1>0 DEF Focus, Moves, rest, Running, Asks
  <1>5. CASE Send(r)
    BY <1>5, StepIs DEF Send, Moves, rest, Running
  <1>6. CASE Answered(r)
    BY <1>6, ReadIs, AdvanceIs DEF Answered, Moves, rest, Running
  <1>7. CASE SectionFails(r)
    <2>1. request[r].at \in Running /\ Advance(r, {})
      BY <1>7 DEF SectionFails, Running
    <2> QED BY <2>1, <1>7, AdvanceIs DEF SectionFails, Moves, rest, Running
  <1>8. CASE Rejected(r)
    BY <1>8, <1>0 DEF Rejected, Moves, rest, Running, Asks
  <1>9. CASE Recovered(r)
    BY <1>9, StepIs DEF Recovered, Moves, rest, Running
  <1>10. CASE SectionUnrestored(r)
    BY <1>10, <1>0, ConnectorAssumption DEF SectionUnrestored, Moves, rest, Running, Asks
  <1>11. CASE Refocus(r)
    BY <1>11, StepIs DEF Refocus, Moves, rest, Running
  <1>12. CASE Stranger(r)
    BY <1>12, FailIs DEF Stranger, Moves
  <1>13. CASE Refused(r)
    BY <1>13, FailIs DEF Refused, Moves, rest
  <1>14. CASE Unrestored(r)
    BY <1>14, FailIs DEF Unrestored, Moves, rest
  <1> QED
    BY <1>1, <1>2, <1>3, <1>4, <1>5, <1>6, <1>7, <1>8, <1>9, <1>10, <1>11, <1>12,
       <1>13, <1>14 DEF Turns

------------------------------------------------------------------------------
(* What a turn may do to the session and to the pin. *)

\* What a turn of r may do to the session and to the pin.
Keeps(r) ==
    /\ saved' \in [who: Guardians \cup {NoOne}, focus: Children \cup {NoChild},
                   by: 0 .. MaxLogins]
    /\ live' \in [who: Guardians \cup {NoOne}, kids: SUBSET Children,
                  focus: Children \cup {NoChild}]
    /\ established' \in BOOLEAN
    /\ pin' \in Guardians \cup {NoOne}
    /\ pin # NoOne => pin' = pin
    /\ saved'.who # NoOne => saved.who # NoOne /\ saved'.by = saved.by
    /\ established' => /\ live'.who \in Guardians
                       /\ live'.kids \subseteq Family[live'.who]
                       /\ saved'.who = live'.who
    /\ ~established' => live' = Nobody
    /\ established' /\ live'.who # pin' => request'[r].at \in {"permit", "refocus"}
    /\ request'[r].at = "permit" => established'
    /\ request'[r].at \in {"focus", "read", "portal", "recover", "refocus"} =>
          pin' # NoOne /\ saved'.who \in {NoOne, pin'}

LEMMA NotALogin == ASSUME NEW r \in Requests PROVE r \notin Owners
  BY ConnectorAssumption DEF Owners

LEMMA ForgetKeeps ==
    ASSUME Typed, NEW r \in Requests, Forget, UNCHANGED pin, request'[r].at = "idle"
    PROVE  Keeps(r)
  <1>1. saved' = NoSession /\ live' = Nobody /\ established' = FALSE
    BY DEF Forget, Reset
  <1>2. NoSession.who = NoOne
    BY DEF NoSession
  <1> QED BY <1>1, <1>2, NobodyTyped DEF Keeps, Typed

LEMMA ResetKeeps ==
    ASSUME Typed, NEW r \in Requests, Reset, UNCHANGED <<saved, pin>>,
           request'[r].at # "permit",
           request'[r].at \in {"focus", "read", "portal", "recover", "refocus"} =>
              pin # NoOne /\ saved.who \in {NoOne, pin}
    PROVE  Keeps(r)
  BY NobodyTyped DEF Keeps, Reset, Typed

LEMMA SameKeeps ==
    ASSUME Typed, OwnSession, NEW r \in Requests, UNCHANGED <<saved, live, established, pin>>,
           established /\ live.who # pin => request'[r].at \in {"permit", "refocus"},
           request'[r].at = "permit" => established,
           request'[r].at \in {"focus", "read", "portal", "recover", "refocus"} =>
              pin # NoOne /\ saved.who \in {NoOne, pin}
    PROVE  Keeps(r)
  BY DEF Keeps, OwnSession, Typed

\* While r has its turn, a session of another guardian means that it is where
\* the guardian is about to be compared.
LEMMA StrangerIsBetween ==
    ASSUME NoStrangersSession, NEW r \in Requests, Turn(r), established, live.who # pin
    PROVE  request[r].at \in {"permit", "refocus"}
  BY NotALogin DEF NoStrangersSession, Turn, Owners

LEMMA EstablishKeeps ==
    ASSUME Typed, NEW r \in Requests, saved.who # NoOne, UNCHANGED pin,
           Establish(saved.who, saved.focus, saved.by),
           \/ request'[r].at = "permit"
           \/ request'[r].at = "refocus" /\ pin # NoOne /\ saved.who \in {NoOne, pin}
    PROVE  Keeps(r)
  <1>1. saved.who \in Guardians /\ saved.by \in 0 .. MaxLogins
    BY DEF Typed
  <1> QED BY <1>1, EstablishTyped DEF Keeps, Typed

LEMMA TurnsKeep ==
    ASSUME Typed, OwnSession, NoStrangersSession, NEW r \in Requests,
           Meant(request[r]), Turns(r)
    PROVE  Keeps(r)
  <1> USE NotALogin
  <1>0. Moves(r)
    BY TurnsMove
  <1>1. CASE Begin(r)
    BY <1>1, StepIs, SameKeeps, StrangerIsBetween DEF Begin, session, rest, Running
  <1>2. CASE Restored(r)
    <2>1. request'[r].at = "permit" /\ pin' = pin
      BY <1>2, StepIs DEF Restored, rest, Running
    <2>2. CASE established /\ UNCHANGED session
      BY <2>1, <2>2, SameKeeps DEF session
    <2>3. CASE saved.who # NoOne /\ Establish(saved.who, saved.focus, saved.by)
      BY <2>1, <2>3, EstablishKeeps
    <2> QED BY <1>2, <2>2, <2>3 DEF Restored
  <1>3. CASE Permit(r)
    <2>1. UNCHANGED <<saved, live, established>>
      BY <1>3 DEF Permit, session
    <2>2. request'[r].at \in {"focus", "verify"}
      BY <1>3, PermitIs
    <2>3. /\ live.who \in Guardians /\ pin' = live.who /\ saved.who = live.who
          /\ pin # NoOne => pin' = pin
      BY <1>3, PermitIs
    <2> QED BY <2>1, <2>2, <2>3, ConnectorAssumption DEF Keeps, Typed, OwnSession
  <1>4. CASE Focus(r)
    <2>1. /\ request'[r].at = "read"
          /\ pin # NoOne /\ saved.who \in {NoOne, pin} /\ pin' = pin
      BY <1>4 DEF Focus, Meant, Typed, Asks, rest
    <2>2. established
      BY <1>4 DEF Focus, OwnSession, Nobody
    <2>3. live.who \in Guardians /\ saved.who = live.who /\ live.who = pin
      BY <2>1, <2>2, ConnectorAssumption DEF OwnSession
    <2>4. live' = [live EXCEPT !.focus = request[r].child] /\ request[r].child \in Children
          /\ established' = established
      BY <1>4 DEF Focus, Typed
    <2>5. /\ saved' \in [who: Guardians \cup {NoOne}, focus: Children \cup {NoChild},
                         by: 0 .. MaxLogins]
          /\ saved'.by = saved.by /\ saved'.who = saved.who
      BY <1>4, <2>3, <2>4 DEF Focus, Typed
    <2> QED BY <2>1, <2>2, <2>3, <2>4, <2>5 DEF Keeps, Typed, OwnSession
  <1>5. CASE Send(r)
    BY <1>5, StepIs, SameKeeps, StrangerIsBetween DEF Send, session, rest, Running, Meant
  <1>6. CASE Answered(r)
    <2>1. live.who = pin /\ pin # NoOne /\ saved.who \in {NoOne, pin}
      BY <1>6, ReadIs, ConnectorAssumption DEF Answered, Meant
    <2>2. request'[r].at \in {"read", "verify"}
      BY <1>6, ReadIs, AdvanceIs DEF Answered, Running
    <2> QED BY <1>6, <2>1, <2>2, SameKeeps DEF Answered, session, rest
  <1>7. CASE SectionFails(r)
    <2>1. pin # NoOne /\ saved.who \in {NoOne, pin}
      BY <1>7 DEF SectionFails, Meant
    <2>2. established => live.who = pin
      BY <2>1, ConnectorAssumption DEF OwnSession
    <2>3. request'[r].at \in {"read", "verify"}
      BY <1>7, AdvanceIs DEF SectionFails, Running
    <2> QED BY <1>7, <2>1, <2>2, <2>3, SameKeeps DEF SectionFails, session, rest
  <1>8. CASE Rejected(r)
    <2>1. request'[r].at = "recover"
      BY <1>8 DEF Rejected, Typed, Asks
    <2> QED BY <1>8, <2>1, ResetKeeps DEF Rejected, rest, Meant
  <1>9. CASE Recovered(r)
    BY <1>9, StepIs, EstablishKeeps DEF Recovered, Running, rest, Meant
  <1>10. CASE SectionUnrestored(r)
    <2>1. request'[r].at = "read"
      BY <1>10 DEF SectionUnrestored, Typed, Asks
    <2> QED BY <1>10, <2>1, ResetKeeps DEF SectionUnrestored, rest, Meant
  <1>11. CASE Refocus(r)
    <2>1. /\ request'[r].at = "portal"
          /\ pin # NoOne /\ saved.who \in {NoOne, pin} /\ pin' = pin
      BY <1>11, StepIs DEF Refocus, Meant, rest, Running
    <2>2. established /\ request[r].child \in Children
      BY <1>11 DEF Refocus, ValidChild, Typed
    <2>3. live.who \in Guardians /\ saved.who = live.who /\ live.who = pin
      BY <2>1, <2>2, ConnectorAssumption DEF OwnSession
    <2>4. live' = [live EXCEPT !.focus = request[r].child] /\ established' = established
          /\ saved' = [saved EXCEPT !.focus = request[r].child]
      BY <1>11 DEF Refocus
    <2> QED BY <2>1, <2>2, <2>3, <2>4 DEF Keeps, Typed, OwnSession
  <1>12. CASE Stranger(r)
    BY <1>12, FailIs, ForgetKeeps DEF Stranger
  <1>13. CASE Refused(r)
    <2>1. request'[r].at = "idle" /\ Turn(r) /\ Refusal(r)
          /\ UNCHANGED <<saved, live, established, pin>>
      BY <1>13, FailIs DEF Refused, session, rest
    <2>2. ASSUME established, live.who # pin PROVE FALSE
      <3>1. request[r].at \in {"permit", "refocus"}
        BY <2>1, <2>2, StrangerIsBetween
      <3>2. CASE request[r].at = "permit"
        <4>1. request[r].kind # "approve" /\ pin = NoOne
          BY <2>1, <2>2, <3>2 DEF Refusal, SameGuardian, Counted, Reads
        <4> QED BY <3>2, <4>1 DEF Meant
      <3>3. CASE request[r].at = "refocus"
        BY <2>2, <3>3, ConnectorAssumption DEF Meant, OwnSession
      <3> QED BY <3>1, <3>2, <3>3
    <2> QED BY <2>1, <2>2, SameKeeps
  <1>14. CASE Unrestored(r)
    <2>1. request'[r].at = "idle" /\ pin' = pin
      BY <1>14, FailIs DEF Unrestored, rest
    <2>2. CASE UNCHANGED session
      BY <1>14, <2>1, <2>2, SameKeeps DEF Unrestored, session
    <2>3. CASE Reset /\ UNCHANGED saved
      BY <2>1, <2>3, ResetKeeps
    <2>4. CASE Forget
      BY <2>1, <2>4, ForgetKeeps
    <2> QED BY <1>14, <2>2, <2>3, <2>4 DEF Unrestored
  <1> QED
    BY <1>1, <1>2, <1>3, <1>4, <1>5, <1>6, <1>7, <1>8, <1>9, <1>10, <1>11, <1>12,
       <1>13, <1>14 DEF Turns

------------------------------------------------------------------------------
(* What a request holds after a turn of its own. *)

\* A record that keeps what it holds, under the pin and the grants it had.
LEMMA SameMeant ==
    ASSUME NEW r \in Requests, Meant(request[r]), Keeps(r),
           grant' = grant,
           request[r].at \notin {"idle", "answered"},
           request'[r].kind = request[r].kind, request'[r].grant = request[r].grant,
           request'[r].child = request[r].child, request'[r].allowed = request[r].allowed,
           request'[r].data = request[r].data
    PROVE  Meant(request[r])'
  BY DEF Meant, Keeps

LEMMA IdleMeant ==
    ASSUME NEW r \in Requests, request'[r] = Idle
    PROVE  Meant(request[r])'
  BY DEF Meant, Idle

LEMMA StepMeant ==
    ASSUME Typed, NEW r \in Requests, Meant(request[r]), Keeps(r), grant' = grant,
           request[r].at \notin {"idle", "answered"},
           NEW to \in Running, Step(r, to)
    PROVE  Meant(request[r])'
  <1>1. request'[r] = [request[r] EXCEPT !.at = to] /\ request[r] \in Asks
    BY StepIs DEF Typed
  <1>2. /\ request'[r].kind = request[r].kind /\ request'[r].grant = request[r].grant
        /\ request'[r].child = request[r].child /\ request'[r].allowed = request[r].allowed
        /\ request'[r].data = request[r].data
    BY <1>1 DEF Asks
  <1> QED BY <1>2, SameMeant

LEMMA TurnsMeant ==
    ASSUME Typed, OwnSession, NoStrangersSession, NEW r \in Requests,
           Meant(request[r]), Turns(r)
    PROVE  Meant(request[r])'
  <1>0. /\ Keeps(r) /\ Moves(r) /\ request[r] \in Asks /\ grant' = grant
        /\ request \in [Requests -> Asks]
    BY TurnsKeep, TurnsMove DEF Moves, Typed
  <1>1. CASE Begin(r)
    BY <1>0, <1>1, StepMeant DEF Begin, Running
  <1>2. CASE Restored(r)
    BY <1>0, <1>2, StepMeant DEF Restored, Running
  <1>3. CASE Permit(r)
    <2>1. /\ live.who \in Guardians /\ live.kids \subseteq Family[live.who]
          /\ live.kids \subseteq Children
          /\ pin' = live.who /\ (pin # NoOne => pin' = pin) /\ saved.who = pin'
          /\ request'[r].kind = request[r].kind /\ request'[r].grant = request[r].grant
          /\ request'[r].allowed = request[r].allowed
          /\ request[r].at = "permit" /\ saved' = saved
      BY <1>3, PermitIs DEF Permit, session
    <2>2. pin' \in Guardians /\ pin' # NoOne
      BY <2>1, ConnectorAssumption
    <2>3. CASE /\ request'[r].at = "focus"
               /\ request[r].kind \in {"read", "overview"}
               /\ request'[r].child = Chosen(r)
               /\ request'[r].data = request[r].data
      <3>1. request[r].child = NoChild => request[r].data = {}
        <4> SUFFICES ASSUME request[r].child = NoChild PROVE request[r].data = {}
          OBVIOUS
        <4>1. request[r].data \subseteq Guardians \X (request[r].allowed \cap {NoChild})
          BY <2>3 DEF Meant, Counted
        <4>2. request[r].allowed \cap {NoChild} = {}
          BY <1>0, ConnectorAssumption DEF Asks
        <4> QED BY <4>1, <4>2
      <3>2. request'[r].data \subseteq
              Guardians \X (request'[r].allowed \cap {request'[r].child})
        BY <2>1, <2>3, <3>1 DEF Meant, Counted, Chosen
      <3> QED BY <1>0, <2>1, <2>2, <2>3, <3>2 DEF Meant
    <2>4. CASE /\ request'[r].at = "verify"
               /\ request[r].kind = "list"
               /\ request'[r].data = {live.who} \X Permitted(r)
      <3>1. /\ request'[r].data \subseteq {pin'} \X Family[pin']
            /\ request'[r].data \subseteq Guardians \X (request'[r].allowed \cap Children)
        BY <2>1, <2>4 DEF Permitted
      <3> QED BY <1>0, <2>1, <2>2, <2>4, <3>1 DEF Meant
    <2>5. CASE /\ request'[r].at = "verify"
               /\ request[r].kind \notin Counted
               /\ request'[r].data = {live.who} \X live.kids
      <3>1. request'[r].data \subseteq {pin'} \X Family[pin']
        BY <2>1, <2>5
      <3> QED BY <1>0, <2>1, <2>2, <2>5, <3>1 DEF Meant
    <2> QED BY <1>3, <2>3, <2>4, <2>5, PermitIs
  <1>4. CASE Focus(r)
    BY <1>0, <1>4, SameMeant DEF Focus, Asks
  <1>5. CASE Send(r)
    BY <1>0, <1>5, StepMeant DEF Send, Running
  <1>6. CASE Answered(r)
    <2>1. /\ pin \in Guardians /\ live.who = pin
          /\ Read(r) = <<pin, request[r].child>>
          /\ request[r].child \in Family[pin] /\ request[r].child \in Children
          /\ request[r].child \in request[r].allowed
      BY <1>6, ReadIs DEF Answered
    <2>2. /\ request'[r].data = request[r].data \cup {<<pin, request[r].child>>}
          /\ request'[r].kind = request[r].kind /\ request'[r].grant = request[r].grant
          /\ request'[r].child = request[r].child /\ request'[r].allowed = request[r].allowed
      BY <1>6, <2>1, AdvanceIs DEF Answered, Running
    <2>3. pin' = pin /\ pin # NoOne
      BY <1>6, <2>1, ConnectorAssumption DEF Answered, rest
    <2>4. request'[r].data \subseteq {pin} \X Family[pin]
      BY <2>1, <2>2 DEF Meant
    <2>5. request[r].kind \in Counted =>
            request'[r].data \subseteq Guardians \X
              (request[r].allowed \cap
                 (IF request[r].kind = "list" THEN Children ELSE {request[r].child}))
      BY <2>1, <2>2 DEF Meant
    <2> QED BY <1>0, <1>6, <2>2, <2>3, <2>4, <2>5 DEF Meant, Keeps, Answered
  <1>7. CASE SectionFails(r)
    <2>1. /\ request'[r].data = request[r].data
          /\ request'[r].kind = request[r].kind /\ request'[r].grant = request[r].grant
          /\ request'[r].child = request[r].child /\ request'[r].allowed = request[r].allowed
      <3>1. request[r].at \in Running /\ Advance(r, {})
        BY <1>7 DEF SectionFails, Running
      <3>2. {} \in SUBSET (Guardians \X Children)
        OBVIOUS
      <3>3. /\ request'[r].data = request[r].data \cup {}
            /\ \A f \in {"kind", "grant", "child", "allowed", "aborted"} :
                  request'[r][f] = request[r][f]
        BY <3>1, <3>2, AdvanceIs
      <3> QED BY <3>3
    <2> QED BY <1>0, <1>7, <2>1, SameMeant DEF SectionFails
  <1>8. CASE Rejected(r)
    BY <1>0, <1>8, SameMeant DEF Rejected, Asks
  <1>9. CASE Recovered(r)
    BY <1>0, <1>9, StepMeant DEF Recovered, Running
  <1>10. CASE SectionUnrestored(r)
    BY <1>0, <1>10, SameMeant DEF SectionUnrestored, Asks
  <1>11. CASE Refocus(r)
    BY <1>0, <1>11, StepMeant DEF Refocus, Running
  <1>12. CASE Stranger(r)
    BY <1>12, FailIs, IdleMeant DEF Stranger
  <1>13. CASE Refused(r)
    BY <1>13, FailIs, IdleMeant DEF Refused
  <1>14. CASE Unrestored(r)
    BY <1>14, FailIs, IdleMeant DEF Unrestored
  <1> QED
    BY <1>1, <1>2, <1>3, <1>4, <1>5, <1>6, <1>7, <1>8, <1>9, <1>10, <1>11, <1>12,
       <1>13, <1>14 DEF Turns

------------------------------------------------------------------------------
(* The invariant, and what becomes of the others. *)

Logins == [at: {"none", "queued", "user", "tokens", "establish", "done", "failed"},
           cancelled: BOOLEAN, number: 0 .. MaxLogins]
Approvals == [Grants -> [life: {"none", "asked", "live", "over"}, children: SUBSET Children]]

\* Logins that were cancelled, and the session they must not leave.
Endings ==
    /\ EndedLoginLeavesNothing
    /\ \A n \in ended : n <= login.number
    /\ login.at # "none" /\ login.number \in ended => login.cancelled

Kept ==
    /\ Typed
    /\ OwnSession
    /\ InTurn
    /\ AllMeant
    /\ NoStrangersSession
    /\ ApprovesOwnChildren
    /\ Endings
    /\ CountsThoseUnderWay

\* An approval that names children once names them for good.
ApprovalsKept ==
    \A g \in Grants : grant[g].life \in {"live", "over"} =>
        grant'[g].life \in {"live", "over"} /\ grant'[g].children = grant[g].children

\* A request that has no turn holds what it held, whatever becomes of the
\* session.
LEMMA OthersMeant ==
    ASSUME NEW s \in Requests, Typed, Meant(request[s]), request[s].at \notin Running,
           request'[s] = request[s], ApprovalsKept, pin # NoOne => pin' = pin
    PROVE  Meant(request[s])'
  BY DEF Meant, Running, ApprovalsKept, Typed, Asks

\* Whoever comes last leaves the head of the queue where it is.
LEMMA HeadStays ==
    ASSUME Typed, NEW t \in Requests \cup Owners, Takes(t), queue # <<>>
    PROVE  queue' # <<>> /\ Head(queue') = Head(queue)
  BY DEF Takes, Typed

LEMMA AllStay ==
    ASSUME Typed, NEW t \in Requests \cup Owners, Takes(t), NEW x
    PROVE  (\E i \in 1 .. Len(queue) : queue[i] = x) =>
              (\E i \in 1 .. Len(queue') : queue'[i] = x)
  BY DEF Takes, Typed

LEMMA TakenIsIn ==
    ASSUME Typed, NEW t \in Requests \cup Owners, Takes(t)
    PROVE  \E i \in 1 .. Len(queue') : queue'[i] = t
  <1>1. Len(queue) + 1 \in 1 .. Len(queue') /\ queue'[Len(queue) + 1] = t
    BY DEF Takes, Typed
  <1> QED BY <1>1

LEMMA OthersStay ==
    ASSUME Typed, queue # <<>>, Leaves, NEW x, Head(queue) # x
    PROVE  (\E i \in 1 .. Len(queue) : queue[i] = x) =>
              (\E i \in 1 .. Len(queue') : queue'[i] = x)
  <1> SUFFICES ASSUME NEW i \in 1 .. Len(queue), queue[i] = x
               PROVE  \E j \in 1 .. Len(queue') : queue'[j] = x
    OBVIOUS
  <1>1. i # 1
    BY DEF Typed
  <1>2. i - 1 \in 1 .. Len(queue') /\ queue'[i - 1] = queue[i]
    BY <1>1 DEF Leaves, Typed
  <1> QED BY <1>2

-----------------------------------------------------------------------------
(* Counting. *)

UnderWayAndCounted(q) == q.kind \in Counted /\ q.at \in Running \cup {"waiting"}
CountedNow == {r \in Requests : UnderWayAndCounted(request[r])}

LEMMA CountsNow ==
    /\ CountsThoseUnderWay <=> outstanding = Cardinality(CountedNow)
    /\ IsFiniteSet(CountedNow) /\ Cardinality(CountedNow) \in Nat
    /\ CountedNow \subseteq Requests
  <1>1. CountedNow = {r \in Requests :
          request[r].kind \in Counted /\ request[r].at \in Running \cup {"waiting"}}
    BY DEF CountedNow, UnderWayAndCounted
  <1>2. CountedNow \subseteq Requests
    BY DEF CountedNow
  <1>3. IsFiniteSet(CountedNow)
    BY <1>2, ConnectorAssumption, FS_Subset
  <1> QED BY <1>1, <1>2, <1>3, FS_CardinalityType DEF CountsThoseUnderWay

LEMMA CountsNext == CountsThoseUnderWay' <=> outstanding' = Cardinality(CountedNow')
  <1>1. CountedNow' = {r \in Requests :
          request'[r].kind \in Counted /\ request'[r].at \in Running \cup {"waiting"}}
    BY DEF CountedNow, UnderWayAndCounted
  <1> QED BY <1>1 DEF CountsThoseUnderWay

LEMMA SameCount ==
    ASSUME CountsThoseUnderWay, UNCHANGED outstanding,
           \A r \in Requests :
              UnderWayAndCounted(request'[r]) <=> UnderWayAndCounted(request[r])
    PROVE  CountsThoseUnderWay'
  <1>1. CountedNow' = CountedNow
    BY DEF CountedNow, UnderWayAndCounted
  <1> QED BY <1>1, CountsNow, CountsNext

LEMMA OneMoreCount ==
    ASSUME CountsThoseUnderWay, NEW r \in Requests, outstanding' = outstanding + 1,
           \A s \in Requests : s # r =>
              (UnderWayAndCounted(request'[s]) <=> UnderWayAndCounted(request[s])),
           ~UnderWayAndCounted(request[r]), UnderWayAndCounted(request'[r])
    PROVE  CountsThoseUnderWay'
  <1>1. CountedNow' = CountedNow \cup {r} /\ r \notin CountedNow
    BY DEF CountedNow, UnderWayAndCounted
  <1> QED BY <1>1, CountsNow, CountsNext, FS_AddElement

LEMMA OneLessCount ==
    ASSUME CountsThoseUnderWay, NEW r \in Requests, outstanding' = outstanding - 1,
           \A s \in Requests : s # r =>
              (UnderWayAndCounted(request'[s]) <=> UnderWayAndCounted(request[s])),
           UnderWayAndCounted(request[r]), ~UnderWayAndCounted(request'[r])
    PROVE  CountsThoseUnderWay'
  <1>1. CountedNow' = CountedNow \ {r} /\ r \in CountedNow
    BY DEF CountedNow, UnderWayAndCounted
  <1> QED BY <1>1, CountsNow, CountsNext, FS_RemoveElement

------------------------------------------------------------------------------
(* Asked from outside. *)

\* What is asked from outside, and a login that moves: neither the session nor
\* a request changes, and nobody leaves the queue.
Outside ==
    /\ UNCHANGED <<saved, live, established, pin, outstanding, request>>
    /\ queue' = queue \/ \E t \in Owners : Takes(t)
    /\ login' \in Logins /\ closed' \in BOOLEAN /\ grant' \in Approvals
    /\ ended' \subseteq 0 .. MaxLogins
    /\ login'.at \in {"user", "tokens", "establish"} =>
          login.at \in {"user", "tokens", "establish"}
    /\ login'.at \in {"done", "failed"} =>
          login.at \in {"user", "tokens", "establish", "done", "failed"}
    /\ login.at = "done" => login'.at = "done"
    /\ ApprovalsKept
    /\ \A g \in Grants : grant'[g].life = "live" => grant[g].life = "live"

LEMMA CancelIs ==
    ASSUME Typed, CancelLogin
    PROVE  /\ login' \in Logins /\ login'.number = login.number
           /\ login'.at \in {login.at, "failed"}
           /\ login'.at = "failed" => login.at \in {"user", "failed"}
           /\ login.at # "none" => login'.at # "none" /\ login'.cancelled
           /\ login.at = "none" => login' = login
  BY DEF Typed, CancelLogin, Logins

LEMMA OutsideSteps ==
    ASSUME Typed,
           \/ BeginLogin \/ LoginExpires \/ Callback \/ CodeExchanged
           \/ Disconnect \/ Close \/ KeepaliveTick
           \/ \E g \in Grants : Ask(g) \/ Revoke(g)
    PROVE  Outside
  <1>0. login \in Logins /\ grant \in Approvals /\ ended \subseteq 0 .. MaxLogins
        /\ closed \in BOOLEAN /\ login.number \in 0 .. MaxLogins
    BY DEF Typed, Logins, Approvals
  <1>1. CASE BeginLogin
    <2>1. login.number + 1 \in 0 .. MaxLogins
      BY <1>0, <1>1, ConnectorAssumption DEF BeginLogin
    <2> QED BY <1>0, <1>1, <2>1 DEF BeginLogin, Outside, session, Logins, Owners, ApprovalsKept
  <1>2. CASE LoginExpires
    <2>1. ended' \subseteq 0 .. MaxLogins
      BY <1>0, <1>2 DEF LoginExpires
    <2> QED BY <1>0, <1>2, <2>1, CancelIs DEF LoginExpires, Outside, session, ApprovalsKept
  <1>3. CASE Callback
    BY <1>0, <1>3 DEF Callback, Outside, session, Logins, ApprovalsKept
  <1>4. CASE CodeExchanged
    BY <1>0, <1>4 DEF CodeExchanged, Outside, session, Logins, ApprovalsKept
  <1>5. CASE Disconnect
    <2>1. ended' \subseteq 0 .. MaxLogins
      BY <1>0, <1>5, ConnectorAssumption DEF Disconnect
    <2>2. /\ grant' \in Approvals /\ ApprovalsKept
          /\ \A g \in Grants : grant'[g].life = "live" => grant[g].life = "live"
      BY <1>0, <1>5 DEF Disconnect, Approvals, ApprovalsKept
    <2> QED BY <1>0, <1>5, <2>1, <2>2, CancelIs DEF Disconnect, Outside, session, Owners
  <1>6. CASE Close
    <2>1. ended' \subseteq 0 .. MaxLogins
      BY <1>0, <1>6 DEF Close
    <2> QED BY <1>0, <1>6, <2>1, CancelIs DEF Close, Outside, session, Owners, ApprovalsKept
  <1>7. CASE KeepaliveTick
    BY <1>0, <1>7 DEF KeepaliveTick, Outside, session, Owners, ApprovalsKept
  <1>8. ASSUME NEW g \in Grants, Ask(g) PROVE Outside
    BY <1>0, <1>8 DEF Ask, Outside, session, Approvals, ApprovalsKept
  <1>9. ASSUME NEW g \in Grants, Revoke(g) PROVE Outside
    BY <1>0, <1>9 DEF Revoke, Outside, session, Approvals, ApprovalsKept
  <1> QED BY <1>1, <1>2, <1>3, <1>4, <1>5, <1>6, <1>7, <1>8, <1>9

LEMMA OutsideEndings ==
    ASSUME Typed, Endings, UNCHANGED saved,
           \/ BeginLogin \/ LoginExpires \/ Callback \/ CodeExchanged
           \/ Disconnect \/ Close \/ KeepaliveTick
           \/ \E g \in Grants : Ask(g) \/ Revoke(g)
    PROVE  Endings'
  <1>0. login.number \in Nat /\ login \in Logins
    BY ConnectorAssumption DEF Typed, Logins
  <1>1. CASE BeginLogin
    <2>1. /\ login'.number = login.number + 1 /\ login'.at = "queued"
          /\ ended' = ended /\ Takes("login") /\ login.at = "none"
      BY <1>1 DEF BeginLogin
    <2>2. \A n \in ended : n \in Nat
      BY ConnectorAssumption DEF Typed
    <2>3. login'.number \notin ended /\ \A n \in ended : n <= login'.number
      BY <1>0, <2>1, <2>2 DEF Endings
    <2> QED BY <2>1, <2>3, AllStay DEF Endings, EndedLoginLeavesNothing, Owners
  <1>2. CASE LoginExpires
    <2>1. /\ login'.number = login.number /\ login'.at # "none" /\ login'.cancelled
          /\ ended' = ended \cup {login.number} /\ queue' = queue
      BY <1>2, CancelIs DEF LoginExpires
    <2> QED BY <1>0, <2>1 DEF Endings, EndedLoginLeavesNothing
  <1>3. CASE Callback
    BY <1>0, <1>3 DEF Callback, Endings, EndedLoginLeavesNothing, Logins
  <1>4. CASE CodeExchanged
    BY <1>0, <1>4 DEF CodeExchanged, Endings, EndedLoginLeavesNothing, Logins
  <1>5. CASE Disconnect
    <2>1. /\ login'.number = login.number
          /\ login'.at # "none" => login'.cancelled
          /\ ended' = ended \cup 0 .. login.number
          /\ \E i \in 1 .. Len(queue') : queue'[i] = "logout"
      BY <1>5, CancelIs, TakenIsIn DEF Disconnect, Owners
    <2> QED BY <1>0, <2>1 DEF Endings, EndedLoginLeavesNothing
  <1>6. CASE Close
    <2>1. /\ login'.number = login.number
          /\ login.at # "none" => login'.at # "none" /\ login'.cancelled
          /\ login.at = "none" => login' = login
          /\ ended' = IF login.at = "none" THEN ended ELSE ended \cup {login.number}
          /\ Takes("close")
      BY <1>6, CancelIs DEF Close
    <2>2. (\E i \in 1 .. Len(queue) : queue[i] = "logout") =>
            (\E i \in 1 .. Len(queue') : queue'[i] = "logout")
      BY <2>1, AllStay DEF Owners
    <2>3. CASE login.at = "none"
      BY <2>1, <2>2, <2>3 DEF Endings, EndedLoginLeavesNothing
    <2>4. CASE login.at # "none"
      BY <1>0, <2>1, <2>2, <2>4 DEF Endings, EndedLoginLeavesNothing
    <2> QED BY <2>3, <2>4
  <1>7. CASE KeepaliveTick
    BY <1>7, AllStay DEF KeepaliveTick, Endings, EndedLoginLeavesNothing, Owners
  <1>8. ASSUME NEW g \in Grants, Ask(g) \/ Revoke(g) PROVE Endings'
    BY <1>8 DEF Ask, Revoke, Endings, EndedLoginLeavesNothing
  <1> QED BY <1>1, <1>2, <1>3, <1>4, <1>5, <1>6, <1>7, <1>8

LEMMA OutsideKeeps ==
    ASSUME Kept, Outside, Endings'
    PROVE  Kept'
  <1> USE DEF Kept
  <1>1. queue # <<>> => queue' # <<>> /\ Head(queue') = Head(queue)
    BY HeadStays DEF Outside
  <1>2. Typed'
    <2>1. queue' \in Seq(Requests \cup Owners)
      BY QueueTyped DEF Outside, Takes, Typed
    <2> QED BY <2>1 DEF Outside, Typed, Logins, Approvals
  <1>3. OwnSession'
    BY DEF Outside, OwnSession
  <1>4. InTurn'
    BY <1>1 DEF Outside, InTurn, Turn
  <1>5. AllMeant'
    BY DEF Outside, AllMeant, Meant, ApprovalsKept, Typed, Asks
  <1>6. NoStrangersSession'
    BY <1>1 DEF Outside, NoStrangersSession
  <1>7. ApprovesOwnChildren'
    BY DEF Outside, ApprovesOwnChildren, Live, ApprovalsKept
  <1>8. CountsThoseUnderWay'
    BY SameCount DEF Outside, UnderWayAndCounted
  <1> QED BY <1>2, <1>3, <1>4, <1>5, <1>6, <1>7, <1>8

------------------------------------------------------------------------------
(* The login, the logout and a tick, in their turn. *)

\* What the login, the logout and a tick do in their turn: no request moves.
InItsTurn(t) ==
    /\ Turn(t)
    /\ UNCHANGED <<request, grant, closed, outstanding>>
    /\ pin' \in Guardians \cup {NoOne} /\ (pin # NoOne => pin' = pin)
    /\ queue' = queue \/ Leaves

\* The session such a step leaves behind.
SessionTyped ==
    /\ saved \in [who: Guardians \cup {NoOne}, focus: Children \cup {NoChild},
                  by: 0 .. MaxLogins]
    /\ live \in [who: Guardians \cup {NoOne}, kids: SUBSET Children,
                 focus: Children \cup {NoChild}]
    /\ established \in BOOLEAN
    /\ login \in Logins
    /\ ended \subseteq 0 .. MaxLogins

LEMMA InTurnKeeps ==
    ASSUME Kept, NEW t \in Owners, InItsTurn(t),
           SessionTyped', OwnSession', NoStrangersSession', Endings',
           login'.at \in {"user", "tokens", "establish", "done", "failed"} =>
              t = "login" /\ queue' = queue
    PROVE  Kept'
  <1> USE DEF Kept
  <1>1. Typed'
    BY QueueTyped DEF InItsTurn, Typed, Logins, Leaves, Turn, SessionTyped
  <1>2. \A r \in Requests : request[r].at \notin Running
    BY NotALogin DEF InItsTurn, InTurn, Turn
  <1>3. InTurn'
    BY <1>2 DEF InTurn, InItsTurn, Turn
  <1>4. AllMeant'
    BY <1>2, OthersMeant DEF AllMeant, InItsTurn, ApprovalsKept
  <1>5. ApprovesOwnChildren'
    BY DEF ApprovesOwnChildren, Live, InItsTurn
  <1>6. CountsThoseUnderWay'
    BY SameCount DEF InItsTurn, UnderWayAndCounted
  <1> QED BY <1>1, <1>3, <1>4, <1>5, <1>6

LEMMA ForgetIs ==
    ASSUME Forget
    PROVE  saved'.who = NoOne /\ live' = Nobody /\ established' = FALSE
  BY DEF Forget, Reset, NoSession

LEMMA LoginStartsKeeps == ASSUME Kept, LoginStarts PROVE Kept'
  <1> USE DEF Kept
  <1>0. login \in Logins /\ ended' = ended /\ queue' = queue /\ Turn("login")
        /\ login.at = "queued" /\ saved' = saved /\ pin' = pin
    BY DEF Typed, Logins, LoginStarts, session
  <1>1. InItsTurn("login")
    BY DEF LoginStarts, InItsTurn, Typed
  <1>2. CASE login.cancelled
    <2>1. login' = [login EXCEPT !.at = "failed"] /\ UNCHANGED <<live, established>>
      BY <1>2 DEF LoginStarts, session
    <2>2. login' \in Logins /\ login'.at = "failed" /\ login'.number = login.number
          /\ login'.cancelled = login.cancelled
      BY <1>0, <2>1 DEF Logins
    <2>3. SessionTyped' /\ OwnSession'
      BY <1>0, <2>1, <2>2 DEF SessionTyped, Typed, OwnSession
    <2>4. NoStrangersSession'
      BY <1>0, <2>1, <1>1, NotALogin DEF NoStrangersSession, Turn, Owners, InItsTurn
    <2>5. Endings'
      BY <1>0, <2>2 DEF Endings, EndedLoginLeavesNothing
    <2> QED BY <1>0, <1>1, <2>3, <2>4, <2>5, InTurnKeeps DEF Owners
  <1>3. CASE ~login.cancelled
    <2>1. login' = [login EXCEPT !.at = "user"] /\ live' = Nobody /\ established' = FALSE
      BY <1>3 DEF LoginStarts, session, Reset
    <2> QED BY <1>0, <1>1, <2>1, InTurnKeeps, NobodyTyped
         DEF SessionTyped, Typed, Logins, OwnSession, NoStrangersSession, Endings,
             EndedLoginLeavesNothing, Owners
  <1> QED BY <1>2, <1>3

LEMMA LoginEstablishesKeeps == ASSUME Kept, LoginEstablishes PROVE Kept'
  <1> USE DEF Kept
  <1>0. login \in Logins /\ ended' = ended /\ queue' = queue /\ Turn("login")
        /\ login.at = "establish" /\ login.number \in 0 .. MaxLogins
        /\ login' = [login EXCEPT !.at = "done"]
    BY DEF Typed, Logins, LoginEstablishes, InTurn
  <1>1. InItsTurn("login")
    BY <1>0 DEF LoginEstablishes, InItsTurn, Typed
  <1>2. PICK who \in Guardians : Establish(who, NoChild, login.number)
    BY DEF LoginEstablishes
  <1>3. /\ saved' \in [who: Guardians \cup {NoOne}, focus: Children \cup {NoChild},
                       by: 0 .. MaxLogins]
        /\ live' \in [who: Guardians \cup {NoOne}, kids: SUBSET Children,
                      focus: Children \cup {NoChild}]
        /\ established' = TRUE
        /\ live'.who = who /\ live'.kids \subseteq Family[who]
        /\ saved'.who = who /\ saved'.by = login.number
    BY <1>0, <1>2, EstablishTyped
  <1>4. login' \in Logins /\ login'.at = "done" /\ login'.number = login.number
        /\ login'.cancelled = login.cancelled
    BY <1>0 DEF Logins
  <1>5. SessionTyped'
    BY <1>0, <1>3, <1>4 DEF SessionTyped, Typed
  <1>6. OwnSession'
    BY <1>3, <1>4 DEF OwnSession
  <1>7. NoStrangersSession'
    BY <1>0, <1>4 DEF NoStrangersSession, Turn
  <1>8. Endings'
    BY <1>0, <1>3, <1>4 DEF Endings, EndedLoginLeavesNothing
  <1> QED BY <1>0, <1>1, <1>5, <1>6, <1>7, <1>8, InTurnKeeps DEF Owners

LEMMA LoginKeepsTokensKeeps == ASSUME Kept, LoginKeepsTokens PROVE Kept'
  <1> USE DEF Kept
  <1>0. login \in Logins /\ ended' = ended /\ queue' = queue /\ Turn("login")
        /\ login.at = "establish" /\ login.number \in 0 .. MaxLogins
        /\ login' = [login EXCEPT !.at = "failed"]
        /\ live' = live /\ established' = established /\ established = FALSE
    BY DEF Typed, Logins, LoginKeepsTokens, InTurn, OwnSession
  <1>1. InItsTurn("login")
    BY <1>0 DEF LoginKeepsTokens, InItsTurn, Typed
  <1>2. PICK who \in Guardians :
          saved' = [who |-> who, focus |-> NoChild, by |-> login.number]
    BY DEF LoginKeepsTokens
  <1>4. login' \in Logins /\ login'.at = "failed" /\ login'.number = login.number
        /\ login'.cancelled = login.cancelled
    BY <1>0 DEF Logins
  <1>5. SessionTyped'
    BY <1>0, <1>2, <1>4 DEF SessionTyped, Typed
  <1>6. OwnSession' /\ NoStrangersSession'
    BY <1>0, <1>4 DEF OwnSession, NoStrangersSession
  <1>8. Endings'
    BY <1>0, <1>2, <1>4 DEF Endings, EndedLoginLeavesNothing
  <1> QED BY <1>0, <1>1, <1>5, <1>6, <1>8, InTurnKeeps DEF Owners

LEMMA LoginSucceedsKeeps == ASSUME Kept, LoginSucceeds PROVE Kept'
  <1> USE DEF Kept
  <1>0. login \in Logins /\ ended' = ended /\ Leaves /\ Turn("login")
        /\ login.at = "done" /\ ~login.cancelled /\ pin' = live.who
        /\ login' = [login EXCEPT !.at = "none"]
        /\ UNCHANGED <<saved, live, established>>
    BY DEF Typed, Logins, LoginSucceeds, InTurn, Pinned, SameGuardian, session
  <1>1. InItsTurn("login")
    BY <1>0 DEF LoginSucceeds, InItsTurn, Typed, SameGuardian, Pinned
  <1>4. login' \in Logins /\ login'.at = "none" /\ login'.number = login.number
    BY <1>0 DEF Logins
  <1>5. SessionTyped'
    BY <1>0, <1>4 DEF SessionTyped, Typed
  <1>6. OwnSession' /\ NoStrangersSession'
    BY <1>0, <1>4 DEF OwnSession, NoStrangersSession
  <1>7. EndedLoginLeavesNothing'
    <2>1. login.number \notin ended
      BY <1>0 DEF Endings
    <2> QED BY <1>0, <1>4, <2>1, OthersStay DEF Endings, EndedLoginLeavesNothing, Turn
  <1>8. Endings'
    BY <1>0, <1>4, <1>7 DEF Endings
  <1> QED BY <1>0, <1>1, <1>4, <1>5, <1>6, <1>8, InTurnKeeps DEF Owners

\* Where the session is forgotten, nothing is left of any login.
LEMMA ForgetKeepsAll ==
    ASSUME Kept, NEW t \in Owners, InItsTurn(t), Forget, login' \in Logins,
           login'.number = login.number,
           ended' \subseteq ended \cup {login.number},
           login'.at # "none" => login' = login /\ ended' = ended /\ t # "login"
    PROVE  Kept'
  <1> USE DEF Kept
  <1>1. saved' = NoSession /\ saved'.who = NoOne /\ live' = Nobody /\ established' = FALSE
    BY DEF Forget, Reset, NoSession
  <1>2. SessionTyped'
    BY <1>1, NobodyTyped DEF SessionTyped, Typed
  <1>3. OwnSession' /\ NoStrangersSession'
    BY <1>1 DEF OwnSession, NoStrangersSession
  <1>4. Endings'
    <2>1. login.number \in Nat
      BY ConnectorAssumption DEF Typed
    <2> QED BY <1>1, <2>1 DEF Endings, EndedLoginLeavesNothing
  <1>5. login'.at \notin {"user", "tokens", "establish", "done", "failed"}
    BY DEF InTurn, InItsTurn, Turn
  <1> QED BY <1>2, <1>3, <1>4, <1>5, InTurnKeeps

LEMMA LoginRefusedKeeps == ASSUME Kept, LoginRefused PROVE Kept'
  <1> USE DEF Kept
  <1>0. login \in Logins /\ Turn("login")
    BY DEF Typed, Logins, LoginRefused, InTurn
  <1>1. InItsTurn("login")
    BY <1>0 DEF LoginRefused, InItsTurn, Typed
  <1>2. login' \in Logins /\ login'.at = "none" /\ login'.number = login.number
    BY <1>0 DEF LoginRefused, Logins
  <1> QED BY <1>1, <1>2, ForgetKeepsAll DEF LoginRefused, Owners

LEMMA LogoutRunsKeeps == ASSUME Kept, LogoutRuns PROVE Kept'
  <1>1. InItsTurn("logout")
    BY DEF LogoutRuns, InItsTurn, Typed, Kept
  <1> QED BY <1>1, ForgetKeepsAll DEF LogoutRuns, Owners, Kept, Typed, Logins

LEMMA TickRunsKeeps == ASSUME Kept, TickRuns PROVE Kept'
  <1> USE DEF Kept
  <1>1. InItsTurn("tick") /\ Leaves
    BY DEF TickRuns, InItsTurn, Typed
  <1>2. CASE Forget
    BY <1>1, <1>2, ForgetKeepsAll DEF TickRuns, Owners, Typed, Logins
  <1>3. CASE UNCHANGED session
    <2>0. /\ UNCHANGED <<saved, live, established, pin, login, ended>>
          /\ queue # <<>> /\ Head(queue) = "tick"
      BY <1>1, <1>3 DEF TickRuns, session, InItsTurn, Turn
    <2>1. SessionTyped' /\ OwnSession'
      BY <2>0 DEF SessionTyped, Typed, Logins, OwnSession
    <2>2. NoStrangersSession'
      BY <2>0, NotALogin DEF NoStrangersSession, Owners
    <2>3. Endings'
      BY <1>1, <2>0, OthersStay DEF Endings, EndedLoginLeavesNothing
    <2>4. login.at \notin {"user", "tokens", "establish", "done", "failed"}
      BY <2>0 DEF InTurn, Turn
    <2> QED BY <1>1, <2>0, <2>1, <2>2, <2>3, <2>4, InTurnKeeps DEF Owners
  <1> QED BY <1>2, <1>3 DEF TickRuns

------------------------------------------------------------------------------
(* A restart; a turn of a request; a request that has none. *)

LEMMA RestartKeeps == ASSUME Kept, Restart PROVE Kept'
  <1> USE DEF Kept
  <1>1. /\ saved' = saved /\ pin' = pin /\ grant' = grant /\ live' = Nobody
        /\ established' = FALSE /\ queue' = <<>> /\ closed' = FALSE /\ outstanding' = 0
        /\ login' = [login EXCEPT !.at = "none", !.cancelled = FALSE]
        /\ request' = [r \in Requests |-> Idle]
        /\ ended' = ended \ {saved.by}
    BY DEF Restart, Reset
  <1>2. login' \in Logins /\ login'.at = "none" /\ login'.number = login.number
    BY <1>1 DEF Typed, Logins
  <1>3. request' \in [Requests -> Asks]
    BY <1>1, IdleAsks
  <1>4. queue' \in Seq(Requests \cup Owners)
    BY <1>1, EmptySeq
  <1>5. Typed'
    BY <1>1, <1>2, <1>3, <1>4, NobodyTyped DEF Typed, Logins
  <1>6. OwnSession' /\ NoStrangersSession'
    BY <1>1, <1>2 DEF OwnSession, NoStrangersSession
  <1>7. \A r \in Requests : request'[r] = Idle /\ Idle.at = "idle"
    BY <1>1 DEF Idle
  <1>8. InTurn'
    BY <1>2, <1>7 DEF InTurn, Running
  <1>9. AllMeant'
    BY <1>7, IdleMeant DEF AllMeant
  <1>10. ApprovesOwnChildren'
    BY <1>1 DEF ApprovesOwnChildren, Live
  <1>11. Endings'
    BY <1>1, <1>2 DEF Endings, EndedLoginLeavesNothing
  <1>12. CountsThoseUnderWay'
    <2>1. CountedNow' = {}
      BY <1>7 DEF CountedNow, UnderWayAndCounted, Running
    <2> QED BY <2>1, <1>1, CountsNext, FS_EmptySet
  <1> QED BY <1>5, <1>6, <1>8, <1>9, <1>10, <1>11, <1>12

\* A request's own turn.
LEMMA TurnsKeepAll == ASSUME Kept, NEW r \in Requests, Turns(r) PROVE Kept'
  <1> USE DEF Kept
  <1>0. /\ Moves(r) /\ Keeps(r) /\ Turn(r) /\ Meant(request[r])' /\ r \notin Owners
        /\ queue # <<>> /\ Head(queue) = r
        /\ login' = login /\ grant' = grant /\ closed' = closed /\ ended' = ended
    BY TurnsMove, TurnsKeep, TurnsMeant, NotALogin DEF AllMeant, Moves, Turn
  <1>1. \A s \in Requests : s # r => request[s].at \notin Running
    BY <1>0 DEF InTurn, Turn
  <1>2. Typed'
    <2>1. queue' \in Seq(Requests \cup Owners)
      BY <1>0, QueueTyped DEF Moves, Typed
    <2>2. request' \in [Requests -> Asks]
      BY <1>0 DEF Moves
    <2> QED BY <1>0, <2>1, <2>2 DEF Typed, Keeps
  <1>3. login.at \notin {"user", "tokens", "establish", "done", "failed"}
    BY <1>0 DEF InTurn, Turn, Owners
  <1>4. OwnSession'
    BY <1>0, <1>3 DEF OwnSession, Keeps
  <1>5. InTurn'
    <2>1. request'[r].at \in Running => Turn(r)'
      BY <1>0 DEF Moves, Turn, Running
    <2> QED BY <1>0, <1>1, <1>3, <2>1 DEF InTurn, Moves
  <1>6. AllMeant'
    <2>1. ApprovalsKept
      BY <1>0 DEF ApprovalsKept, Typed
    <2>2. \A s \in Requests : s # r => Meant(request[s])'
      BY <1>0, <1>1, <2>1, OthersMeant DEF AllMeant, Moves, Keeps
    <2> QED BY <1>0, <2>2 DEF AllMeant
  <1>7. NoStrangersSession'
    <2> SUFFICES ASSUME established', live'.who # pin' PROVE NoStrangersSession'
      BY DEF NoStrangersSession
    <2>1. request'[r].at \in {"permit", "refocus"}
      BY <1>0 DEF Keeps
    <2>2. queue' = queue
      BY <1>0, <2>1 DEF Moves
    <2> QED BY <1>0, <2>1, <2>2 DEF NoStrangersSession
  <1>8. ApprovesOwnChildren'
    BY <1>0, ConnectorAssumption DEF ApprovesOwnChildren, Live, Keeps
  <1>9. Endings'
    <2>1. (\E i \in 1 .. Len(queue) : queue[i] = "logout") =>
            (\E i \in 1 .. Len(queue') : queue'[i] = "logout")
      BY <1>0, OthersStay DEF Moves, Leaves, Owners
    <2>2. saved'.who # NoOne => saved.who # NoOne /\ saved'.by = saved.by
      BY <1>0 DEF Keeps
    <2> QED BY <1>0, <2>1, <2>2 DEF Endings, EndedLoginLeavesNothing
  <1>10. CountsThoseUnderWay'
    <2>1. request[r].at \in Running \cup {"waiting"}
      BY DEF Turns, Begin, Restored, Permit, Focus, Send, Answered, SectionFails,
             Rejected, Recovered, SectionUnrestored, Refocus, Stranger, Refused,
             Refusal, Unrestored, Running
    <2>2. \A s \in Requests : s # r => request'[s] = request[s]
      BY <1>0 DEF Moves
    <2>3. CASE request'[r].at \in Running /\ request'[r].kind = request[r].kind
               /\ UNCHANGED outstanding
      <3>1. UnderWayAndCounted(request'[r]) <=> UnderWayAndCounted(request[r])
        BY <2>1, <2>3 DEF UnderWayAndCounted
      <3> QED BY <2>2, <2>3, <3>1, SameCount
    <2>4. CASE request'[r].at \in {"idle", "verify"} /\ Settled(r)
      <3>1. ~UnderWayAndCounted(request'[r])
        BY <2>4 DEF UnderWayAndCounted, Running
      <3>2. CASE request[r].kind \in Counted
        <4>1. UnderWayAndCounted(request[r]) /\ outstanding' = outstanding - 1
          BY <2>1, <2>4, <3>2 DEF UnderWayAndCounted, Settled
        <4> QED BY <2>2, <3>1, <4>1, OneLessCount
      <3>3. CASE request[r].kind \notin Counted
        <4>1. ~UnderWayAndCounted(request[r]) /\ outstanding' = outstanding
          BY <2>4, <3>3 DEF UnderWayAndCounted, Settled
        <4> QED BY <2>2, <3>1, <4>1, SameCount
      <3> QED BY <3>2, <3>3
    <2> QED BY <1>0, <2>3, <2>4 DEF Moves
  <1> QED BY <1>2, <1>4, <1>5, <1>6, <1>7, <1>8, <1>9, <1>10

\* What a request does out of its turn: the session is not its own to change.
LEMMA AsideKeeps ==
    ASSUME Kept, NEW r \in Requests,
           UNCHANGED <<saved, live, established, pin, login, closed, ended>>,
           queue' = queue \/ Takes(r),
           request' \in [Requests -> Asks],
           \A s \in Requests : s # r => request'[s] = request[s],
           request'[r].at \in Running => request'[r].at = request[r].at,
           request[r].at \in Running => request'[r].at = request[r].at,
           grant' \in Approvals, ApprovalsKept, ApprovesOwnChildren',
           Meant(request[r])', CountsThoseUnderWay'
    PROVE  Kept'
  <1> USE DEF Kept
  <1>1. queue # <<>> => queue' # <<>> /\ Head(queue') = Head(queue)
    BY HeadStays
  <1>2. Typed'
    <2>1. queue' \in Seq(Requests \cup Owners)
      <3>1. queue \in Seq(Requests \cup Owners) /\ r \in Requests \cup Owners
        BY DEF Typed
      <3> QED BY <3>1, QueueTyped DEF Takes
    <2> QED BY <2>1 DEF Typed, Approvals
  <1>3. OwnSession'
    BY DEF OwnSession
  <1>4. InTurn'
    BY <1>1 DEF InTurn, Turn
  <1>5. AllMeant'
    <2> SUFFICES ASSUME NEW s \in Requests, s # r PROVE Meant(request[s])'
      BY DEF AllMeant
    <2> QED BY DEF AllMeant, Meant, ApprovalsKept, Typed, Asks
  <1>6. NoStrangersSession'
    BY <1>1 DEF NoStrangersSession, Running
  <1>7. Endings'
    BY AllStay DEF Endings, EndedLoginLeavesNothing
  <1> QED BY <1>2, <1>3, <1>4, <1>5, <1>6, <1>7

------------------------------------------------------------------------------
(* Arrivals, disconnected clients, answers. *)

LEMMA RequestKeeps == ASSUME Kept, NEW r \in Requests, Request(r) PROVE Kept'
  <1> USE DEF Kept
  <1>0. /\ request[r] \in Asks /\ request \in [Requests -> Asks]
        /\ grant \in [Grants -> [life: {"none", "asked", "live", "over"},
                                 children: SUBSET Children]]
        /\ request[r].at \in {"idle", "answered"} /\ Takes(r)
        /\ UNCHANGED <<saved, live, established, pin, login, closed, grant, ended>>
    BY DEF Typed, Request, session, rest
  <1>1. PICK kind \in Kinds, g \in Grants : \E child \in Nameable(kind) :
         /\ IF kind = "approve" THEN grant[g].life = "asked" ELSE Live(g)
         /\ outstanding' = IF kind \in Counted THEN outstanding + 1 ELSE outstanding
         /\ request' = [request EXCEPT ![r] = Arriving(kind, g, child)]
    BY DEF Request
  <1>a. PICK child \in Nameable(kind) :
         /\ IF kind = "approve" THEN grant[g].life = "asked" ELSE Live(g)
         /\ outstanding' = IF kind \in Counted THEN outstanding + 1 ELSE outstanding
         /\ request' = [request EXCEPT ![r] = Arriving(kind, g, child)]
    BY <1>1
  <1>2. child \in Children \cup {NoChild} /\ (kind = "approve" => child \in Children)
    BY DEF Nameable
  <1> DEFINE q == Arriving(kind, g, child)
  <1>3. /\ q.at = "waiting" /\ q.kind = kind /\ q.grant = g /\ q.child = child
        /\ q.allowed = IF kind = "approve" THEN {child} ELSE grant[g].children
        /\ q.data = {}
    BY DEF Idle, Arriving
  <1>4. q \in Asks
    <2>1. /\ kind \in {"list", "read", "overview", "session", "approve"}
          /\ (IF kind = "overview" THEN Sections ELSE 1) \in 0 .. Sections
          /\ (IF kind = "approve" THEN {child} ELSE grant[g].children) \in SUBSET Children
      BY <1>0, <1>2, ConnectorAssumption DEF Counted
    <2> QED BY <2>1, <1>2, IdleAsks DEF Asks, Arriving
  <1>5. request' = [request EXCEPT ![r] = q]
    BY <1>a
  <1> HIDE DEF q
  <1>6. /\ request'[r] = q /\ request' \in [Requests -> Asks]
        /\ \A s \in Requests : s # r => request'[s] = request[s]
    BY <1>0, <1>4, <1>5
  <1>7. Meant(request[r])'
    <2>1. kind = "approve" => q.allowed # {}
      BY <1>3
    <2>2. kind # "approve" =>
            /\ pin # NoOne /\ grant[g].life \in {"live", "over"}
            /\ q.allowed = grant[g].children
      BY <1>1, <1>3 DEF ApprovesOwnChildren, Live
    <2> QED BY <1>0, <1>3, <1>6, <2>1, <2>2 DEF Meant
  <1>8. CountsThoseUnderWay'
    <2>1. ~UnderWayAndCounted(request[r])
      BY <1>0 DEF UnderWayAndCounted, Running
    <2>2. CASE kind \in Counted
      <3>1. UnderWayAndCounted(request'[r]) /\ outstanding' = outstanding + 1
        BY <1>a, <1>3, <1>6, <2>2 DEF UnderWayAndCounted
      <3> QED BY <1>6, <2>1, <3>1, OneMoreCount
    <2>3. CASE kind \notin Counted
      <3>1. ~UnderWayAndCounted(request'[r]) /\ outstanding' = outstanding
        BY <1>a, <1>3, <1>6, <2>3 DEF UnderWayAndCounted
      <3> QED BY <1>6, <2>1, <3>1, SameCount
    <2> QED BY <2>2, <2>3
  <1>9. grant' \in Approvals /\ ApprovalsKept /\ ApprovesOwnChildren'
    BY <1>0 DEF Approvals, ApprovalsKept, ApprovesOwnChildren, Live
  <1>10. request'[r].at \notin Running /\ request[r].at \notin Running
    BY <1>0, <1>3, <1>6 DEF Running
  <1> QED BY <1>0, <1>6, <1>7, <1>8, <1>9, <1>10, AsideKeeps

LEMMA AbortKeeps == ASSUME Kept, NEW r \in Requests, Abort(r) PROVE Kept'
  <1> USE DEF Kept
  <1>0. /\ request[r] \in Asks /\ request \in [Requests -> Asks] /\ grant \in Approvals
        /\ request' = [request EXCEPT ![r].aborted = TRUE] /\ queue' = queue
        /\ UNCHANGED <<saved, live, established, pin, login, closed, grant, ended, outstanding>>
    BY DEF Typed, Abort, session, rest, Approvals
  <1>1. /\ request' \in [Requests -> Asks]
        /\ \A s \in Requests : s # r => request'[s] = request[s]
        /\ request'[r].at = request[r].at /\ request'[r].kind = request[r].kind
        /\ request'[r].grant = request[r].grant /\ request'[r].data = request[r].data
        /\ request'[r].child = request[r].child /\ request'[r].allowed = request[r].allowed
    BY <1>0 DEF Asks
  <1>2. Meant(request[r])'
    BY <1>0, <1>1 DEF Meant, AllMeant
  <1>3. CountsThoseUnderWay'
    BY <1>0, <1>1, SameCount DEF UnderWayAndCounted
  <1>4. ApprovalsKept /\ ApprovesOwnChildren'
    BY <1>0 DEF ApprovalsKept, ApprovesOwnChildren, Live, Approvals
  <1> QED BY <1>0, <1>1, <1>2, <1>3, <1>4, AsideKeeps

\* A request that has left the queue is answered, or not.
LEMMA LeftKeeps ==
    ASSUME Kept, NEW r \in Requests, request[r].at = "verify",
           UNCHANGED <<saved, live, established, pin, login, queue, closed, outstanding, ended>>,
           request' = [request EXCEPT ![r] = Idle]
             \/ request' = [request EXCEPT ![r] = [Idle EXCEPT !.at = "answered"]],
           grant' \in Approvals, ApprovalsKept, ApprovesOwnChildren'
    PROVE  Kept'
  <1> USE DEF Kept
  <1>0. request \in [Requests -> Asks]
    BY DEF Typed
  <1>1. /\ [Idle EXCEPT !.at = "answered"] \in Asks
        /\ [Idle EXCEPT !.at = "answered"].at = "answered"
        /\ [Idle EXCEPT !.at = "answered"].data = {}
        /\ Idle.at = "idle" /\ Idle.data = {}
    BY IdleAsks DEF Asks, Idle
  <1>2. /\ request' \in [Requests -> Asks]
        /\ \A s \in Requests : s # r => request'[s] = request[s]
        /\ request'[r].at \in {"idle", "answered"} /\ request'[r].data = {}
    BY <1>0, <1>1, IdleAsks
  <1>3. Meant(request[r])'
    BY <1>2 DEF Meant
  <1>4. CountsThoseUnderWay'
    BY <1>2, SameCount DEF UnderWayAndCounted, Running
  <1>5. request'[r].at \notin Running /\ request[r].at \notin Running
    BY <1>2 DEF Running
  <1> QED BY <1>2, <1>3, <1>4, <1>5, AsideKeeps

LEMMA EndsKeep == ASSUME Kept, NEW r \in Requests, Ends(r) PROVE Kept'
  <1>1. CASE Answer(r) \/ Withheld(r)
    <2>1. grant' = grant
      BY <1>1 DEF Answer, Withheld, rest
    <2>2. grant' \in Approvals /\ ApprovalsKept /\ ApprovesOwnChildren'
      BY <1>1, <2>1 DEF Answer, Withheld, rest, Kept, Typed, Approvals, ApprovalsKept,
                        ApprovesOwnChildren, Live
    <2> QED BY <1>1, <2>2, LeftKeeps DEF Answer, Withheld, rest, session
  <1>2. CASE Approve(r)
    <2> DEFINE g == request[r].grant
               some == request[r].allowed
    <2>1. /\ request[r].at = "verify" /\ request[r].kind = "approve"
          /\ grant[g].life = "asked"
          /\ grant' = [grant EXCEPT ![g] = [life |-> "live", children |-> some]]
          /\ UNCHANGED <<saved, live, established, pin, login, queue, closed, outstanding, ended>>
          /\ request' = [request EXCEPT ![r] = Idle]
      BY <1>2 DEF Approve, Approvable, session
    <2>2. PICK p \in Guardians : {p} \X some \subseteq request[r].data
      BY <1>2 DEF Approve, Approvable
    <2>3. request[r] \in Asks /\ g \in Grants /\ some \in SUBSET Children /\ grant \in Approvals
      BY DEF Kept, Typed, Asks, Approvals
    <2>4. some # {} /\ Meant(request[r])
      BY <2>1 DEF Kept, AllMeant, Meant
    <2>5. PICK c \in some : TRUE
      BY <2>4
    <2>6. <<p, c>> \in request[r].data
      BY <2>2, <2>5
    <2>7. pin # NoOne /\ request[r].data \subseteq {pin} \X Family[pin]
      BY <2>4, <2>6 DEF Meant
    <2>8. some \subseteq Family[pin]
      <3>1. \A x \in some : <<p, x>> \in {pin} \X Family[pin]
        BY <2>2, <2>7
      <3> QED BY <3>1
    <2> HIDE DEF g, some
    <2>9. grant' \in Approvals /\ ApprovalsKept
      BY <2>1, <2>3 DEF Approvals, ApprovalsKept
    <2>10. ApprovesOwnChildren'
      <3> SUFFICES ASSUME NEW h \in Grants, grant'[h].life = "live"
                   PROVE  pin # NoOne /\ grant'[h].children \subseteq Family[pin]
        BY <2>1 DEF ApprovesOwnChildren, Live
      <3>1. CASE h = g
        BY <2>1, <2>3, <2>7, <2>8, <3>1 DEF Approvals
      <3>2. CASE h # g
        BY <2>1, <2>3, <3>2 DEF Approvals, Kept, ApprovesOwnChildren, Live
      <3> QED BY <3>1, <3>2
    <2> QED BY <2>1, <2>9, <2>10, LeftKeeps
  <1> QED BY <1>1, <1>2 DEF Ends

------------------------------------------------------------------------------
(* Every step keeps the invariant. *)

LEMMA KeptAtFirst == Init => Kept
  <1> SUFFICES ASSUME Init PROVE Kept
    OBVIOUS
  <1>1. Typed
    BY TypedAtFirst
  <1>2. /\ live = Nobody /\ established = FALSE /\ queue = <<>> /\ outstanding = 0
        /\ login = [at |-> "none", cancelled |-> FALSE, number |-> 0]
        /\ ended = {} /\ \A r \in Requests : request[r] = Idle
    BY DEF Init
  <1>3. Idle.at = "idle" /\ Idle.data = {}
    BY DEF Idle
  <1>4. OwnSession /\ NoStrangersSession
    BY <1>2 DEF OwnSession, NoStrangersSession
  <1>5. InTurn
    BY <1>2, <1>3 DEF InTurn, Running
  <1>6. AllMeant
    BY <1>2, <1>3 DEF AllMeant, Meant
  <1>7. ApprovesOwnChildren
    BY ConnectorAssumption DEF Init, ApprovesOwnChildren, Live
  <1>8. Endings
    BY <1>2 DEF Endings, EndedLoginLeavesNothing
  <1>9. CountsThoseUnderWay
    <2>1. CountedNow = {}
      BY <1>2, <1>3 DEF CountedNow, UnderWayAndCounted, Running
    <2> QED BY <1>2, <2>1, CountsNow, FS_EmptySet
  <1> QED BY <1>1, <1>4, <1>5, <1>6, <1>7, <1>8, <1>9 DEF Kept

LEMMA KeptByEveryStep == Kept /\ [Next]_vars => Kept'
  <1> SUFFICES ASSUME Kept, [Next]_vars PROVE Kept'
    OBVIOUS
  <1>1. ASSUME \/ BeginLogin \/ LoginExpires \/ Callback \/ CodeExchanged
               \/ Disconnect \/ Close \/ KeepaliveTick
               \/ \E g \in Grants : Ask(g) \/ Revoke(g)
        PROVE  Kept'
    <2>1. Outside
      BY <1>1, OutsideSteps DEF Kept
    <2>2. Endings'
      BY <1>1, <2>1, OutsideEndings DEF Kept, Outside
    <2> QED BY <2>1, <2>2, OutsideKeeps
  <1>2. CASE \/ LoginStarts \/ LoginEstablishes \/ LoginKeepsTokens \/ LoginSucceeds
             \/ LoginRefused \/ LogoutRuns \/ TickRuns \/ Restart
    BY <1>2, LoginStartsKeeps, LoginEstablishesKeeps, LoginKeepsTokensKeeps,
       LoginSucceedsKeeps, LoginRefusedKeeps, LogoutRunsKeeps, TickRunsKeeps, RestartKeeps
  <1>3. ASSUME NEW r \in Requests, Request(r) \/ Abort(r) \/ Turns(r) \/ Ends(r)
        PROVE  Kept'
    BY <1>3, RequestKeeps, AbortKeeps, TurnsKeepAll, EndsKeep
  <1>4. CASE UNCHANGED vars
    BY <1>4 DEF vars, Kept, Typed, OwnSession, InTurn, Turn, AllMeant, Meant,
                NoStrangersSession, ApprovesOwnChildren, Live, Endings,
                EndedLoginLeavesNothing, CountsThoseUnderWay
  <1> QED BY <1>1, <1>2, <1>3, <1>4 DEF Next, LoginTurn

LEMMA KeptAlways == Spec => []Kept
  BY KeptAtFirst, KeptByEveryStep, PTL DEF Spec

------------------------------------------------------------------------------
(* The theorems. *)

\* Only an arrival takes a place, and only where one is free.
LEMMA PlacesStep ==
    ASSUME Kept, outstanding <= Limit, [Next]_vars
    PROVE  outstanding' <= Limit
  <1>0. outstanding \in Nat /\ Limit \in Nat
    BY CountsNow, ConnectorAssumption DEF Kept
  <1>1. ASSUME \/ BeginLogin \/ LoginExpires \/ Callback \/ CodeExchanged
               \/ Disconnect \/ Close \/ KeepaliveTick
               \/ \E g \in Grants : Ask(g) \/ Revoke(g)
        PROVE  outstanding' = outstanding
    BY <1>1, OutsideSteps DEF Kept, Outside
  <1>2. CASE \/ LoginStarts \/ LoginEstablishes \/ LoginKeepsTokens \/ LoginSucceeds
             \/ LoginRefused \/ LogoutRuns \/ TickRuns
    BY <1>2 DEF LoginStarts, LoginEstablishes, LoginKeepsTokens, LoginSucceeds,
                LoginRefused, LogoutRuns, TickRuns
  <1>3. CASE Restart
    BY <1>0, <1>3 DEF Restart
  <1>4. ASSUME NEW r \in Requests, Request(r) PROVE outstanding' <= Limit
    <2>1. outstanding' = outstanding \/ (outstanding < Limit /\ outstanding' = outstanding + 1)
      BY <1>4 DEF Request, Room
    <2> QED BY <1>0, <2>1
  <1>5. ASSUME NEW r \in Requests, Turns(r) PROVE outstanding' <= Limit
    <2>1. outstanding' = outstanding \/ outstanding' = outstanding - 1
      BY <1>5, TurnsMove DEF Kept, AllMeant, Moves, Settled
    <2> QED BY <1>0, <2>1
  <1>6. ASSUME NEW r \in Requests, Abort(r) \/ Ends(r) PROVE outstanding' = outstanding
    BY <1>6 DEF Abort, Ends, Answer, Withheld, Approve
  <1>7. CASE UNCHANGED vars
    BY <1>7 DEF vars
  <1> QED BY <1>0, <1>1, <1>2, <1>3, <1>4, <1>5, <1>6, <1>7 DEF Next, LoginTurn

LEMMA KeptHasPlaces == Kept /\ outstanding <= Limit => PlacesAccounted
  <1> SUFFICES ASSUME Kept, outstanding <= Limit PROVE PlacesAccounted
    OBVIOUS
  <1>1. outstanding \in 0 .. Limit
    BY CountsNow, ConnectorAssumption DEF Kept
  <1>2. \A i \in 1 .. Len(queue) :
          queue[i] \in Requests \cup {"login", "logout", "tick", "close"}
    BY DEF Kept, Typed, Owners
  <1>3. TypeOK
    BY <1>1, <1>2 DEF Kept, Typed, TypeOK, Asks
  <1> QED BY <1>3 DEF Kept, PlacesAccounted

\* Every variable has its type, and `outstanding' is exactly the number of
\* calls that were admitted and have not settled: a place is given back once
\* by every way a call can end, a restart included, and never more than Limit
\* are taken (runtime.ts, admitted).
THEOREM EveryPlaceIsAccountedFor == Spec => []PlacesAccounted
  <1>1. Init => outstanding <= Limit
    BY ConnectorAssumption DEF Init
  <1>2. Kept /\ outstanding <= Limit /\ [Next]_vars => (outstanding <= Limit)'
    BY PlacesStep
  <1>3. Kept /\ outstanding <= Limit => PlacesAccounted
    BY KeptHasPlaces
  <1> QED BY <1>1, <1>2, <1>3, KeptAlways, PTL DEF Spec

\* Whatever logs in, restores, recovers or is refused, in whatever order, the
\* session of another adult does not outlive the turn that brought it, and
\* every approval names children of the pinned guardian (runtime.ts,
\* checkIdentity; oauth.ts, approve).
THEOREM OneGuardianPerConnector == Spec => []OnlyThePinnedGuardians
  <1>1. Kept => OnlyThePinnedGuardians
    BY DEF Kept, OnlyThePinnedGuardians
  <1> QED BY <1>1, KeptAlways, PTL

\* No login that failed, was cancelled or came before "Disconnect everything"
\* leaves a session on disk once its turn, or the logout's, is over
\* (runtime.ts, beginLogin, cancelLogin and logout).
THEOREM NoSessionOfAnEndedLogin == Spec => []EndedLoginLeavesNothing
  <1>1. Kept => EndedLoginLeavesNothing
    BY DEF Kept, Endings
  <1> QED BY <1>1, KeptAlways, PTL

\* Only the route's last word answers a request.
LEMMA OnlyAnswerAnswers ==
    ASSUME Kept, [Next]_vars, NEW r \in Requests, request[r].at = "verify",
           request'[r].at = "answered"
    PROVE  Live(request[r].grant)
  <1>0. request \in [Requests -> Asks] /\ request' # request
    BY DEF Kept, Typed
  <1>1. CASE Restart
    BY <1>1 DEF Restart, Idle
  <1>2. ASSUME NEW s \in Requests, Request(s) \/ Abort(s) PROVE FALSE
    <2>1. s # r
      BY <1>2 DEF Request, Abort, Running
    <2>2. request'[r] = request[r]
      BY <1>0, <1>2, <2>1 DEF Request, Abort
    <2> QED BY <2>2
  <1>3. ASSUME NEW s \in Requests, Turns(s) PROVE FALSE
    <2>1. Moves(s)
      BY <1>3, TurnsMove DEF Kept, AllMeant
    <2>2. s = r
      BY <2>1 DEF Moves
    <2> QED BY <2>1, <2>2 DEF Moves, Running
  <1>4. ASSUME NEW s \in Requests, Ends(s) PROVE Live(request[r].grant)
    <2>1. s = r
      BY <1>0, <1>4 DEF Ends, Answer, Withheld, Approve
    <2>2. Answer(r)
      BY <1>0, <1>4, <2>1 DEF Ends, Withheld, Approve, Idle
    <2> QED BY <2>2 DEF Answer
  <1>5. ASSUME \/ BeginLogin \/ LoginExpires \/ Callback \/ CodeExchanged
               \/ Disconnect \/ Close \/ KeepaliveTick
               \/ \E g \in Grants : Ask(g) \/ Revoke(g)
        PROVE  FALSE
    BY <1>0, <1>5, OutsideSteps DEF Kept, Outside
  <1>6. CASE \/ LoginStarts \/ LoginEstablishes \/ LoginKeepsTokens \/ LoginSucceeds
             \/ LoginRefused \/ LogoutRuns \/ TickRuns \/ UNCHANGED vars
    BY <1>0, <1>6 DEF LoginStarts, LoginEstablishes, LoginKeepsTokens, LoginSucceeds,
                      LoginRefused, LogoutRuns, TickRuns, vars
  <1> QED BY <1>1, <1>2, <1>3, <1>4, <1>5, <1>6 DEF Next, LoginTurn

\* What a client gets was read under the pinned guardian's session, about the
\* child it asked for and its approval names, and that approval is alive at
\* that moment (rest.ts; runtime.ts, focused).
THEOREM ClientsGetWhatWasPermitted == Spec => OnlyWhatWasPermitted
  <1> DEFINE P(r) ==
         request[r].at = "verify" /\ request'[r].at = "answered" /\ request[r].kind \in Counted =>
           /\ Live(request[r].grant)
           /\ request[r].data \subseteq
                {pin} \X (grant[request[r].grant].children \cap
                          (IF request[r].kind = "list" THEN Children ELSE {request[r].child}))
  <1>1. ASSUME Kept, [Next]_vars, NEW r \in Requests PROVE P(r)
    <2> SUFFICES ASSUME request[r].at = "verify", request'[r].at = "answered",
                        request[r].kind \in Counted
                 PROVE  P(r)
      OBVIOUS
    <2> DEFINE some == IF request[r].kind = "list" THEN Children ELSE {request[r].child}
    <2>1. Live(request[r].grant)
      BY <1>1, OnlyAnswerAnswers
    <2>2. Meant(request[r]) /\ request[r].kind # "approve"
      BY <1>1 DEF Kept, AllMeant, Counted
    <2>3. request[r].allowed = grant[request[r].grant].children
      BY <2>2 DEF Meant
    <2>4. /\ request[r].data \subseteq Guardians \X (request[r].allowed \cap some)
          /\ request[r].data # {} => request[r].data \subseteq {pin} \X Family[pin]
      BY <2>2 DEF Meant
    <2> HIDE DEF some
    <2>5. request[r].data \subseteq {pin} \X (grant[request[r].grant].children \cap some)
      BY <2>3, <2>4
    <2> QED BY <2>1, <2>5 DEF some
  <1>2. Kept /\ [Next]_vars => [\A r \in Requests : P(r)]_vars
    BY <1>1
  <1> QED BY <1>2, KeptAlways, PTL DEF Spec, OnlyWhatWasPermitted
==============================================================================
