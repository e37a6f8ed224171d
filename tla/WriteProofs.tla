---------------------------- MODULE WriteProofs ----------------------------
(***************************************************************************)
(* What a write goes through, step by step, for every value of the bounds: *)
(* the report of absence (AbsenceReport), the confirmation a host must     *)
(* hold (Confirmations) and the request with its redirects (PortalFetch).  *)
(* The three have no variable in common; the last two are taken by name.   *)
(***************************************************************************)
EXTENDS AbsenceReport, Sequences, FiniteSetTheorems, TLAPS

CONSTANTS Callers, Intents, MaxHeld, Ttl, MaxTime, MaxPreviews
VARIABLES now, records, shown, sends

Confirm == INSTANCE Confirmations

CONSTANTS Portal, Elsewhere, MaxRedirects
VARIABLES asked, requests, reply

Fetch == INSTANCE PortalFetch WITH answer <- reply

-----------------------------------------------------------------------------
(* A report of absence.                                                      *)

\* A family is finite, and nobody is called None.
Family == IsFiniteSet(Children) /\ None \notin Children /\ None \notin Answers

\* Who may be reported, and a call under way: what it names, and, from the
\* choice on, that everything it says fits one child.
Meant ==
  /\ guardians \subseteq Children
  /\ pc # "idle" => allowWrites
  /\ pc \in {"focus", "send"} =>
       /\ call.args.confirm
       /\ {c \in guardians : Fits(c, call.args)} = {call.child}
  /\ pc = "send" => focus = call.child

\* The portal knows of no call that was not yet sent.
NotAhead ==
  /\ calls \in Nat
  /\ \A r \in recorded : r.call \in Nat /\ r.call <= calls
  /\ pc # "idle" => \A r \in recorded : r.call # calls

Honest == Meant /\ NotAhead /\ OutcomeTold

\* Nobody is named: the only child, or a question.
LEMMA Unnamed ==
    ASSUME NEW args, args.name = None, args.id = None
    PROVE  pickChild(args) =
             IF Cardinality(guardians) = 1
               THEN Chosen(CHOOSE c \in guardians : TRUE)
               ELSE NoChild("absence_child_required")
  BY DEF pickChild

\* The child that is picked is the only one that everything said fits.
LEMMA PickedFits ==
    ASSUME Family, guardians \subseteq Children, NEW args,
           pickChild(args).child # None
    PROVE  {c \in guardians : Fits(c, args)} = {pickChild(args).child}
  <1> USE DEF Fits, Named, Chosen, NoChild
  <1>1. CASE args.name # None
    <2>1. \E c \in guardians : Named(args) = {c} /\ args.id \in {None, c}
      BY <1>1 DEF pickChild
    <2>2. PICK c \in guardians : Named(args) = {c} /\ args.id \in {None, c}
      BY <2>1
    <2>3. \A d \in guardians : Named(args) = {d} => d = c
      BY <2>2
    <2>4. (CHOOSE d \in guardians : Named(args) = {d}) = c
      BY <2>2, <2>3
    <2>5. pickChild(args).child = c
      BY <1>1, <2>1, <2>4 DEF pickChild
    <2>6. {d \in guardians : Fits(d, args)} = {c}
      BY <1>1, <2>2
    <2> QED BY <2>5, <2>6
  <1>2. CASE args.name = None /\ args.id # None
    <2>1. args.id \in guardians /\ pickChild(args).child = args.id
      BY <1>2 DEF pickChild
    <2> QED BY <1>2, <2>1
  <1>3. CASE args.name = None /\ args.id = None
    <2>1. Cardinality(guardians) = 1
      <3>1. Cardinality(guardians) # 1 =>
              pickChild(args) = NoChild("absence_child_required")
        BY <1>3, Unnamed
      <3> QED BY <3>1
    <2>2. IsFiniteSet(guardians)
      BY FS_Subset DEF Family
    <2>3. PICK c : guardians = {c}
      BY <2>1, <2>2, FS_Singleton
    <2>4. pickChild(args).child = c
      BY <1>3, <2>1, <2>3 DEF pickChild
    <2> QED BY <1>3, <2>3, <2>4
  <1> QED BY <1>1, <1>2, <1>3

\* No error of the choice says that something was reported.
LEMMA PickingTellsNothing ==
    ASSUME NEW args, pickChild(args).child = None, Family, guardians \subseteq Children
    PROVE  pickChild(args).error # "reported"
  <1> USE DEF Chosen, NoChild, pickChild
  <1>1. CASE args.name # None
    <2>1. CASE \E c \in guardians : Named(args) = {c} /\ args.id \in {None, c}
      <3>1. (CHOOSE c \in guardians : Named(args) = {c}) \in guardians
        BY <2>1
      <3> QED BY <1>1, <2>1, <3>1 DEF Family
    <2> QED BY <1>1, <2>1
  <1>2. CASE args.name = None /\ args.id # None
    BY <1>2
  <1>3. CASE args.name = None /\ args.id = None
    <2>1. CASE Cardinality(guardians) = 1
      <3>1. PICK c : guardians = {c}
        BY <2>1, FS_Subset, FS_Singleton DEF Family
      <3> QED BY <1>3, <2>1, <3>1 DEF Family
    <2>2. CASE Cardinality(guardians) # 1
      <3>1. pickChild(args) = NoChild("absence_child_required")
        BY <1>3, <2>2, Unnamed
      <3> QED BY <3>1
    <2> QED BY <2>1, <2>2
  <1> QED BY <1>1, <1>2, <1>3

LEMMA HonestAtFirst == ASSUME Family, Init PROVE Honest
  <1>1. answer # "reported"
    BY DEF Init, Family, Answers
  <1> QED BY <1>1 DEF Init, Honest, Meant, NotAhead, OutcomeTold

LEMMA HonestIsKept == ASSUME Family, Honest, [Next]_vars PROVE Honest'
  <1> USE DEF given
  <1>1. ASSUME NEW args \in Args, Called(args) PROVE Honest'
    BY <1>1 DEF Called, Tell, Honest, Meant, NotAhead, OutcomeTold
  <1>2. CASE Session
    <2> DEFINE picked == pickChild(call.args)
    <2>0. /\ pc = "session"
             /\ UNCHANGED <<guardians, firstName, allowWrites, focus, calls, recorded>>
          /\ allowWrites /\ guardians \subseteq Children
      BY <1>2 DEF Session, Honest, Meant
    <2>1. ASSUME NEW what, Tell(what), what # "reported" PROVE Honest'
      BY <2>0, <2>1 DEF Tell, Honest, Meant, NotAhead, OutcomeTold
    <2>2. ASSUME picked.child # None, call.args.confirm, pc' = "focus",
                 call' = [call EXCEPT !.child = picked.child], answer' = answer
          PROVE  Honest'
      <3>1. {c \in guardians : Fits(c, call.args)} = {picked.child}
        BY <2>0, <2>2, PickedFits
      <3> QED BY <2>0, <2>2, <3>1 DEF Honest, Meant, NotAhead, OutcomeTold, Fits
    <2>3. picked.child = None => picked.error # "reported"
      BY <2>0, PickingTellsNothing
    <2> HIDE DEF picked
    <2> QED BY <1>2, <2>1, <2>2, <2>3 DEF Session, picked
  <1>3. CASE withChild
    BY <1>3 DEF withChild, Tell, Honest, Meant, NotAhead, OutcomeTold, Fits
  <1>4. CASE Send
    <2>1. PICK how \in {"ok"} \cup Faults, registers \in BOOLEAN :
       /\ registers => MayRegister(how)
       /\ MustRegister(how) => registers
       /\ recorded' = IF registers
                        THEN recorded \cup {[child |-> call.child, window |-> call.window,
                                             call |-> calls]}
                        ELSE recorded
       /\ Tell(writeFailure(how))
      BY <1>4 DEF Send
    <2>2. pc = "send" /\ UNCHANGED <<guardians, allowWrites, focus, calls>>
      BY <1>4 DEF Send
    <2>3. /\ answer' = "reported" => how = "ok"
          /\ how \in {"ok", "fails", "pushback"} =>
               answer' \in {"reported", "write_outcome_unknown"}
          /\ pc' = "idle"
      BY <2>1 DEF Tell, writeFailure
    <2>4. Meant'
      BY <2>2, <2>3 DEF Honest, Meant
    <2>5. NotAhead'
      BY <2>1, <2>2, <2>3 DEF Honest, NotAhead
    <2>6. OutcomeTold'
      <3>1. CASE registers
        <4> DEFINE r == [child |-> call.child, window |-> call.window, call |-> calls]
        <4>1. r \in recorded' /\ r.call = calls
          BY <2>1, <3>1
        <4>2. answer' \in {"reported", "write_outcome_unknown"}
          BY <2>1, <2>3, <3>1 DEF MayRegister
        <4> HIDE DEF r
        <4> QED BY <2>2, <4>1, <4>2 DEF OutcomeTold
      <3>2. CASE ~registers
        <4>1. how # "ok" /\ recorded' = recorded
          BY <2>1, <3>2 DEF MustRegister
        <4>2. \A r \in recorded : r.call # calls
          BY <2>2 DEF Honest, NotAhead
        <4> QED BY <2>2, <2>3, <4>1, <4>2 DEF OutcomeTold
      <3> QED BY <3>1, <3>2
    <2> QED BY <2>4, <2>5, <2>6 DEF Honest
  <1>5. CASE OtherRead
    BY <1>5 DEF OtherRead, Honest, Meant, NotAhead, OutcomeTold
  <1>6. CASE Midnight
    BY <1>6 DEF Midnight, Honest, Meant, NotAhead, OutcomeTold, Fits
  <1>7. CASE UNCHANGED vars
    BY <1>7 DEF vars, Honest, Meant, NotAhead, OutcomeTold, Fits
  <1> QED BY <1>1, <1>2, <1>3, <1>4, <1>5, <1>6, <1>7 DEF Next

\* A report is sent on the guardian's word only, for the one child that all
\* of the call fits, while that child is in focus (report-absence.ts).
THEOREM ReportsAreMeant == ASSUME Family PROVE Spec => []SentAsMeant
  <1>1. Init => Honest
    BY HonestAtFirst
  <1>2. Honest /\ [Next]_vars => Honest'
    BY HonestIsKept
  <1>3. Honest => SentAsMeant
    BY DEF Honest, Meant, SentAsMeant
  <1> QED BY <1>1, <1>2, <1>3, PTL DEF Spec

\* The guardian is told that a report reached the school just when it did, and
\* of the doubt otherwise (absence-api.ts, report-absence.ts).
THEOREM OutcomesAreTold == ASSUME Family PROVE Spec => []OutcomeTold
  <1>1. Init => Honest
    BY HonestAtFirst
  <1>2. Honest /\ [Next]_vars => Honest'
    BY HonestIsKept
  <1>3. Honest => OutcomeTold
    BY DEF Honest
  <1> QED BY <1>1, <1>2, <1>3, PTL DEF Spec

-----------------------------------------------------------------------------
(* A confirmation.                                                           *)

\* Numbers for the bounds.
Bounded == Ttl \in Nat /\ MaxTime \in Nat /\ MaxPreviews \in Nat

Shape ==
  /\ now \in Nat
  /\ records \subseteq Confirm!Records
  /\ shown \in Seq(Confirm!Records) /\ Len(shown) <= MaxPreviews
  /\ sends \in [Confirm!Id -> Nat]

\* A number is held once, and is one that was shown: to this caller, for this
\* intent, until then.
Listed ==
  /\ \A r, s \in records : r.id = s.id => r = s
  /\ \A r \in records :
       /\ r.id \in 1 .. Len(shown)
       /\ shown[r.id].binding = r.binding /\ shown[r.id].intent = r.intent
       /\ shown[r.id].expires = r.expires

\* What is held unsent was never sent, and neither was what was not yet shown.
Counted ==
  /\ \A id \in Confirm!Id : sends[id] <= 1
  /\ \A r \in records : ~r.sent => sends[r.id] = 0
  /\ \A id \in Confirm!Id : id > Len(shown) => sends[id] = 0

Kept == Shape /\ Listed /\ Counted

LEMMA RoomIsPart == ASSUME NEW rs PROVE Confirm!MakeRoom(Confirm!prune(rs)) \subseteq rs
  BY DEF Confirm!MakeRoom, Confirm!prune

LEMMA KeptAtFirst == ASSUME Bounded, Confirm!Init PROVE Kept
  BY DEF Bounded, Confirm!Init, Kept, Shape, Listed, Counted, Confirm!Id, Confirm!Records

LEMMA PreviewKeeps ==
    ASSUME Bounded, Kept, NEW b \in Callers, NEW i \in Intents, Confirm!preview(b, i)
    PROVE  Kept'
  <1> DEFINE r == [id |-> Len(shown) + 1, binding |-> b, intent |-> i,
                   expires |-> now + Ttl, sent |-> FALSE]
  <1>1. /\ records' = Confirm!MakeRoom(Confirm!prune(records)) \cup {r}
        /\ shown' = Append(shown, r)
        /\ Len(shown) < MaxPreviews
        /\ now' = now /\ sends' = sends
    BY DEF Confirm!preview
  <1>2. r \in Confirm!Records
    BY <1>1 DEF Bounded, Kept, Shape, Confirm!Records, Confirm!Id
  <1>3. /\ r.id = Len(shown) + 1 /\ r.binding = b /\ r.intent = i
        /\ r.expires = now + Ttl /\ r.sent = FALSE
    OBVIOUS
  <1> HIDE DEF r
  <1>4. \A s \in records' : s \in records \/ s = r
    BY <1>1, RoomIsPart
  <1>5. /\ Len(shown) \in Nat /\ Len(shown') = Len(shown) + 1
        /\ shown' \in Seq(Confirm!Records)
        /\ shown'[Len(shown) + 1] = r
        /\ \A k \in 1 .. Len(shown) : shown'[k] = shown[k]
    BY <1>1, <1>2 DEF Kept, Shape
  <1>6. Shape'
    BY <1>1, <1>2, <1>4, <1>5 DEF Bounded, Kept, Shape
  <1>7. Listed'
    BY <1>3, <1>4, <1>5 DEF Kept, Listed
  <1>8. Counted'
    <2>1. \A s \in records' : ~s.sent => sends'[s.id] = 0
      <3> SUFFICES ASSUME NEW s \in records', ~s.sent PROVE sends[s.id] = 0
        BY <1>1
      <3>1. CASE s \in records
        BY <3>1 DEF Kept, Counted
      <3>2. CASE s = r
        BY <3>2, <1>1, <1>3, <1>5 DEF Bounded, Kept, Counted, Confirm!Id
      <3> QED BY <1>4, <3>1, <3>2
    <2> QED BY <1>1, <1>5, <2>1 DEF Kept, Counted, Confirm!Id
  <1> QED BY <1>6, <1>7, <1>8 DEF Kept

\* Taking a record out disturbs nothing.
LEMMA DroppingKeeps ==
    ASSUME Kept, NEW r \in records, records' = records \ {r},
           UNCHANGED <<now, shown, sends>>
    PROVE  Kept'
  BY DEF Kept, Shape, Listed, Counted

LEMMA ClaimKeeps ==
    ASSUME Bounded, Kept, NEW r \in records, records' = Confirm!Claimed(r),
           sends' = [sends EXCEPT ![r.id] = IF r.sent THEN @ ELSE @ + 1],
           UNCHANGED <<now, shown>>
    PROVE  Kept'
  <1> DEFINE c == [r EXCEPT !.sent = TRUE]
  <1>1. /\ c \in Confirm!Records /\ c.id = r.id /\ c.binding = r.binding
        /\ c.intent = r.intent /\ c.expires = r.expires /\ c.sent = TRUE
    BY DEF Kept, Shape, Confirm!Records
  <1>2. \A s \in records' : (s \in records /\ s # r) \/ s = c
    BY DEF Confirm!Claimed
  <1> HIDE DEF c
  <1>3. r.id \in Confirm!Id /\ r.sent \in BOOLEAN
    BY DEF Kept, Shape, Confirm!Records
  <1>4. /\ sends' \in [Confirm!Id -> Nat]
        /\ \A id \in Confirm!Id : id # r.id => sends'[id] = sends[id]
        /\ sends'[r.id] = IF r.sent THEN sends[r.id] ELSE sends[r.id] + 1
    BY <1>3 DEF Kept, Shape
  <1>5. sends'[r.id] <= 1
    BY <1>3, <1>4 DEF Kept, Counted, Shape
  <1>6. Shape'
    BY <1>1, <1>2, <1>4 DEF Kept, Shape
  <1>7. Listed'
    BY <1>1, <1>2 DEF Kept, Listed
  <1>8. Counted'
    <2>1. \A id \in Confirm!Id : sends'[id] <= 1
      BY <1>4, <1>5 DEF Kept, Counted
    <2>2. \A s \in records' : ~s.sent => sends'[s.id] = 0
      <3> SUFFICES ASSUME NEW s \in records', ~s.sent PROVE sends'[s.id] = 0
        OBVIOUS
      <3>1. s \in records /\ s # r
        BY <1>1, <1>2
      <3>2. s.id # r.id /\ s.id \in Confirm!Id
        BY <3>1 DEF Kept, Listed, Shape, Confirm!Records
      <3> QED BY <3>1, <3>2, <1>4 DEF Kept, Counted
    <2>3. \A id \in Confirm!Id : id > Len(shown') => sends'[id] = 0
      <3>1. r.id <= Len(shown)
        BY DEF Kept, Listed
      <3>2. Len(shown) \in Nat
        BY DEF Kept, Shape
      <3> QED BY <3>1, <3>2, <1>3, <1>4 DEF Kept, Counted, Confirm!Id
    <2> QED BY <2>1, <2>2, <2>3 DEF Counted
  <1> QED BY <1>6, <1>7, <1>8 DEF Kept

LEMMA ConfirmKeeps ==
    ASSUME Bounded, Kept, NEW b \in Callers, NEW i \in Intents, NEW id \in Confirm!Id,
           Confirm!confirm(b, i, id)
    PROVE  Kept'
  <1>1. PICK r \in records :
          /\ r.id = id
          /\ \/ records' = records \ {r} /\ sends' = sends
             \/ UNCHANGED <<records, sends>>
             \/ /\ records' = Confirm!Claimed(r)
                /\ sends' = [sends EXCEPT ![id] = IF r.sent THEN @ ELSE @ + 1]
    BY DEF Confirm!confirm
  <1>2. UNCHANGED <<now, shown>>
    BY DEF Confirm!confirm
  <1>3. CASE records' = records \ {r} /\ sends' = sends
    BY <1>2, <1>3, DroppingKeeps
  <1>4. CASE UNCHANGED <<records, sends>>
    BY <1>2, <1>4 DEF Kept, Shape, Listed, Counted
  <1>5. CASE /\ records' = Confirm!Claimed(r)
             /\ sends' = [sends EXCEPT ![id] = IF r.sent THEN @ ELSE @ + 1]
    BY <1>1, <1>2, <1>5, ClaimKeeps
  <1> QED BY <1>1, <1>3, <1>4, <1>5

LEMMA KeptByEveryStep == ASSUME Bounded, Kept, [Confirm!Next]_Confirm!vars PROVE Kept'
  <1>1. ASSUME NEW b \in Callers, NEW i \in Intents, Confirm!preview(b, i) PROVE Kept'
    BY <1>1, PreviewKeeps
  <1>2. ASSUME NEW b \in Callers, NEW i \in Intents, NEW id \in Confirm!Id,
                 Confirm!confirm(b, i, id)
        PROVE  Kept'
    BY <1>2, ConfirmKeeps
  <1>3. CASE Confirm!Tick
    BY <1>3 DEF Confirm!Tick, Kept, Shape, Listed, Counted
  <1>4. CASE UNCHANGED Confirm!vars
    BY <1>4 DEF Confirm!vars, Kept, Shape, Listed, Counted
  <1> QED BY <1>1, <1>2, <1>3, <1>4 DEF Confirm!Next

\* Whatever is pruned, displaced, repeated or asked for with other arguments,
\* a confirmation sends its write at most once (confirmations.ts).
THEOREM SendsAtMostOnce == ASSUME Bounded PROVE Confirm!Spec => []Confirm!SentOnce
  <1>1. Confirm!Init => Kept
    BY KeptAtFirst
  <1>2. Kept /\ [Confirm!Next]_Confirm!vars => Kept'
    BY KeptByEveryStep
  <1>3. Kept => Confirm!SentOnce
    BY DEF Kept, Counted, Confirm!SentOnce
  <1> QED BY <1>1, <1>2, <1>3, PTL DEF Confirm!Spec

LEMMA ShownIsSent ==
    ASSUME Kept, NEW b \in Callers, NEW i \in Intents, NEW id \in Confirm!Id,
           Confirm!confirm(b, i, id), sends'[id] > sends[id]
    PROVE  shown[id].binding = b /\ shown[id].intent = i /\ now < shown[id].expires
  <1>1. sends[id] \in Nat
    BY DEF Kept, Shape
  <1>2. PICK r \in records :
          /\ r.id = id
          /\ \/ sends' = sends
             \/ r.expires > now /\ r.binding = b /\ r.intent = i
    BY DEF Confirm!confirm
  <1>3. sends' # sends
    BY <1>1
  <1>4. /\ shown[id].binding = r.binding /\ shown[id].intent = r.intent
        /\ shown[id].expires = r.expires
    BY <1>2 DEF Kept, Listed
  <1>5. now \in Nat /\ r.expires \in Nat
    BY DEF Kept, Shape, Confirm!Records
  <1> QED BY <1>2, <1>3, <1>4, <1>5

\* A write leaves only for the caller it was shown to, for exactly what was
\* shown, in time (confirmations.ts).
THEOREM SendsAsShown ==
    ASSUME Bounded PROVE Confirm!Spec => [][Confirm!SentAsShown]_Confirm!vars
  <1>1. Confirm!Init => Kept
    BY KeptAtFirst
  <1>2. Kept /\ [Confirm!Next]_Confirm!vars => Kept'
    BY KeptByEveryStep
  <1>3. Kept /\ [Confirm!Next]_Confirm!vars => [Confirm!SentAsShown]_Confirm!vars
    BY ShownIsSent DEF Confirm!SentAsShown
  <1> QED BY <1>1, <1>2, <1>3, PTL DEF Confirm!Spec

-----------------------------------------------------------------------------
(* A request and its redirects.                                              *)

Hops == [origin: {Portal}, method: {"GET", "PUT", "POST"}, body: BOOLEAN]

\* A GET never has a body, and what follows one is one.
Chain ==
    /\ requests \in Seq(Hops)
    /\ Len(requests) >= 1
    /\ \A i \in 1 .. Len(requests) :
         requests[i].method = "GET" => ~requests[i].body
    /\ \A i, j \in 1 .. Len(requests) :
         i <= j /\ requests[i].method = "GET" => requests[j].method = "GET"
    /\ asked.write => Len(requests) = 1

LEMMA ChainAtFirst == ASSUME Fetch!Init PROVE Chain
  <1> DEFINE first == Fetch!Request(asked.method)
  <1>1. /\ first \in Hops /\ (first.method = "GET" => ~first.body)
    BY DEF Fetch!Init, Fetch!Calls, Fetch!Request, Hops
  <1>2. requests = <<first>>
    BY DEF Fetch!Init
  <1> HIDE DEF first
  <1>3. /\ requests \in Seq(Hops) /\ Len(requests) = 1
        /\ \A i \in 1 .. Len(requests) : i = 1 /\ requests[i] = first
    BY <1>1, <1>2
  <1> QED BY <1>1, <1>3 DEF Chain

\* nextHop() at the portal: a hop there, and a GET after a GET.
LEMMA HopKeeps ==
    ASSUME NEW last \in Hops, NEW status \in Fetch!Statuses,
           last.method = "GET" => ~last.body
    PROVE  LET hop == Fetch!NextHop(last, status, Portal)
           IN  /\ hop \in Hops
               /\ hop.method = "GET" => ~hop.body
               /\ last.method = "GET" => hop.method = "GET"
  BY DEF Fetch!NextHop, Hops

LEMMA FollowingKeeps ==
    ASSUME Chain, NEW status \in Fetch!Statuses, Fetch!Follows(status, Portal),
           requests' = Append(requests, Fetch!NextHop(requests[Len(requests)], status, Portal)),
           UNCHANGED asked
    PROVE  Chain'
  <1> DEFINE n == Len(requests)
             last == requests[n]
             hop == Fetch!NextHop(last, status, Portal)
  <1>1. n \in Nat /\ n >= 1 /\ last \in Hops /\ (last.method = "GET" => ~last.body)
    BY DEF Chain
  <1>2. /\ hop \in Hops
        /\ hop.method = "GET" => ~hop.body
        /\ last.method = "GET" => hop.method = "GET"
    BY <1>1, HopKeeps
  <1> HIDE DEF hop
  <1>3. requests' = Append(requests, hop)
    BY DEF hop
  <1>4. /\ requests' \in Seq(Hops) /\ Len(requests') = n + 1
        /\ requests'[n + 1] = hop
        /\ \A i \in 1 .. n : requests'[i] = requests[i]
    BY <1>1, <1>2, <1>3 DEF Chain
  <1>5. \A i \in 1 .. n : requests[i].method = "GET" => hop.method = "GET"
    BY <1>1, <1>2 DEF Chain
  <1>6. ~asked.write
    BY DEF Fetch!Follows
  <1>7. \A i \in 1 .. n + 1 : requests'[i].method = "GET" => ~requests'[i].body
    BY <1>1, <1>2, <1>4 DEF Chain
  <1>8. ASSUME NEW i \in 1 .. n + 1, NEW j \in 1 .. n + 1,
               i <= j, requests'[i].method = "GET"
        PROVE  requests'[j].method = "GET"
    <2>1. CASE j \in 1 .. n
      BY <2>1, <1>1, <1>4, <1>8 DEF Chain
    <2>2. CASE j = n + 1 /\ i \in 1 .. n
      BY <2>2, <1>4, <1>5, <1>8
    <2>3. CASE j = n + 1 /\ i = n + 1
      BY <2>3, <1>8
    <2> QED BY <1>1, <1>8, <2>1, <2>2, <2>3
  <1> QED BY <1>1, <1>4, <1>6, <1>7, <1>8 DEF Chain

LEMMA ChainIsKept == ASSUME Chain, [Fetch!Next]_Fetch!vars PROVE Chain'
  <1>1. CASE Fetch!Answered
    <2>1. PICK status \in Fetch!Statuses, origin \in {Portal, Elsewhere} :
            IF Fetch!Follows(status, origin)
              THEN requests' = Append(requests,
                     Fetch!NextHop(requests[Len(requests)], status, origin))
              ELSE UNCHANGED requests
      BY <1>1 DEF Fetch!Answered
    <2>2. UNCHANGED asked
      BY <1>1 DEF Fetch!Answered
    <2>3. CASE Fetch!Follows(status, origin)
      <3>1. origin = Portal
        BY <2>3 DEF Fetch!Follows
      <3> QED BY <2>1, <2>2, <2>3, <3>1, FollowingKeeps
    <2>4. CASE ~Fetch!Follows(status, origin)
      BY <2>1, <2>2, <2>4 DEF Chain
    <2> QED BY <2>3, <2>4
  <1>2. CASE UNCHANGED Fetch!vars
    BY <1>2 DEF Fetch!vars, Chain
  <1> QED BY <1>1, <1>2 DEF Fetch!Next

\* The session's cookies and token leave for the portal only (net.ts).
THEOREM NeverLeavesThePortal == Fetch!Spec => []Fetch!StaysAtThePortal
  <1>1. Fetch!Init => Chain
    BY ChainAtFirst
  <1>2. Chain /\ [Fetch!Next]_Fetch!vars => Chain'
    BY ChainIsKept
  <1>3. Chain => Fetch!StaysAtThePortal
    <2> SUFFICES ASSUME Chain, NEW i \in DOMAIN requests PROVE requests[i].origin = Portal
      BY DEF Fetch!StaysAtThePortal
    <2>1. requests[i] \in Hops
      BY DEF Chain
    <2> QED BY <2>1 DEF Hops
  <1> QED BY <1>1, <1>2, <1>3, PTL DEF Fetch!Spec

\* A request that changes data is sent once (net.ts, transport.ts).
THEOREM WritesLeaveOnce == Fetch!Spec => []Fetch!WritesAreSentOnce
  <1>1. Fetch!Init => Chain
    BY ChainAtFirst
  <1>2. Chain /\ [Fetch!Next]_Fetch!vars => Chain'
    BY ChainIsKept
  <1>3. Chain => Fetch!WritesAreSentOnce
    BY DEF Chain, Fetch!WritesAreSentOnce
  <1> QED BY <1>1, <1>2, <1>3, PTL DEF Fetch!Spec

\* After a "see other" nothing is posted again (net.ts, nextHop).
THEOREM ReadingStaysReading == Fetch!Spec => []Fetch!ReadsAfterSeeOther
  <1>1. Fetch!Init => Chain
    BY ChainAtFirst
  <1>2. Chain /\ [Fetch!Next]_Fetch!vars => Chain'
    BY ChainIsKept
  <1>3. Chain => Fetch!ReadsAfterSeeOther
    <2>1. ASSUME Chain PROVE DOMAIN requests = 1 .. Len(requests)
      BY <2>1 DEF Chain
    <2> QED BY <2>1 DEF Chain, Fetch!ReadsAfterSeeOther
  <1> QED BY <1>1, <1>2, <1>3, PTL DEF Fetch!Spec
=============================================================================
