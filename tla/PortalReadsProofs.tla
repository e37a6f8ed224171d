------------------------- MODULE PortalReadsProofs -------------------------
(***************************************************************************)
(* Reads through the cache and recovery are about the right child, and a   *)
(* report leaves once: for any number of calls, children, entries and      *)
(* session objects, on either host.                                        *)
(*                                                                         *)
(* The inductive invariant, Sound, ties three things to one child: the     *)
(* cookies of the live session object, the child in focus and what a       *)
(* restore under way will bind.  The reads that may still be kept need     *)
(* just that (Keepable), and in a turn of the queue, where everybody else  *)
(* rests, so does the call from its focus to its answer (Aimed).           *)
(*                                                                         *)
(* What SchoolSoft only offers as pages is read in a browser               *)
(* (BrowserSession, taken by name), for any number of calls and browsers.  *)
(***************************************************************************)
EXTENDS PortalReads, SequenceTheorems, TLAPS

CONSTANTS Readers, PageKinds, MaxBrowsers, Overlapping, BrowserFaults, NoKind
VARIABLES planned, visit, where, mine, result, reports, synced, had, menu, browser, open,
          abandoned, launched, webSession, asked

Browser == INSTANCE BrowserSession WITH
    Calls <- Readers, Kinds <- PageKinds, Faults <- BrowserFaults, None <- NoKind,
    kind <- planned, at <- visit, pc <- where, left <- abandoned, sent <- asked

\* What is asked of the constants.
Fit ==
    /\ NoChild \notin Children /\ NoCaller \notin Callers
    /\ MaxObjects \in Nat \ {0}
    /\ Hosts \subseteq {"process", "turn"}

Entries == [child: Children, kind: Cacheable, about: SUBSET MaybeChild, over: BOOLEAN,
            own: BOOLEAN]
Calls ==
    [at: Phases, kind: Kinds \cup {"none"}, child: MaybeChild, aim: MaybeChild,
     fresh: BOOLEAN, obj: 0 .. MaxObjects, held: MaybeChild, scope: MaybeChild,
     left: 0 .. 2, got: SUBSET MaybeChild, tried: BOOLEAN, sent: Nat]

\* The variables, each with its type; what is active; the objects in order.
Shape ==
    /\ host \in Hosts
    /\ portal \in 1 .. MaxObjects /\ object \in 1 .. MaxObjects /\ portal <= object
    /\ cookies \in [1 .. MaxObjects -> MaybeChild]
    /\ focus \in MaybeChild /\ saved \in MaybeChild /\ web \in MaybeChild
    /\ established \in BOOLEAN
    /\ lock \in Callers \cup {NoCaller}
    /\ epoch \subseteq Callers
    /\ cache \subseteq Entries
    /\ call \in [Callers -> Calls]

\* In a turn of the connector's queue nobody else has a call under way.
Lone == host = "turn" => \A c, d \in Callers : Rests(c) \/ Rests(d) \/ c = d

\* As long as the portal reads with the live session, an established session
\* is the saved one, and its cookies are bound to the child in focus.
Bound ==
    PortalKept /\ established =>
        /\ focus # NoChild /\ saved = focus /\ cookies[object] = focus
        /\ \A d \in Callers : call[d].at # "restoring"

\* Which phases know what: who restores holds the lock, what goes out goes out
\* with the live object, and a call without a claim is under no child.
Placed(c) ==
    LET q == call[c] IN
    /\ Rests(c) => q.scope = NoChild
    /\ q.scope # NoChild => q.kind \in Cacheable
    /\ q.at = "restoring" => lock = c /\ q.held # NoChild
    /\ q.at \in {"focus", "exchange"} => q.aim # NoChild
    /\ q.at = "sent" => q.obj \in 1 .. MaxObjects
    /\ PortalKept /\ q.at \in {"focus", "exchange", "restoring", "sent"} => q.obj = object

\* A report has not been sent before its first attempt, and who recovers has
\* had one.
NotTwice(c) ==
    LET q == call[c] IN
    /\ q.sent <= 1
    /\ q.at \in {"idle", "ensure", "focus", "exchange", "read"} => q.sent = 0 /\ ~q.tried
    /\ q.at = "restoring" /\ ~q.tried => q.sent = 0
    /\ q.at = "again" => q.tried

\* A read that may still be kept under a child: nothing it can meet is bound
\* to another one.
Keepable(c) ==
    LET q == call[c] IN
    PortalKept /\ c \in epoch /\ q.scope # NoChild =>
        /\ saved = q.scope /\ focus = q.scope /\ cookies[object] = q.scope
        /\ q.got \subseteq {q.scope}
        /\ q.at = "sent" => q.held = q.scope
        /\ \A d \in Callers : call[d].at = "restoring" => call[d].held = q.scope

\* In a turn: which child the call is about, from the focus to the answer.
Aimed(c) ==
    LET q == call[c] IN
    host = "turn" =>
        /\ q.at \in {"read", "sent", "header", "put", "visit"} =>
              established /\ q.aim = focus
        /\ q.at = "again" \/ (q.at = "restoring" /\ q.tried) =>
              q.aim = saved /\ q.aim = focus /\ q.aim # NoChild
        /\ q.at = "restoring" => q.held = saved
        /\ q.at = "sent" => q.held = q.aim /\ q.got \subseteq {q.aim}
        /\ q.at \in {"header", "put"} => q.held = q.aim
        /\ q.at = "visit" => web = q.aim
        /\ q.at = "answered" => q.got = {q.aim}

Sound ==
    /\ Shape
    /\ Lone
    /\ Bound
    /\ CacheTellsTruth
    /\ \A c \in Callers : Placed(c) /\ NotTwice(c) /\ Keepable(c) /\ Aimed(c)

\* A call that comes to rest claims nothing, unless it answers.
LEMMA IdleIs ==
    ASSUME Fit
    PROVE  /\ Idle \in Calls /\ Idle.at = "idle" /\ Idle.scope = NoChild /\ Idle.sent = 0
           /\ Idle.tried = FALSE /\ Idle.got = {} /\ Idle.obj = 0
  BY DEF Fit, Idle, Calls, Phases, MaybeChild

LEMMA Objects ==
    ASSUME Fit
    PROVE  0 \in 0 .. MaxObjects /\ 1 .. MaxObjects \subseteq 0 .. MaxObjects
  BY DEF Fit

LEMMA SoundAtFirst == ASSUME Fit, Init PROVE Sound
  <1>0. /\ host \in Hosts /\ host \in {"process", "turn"}
        /\ portal = 1 /\ object = 1 /\ established = FALSE
        /\ focus = NoChild /\ lock = NoCaller /\ cache = {} /\ epoch = {}
        /\ \A c \in Callers : call[c] = Idle
    BY DEF Fit, Init
  <1>1. Shape
    <2>1. 1 \in 1 .. MaxObjects
      BY DEF Fit
    <2>2. call \in [Callers -> Calls]
      BY IdleIs DEF Init
    <2>3. cookies \in [1 .. MaxObjects -> MaybeChild] /\ saved \in MaybeChild
          /\ web \in MaybeChild
      BY DEF Init, MaybeChild
    <2>4. focus \in MaybeChild
      BY <1>0 DEF MaybeChild
    <2>5. portal <= object
      BY <1>0
    <2>6. established \in BOOLEAN /\ lock \in Callers \cup {NoCaller}
      BY <1>0, Zenon
    <2>7. epoch \subseteq Callers /\ cache \subseteq Entries
      BY <1>0
    <2> QED BY <1>0, <2>1, <2>2, <2>3, <2>4, <2>5, <2>6, <2>7 DEF Shape
  <1>2. Lone /\ Bound /\ CacheTellsTruth
    BY <1>0, IdleIs DEF Lone, Rests, Bound, CacheTellsTruth
  <1>3. ASSUME NEW c \in Callers PROVE Placed(c) /\ NotTwice(c) /\ Keepable(c) /\ Aimed(c)
    <2>1. /\ call[c].at = "idle" /\ call[c].scope = NoChild
          /\ call[c].sent = 0 /\ call[c].tried = FALSE
      BY <1>0, IdleIs
    <2>2. Placed(c)
      BY <2>1 DEF Placed
    <2>3. NotTwice(c)
      BY <2>1 DEF NotTwice
    <2>4. Keepable(c)
      BY <2>1 DEF Keepable
    <2>5. Aimed(c)
      BY <2>1 DEF Aimed
    <2> QED BY <2>2, <2>3, <2>4, <2>5
  <1> QED BY <1>1, <1>2, <1>3 DEF Sound

-----------------------------------------------------------------------------
(* A step of one call that leaves the session, the lock and the cache.       *)

\* The call of c becomes q, those of the others stay.
Becomes(c, q) ==
    /\ call' \in [Callers -> Calls]
    /\ call'[c] = q
    /\ \A d \in Callers : d # c => call'[d] = call[d]

LEMMA BecomesIs ==
    ASSUME Shape, NEW c \in Callers, NEW q \in Calls, call' = [call EXCEPT ![c] = q]
    PROVE  Becomes(c, q)
  BY DEF Shape, Becomes

\* In a turn, the others rest while a call is under way.
LEMMA OthersRest ==
    ASSUME Sound, NEW c \in Callers, ~Rests(c), host = "turn",
           NEW d \in Callers, d # c
    PROVE  Rests(d)
  BY DEF Sound, Lone

\* A call at rest stays aimed, whatever happens to the session.
LEMMA AimedAtRest ==
    ASSUME NEW d \in Callers, Aimed(d), Rests(d), call'[d] = call[d], UNCHANGED host
    PROVE  Aimed(d)'
  BY DEF Aimed, Rests

\* The calls of the others stay, with the cookies and the child in focus; the
\* session of the web login and the claim to have a session may go on while a
\* call is under way.
Alone(c) ==
    /\ UNCHANGED <<host, portal, object, cookies, focus, saved, lock>>
    /\ web' \in MaybeChild /\ (established' = established \/ established' = FALSE)
    /\ Rests(c) => UNCHANGED <<web, established>>
    /\ cache' \subseteq cache \/ (cache' \subseteq Entries /\ CacheTellsTruth')
    /\ epoch' \subseteq epoch \cup {c}
    /\ Becomes(c, call'[c])
    /\ call'[c].at = "restoring" => call[c].at = "restoring" /\ call'[c].held = call[c].held
    /\ host = "turn" => (~Rests(c) \/ \A d \in Callers : Rests(d))

LEMMA AloneKeeps ==
    ASSUME Fit, Sound, NEW c \in Callers, Alone(c),
           Placed(c)', NotTwice(c)', Keepable(c)', Aimed(c)'
    PROVE  Sound'
  <1>0. /\ UNCHANGED <<host, portal, object, cookies, focus, saved, lock>>
        /\ established' = established \/ established' = FALSE
    BY DEF Alone
  <1>1. Shape'
    <2>1. established' \in BOOLEAN
      BY <1>0 DEF Sound, Shape
    <2>2. cache' \subseteq Entries
      BY DEF Alone, Sound, Shape
    <2>3. epoch' \subseteq Callers
      BY DEF Alone, Sound, Shape
    <2> QED BY <1>0, <2>1, <2>2, <2>3 DEF Alone, Becomes, Sound, Shape
  <1>2. Lone'
    <2>1. CASE host = "turn"
      <3>1. \A d \in Callers : d # c => Rests(d)
        BY <2>1, OthersRest DEF Alone
      <3>2. \A d \in Callers : d # c => Rests(d)'
        BY <3>1 DEF Alone, Becomes, Rests
      <3> QED BY <3>2 DEF Lone
    <2>2. CASE host # "turn"
      BY <1>0, <2>2 DEF Lone
    <2> QED BY <2>1, <2>2
  <1>3. Bound' /\ CacheTellsTruth'
    <2>1. Bound'
      BY <1>0 DEF Sound, Bound, PortalKept, Alone, Becomes
    <2>2. CacheTellsTruth'
      BY <1>0 DEF Sound, CacheTellsTruth, PortalKept, Alone
    <2> QED BY <2>1, <2>2
  <1>4. ASSUME NEW d \in Callers, d # c
        PROVE  Placed(d)' /\ NotTwice(d)' /\ Keepable(d)' /\ Aimed(d)'
    <2>1. call'[d] = call[d] /\ (d \in epoch' => d \in epoch)
      BY <1>4 DEF Alone, Becomes
    <2>2. Placed(d)' /\ NotTwice(d)'
      BY <1>0, <2>1 DEF Sound, Placed, NotTwice, Rests, PortalKept
    <2>3. Keepable(d)'
      BY <1>0, <2>1 DEF Sound, Keepable, PortalKept, Alone, Becomes
    <2>4. CASE host = "turn" /\ ~Rests(c)
      <3>1. Rests(d)
        BY <1>4, <2>4, OthersRest
      <3> QED BY <1>0, <2>1, <2>2, <2>3, <3>1, AimedAtRest DEF Sound
    <2>5. CASE host # "turn" \/ Rests(c)
      <3>1. Aimed(d)'
        BY <1>0, <2>1, <2>5 DEF Sound, Aimed, Alone
      <3> QED BY <2>2, <2>3, <3>1
    <2> QED BY <2>4, <2>5
  <1> QED BY <1>1, <1>2, <1>3, <1>4 DEF Sound

\* An operation that throws.
LEMMA FailingKeeps ==
    ASSUME Fit, Sound, NEW c \in Callers, ~Rests(c), Fails(c),
           UNCHANGED <<host, portal, session, lock>>, cache' \subseteq cache,
           epoch' \subseteq epoch \cup {c}
    PROVE  Sound'
  <1>1. Becomes(c, Idle)
    BY IdleIs, BecomesIs DEF Fails, Sound
  <1>2. /\ call'[c].at = "idle" /\ call'[c].scope = NoChild
        /\ call'[c].sent = 0 /\ call'[c].tried = FALSE
    BY <1>1, IdleIs DEF Becomes
  <1>3. Alone(c)
    BY <1>1, <1>2 DEF Alone, Becomes, session, Sound, Shape
  <1>4. Placed(c)' /\ NotTwice(c)' /\ Keepable(c)' /\ Aimed(c)'
    BY <1>2 DEF Placed, NotTwice, Keepable, Aimed
  <1> QED BY <1>3, <1>4, AloneKeeps

LEMMA StartKeeps == ASSUME Fit, Sound, NEW c \in Callers, Start(c) PROVE Sound'
  <1>1. PICK kind \in Kinds, child \in MaybeChild, fresh \in BOOLEAN :
          call' = [call EXCEPT ![c] =
              [Idle EXCEPT !.at = "ensure", !.kind = kind, !.child = child,
                           !.fresh = fresh]]
    BY DEF Start
  <1> DEFINE q == [Idle EXCEPT !.at = "ensure", !.kind = kind, !.child = child,
                               !.fresh = fresh]
  <1>2. q \in Calls /\ q.at = "ensure" /\ q.sent = 0 /\ q.tried = FALSE /\ q.scope = NoChild
    BY IdleIs DEF Idle, Calls, Phases
  <1> HIDE DEF q
  <1>3. Becomes(c, q)
    BY <1>1, <1>2, BecomesIs DEF Sound, q
  <1>4. /\ call'[c].at = "ensure" /\ call'[c].sent = 0 /\ call'[c].tried = FALSE
        /\ call'[c].scope = NoChild
    BY <1>2, <1>3 DEF Becomes
  <1>5. Alone(c)
    BY <1>3, <1>4 DEF Start, Alone, Becomes, memory, session, Sound, Shape
  <1>6. Placed(c)' /\ NotTwice(c)' /\ Keepable(c)' /\ Aimed(c)'
    BY <1>4 DEF Placed, NotTwice, Keepable, Aimed, Rests
  <1> QED BY <1>5, <1>6, AloneKeeps

LEMMA EnsuredKeeps == ASSUME Fit, Sound, NEW c \in Callers, Ensured(c) PROVE Sound'
  <1> DEFINE q == IF call[c].child = NoChild
                    THEN [call[c] EXCEPT !.at = "read", !.aim = focus]
                    ELSE [call[c] EXCEPT !.at = "focus", !.aim = call[c].child,
                                         !.child = NoChild, !.obj = object]
  <1>0. call[c] \in Calls /\ focus \in MaybeChild /\ object \in 1 .. MaxObjects
    BY DEF Sound, Shape
  <1>1. q \in Calls
    <2>1. [call[c] EXCEPT !.at = "read", !.aim = focus] \in Calls
      BY <1>0 DEF Calls, Phases
    <2>2. [call[c] EXCEPT !.at = "focus", !.aim = call[c].child,
                          !.child = NoChild, !.obj = object] \in Calls
      BY <1>0, Objects DEF Calls, Phases, MaybeChild
    <2> QED BY <2>1, <2>2
  <1>2. call' = [call EXCEPT ![c] = q]
    BY DEF Ensured
  <1>3. /\ q.sent = call[c].sent /\ q.tried = call[c].tried
        /\ q.scope = call[c].scope /\ q.kind = call[c].kind
        /\ q.got = call[c].got /\ q.at \in {"read", "focus"}
        /\ q.at = "read" => q.aim = focus
        /\ q.at = "focus" => q.aim # NoChild /\ q.obj = object
    BY <1>0 DEF Calls
  <1> HIDE DEF q
  <1>4. Becomes(c, q)
    BY <1>1, <1>2, BecomesIs DEF Sound
  <1>5. call'[c] = q /\ UNCHANGED <<host, portal, session, lock, cache, epoch>>
    BY <1>4 DEF Becomes, Ensured, memory
  <1>6. Alone(c)
    BY <1>3, <1>4, <1>5 DEF Ensured, Alone, Rests, session, Sound, Shape
  <1>7. Placed(c)' /\ NotTwice(c)' /\ Aimed(c)'
    BY <1>3, <1>5 DEF Ensured, Sound, Placed, NotTwice, Aimed, Rests, PortalKept, session
  <1>8. Keepable(c)'
    BY <1>3, <1>4, <1>5 DEF Sound, Keepable, PortalKept, session, Becomes
  <1> QED BY <1>6, <1>7, <1>8, AloneKeeps

LEMMA FocusKeeps == ASSUME Fit, Sound, NEW c \in Callers, Focus(c) PROVE Sound'
  <1>0. call[c] \in Calls /\ call \in [Callers -> Calls]
    BY DEF Sound, Shape
  <1>1. CASE ~established
    BY <1>1, FailingKeeps DEF Focus, memory, Rests
  <1>2. CASE established
    <2> DEFINE q == IF focus = call[c].aim
                      THEN [call[c] EXCEPT !.at = "read", !.obj = 0]
                      ELSE [call[c] EXCEPT !.at = "exchange"]
    <2>1. q \in Calls
      <3>1. [call[c] EXCEPT !.at = "read", !.obj = 0] \in Calls
        BY <1>0, Objects DEF Calls, Phases
      <3>2. [call[c] EXCEPT !.at = "exchange"] \in Calls
        BY <1>0 DEF Calls, Phases
      <3> QED BY <3>1, <3>2
    <2>2. call' = [call EXCEPT ![c] = q]
      BY <1>2 DEF Focus, Goes
    <2>3. /\ q.sent = call[c].sent /\ q.tried = call[c].tried
          /\ q.scope = call[c].scope /\ q.kind = call[c].kind
          /\ q.got = call[c].got /\ q.aim = call[c].aim
          /\ q.at \in {"read", "exchange"}
          /\ q.at = "read" => q.aim = focus
          /\ q.at = "exchange" => q.obj = call[c].obj
      BY <1>0 DEF Calls
    <2> HIDE DEF q
    <2>4. Becomes(c, q)
      BY <2>1, <2>2, BecomesIs DEF Sound
    <2>5. call'[c] = q /\ UNCHANGED <<host, portal, session, lock, cache, epoch>>
      BY <2>4 DEF Becomes, Focus, memory
    <2>6. Alone(c)
      BY <2>3, <2>4, <2>5 DEF Focus, Alone, Rests, session, Sound, Shape
    <2>7. Placed(c)' /\ NotTwice(c)' /\ Aimed(c)'
      BY <1>2, <2>3, <2>5 DEF Focus, Sound, Placed, NotTwice, Aimed, Rests, PortalKept,
         session
    <2>8. Keepable(c)'
      BY <2>3, <2>4, <2>5 DEF Sound, Keepable, PortalKept, session, Becomes
    <2> QED BY <2>6, <2>7, <2>8, AloneKeeps
  <1> QED BY <1>1, <1>2

LEMMA ThrowingKeeps ==
    ASSUME Fit, Sound, NEW c \in Callers, NothingSaved(c) \/ ExchangeFails(c)
           \/ Unavailable(c)
    PROVE  Sound'
  BY FailingKeeps DEF NothingSaved, ExchangeFails, Unavailable, memory, Rests

-----------------------------------------------------------------------------
(* The cache and the requests.                                               *)

\* In a turn, or while the portal reads with the live session, an established
\* session's scope is the child in focus, and its cookies are bound to it.
LEMMA ScopeIsBound ==
    ASSUME Sound, PortalKept, established
    PROVE  /\ Scope = focus /\ focus # NoChild /\ saved = focus /\ cookies[object] = focus
           /\ \A d \in Callers : call[d].at # "restoring"
  BY DEF Sound, Bound, Scope

LEMMA HitKeeps == ASSUME Fit, Sound, NEW c \in Callers, Hit(c) PROVE Sound'
  <1>0. call[c] \in Calls /\ cache \subseteq Entries
    BY DEF Sound, Shape
  <1>1. PICK e \in At(Scope, call[c].kind) :
            call' = [call EXCEPT ![c] =
              [Idle EXCEPT !.at = "answered", !.aim = call[c].aim, !.got = e.about]]
    BY DEF Hit
  <1>2. e \in cache /\ e.child = Scope /\ e.about \in SUBSET MaybeChild
    BY <1>0 DEF At, Key, Entries
  <1> DEFINE q == [Idle EXCEPT !.at = "answered", !.aim = call[c].aim, !.got = e.about]
  <1>3. q \in Calls
    BY <1>0, <1>2, IdleIs DEF Calls, Phases
  <1>4. /\ q.at = "answered" /\ q.aim = call[c].aim /\ q.got = e.about
        /\ q.scope = NoChild /\ q.sent = 0
    BY IdleIs DEF Idle
  <1> HIDE DEF q
  <1>5. Becomes(c, q)
    BY <1>1, <1>3, BecomesIs DEF q, Sound
  <1>6. call'[c] = q /\ UNCHANGED <<host, portal, session, lock, cache, epoch>>
    BY <1>5 DEF Becomes, Hit
  <1>7. Alone(c)
    BY <1>4, <1>5, <1>6 DEF Hit, Alone, Rests, session, Sound, Shape
  <1>8. Placed(c)' /\ NotTwice(c)' /\ Keepable(c)'
    BY <1>4, <1>6 DEF Placed, NotTwice, Keepable
  <1>9. Aimed(c)'
    <2>1. ASSUME host = "turn" PROVE e.about = {call[c].aim}
      <3>1. established /\ call[c].aim = focus /\ PortalKept
        BY <2>1 DEF Hit, Sound, Aimed, PortalKept
      <3>2. Scope = focus
        BY <3>1, ScopeIsBound
      <3> QED BY <1>2, <2>1, <3>1, <3>2 DEF Sound, CacheTellsTruth
    <2> QED BY <1>4, <1>6, <2>1 DEF Aimed, session
  <1> QED BY <1>7, <1>8, <1>9, AloneKeeps

\* An attempt as recovery makes it: through the portal of the moment, about
\* the child that was asked about.
LEMMA AttemptsKeep ==
    ASSUME Fit, Sound, NEW c \in Callers, ~Rests(c),
           NEW attempt \in Calls, attempt.obj = PortalObject,
           attempt.kind = "report" => attempt.sent = 0, attempt.sent <= 1,
           attempt.scope # NoChild => attempt.kind \in Cacheable,
           host = "turn" => established /\ attempt.aim = focus,
           PortalKept /\ c \in epoch' /\ attempt.scope # NoChild =>
               /\ saved = attempt.scope /\ focus = attempt.scope
               /\ cookies[object] = attempt.scope
               /\ \A d \in Callers : call[d].at = "restoring" =>
                    call[d].held = attempt.scope,
           Attempts(c, attempt), UNCHANGED <<host, portal, session, lock>>,
           cache' \subseteq cache, epoch' \subseteq epoch \cup {c}
    PROVE  Sound'
  <1>0. /\ cookies \in [1 .. MaxObjects -> MaybeChild] /\ PortalObject \in 1 .. MaxObjects
        /\ PortalKept => PortalObject = object
        /\ host = "turn" => PortalKept
    BY DEF Sound, Shape, PortalObject, PortalKept, Fit
  <1>1. ASSUME NEW q \in Calls, call' = [call EXCEPT ![c] = q],
               q.scope = attempt.scope, q.kind = attempt.kind,
               q.aim = attempt.aim, q.got = {}, q.sent <= 1,
               \/ q.at = "sent" /\ q.obj = PortalObject /\ q.held = cookies[PortalObject]
               \/ q.at = "header" /\ q.held = Scope
               \/ q.at = "visit" /\ Scope = NoChild
        PROVE  Sound'
    <2>1. Becomes(c, q)
      BY <1>1, BecomesIs DEF Sound
    <2>2. call'[c] = q
      BY <2>1 DEF Becomes
    <2>3. Alone(c)
      BY <1>1, <2>1, <2>2 DEF Alone, session, Sound, Shape
    <2>4. Placed(c)'
      BY <1>0, <1>1, <2>2 DEF Placed, Rests, PortalKept, session
    <2>5. NotTwice(c)'
      BY <1>1, <2>2 DEF NotTwice
    <2>6. Keepable(c)'
      BY <1>0, <1>1, <2>1, <2>2 DEF Keepable, PortalKept, session, Becomes
    <2>7. Aimed(c)'
      <3>1. ASSUME host = "turn"
            PROVE  /\ established /\ attempt.aim = focus /\ PortalKept
                   /\ Scope = focus /\ focus # NoChild /\ cookies[PortalObject] = focus
        BY <1>0, <3>1, ScopeIsBound
      <3> QED BY <1>1, <2>2, <3>1 DEF Aimed, session
    <2> QED BY <2>3, <2>4, <2>5, <2>6, <2>7, AloneKeeps
  <1>2. CASE attempt.kind = "page" /\ web # NoChild
    <2> DEFINE q == [attempt EXCEPT !.at = IF Scope = NoChild THEN "visit" ELSE "header",
                                    !.held = Scope, !.got = {}]
    <2>1. Scope \in MaybeChild
      BY DEF Scope, Sound, Shape, MaybeChild
    <2>2. q \in Calls
      BY <2>1 DEF Calls, Phases
    <2>3. /\ q.scope = attempt.scope /\ q.kind = attempt.kind /\ q.aim = attempt.aim
          /\ q.got = {}
          /\ q.sent = attempt.sent /\ q.held = Scope
          /\ q.at = IF Scope = NoChild THEN "visit" ELSE "header"
      BY DEF Calls
    <2>4. call' = [call EXCEPT ![c] = q]
      BY <1>2 DEF Attempts, Visits
    <2> HIDE DEF q
    <2> QED BY <1>1, <2>2, <2>3, <2>4
  <1>3. CASE attempt.kind = "page" /\ web = NoChild
    BY <1>3, FailingKeeps DEF Attempts, Visits
  <1>4. CASE attempt.kind # "page" /\ cookies[attempt.obj] = NoChild
    BY <1>4, FailingKeeps DEF Attempts, Sends
  <1>5. CASE attempt.kind # "page" /\ cookies[attempt.obj] # NoChild
    <2> DEFINE n == IF attempt.kind = "report" THEN attempt.sent + 1 ELSE attempt.sent
               q == [attempt EXCEPT !.at = "sent", !.left = Requests(attempt.kind),
                               !.held = cookies[attempt.obj], !.fresh = FALSE, !.got = {},
                               !.sent = n]
    <2>1. n \in Nat /\ n <= 1
      BY DEF Calls
    <2>2. call' = [call EXCEPT ![c] = q]
      BY <1>5 DEF Attempts, Sends
    <2> HIDE DEF n
    <2>3. Requests(attempt.kind) \in 0 .. 2
      BY DEF Requests
    <2>4. cookies[attempt.obj] \in MaybeChild
      BY <1>0
    <2>5. q \in Calls
      BY <2>1, <2>3, <2>4 DEF Calls, Phases
    <2>6. /\ q.scope = attempt.scope /\ q.kind = attempt.kind /\ q.aim = attempt.aim
          /\ q.got = {}
          /\ q.sent = n /\ q.held = cookies[PortalObject] /\ q.at = "sent"
          /\ q.obj = PortalObject
      BY DEF Calls
    <2> HIDE DEF q
    <2> QED BY <1>1, <2>1, <2>2, <2>5, <2>6
  <1> QED BY <1>2, <1>3, <1>4, <1>5

LEMMA ReadKeeps == ASSUME Fit, Sound, NEW c \in Callers, Read(c) PROVE Sound'
  <1> DEFINE scope == IF call[c].kind \in Cacheable THEN Scope ELSE NoChild
             attempt == [call[c] EXCEPT !.obj = PortalObject, !.scope = scope]
  <1>0. call[c] \in Calls /\ Scope \in MaybeChild /\ PortalObject \in 1 .. MaxObjects
    BY DEF Sound, Shape, Scope, PortalObject, MaybeChild
  <1>1. attempt \in Calls
    <2>1. PortalObject \in 0 .. MaxObjects
      BY <1>0, Objects
    <2>2. scope \in MaybeChild
      BY <1>0 DEF MaybeChild
    <2> HIDE DEF scope
    <2> QED BY <1>0, <2>1, <2>2 DEF Calls
  <1>2. /\ attempt.obj = PortalObject /\ attempt.kind = call[c].kind
        /\ attempt.sent = call[c].sent /\ attempt.aim = call[c].aim
        /\ attempt.scope = scope
    BY <1>0 DEF Calls
  <1>3. Attempts(c, attempt)
    BY DEF Read
  <1> HIDE DEF attempt
  <1>4. call[c].sent = 0 /\ ~Rests(c)
    BY DEF Read, Sound, NotTwice, Rests
  <1>5. host = "turn" => established /\ attempt.aim = focus
    BY <1>2 DEF Read, Sound, Aimed
  <1>6. PortalKept /\ attempt.scope # NoChild =>
               /\ saved = attempt.scope /\ focus = attempt.scope
               /\ cookies[object] = attempt.scope
               /\ \A d \in Callers : call[d].at # "restoring"
    <2>1. ASSUME scope # NoChild PROVE established /\ scope = Scope
      BY <2>1 DEF Scope
    <2> HIDE DEF scope
    <2> QED BY <1>2, <2>1, ScopeIsBound
  <1>7. cache' \subseteq cache /\ epoch' \subseteq epoch \cup {c}
        /\ UNCHANGED <<host, portal, session, lock>>
    BY DEF Read, Missed
  <1>8. /\ attempt.sent <= 1 /\ (attempt.kind = "report" => attempt.sent = 0)
        /\ attempt.scope # NoChild => attempt.kind \in Cacheable
    BY <1>2, <1>4
  <1> HIDE DEF scope
  <1> QED BY <1>1, <1>2, <1>3, <1>4, <1>5, <1>6, <1>7, <1>8, AttemptsKeep

LEMMA RecoveredKeeps == ASSUME Fit, Sound, NEW c \in Callers, Recovered(c) PROVE Sound'
  <1>1. CASE call[c].kind = "report"
    BY <1>1, FailingKeeps DEF Recovered, memory, Rests
  <1>2. CASE call[c].kind # "report"
    <2> DEFINE attempt == [call[c] EXCEPT !.obj = PortalObject]
    <2>0. call[c] \in Calls /\ PortalObject \in 1 .. MaxObjects
      BY DEF Sound, Shape, PortalObject
    <2>1. attempt \in Calls
      <3>1. PortalObject \in 0 .. MaxObjects
        BY <2>0, Objects
      <3> QED BY <2>0, <3>1 DEF Calls
    <2>2. /\ attempt.obj = PortalObject /\ attempt.kind = call[c].kind
          /\ attempt.sent = call[c].sent /\ attempt.aim = call[c].aim
          /\ attempt.scope = call[c].scope
      BY <2>0 DEF Calls
    <2>3. Attempts(c, attempt)
      BY <1>2 DEF Recovered
    <2> HIDE DEF attempt
    <2>4. call[c].sent <= 1 /\ ~Rests(c)
          /\ (attempt.scope # NoChild => attempt.kind \in Cacheable)
      BY <2>2 DEF Recovered, Sound, NotTwice, Placed, Rests
    <2>5. host = "turn" => established /\ attempt.aim = focus
      BY <2>2 DEF Recovered, Sound, Aimed
    <2>6. PortalKept /\ c \in epoch /\ attempt.scope # NoChild =>
               /\ saved = attempt.scope /\ focus = attempt.scope
               /\ cookies[object] = attempt.scope
               /\ \A d \in Callers : call[d].at = "restoring" =>
                    call[d].held = attempt.scope
      BY <2>2 DEF Sound, Keepable
    <2>7. cache' = cache /\ epoch' = epoch /\ UNCHANGED <<host, portal, session, lock>>
      BY DEF Recovered, memory
    <2> QED BY <1>2, <2>1, <2>2, <2>3, <2>4, <2>5, <2>6, <2>7, AttemptsKeep
  <1> QED BY <1>1, <1>2

\* Between the two requests of an attempt, and after the last one.
LEMMA AnsweredKeeps == ASSUME Fit, Sound, NEW c \in Callers, Answered(c) PROVE Sound'
  <1> DEFINE got == call[c].got \cup {call[c].held}
  <1>0. /\ call[c] \in Calls /\ cookies[call[c].obj] \in MaybeChild
        /\ ~Rests(c) /\ call[c].at = "sent" /\ call[c].left \in 0 .. 2
        /\ UNCHANGED <<host, portal, object, cookies, focus, established, saved, web, lock>>
    BY DEF Answered, Sound, Shape, Placed, Rests, session, Calls
  <1>1. got \in SUBSET MaybeChild
    BY <1>0 DEF Calls
  <1>2. PortalKept /\ c \in epoch /\ call[c].scope # NoChild =>
          /\ got \subseteq {call[c].scope} /\ got # {}
          /\ cookies[call[c].obj] = call[c].scope
    BY <1>0 DEF Sound, Keepable, Placed
  <1>3. host = "turn" =>
          got = {call[c].aim} /\ cookies[call[c].obj] = call[c].aim
    <2>1. ASSUME host = "turn" PROVE PortalKept
      BY <2>1 DEF PortalKept
    <2> QED BY <1>0, <2>1, ScopeIsBound DEF Sound, Aimed, Placed
  <1> HIDE DEF got
  <1>4. CASE call[c].left > 1
    <2> DEFINE q == [call[c] EXCEPT !.left = @ - 1, !.got = got,
                                    !.held = cookies[call[c].obj]]
    <2>1. call[c].left - 1 \in 0 .. 2
      BY <1>0, <1>4
    <2>2. q \in Calls
      BY <1>0, <1>1, <2>1 DEF Calls
    <2>3. call' = [call EXCEPT ![c] = q] /\ cache' = cache /\ epoch' = epoch
      BY <1>4 DEF Answered, got
    <2>4. /\ q.at = "sent" /\ q.got = got /\ q.held = cookies[call[c].obj]
          /\ q.scope = call[c].scope /\ q.aim = call[c].aim /\ q.sent = call[c].sent
          /\ q.kind = call[c].kind
          /\ q.obj = call[c].obj
      BY <1>0 DEF Calls
    <2> HIDE DEF q
    <2>5. Becomes(c, q)
      BY <2>2, <2>3, BecomesIs DEF Sound
    <2>6. call'[c] = q
      BY <2>5 DEF Becomes
    <2>7. Alone(c)
      BY <1>0, <2>3, <2>4, <2>5, <2>6 DEF Alone, Sound, Shape
    <2>8. Placed(c)' /\ NotTwice(c)'
      BY <1>0, <2>4, <2>6 DEF Sound, Placed, NotTwice, Rests, PortalKept
    <2>9. Keepable(c)'
      BY <1>0, <1>2, <2>3, <2>4, <2>5, <2>6 DEF Sound, Keepable, PortalKept, Becomes
    <2>10. Aimed(c)'
      BY <1>0, <1>3, <2>4, <2>6 DEF Sound, Aimed
    <2> QED BY <2>7, <2>8, <2>9, <2>10, AloneKeeps
  <1>5. CASE ~(call[c].left > 1)
    <2> DEFINE q == [Idle EXCEPT !.at = "answered", !.aim = call[c].aim, !.got = got,
                                 !.sent = call[c].sent]
    <2>1. q \in Calls
      BY <1>0, <1>1, IdleIs DEF Calls, Phases
    <2>2. call' = [call EXCEPT ![c] = q] /\ epoch' \subseteq epoch /\ Kept(c, got)
      BY <1>5 DEF Answered, Answers, got
    <2>3. /\ q.at = "answered" /\ q.aim = call[c].aim /\ q.got = got
          /\ q.scope = NoChild /\ q.sent = call[c].sent
      BY IdleIs DEF Idle
    <2> HIDE DEF q
    <2>4. Becomes(c, q)
      BY <2>1, <2>2, BecomesIs DEF Sound
    <2>5. call'[c] = q
      BY <2>4 DEF Becomes
    <2>6. cache' \subseteq cache \/ (cache' \subseteq Entries /\ CacheTellsTruth')
      <3>1. CASE call[c].scope # NoChild /\ call[c].scope = Scope /\ c \in epoch
        <4> DEFINE e == [child |-> call[c].scope, kind |-> call[c].kind,
                         about |-> got, over |-> FALSE, own |-> PortalKept]
        <4>1. cache' \subseteq cache \cup {e}
          BY <2>2, <3>1 DEF Kept, Stored
        <4>2. call[c].scope \in Children /\ call[c].kind \in Cacheable
          <5>1. call[c].scope \in Children
            BY <1>0, <3>1 DEF Calls, MaybeChild
          <5>2. call[c].kind \in Cacheable
            BY <3>1 DEF Sound, Placed
          <5> QED BY <5>1, <5>2
        <4>3. e \in Entries
          BY <1>1, <4>2 DEF Entries, PortalKept
        <4>4. e.own \/ host = "turn" => e.about = {e.child}
          BY <1>2, <3>1 DEF PortalKept
        <4> HIDE DEF e
        <4>5. host' = host
          BY DEF Answered
        <4> QED BY <1>0, <4>1, <4>3, <4>4, <4>5 DEF Sound, Shape, CacheTellsTruth
      <3>2. CASE ~(call[c].scope # NoChild /\ call[c].scope = Scope /\ c \in epoch)
        BY <2>2, <3>2 DEF Kept
      <3> QED BY <3>1, <3>2
    <2>7. Alone(c)
      BY <1>0, <2>2, <2>3, <2>4, <2>5, <2>6 DEF Alone, Sound, Shape
    <2>8. Placed(c)' /\ NotTwice(c)' /\ Keepable(c)'
      BY <1>0, <2>3, <2>5 DEF Sound, Placed, NotTwice, Keepable
    <2>9. Aimed(c)'
      BY <1>0, <1>3, <2>3, <2>5 DEF Aimed
    <2> QED BY <2>7, <2>8, <2>9, AloneKeeps
  <1> QED BY <1>4, <1>5

-----------------------------------------------------------------------------
(* The web login's session.                                                  *)

LEMMA HeaderAnsweredKeeps ==
    ASSUME Fit, Sound, NEW c \in Callers, HeaderAnswered(c) PROVE Sound'
  <1> DEFINE q == [call[c] EXCEPT !.at = IF web = call[c].held THEN "visit" ELSE "put"]
  <1>0. call[c] \in Calls /\ ~Rests(c) /\ call[c].at = "header"
        /\ UNCHANGED <<host, portal, object, cookies, focus, established, saved, web, lock,
                       cache, epoch>>
    BY DEF HeaderAnswered, Sound, Shape, Rests, session, memory
  <1>1. q \in Calls
    BY <1>0 DEF Calls, Phases
  <1>2. call' = [call EXCEPT ![c] = q]
    BY DEF HeaderAnswered, Goes
  <1>3. /\ q.at = IF web = call[c].held THEN "visit" ELSE "put"
        /\ q.held = call[c].held /\ q.aim = call[c].aim
        /\ q.scope = call[c].scope /\ q.kind = call[c].kind
        /\ q.sent = call[c].sent /\ q.got = call[c].got
    BY <1>0 DEF Calls
  <1> HIDE DEF q
  <1>4. Becomes(c, q)
    BY <1>1, <1>2, BecomesIs DEF Sound
  <1>5. call'[c] = q
    BY <1>4 DEF Becomes
  <1>6. Alone(c)
    BY <1>0, <1>3, <1>4, <1>5 DEF Alone, Sound, Shape
  <1>7. Placed(c)' /\ NotTwice(c)'
    BY <1>0, <1>3, <1>5 DEF Sound, Placed, NotTwice, Rests, PortalKept
  <1>8. Keepable(c)'
    BY <1>0, <1>3, <1>4, <1>5 DEF Sound, Keepable, PortalKept, Becomes
  <1>9. Aimed(c)'
    BY <1>0, <1>3, <1>5 DEF Sound, Aimed
  <1> QED BY <1>6, <1>7, <1>8, <1>9, AloneKeeps

LEMMA ChildSelectedKeeps ==
    ASSUME Fit, Sound, NEW c \in Callers, ChildSelected(c) PROVE Sound'
  <1>0. call[c] \in Calls /\ ~Rests(c) /\ call[c].at = "put"
        /\ UNCHANGED <<host, portal, object, cookies, focus, established, saved, lock,
                       cache, epoch>>
    BY DEF ChildSelected, Sound, Shape, Rests, memory
  <1>1. CASE web = NoChild
    BY <1>0, <1>1, FailingKeeps DEF ChildSelected, session
  <1>2. CASE web # NoChild
    <2> DEFINE q == [call[c] EXCEPT !.at = "visit"]
    <2>1. q \in Calls /\ call[c].held \in MaybeChild
      BY <1>0 DEF Calls, Phases
    <2>2. call' = [call EXCEPT ![c] = q] /\ web' = call[c].held
      BY <1>2 DEF ChildSelected, Goes
    <2>3. /\ q.at = "visit"
          /\ q.held = call[c].held /\ q.aim = call[c].aim
          /\ q.scope = call[c].scope /\ q.kind = call[c].kind
          /\ q.sent = call[c].sent /\ q.got = call[c].got
      BY <1>0 DEF Calls
    <2> HIDE DEF q
    <2>4. Becomes(c, q)
      BY <2>1, <2>2, BecomesIs DEF Sound
    <2>5. call'[c] = q
      BY <2>4 DEF Becomes
    <2>6. Alone(c)
      BY <1>0, <2>1, <2>2, <2>3, <2>4, <2>5 DEF Alone, Sound, Shape
    <2>7. Placed(c)' /\ NotTwice(c)'
      BY <1>0, <2>3, <2>5 DEF Sound, Placed, NotTwice, Rests, PortalKept
    <2>8. Keepable(c)'
      BY <1>0, <2>3, <2>4, <2>5 DEF Sound, Keepable, PortalKept, Becomes
    <2>9. Aimed(c)'
      BY <1>0, <2>2, <2>3, <2>5 DEF Sound, Aimed
    <2> QED BY <2>6, <2>7, <2>8, <2>9, AloneKeeps
  <1> QED BY <1>1, <1>2

LEMMA VisitedKeeps == ASSUME Fit, Sound, NEW c \in Callers, Visited(c) PROVE Sound'
  <1>0. call[c] \in Calls /\ ~Rests(c) /\ call[c].at = "visit" /\ web \in MaybeChild
        /\ UNCHANGED <<host, portal, object, cookies, focus, established, saved, web, lock,
                       cache, epoch>>
    BY DEF Visited, Sound, Shape, Rests, session, memory
  <1>1. CASE web = NoChild
    BY <1>0, <1>1, FailingKeeps DEF Visited, session
  <1>2. CASE web # NoChild
    <2> DEFINE q == [Idle EXCEPT !.at = "answered", !.aim = call[c].aim, !.got = {web},
                                 !.sent = call[c].sent]
    <2>1. q \in Calls
      BY <1>0, IdleIs DEF Calls, Phases
    <2>2. call' = [call EXCEPT ![c] = q]
      BY <1>2 DEF Visited, Answers
    <2>3. /\ q.at = "answered" /\ q.aim = call[c].aim /\ q.got = {web}
          /\ q.scope = NoChild /\ q.sent = call[c].sent
      BY IdleIs DEF Idle
    <2> HIDE DEF q
    <2>4. Becomes(c, q)
      BY <2>1, <2>2, BecomesIs DEF Sound
    <2>5. call'[c] = q
      BY <2>4 DEF Becomes
    <2>6. Alone(c)
      BY <1>0, <2>3, <2>4, <2>5 DEF Alone, Sound, Shape
    <2>7. Placed(c)' /\ NotTwice(c)' /\ Keepable(c)'
      BY <1>0, <2>3, <2>5 DEF Sound, Placed, NotTwice, Keepable
    <2>8. Aimed(c)'
      BY <1>0, <2>3, <2>5 DEF Sound, Aimed
    <2> QED BY <2>6, <2>7, <2>8, AloneKeeps
  <1> QED BY <1>1, <1>2

LEMMA WebLostKeeps == ASSUME Fit, Sound, NEW c \in Callers, WebLost(c) PROVE Sound'
  <1>1. ~Rests(c)
    BY DEF WebLost, Rests
  <1>2. cache' = {} /\ epoch' = {} /\ Fails(c) /\ UNCHANGED <<host, portal, session, lock>>
    BY DEF WebLost, Cleared
  <1> QED BY <1>1, <1>2, FailingKeeps

LEMMA RejectedKeeps == ASSUME Fit, Sound, NEW c \in Callers, Rejected(c) PROVE Sound'
  <1>0. call[c] \in Calls /\ ~Rests(c) /\ call[c].at \in {"sent", "header"}
        /\ UNCHANGED <<host, portal, object, cookies, focus, saved, web, lock, cache, epoch>>
    BY DEF Rejected, Sound, Shape, Rests, memory
  <1>1. CASE call[c].tried
    BY <1>0, <1>1, FailingKeeps DEF Rejected, session
  <1>2. CASE ~call[c].tried
    <2> DEFINE q == [call[c] EXCEPT !.at = "again", !.tried = TRUE, !.left = 0, !.got = {}]
    <2>1. q \in Calls
      <3>1. 0 \in 0 .. 2
        OBVIOUS
      <3> QED BY <1>0, <3>1 DEF Calls, Phases
    <2>2. call' = [call EXCEPT ![c] = q] /\ established' = FALSE
      BY <1>2 DEF Rejected
    <2>3. /\ q.at = "again" /\ q.tried /\ q.got = {}
          /\ q.aim = call[c].aim /\ q.scope = call[c].scope /\ q.sent = call[c].sent
          /\ q.kind = call[c].kind
      BY <1>0 DEF Calls
    <2> HIDE DEF q
    <2>4. Becomes(c, q)
      BY <2>1, <2>2, BecomesIs DEF Sound
    <2>5. call'[c] = q
      BY <2>4 DEF Becomes
    <2>6. Alone(c)
      BY <1>0, <2>2, <2>3, <2>4, <2>5 DEF Alone, Sound, Shape
    <2>7. Placed(c)' /\ NotTwice(c)'
      BY <1>0, <2>3, <2>5 DEF Sound, Placed, NotTwice, Rests, PortalKept
    <2>8. Keepable(c)'
      BY <1>0, <2>3, <2>4, <2>5 DEF Sound, Keepable, PortalKept, Becomes
    <2>9. Aimed(c)'
      <3>1. ASSUME host = "turn"
            PROVE  /\ established /\ call[c].aim = focus /\ PortalKept
                   /\ focus # NoChild /\ saved = focus
        BY <1>0, <3>1, ScopeIsBound DEF Sound, Aimed, PortalKept
      <3> QED BY <1>0, <2>3, <2>5, <3>1 DEF Aimed
    <2> QED BY <2>6, <2>7, <2>8, <2>9, AloneKeeps
  <1> QED BY <1>1, <1>2

-----------------------------------------------------------------------------
(* The restores, the exchange, and what the guardian does.                   *)

\* A call under way moves: in a turn it is still the only one.
LEMMA LoneIsKept ==
    ASSUME Sound, NEW c \in Callers, ~Rests(c), Becomes(c, call'[c]), UNCHANGED host
    PROVE  /\ Lone'
           /\ \A d \in Callers : d # c /\ host = "turn" => Aimed(d)' /\ Rests(d)'
  <1>1. ASSUME NEW d \in Callers, d # c, host = "turn" PROVE Aimed(d)' /\ Rests(d)'
    <2>1. Rests(d) /\ call'[d] = call[d]
      BY <1>1, OthersRest DEF Becomes
    <2>2. Aimed(d)'
      BY <2>1, AimedAtRest DEF Sound
    <2> QED BY <2>1, <2>2 DEF Rests
  <1> QED BY <1>1 DEF Lone

LEMMA BeginRestoreKeeps ==
    ASSUME Fit, Sound, NEW c \in Callers, BeginRestore(c) PROVE Sound'
  <1> DEFINE q == [call[c] EXCEPT !.at = "restoring", !.obj = object, !.held = saved]
  <1>0. /\ call[c] \in Calls /\ saved \in MaybeChild /\ saved # NoChild
        /\ object \in 1 .. MaxObjects
        /\ ~Rests(c) /\ call[c].at \in {"ensure", "again"}
        /\ established = FALSE /\ lock = NoCaller /\ lock' = c
        /\ UNCHANGED <<host, portal, object, cookies, focus, established, saved, web,
                       cache, epoch>>
    BY DEF BeginRestore, Sound, Shape, Rests, session, memory
  <1>1. q \in Calls
    <2>1. object \in 0 .. MaxObjects
      BY <1>0, Objects
    <2> QED BY <1>0, <2>1 DEF Calls, Phases
  <1>2. call' = [call EXCEPT ![c] = q]
    BY DEF BeginRestore
  <1>3. /\ q.at = "restoring" /\ q.obj = object /\ q.held = saved
        /\ q.aim = call[c].aim /\ q.scope = call[c].scope /\ q.kind = call[c].kind
        /\ q.sent = call[c].sent /\ q.tried = call[c].tried /\ q.got = call[c].got
    BY <1>0 DEF Calls
  <1> HIDE DEF q
  <1>4. Becomes(c, q)
    BY <1>1, <1>2, BecomesIs DEF Sound
  <1>5. call'[c] = q /\ \A d \in Callers : d # c => call'[d] = call[d]
    BY <1>4 DEF Becomes
  <1>6. Shape'
    BY <1>0, <1>4 DEF Becomes, Sound, Shape
  <1>7. Bound' /\ CacheTellsTruth'
    BY <1>0 DEF Bound, CacheTellsTruth, PortalKept, Sound
  <1>8. Lone' /\ \A d \in Callers : d # c /\ host = "turn" => Aimed(d)'
    BY <1>0, <1>4, <1>5, LoneIsKept
  <1>9. Placed(c)' /\ NotTwice(c)'
    BY <1>0, <1>3, <1>5 DEF Sound, Placed, NotTwice, Rests, PortalKept
  <1>10. ASSUME NEW d \in Callers, d # c PROVE Placed(d)' /\ NotTwice(d)'
    <2>1. call[d].at # "restoring"
      BY <1>0 DEF Fit, Sound, Placed
    <2> QED BY <1>0, <1>5, <1>10, <2>1 DEF Sound, Placed, NotTwice, Rests, PortalKept
  <1>11. ASSUME NEW d \in Callers PROVE Keepable(d)'
    <2>1. /\ call'[d].scope = call[d].scope /\ call'[d].got = call[d].got
          /\ call'[d].at = "sent" => call[d].at = "sent" /\ call'[d].held = call[d].held
          /\ \A k \in Callers : call'[k].at = "restoring" =>
               \/ k = c /\ call'[k].held = saved
               \/ call[k].at = "restoring" /\ call'[k].held = call[k].held
      BY <1>3, <1>5
    <2> QED BY <1>0, <2>1 DEF Sound, Keepable, PortalKept
  <1>12. Aimed(c)'
    BY <1>0, <1>3, <1>5 DEF Sound, Aimed, NotTwice
  <1>13. host # "turn" => \A d \in Callers : Aimed(d)'
    BY <1>0 DEF Aimed
  <1> QED BY <1>6, <1>7, <1>8, <1>9, <1>10, <1>11, <1>12, <1>13 DEF Sound

LEMMA RestoredKeeps == ASSUME Fit, Sound, NEW c \in Callers, Restored(c) PROVE Sound'
  <1> DEFINE q == [call[c] EXCEPT !.at = IF call[c].tried THEN "again" ELSE "ensure",
                                  !.obj = 0, !.held = NoChild]
             child == call[c].held
  <1>0. /\ call[c] \in Calls /\ ~Rests(c) /\ call[c].at = "restoring"
        /\ child \in MaybeChild /\ child # NoChild /\ lock = c
        /\ cookies \in [1 .. MaxObjects -> MaybeChild]
        /\ object \in 1 .. MaxObjects
    BY DEF Restored, Sound, Shape, Rests, Placed, Calls
  <1>1. /\ cookies' = [cookies EXCEPT ![call[c].obj] = child]
        /\ focus' = child /\ saved' = child /\ established' = TRUE /\ lock' = NoCaller
        /\ UNCHANGED <<host, portal, object, web, cache, epoch>>
    BY DEF Restored, memory
  <1>2. q \in Calls
    <2>1. NoChild \in MaybeChild
      BY DEF MaybeChild
    <2> QED BY <1>0, <2>1, Objects DEF Calls, Phases
  <1>3. call' = [call EXCEPT ![c] = q]
    BY DEF Restored
  <1>4. /\ q.at = IF call[c].tried THEN "again" ELSE "ensure"
        /\ q.aim = call[c].aim /\ q.scope = call[c].scope /\ q.kind = call[c].kind
        /\ q.sent = call[c].sent /\ q.tried = call[c].tried /\ q.got = call[c].got
    BY <1>0 DEF Calls
  <1> HIDE DEF q
  <1>5. Becomes(c, q)
    BY <1>2, <1>3, BecomesIs DEF Sound
  <1>6. call'[c] = q /\ \A d \in Callers : d # c => call'[d] = call[d]
    BY <1>5 DEF Becomes
  <1>7. \A d \in Callers : call'[d].at # "restoring"
    <2>1. \A d \in Callers : d # c => call[d].at # "restoring"
      BY <1>0 DEF Sound, Placed
    <2> QED BY <1>4, <1>6, <2>1
  <1>8. /\ cookies' \in [1 .. MaxObjects -> MaybeChild]
        /\ PortalKept => cookies'[object] = child
    <2>1. PortalKept => call[c].obj = object
      BY <1>0 DEF Sound, Placed
    <2> QED BY <1>0, <1>1, <2>1
  <1> HIDE DEF child
  <1>9. Shape'
    BY <1>0, <1>1, <1>5, <1>8 DEF Becomes, Sound, Shape
  <1>10. Bound' /\ CacheTellsTruth'
    <2>1. Bound'
      BY <1>0, <1>1, <1>7, <1>8 DEF Bound, PortalKept
    <2>2. CacheTellsTruth'
      BY <1>1 DEF CacheTellsTruth, PortalKept, Sound
    <2> QED BY <2>1, <2>2
  <1>11. Lone' /\ \A d \in Callers : d # c /\ host = "turn" => Aimed(d)'
    BY <1>0, <1>1, <1>5, <1>6, LoneIsKept
  <1>12. Placed(c)' /\ NotTwice(c)'
    BY <1>0, <1>4, <1>6 DEF Sound, Placed, NotTwice, Rests
  <1>13. ASSUME NEW d \in Callers, d # c PROVE Placed(d)' /\ NotTwice(d)'
    BY <1>1, <1>6, <1>7, <1>13 DEF Sound, Placed, NotTwice, Rests, PortalKept
  <1>14. ASSUME NEW d \in Callers PROVE Keepable(d)'
    <2>1. /\ call'[d].scope = call[d].scope /\ call'[d].got = call[d].got
          /\ call'[d].at = "sent" => call[d].at = "sent" /\ call'[d].held = call[d].held
      BY <1>4, <1>6
    <2>2. PortalKept /\ d \in epoch /\ call[d].scope # NoChild => child = call[d].scope
      BY <1>0 DEF Sound, Keepable, child
    <2> QED BY <1>1, <1>7, <1>8, <2>1, <2>2 DEF Sound, Keepable, PortalKept
  <1>15. Aimed(c)'
    BY <1>0, <1>1, <1>4, <1>6 DEF Sound, Aimed, child
  <1>16. host # "turn" => \A d \in Callers : Aimed(d)'
    BY <1>1 DEF Aimed
  <1> QED BY <1>9, <1>10, <1>11, <1>12, <1>13, <1>14, <1>15, <1>16 DEF Sound

LEMMA ExchangedKeeps == ASSUME Fit, Sound, NEW c \in Callers, Exchanged(c) PROVE Sound'
  <1> DEFINE child == call[c].aim
             q == IF established THEN [call[c] EXCEPT !.at = "read", !.obj = 0] ELSE Idle
  <1>0. /\ call[c] \in Calls /\ ~Rests(c) /\ call[c].at = "exchange"
        /\ child \in MaybeChild /\ child # NoChild
        /\ cookies \in [1 .. MaxObjects -> MaybeChild]
        /\ object \in 1 .. MaxObjects
    BY DEF Exchanged, Sound, Shape, Rests, Placed, Calls
  <1>1. /\ cookies' = [cookies EXCEPT ![call[c].obj] = child]
        /\ focus' = child /\ saved' = child /\ cache' = {} /\ epoch' = {}
        /\ UNCHANGED <<host, portal, object, established, web, lock>>
    BY DEF Exchanged, Cleared
  <1>2. q \in Calls
    <2>1. [call[c] EXCEPT !.at = "read", !.obj = 0] \in Calls
      BY <1>0, Objects DEF Calls, Phases
    <2> QED BY <2>1, IdleIs
  <1>3. call' = [call EXCEPT ![c] = q]
    BY DEF Exchanged, Fails
  <1>4. \/ /\ established /\ q.at = "read" /\ q.aim = child
           /\ q.scope = call[c].scope /\ q.kind = call[c].kind
           /\ q.sent = call[c].sent /\ q.tried = call[c].tried
        \/ q.at = "idle" /\ q.scope = NoChild /\ q.sent = 0 /\ q.tried = FALSE
    BY <1>0, IdleIs DEF Calls
  <1> HIDE DEF q
  <1>5. Becomes(c, q)
    BY <1>2, <1>3, BecomesIs DEF Sound
  <1>6. call'[c] = q /\ \A d \in Callers : d # c => call'[d] = call[d]
    BY <1>5 DEF Becomes
  <1>7. /\ cookies' \in [1 .. MaxObjects -> MaybeChild]
        /\ PortalKept => cookies'[object] = child
    <2>1. PortalKept => call[c].obj = object
      BY <1>0 DEF Sound, Placed
    <2> QED BY <1>0, <1>1, <2>1
  <1>8. Shape'
    BY <1>0, <1>1, <1>5, <1>7 DEF Becomes, Sound, Shape
  <1>9. Bound' /\ CacheTellsTruth'
    <2>1. PortalKept /\ established => \A d \in Callers : call'[d].at # "restoring"
      BY <1>4, <1>6 DEF Sound, Bound
    <2>2. Bound'
      BY <1>0, <1>1, <1>7, <2>1 DEF Bound, PortalKept
    <2>3. CacheTellsTruth'
      BY <1>1 DEF CacheTellsTruth
    <2> QED BY <2>2, <2>3
  <1>10. Lone' /\ \A d \in Callers : d # c /\ host = "turn" => Aimed(d)'
    BY <1>0, <1>1, <1>5, <1>6, LoneIsKept
  <1>11. Placed(c)' /\ NotTwice(c)'
    BY <1>0, <1>4, <1>6 DEF Sound, Placed, NotTwice, Rests
  <1>12. ASSUME NEW d \in Callers, d # c PROVE Placed(d)' /\ NotTwice(d)'
    BY <1>1, <1>6, <1>12 DEF Sound, Placed, NotTwice, Rests, PortalKept
  <1>13. \A d \in Callers : Keepable(d)'
    BY <1>1 DEF Keepable
  <1>14. Aimed(c)'
    BY <1>1, <1>4, <1>6 DEF Aimed
  <1>15. host # "turn" => \A d \in Callers : Aimed(d)'
    BY <1>1 DEF Aimed
  <1> QED BY <1>8, <1>9, <1>10, <1>11, <1>12, <1>13, <1>14, <1>15 DEF Sound

\* A restore that fails drops the session object.  A turn's other calls rest;
\* the process's portal has lost the live session for good.
LEMMA RestoreFailsKeeps ==
    ASSUME Fit, Sound, NEW c \in Callers, RestoreUnavailable(c) \/ RestoreRejected(c)
    PROVE  Sound'
  <1>0. /\ ~Rests(c) /\ lock = c /\ lock' = NoCaller /\ Fails(c)
        /\ object < MaxObjects /\ object' = object + 1 /\ established' = FALSE
        /\ UNCHANGED <<host, portal, cookies, focus, web>>
        /\ UNCHANGED <<saved, cache, epoch>>
           \/ (saved' = NoChild /\ cache' = {} /\ epoch' = {})
    BY DEF RestoreUnavailable, RestoreRejected, Reset, Cleared, memory, Sound, Placed, Rests
  <1>1. /\ object \in 1 .. MaxObjects /\ portal \in 1 .. MaxObjects /\ portal <= object
        /\ saved \in MaybeChild
    BY DEF Sound, Shape
  <1>2. Becomes(c, Idle)
    BY <1>0, IdleIs, BecomesIs DEF Fails, Sound
  <1>3. /\ call'[c] = Idle /\ call'[c].at = "idle" /\ call'[c].scope = NoChild
        /\ call'[c].sent = 0 /\ call'[c].tried = FALSE
        /\ \A d \in Callers : d # c => call'[d] = call[d]
    BY <1>2, IdleIs DEF Becomes
  <1>4. Shape'
    <2>1. object' \in 1 .. MaxObjects /\ portal <= object'
      BY <1>0, <1>1 DEF Fit
    <2>2. saved' \in MaybeChild
      BY <1>0, <1>1 DEF MaybeChild
    <2>3. epoch' \subseteq Callers /\ cache' \subseteq Entries
      BY <1>0 DEF Sound, Shape
    <2>4. established' \in BOOLEAN /\ lock' \in Callers \cup {NoCaller}
      BY <1>0
    <2> QED BY <1>0, <1>2, <2>1, <2>2, <2>3, <2>4 DEF Becomes, Sound, Shape
  <1>5. host = "turn" \/ ~PortalKept'
    BY <1>0, <1>1 DEF PortalKept, Sound, Shape, Fit
  <1>6. Bound'
    BY <1>0 DEF Bound
  <1>7. CacheTellsTruth'
    BY <1>0, <1>5 DEF Sound, CacheTellsTruth, PortalKept
  <1>8. Lone' /\ \A d \in Callers : d # c /\ host = "turn" => Aimed(d)' /\ Rests(d)'
    BY <1>0, <1>2, <1>3, LoneIsKept
  <1>9. Placed(c)' /\ NotTwice(c)' /\ Aimed(c)' /\ Keepable(c)'
    BY <1>3 DEF Placed, NotTwice, Aimed, Keepable
  <1>10. ASSUME NEW d \in Callers, d # c
         PROVE  Placed(d)' /\ NotTwice(d)' /\ Keepable(d)' /\ Aimed(d)'
    <2>1. call'[d] = call[d] /\ call[d].at # "restoring"
      BY <1>0, <1>3, <1>10 DEF Sound, Placed
    <2>2. NotTwice(d)'
      BY <2>1 DEF Sound, NotTwice
    <2>3. /\ Rests(d) => call[d].scope = NoChild
          /\ call[d].scope # NoChild => call[d].kind \in Cacheable
          /\ call[d].at \in {"focus", "exchange"} => call[d].aim # NoChild
          /\ call[d].at = "sent" => call[d].obj \in 1 .. MaxObjects
      BY DEF Sound, Placed
    <2>4. CASE host = "turn"
      <3>1. Rests(d)' /\ Rests(d) /\ Aimed(d)'
        BY <1>8, <1>10, <2>1, <2>4 DEF Rests
      <3> QED BY <2>1, <2>2, <2>3, <3>1 DEF Placed, Keepable, Rests
    <2>5. CASE host # "turn"
      <3>1. ~PortalKept'
        BY <1>5, <2>5
      <3> QED BY <1>0, <2>1, <2>2, <2>3, <2>5, <3>1 DEF Placed, Keepable, Aimed, Rests
    <2> QED BY <2>4, <2>5
  <1> QED BY <1>4, <1>6, <1>7, <1>8, <1>9, <1>10 DEF Sound

\* The guardian logs in or out.
LEMMA BetweenCallsKeeps == ASSUME Fit, Sound, Login \/ Logout PROVE Sound'
  <1>0. /\ Between /\ object < MaxObjects /\ object' = object + 1
        /\ cache' = {} /\ epoch' = {}
        /\ UNCHANGED <<host, portal, lock, call>>
    <2>1. object \in 1 .. MaxObjects /\ MaxObjects \in Nat
      BY DEF Sound, Shape, Fit
    <2> QED BY <2>1 DEF Login, Logout, RoomForAnother, Reset, Cleared
  <1>1. /\ object \in 1 .. MaxObjects /\ portal \in 1 .. MaxObjects /\ portal <= object
        /\ object' \in 1 .. MaxObjects /\ portal <= object' /\ portal # object'
    BY <1>0 DEF Sound, Shape, Fit
  <1>2. \/ /\ Logout /\ cookies' = cookies /\ focus' = focus /\ saved' = NoChild
           /\ established' = FALSE /\ web' = NoChild
        \/ /\ established' = TRUE /\ web' = web
           /\ \E child \in Children :
                /\ cookies' = [cookies EXCEPT ![object'] = child]
                /\ focus' = child /\ saved' = child
    BY <1>0 DEF Login, Logout, Reset
  <1>3. Shape'
    <2>1. cookies' \in [1 .. MaxObjects -> MaybeChild]
          /\ {focus', saved', web'} \subseteq MaybeChild
      BY <1>1, <1>2 DEF Sound, Shape, MaybeChild
    <2>2. established' \in BOOLEAN
      BY <1>2
    <2> QED BY <1>0, <1>1, <2>1, <2>2 DEF Sound, Shape
  <1>4. Lone'
    BY <1>0 DEF Sound, Lone, Rests
  <1>5. ASSUME host = "turn" PROVE \A d \in Callers : Rests(d)
    BY <1>0, <1>5 DEF Between
  <1>6. host = "turn" \/ ~PortalKept'
    BY <1>0, <1>1 DEF PortalKept, Sound, Shape, Fit
  <1>7. Bound'
    <2>1. CASE established' = TRUE /\ host = "turn"
      <3>1. PICK child \in Children : /\ cookies' = [cookies EXCEPT ![object'] = child]
                                      /\ focus' = child /\ saved' = child
        BY <1>2, <2>1
      <3>2. cookies'[object'] = child
        BY <1>1, <3>1 DEF Sound, Shape
      <3>3. \A d \in Callers : call'[d].at # "restoring"
        BY <1>0, <1>5, <2>1 DEF Rests
      <3> QED BY <3>1, <3>2, <3>3 DEF Bound, Fit
    <2>2. CASE established' = FALSE
      BY <2>2 DEF Bound
    <2>3. CASE host # "turn"
      BY <1>6, <2>3 DEF Bound
    <2> QED BY <1>2, <2>1, <2>2, <2>3
  <1>8. CacheTellsTruth' /\ \A d \in Callers : Keepable(d)'
    BY <1>0 DEF CacheTellsTruth, Keepable
  <1>9. ASSUME NEW d \in Callers PROVE Placed(d)' /\ NotTwice(d)' /\ Aimed(d)'
    <2>1. call'[d] = call[d] /\ lock' = lock /\ host' = host
      BY <1>0
    <2>2. NotTwice(d)'
      BY <2>1 DEF Sound, NotTwice
    <2>3. CASE host = "turn"
      <3>1. Rests(d)
        BY <1>5, <2>3
      <3>2. Aimed(d)'
        BY <2>1, <3>1, AimedAtRest DEF Sound
      <3>3. Placed(d)'
        BY <2>1, <3>1 DEF Sound, Placed, Rests
      <3> QED BY <2>2, <3>2, <3>3
    <2>4. CASE host # "turn"
      <3>1. ~PortalKept'
        BY <1>6, <2>4
      <3>2. Placed(d)'
        BY <2>1, <3>1 DEF Sound, Placed, Rests
      <3> QED BY <2>1, <2>2, <2>4, <3>2 DEF Aimed
    <2> QED BY <2>3, <2>4
  <1> QED BY <1>3, <1>4, <1>7, <1>8, <1>9 DEF Sound

\* While there is no session of the web login, no page is being read in a turn.
LEMMA WebLoginKeeps == ASSUME Fit, Sound, WebLogin PROVE Sound'
  <1>0. /\ web = NoChild /\ web' \in Children
        /\ UNCHANGED <<host, portal, object, cookies, focus, established, saved, lock,
                       cache, epoch, call>>
    BY DEF WebLogin, memory
  <1>1. Shape' /\ Lone' /\ Bound' /\ CacheTellsTruth'
    <2>1. Shape'
      BY <1>0 DEF Sound, Shape, MaybeChild
    <2>2. Lone' /\ Bound' /\ CacheTellsTruth'
      BY <1>0 DEF Sound, Lone, Rests, Bound, PortalKept, CacheTellsTruth
    <2> QED BY <2>1, <2>2
  <1>2. ASSUME NEW d \in Callers
        PROVE  Placed(d)' /\ NotTwice(d)' /\ Keepable(d)' /\ Aimed(d)'
    <2>1. Placed(d)' /\ NotTwice(d)' /\ Keepable(d)'
      BY <1>0 DEF Sound, Placed, NotTwice, Keepable, Rests, PortalKept
    <2>2. ASSUME host = "turn" PROVE call[d].at # "visit"
      <3>1. PortalKept
        BY <2>2 DEF PortalKept
      <3> QED BY <1>0, <2>2, <3>1, ScopeIsBound DEF Sound, Aimed
    <2>3. Aimed(d)'
      BY <1>0, <2>2 DEF Sound, Aimed
    <2> QED BY <2>1, <2>3
  <1> QED BY <1>1, <1>2 DEF Sound

\* An entry that is over is still about whom it was about.
LEMMA ExpireKeeps == ASSUME Fit, Sound, Expire PROVE Sound'
  <1>1. PICK e \in cache : cache' = (cache \ {e}) \cup {[e EXCEPT !.over = TRUE]}
    BY DEF Expire
  <1> DEFINE f == [e EXCEPT !.over = TRUE]
  <1>2. e \in Entries
    BY DEF Sound, Shape
  <1>3. f \in Entries /\ f.child = e.child /\ f.about = e.about /\ f.own = e.own
    BY <1>2 DEF Entries
  <1>4. cache' = (cache \ {e}) \cup {f}
    BY <1>1
  <1> HIDE DEF f
  <1>5. UNCHANGED <<host, portal, object, cookies, focus, established, saved, web, lock,
                    epoch, call>>
    BY DEF Expire, session
  <1>6. Shape'
    BY <1>3, <1>4, <1>5 DEF Sound, Shape
  <1>7. CacheTellsTruth'
    BY <1>3, <1>4, <1>5 DEF Sound, CacheTellsTruth, PortalKept
  <1>8. Lone' /\ Bound'
    BY <1>5 DEF Sound, Lone, Rests, Bound, PortalKept
  <1>9. \A d \in Callers : Placed(d)' /\ NotTwice(d)' /\ Keepable(d)' /\ Aimed(d)'
    BY <1>5 DEF Sound, Placed, NotTwice, Keepable, Aimed, Rests, PortalKept
  <1> QED BY <1>6, <1>7, <1>8, <1>9 DEF Sound

-----------------------------------------------------------------------------

LEMMA SoundIsKept == ASSUME Fit, Sound, [Next]_vars PROVE Sound'
  <1>1. ASSUME NEW c \in Callers, Start(c) PROVE Sound'
    BY <1>1, StartKeeps
  <1>2. ASSUME NEW c \in Callers, Restore(c) PROVE Sound'
    BY <1>2, BeginRestoreKeeps, ThrowingKeeps, RestoredKeeps, RestoreFailsKeeps DEF Restore
  <1>3. ASSUME NEW c \in Callers, Aim(c) PROVE Sound'
    BY <1>3, EnsuredKeeps, FocusKeeps, ExchangedKeeps, ThrowingKeeps DEF Aim
  <1>4. ASSUME NEW c \in Callers, Request(c) PROVE Sound'
    BY <1>4, HitKeeps, ReadKeeps, AnsweredKeeps, ThrowingKeeps, HeaderAnsweredKeeps,
       ChildSelectedKeeps, VisitedKeeps, WebLostKeeps, RejectedKeeps, RecoveredKeeps
       DEF Request
  <1>5. CASE Login \/ Logout
    BY <1>5, BetweenCallsKeeps
  <1>6. CASE WebLogin
    BY <1>6, WebLoginKeeps
  <1>7. CASE Expire
    BY <1>7, ExpireKeeps
  <1>8. CASE UNCHANGED vars
    <2>1. UNCHANGED <<host, portal, object, cookies, focus, established, saved, web, lock,
                      cache, epoch, call>>
      BY <1>8 DEF vars, session, memory
    <2>2. Shape' /\ Lone' /\ Bound' /\ CacheTellsTruth'
      BY <2>1 DEF Sound, Shape, Lone, Rests, Bound, PortalKept, CacheTellsTruth
    <2>3. \A d \in Callers : Placed(d)' /\ NotTwice(d)' /\ Keepable(d)' /\ Aimed(d)'
      BY <2>1 DEF Sound, Placed, NotTwice, Keepable, Aimed, Rests, PortalKept
    <2> QED BY <2>2, <2>3 DEF Sound
  <1> QED BY <1>1, <1>2, <1>3, <1>4, <1>5, <1>6, <1>7, <1>8 DEF Next

\* An absence report leaves at most once: recovery repeats no write, and what
\* a write comes back to is the caller's (recovering.ts, cached.ts).
THEOREM ReportsLeaveOnce == ASSUME Fit PROVE Spec => []WrittenOnce
  <1>1. Init => Sound
    BY SoundAtFirst
  <1>2. Sound /\ [Next]_vars => Sound'
    BY SoundIsKept
  <1>3. Sound => WrittenOnce
    BY DEF Sound, NotTwice, WrittenOnce
  <1> QED BY <1>1, <1>2, <1>3, PTL DEF Spec

\* On the connector the cache holds under a child's key only what was read about that
\* child, however reads, switches, restores and logins follow each other; on the stdio
\* server so does every entry kept while the portal had the manager's session object,
\* however they interleave, and after a reset has parted the two as well (cached.ts).
THEOREM CachedForTheRightChild == ASSUME Fit PROVE Spec => []CacheTellsTruth
  <1>1. Init => Sound
    BY SoundAtFirst
  <1>2. Sound /\ [Next]_vars => Sound'
    BY SoundIsKept
  <1>3. Sound => CacheTellsTruth
    BY DEF Sound
  <1> QED BY <1>1, <1>2, <1>3, PTL DEF Spec

\* What a turn of the connector's queue answers is about the child it was
\* asked about, recovered or cached or read as a page of the web login
\* (runtime.ts, recovering.ts, composite.ts).
THEOREM TurnsAnswerForTheirChild == ASSUME Fit PROVE Spec => []AnswersTheChildAsked
  <1>1. Init => Sound
    BY SoundAtFirst
  <1>2. Sound /\ [Next]_vars => Sound'
    BY SoundIsKept
  <1>3. Sound => AnswersTheChildAsked
    BY DEF Sound, Aimed, AnswersTheChildAsked
  <1> QED BY <1>1, <1>2, <1>3, PTL DEF Spec

-----------------------------------------------------------------------------
(* The pages that are read in a browser.                                     *)

\* The operations are those that read web pages, and none of them is None.
Operations == PageKinds \subseteq {"contacts", "grades", "criteria", "verify"}
  /\ NoKind \notin PageKinds

\* The calls whose visit has a browser.
Holding == {c \in Readers : where[c] \in {"context", "page", "leaving", "closing"}}

\* Of the browsers that run, each that was not abandoned is the one that will be
\* closed next, and the call that launched it is still at it.
Tidy ==
  /\ where \in [Readers -> Browser!PCs] /\ mine \in [Readers -> Nat \cup {NoKind}]
  /\ launched \in Nat
  /\ \A b \in open \ abandoned : b = browser /\ \E c \in Holding : mine[c] = b

\* How far the reports of a call are.
Told(c) ==
  /\ reports[c] \in Seq(Browser!Ends \cup {NoKind}) /\ visit[c] \in Nat
  /\ where[c] = "idle" => reports[c] = << >> /\ visit[c] = 1
  /\ where[c] # "idle" => planned[c] \in PageKinds
  /\ c \in Browser!Running =>
       /\ Len(reports[c]) = visit[c] - 1 /\ visit[c] <= Len(Browser!Plan(planned[c]))
       /\ Browser!Checks(c) \/ \A i \in 1 .. Len(reports[c]) : reports[c][i] = "read"
  /\ where[c] = "done" =>
       IF Browser!Checks(c) THEN Len(reports[c]) = Len(Browser!Plan(planned[c]))
       ELSE \A i \in 1 .. Len(reports[c]) : reports[c][i] = "read" \/ i = Len(reports[c])

Reporting ==
  /\ planned \in [Readers -> PageKinds \cup {NoKind}]
  /\ visit \in [Readers -> Nat]
  /\ where \in [Readers -> Browser!PCs]
  /\ result \in [Readers -> Browser!Ends \cup {NoKind}]
  /\ reports \in [Readers -> Seq(Browser!Ends \cup {NoKind})]
  /\ \A c \in Readers : Told(c)

-----------------------------------------------------------------------------
LEMMA TidyAtFirst == ASSUME Browser!Init PROVE Tidy
  BY DEF Browser!Init, Tidy, Browser!PCs

\* A call that goes on keeps the browser it has, and no other call's is touched.
LEMMA GoesOn ==
    ASSUME Tidy, NEW c \in Readers, NEW place \in Browser!PCs, Browser!Goto(c, place),
           c \in Holding => place \in {"context", "page", "leaving", "closing"},
           UNCHANGED <<mine, browser, open, launched, abandoned>>
    PROVE  Tidy'
  <1>1. where' \in [Readers -> Browser!PCs] /\ Holding \subseteq Holding'
    BY DEF Browser!Goto, Holding, Tidy
  <1> QED BY <1>1 DEF Tidy

LEMMA TidySteps == ASSUME Tidy, [Browser!Next]_(Browser!vars) PROVE Tidy'
  <1>1. ASSUME NEW c \in Readers,
               \/ Browser!Begin(c) \/ Browser!Visit(c) \/ Browser!SyncWebChild(c)
               \/ Browser!WithPage(c) \/ Browser!NotLaunched(c)
        PROVE  Tidy'
    <2>1. c \notin Holding
      BY <1>1 DEF Browser!Begin, Browser!Visit, Browser!SyncWebChild, Browser!WithPage,
         Browser!NotLaunched, Holding
    <2>2. \E place \in {"enter", "opening", "syncing", "launching", "visited"} :
            Browser!Goto(c, place)
      BY <1>1 DEF Browser!Begin, Browser!Visit, Browser!SyncWebChild, Browser!WithPage,
         Browser!NotLaunched, Browser!EndsAs
    <2>3. UNCHANGED <<mine, browser, open, launched, abandoned>>
      BY <1>1 DEF Browser!Begin, Browser!Visit, Browser!SyncWebChild, Browser!WithPage,
         Browser!NotLaunched
    <2> QED BY <2>1, <2>2, <2>3, GoesOn DEF Browser!PCs
  <1>2. ASSUME NEW c \in Readers, Browser!Launched(c) PROVE Tidy'
    <2>1. /\ where' = [where EXCEPT ![c] = "context"] /\ launched' = launched + 1
          /\ open' = open \cup {launched'} /\ browser' = launched'
          /\ mine' = [mine EXCEPT ![c] = launched']
          /\ abandoned' = abandoned \cup ({browser} \cap open)
      BY <1>2 DEF Browser!Launched, Browser!Goto
    <2>2. /\ where' \in [Readers -> Browser!PCs] /\ launched' \in Nat
          /\ mine' \in [Readers -> Nat \cup {NoKind}]
      BY <2>1 DEF Tidy, Browser!PCs
    <2>3. c \in Holding' /\ mine'[c] = browser'
      BY <2>1 DEF Holding, Tidy
    <2>4. open' \ abandoned' \subseteq {browser'}
      BY <2>1 DEF Tidy
    <2> QED BY <2>2, <2>3, <2>4 DEF Tidy
  <1>3. ASSUME NEW c \in Readers, Browser!Read(c) \/ Browser!CloseContext(c) PROVE Tidy'
    <2>1. \E place \in {"leaving", "closing"} : Browser!Goto(c, place)
      BY <1>3 DEF Browser!Read, Browser!CloseContext
    <2>2. UNCHANGED <<mine, browser, open, launched, abandoned>>
      BY <1>3 DEF Browser!Read, Browser!CloseContext
    <2> QED BY <2>1, <2>2, GoesOn DEF Browser!PCs
  <1>4. ASSUME NEW c \in Readers, Browser!NewContext(c) PROVE Tidy'
    <2>1. CASE Browser!Goto(c, "page") /\ abandoned' = abandoned
      <3>1. UNCHANGED <<mine, browser, open, launched, abandoned>>
        BY <1>4, <2>1 DEF Browser!NewContext
      <3> QED BY <2>1, <3>1, GoesOn DEF Browser!PCs
    <2>2. CASE Browser!EndsAs(c, "failed") /\ abandoned' = abandoned \cup ({mine[c]} \cap open)
      <3>1. where' = [where EXCEPT ![c] = "visited"] /\ UNCHANGED <<mine, browser, open, launched>>
        BY <1>4, <2>2 DEF Browser!NewContext, Browser!EndsAs, Browser!Goto
      <3>2. where' \in [Readers -> Browser!PCs] /\ Holding \ {c} \subseteq Holding'
        BY <3>1 DEF Tidy, Holding, Browser!PCs
      <3>3. \A b \in open \ abandoned' : b = browser /\ \E d \in Holding \ {c} : mine[d] = b
        BY <2>2 DEF Tidy
      <3> QED BY <3>1, <3>2, <3>3 DEF Tidy
    <2> QED BY <1>4, <2>1, <2>2 DEF Browser!NewContext
  <1>5. ASSUME NEW c \in Readers, Browser!Close(c) PROVE Tidy'
    <2>1. /\ where' = [where EXCEPT ![c] = "visited"] /\ open' = open \ {browser}
          /\ UNCHANGED <<mine, launched, abandoned>>
      BY <1>5 DEF Browser!Close, Browser!Goto
    <2>2. open' \ abandoned' = {} /\ where' \in [Readers -> Browser!PCs]
      BY <2>1 DEF Tidy, Browser!PCs
    <2> QED BY <2>1, <2>2 DEF Tidy
  <1>6. ASSUME NEW c \in Readers, Browser!MenuRead(c) \/ Browser!NextPage(c) PROVE Tidy'
    <2>1. /\ where[c] = "visited" /\ mine' = [mine EXCEPT ![c] = NoKind]
          /\ launched' = launched /\ abandoned' = abandoned
          /\ open' = open \ {browser} \/ (open' = open /\ browser' = browser)
          /\ \E place \in {"opening", "enter", "done"} : where' = [where EXCEPT ![c] = place]
      BY <1>6 DEF Browser!MenuRead, Browser!NextPage, Browser!Goto
    <2>2. /\ where' \in [Readers -> Browser!PCs] /\ mine' \in [Readers -> Nat \cup {NoKind}]
      BY <2>1 DEF Tidy, Browser!PCs
    <2>3. c \notin Holding /\ \A d \in Holding : d \in Holding' /\ mine'[d] = mine[d]
      BY <2>1 DEF Tidy, Holding
    <2>4. CASE open' = open \ {browser}
      <3>1. open' \ abandoned' = {}
        BY <2>1, <2>4 DEF Tidy
      <3> QED BY <2>1, <2>2, <3>1 DEF Tidy
    <2>5. CASE open' = open /\ browser' = browser
      BY <2>1, <2>2, <2>3, <2>5 DEF Tidy
    <2> QED BY <2>1, <2>4, <2>5
  <1>7. ASSUME (\E c \in Readers : Browser!PageAsks(c)) \/ Browser!Logout
                 \/ UNCHANGED Browser!vars PROVE Tidy'
    <2>1. UNCHANGED <<where, mine, browser, open, abandoned, launched>>
      BY <1>7 DEF Browser!PageAsks, Browser!Logout, Browser!vars
    <2> QED BY <2>1 DEF Tidy, Holding
  <1> QED BY <1>1, <1>2, <1>3, <1>4, <1>5, <1>6, <1>7 DEF Browser!Next

\* When no call is under way, the only browsers that run are those that lost the call
\* that would have closed them, however calls overlap and whatever fails: no path
\* through a visit but a newContext() that throws, and no launch but one over a
\* running browser, leaves one behind (playwright.ts:57-65,75-77,114-119).
THEOREM BrowsersAreClosed == Browser!Spec => []Browser!NoBrowserLingers
  <1>1. Browser!Init => Tidy
    BY TidyAtFirst
  <1>2. Tidy /\ [Browser!Next]_(Browser!vars) => Tidy'
    BY TidySteps
  <1>3. Tidy => Browser!NoBrowserLingers
    BY DEF Tidy, Browser!NoBrowserLingers, Browser!Running, Holding
  <1> QED BY <1>1, <1>2, <1>3, PTL DEF Browser!Spec

-----------------------------------------------------------------------------
LEMMA ReportingAtFirst == ASSUME Browser!Init PROVE Reporting
  <1>1. \A c \in Readers : Told(c)
    BY DEF Browser!Init, Told, Browser!Running
  <1> QED BY <1>1 DEF Browser!Init, Reporting, Browser!PCs

\* The plan of an operation has a page.
LEMMA PlanHasPages ==
    ASSUME Operations, NEW k \in PageKinds
    PROVE  Len(Browser!Plan(k)) \in Nat /\ 1 <= Len(Browser!Plan(k))
  BY DEF Operations, Browser!Plan

\* A call goes on with the visit it makes.
LEMMA SameVisit ==
    ASSUME Reporting, NEW c \in Browser!Running,
             NEW place \in Browser!PCs \ {"idle", "done"}, Browser!Goto(c, place),
           result' \in [Readers -> Browser!Ends \cup {NoKind}], UNCHANGED <<planned, visit,
             reports>>
    PROVE  Reporting'
  <1>1. where' = [where EXCEPT ![c] = place] /\ c \in Readers
    BY DEF Browser!Goto, Browser!Running
  <1>2. ASSUME NEW d \in Readers PROVE Told(d)'
    <2>1. Told(d) /\ (d \in Browser!Running' <=> d \in Browser!Running)
          /\ (where'[d] = "idle" <=> where[d] = "idle")
               /\ (where'[d] = "done" <=> where[d] = "done")
      BY <1>1 DEF Reporting, Browser!Running, Browser!PCs
    <2>2. planned' = planned /\ visit' = visit /\ reports' = reports
      OBVIOUS
    <2> QED BY <2>1, <2>2 DEF Told, Browser!Checks
  <1> QED BY <1>1, <1>2 DEF Reporting

LEMMA ReportingSteps == ASSUME Operations, Reporting,
  [Browser!Next]_(Browser!vars) PROVE Reporting'
  <1>1. ASSUME NEW c \in Readers, Browser!Begin(c) PROVE Reporting'
    <2>1. PICK k \in PageKinds : planned' = [planned EXCEPT ![c] = k]
      BY <1>1 DEF Browser!Begin
    <2>2. /\ where[c] = "idle" /\ where' = [where EXCEPT ![c] = "enter"]
          /\ UNCHANGED <<visit, result, reports>>
      BY <1>1 DEF Browser!Begin, Browser!Goto
    <2>3. planned'[c] = k /\ planned' \in [Readers -> PageKinds \cup {NoKind}]
            /\ where' \in [Readers -> Browser!PCs]
          /\ where'[c] = "enter"
      BY <2>1, <2>2 DEF Reporting, Browser!PCs
    <2>4. Told(c)'
      <3>1. reports[c] = << >> /\ visit[c] = 1
        BY <2>2 DEF Reporting, Told
      <3>2. 1 <= Len(Browser!Plan(k))
        BY PlanHasPages
      <3> QED BY <2>2, <2>3, <3>1, <3>2 DEF Told, Browser!Running
    <2>5. ASSUME NEW d \in Readers \ {c} PROVE Told(d)'
      <3>1. Told(d) /\ planned'[d] = planned[d] /\ where'[d] = where[d]
        BY <2>1, <2>2 DEF Reporting
      <3> QED BY <2>2, <3>1 DEF Told, Browser!Running, Browser!Checks
    <2> QED BY <2>2, <2>3, <2>4, <2>5 DEF Reporting
  <1>2. ASSUME NEW c \in Readers,
               \/ Browser!Visit(c) \/ Browser!SyncWebChild(c) \/ Browser!WithPage(c)
                    \/ Browser!Launched(c) \/ Browser!NotLaunched(c)
               \/ Browser!NewContext(c) \/ Browser!Read(c) \/ Browser!CloseContext(c)
                    \/ Browser!Close(c) \/ Browser!MenuRead(c)
        PROVE  Reporting'
    <2>1. c \in Browser!Running
      BY <1>2 DEF Browser!Visit, Browser!SyncWebChild, Browser!WithPage, Browser!Launched,
         Browser!NotLaunched, Browser!NewContext, Browser!Read,
                  Browser!CloseContext, Browser!Close, Browser!MenuRead, Browser!Running
    <2>2. \E place \in Browser!PCs \ {"idle", "done"} : Browser!Goto(c, place)
      BY <1>2 DEF Browser!Visit, Browser!SyncWebChild, Browser!WithPage, Browser!Launched,
         Browser!NotLaunched, Browser!NewContext, Browser!Read,
                  Browser!CloseContext, Browser!Close, Browser!MenuRead, Browser!EndsAs, Browser!PCs
    <2>3. UNCHANGED <<planned, visit, reports>>
      BY <1>2 DEF Browser!Visit, Browser!SyncWebChild, Browser!WithPage, Browser!Launched,
         Browser!NotLaunched, Browser!NewContext, Browser!Read,
                  Browser!CloseContext, Browser!Close, Browser!MenuRead
    <2>4. result' = result \/ \E r \in Browser!Ends \cup {NoKind} : result' = [result EXCEPT ![c] = r]
      <3>1. \A l \in Browser!Landings : Browser!Landed(l) \in Browser!Ends
        BY DEF Browser!Landings, Browser!Landed, Browser!Ends
      <3> QED BY <1>2, <3>1 DEF Browser!Visit, Browser!SyncWebChild, Browser!WithPage,
                 Browser!Launched, Browser!NotLaunched,
                  Browser!NewContext, Browser!Read, Browser!CloseContext, Browser!Close, Browser!MenuRead,
                    Browser!EndsAs, Browser!Ends
    <2>5. result' \in [Readers -> Browser!Ends \cup {NoKind}]
      BY <2>4 DEF Reporting
    <2> QED BY <2>1, <2>2, <2>3, <2>5, SameVisit
  <1>3. ASSUME NEW c \in Readers, Browser!NextPage(c) PROVE Reporting'
    <2> DEFINE last == visit[c] = Len(Browser!Plan(planned[c]))
          \/ (~Browser!Checks(c) /\ result[c] # "read")
               told == Append(reports[c], result[c])
    <2>1. /\ where[c] = "visited" /\ reports' = [reports EXCEPT ![c] = told]
          /\ result' = [result EXCEPT ![c] = NoKind] /\ planned' = planned
          /\ last => where' = [where EXCEPT ![c] = "done"] /\ visit' = visit
          /\ ~last => where' = [where EXCEPT ![c] = "enter"]
               /\ visit' = [visit EXCEPT ![c] = @ + 1]
      BY <1>3 DEF Browser!NextPage, Browser!Goto
    <2>2. /\ Told(c) /\ c \in Browser!Running /\ planned[c] \in PageKinds
               /\ reports[c] \in Seq(Browser!Ends \cup {NoKind})
          /\ result[c] \in Browser!Ends \cup {NoKind} /\ visit[c] \in Nat
      BY <2>1 DEF Reporting, Told, Browser!Running
    <2>3. /\ Len(reports[c]) = visit[c] - 1 /\ visit[c] <= Len(Browser!Plan(planned[c]))
          /\ Browser!Checks(c) \/ \A i \in 1 .. Len(reports[c]) : reports[c][i] = "read"
      BY <2>2 DEF Told
    <2>4. /\ told \in Seq(Browser!Ends \cup {NoKind}) /\ Len(told) = visit[c]
          /\ \A i \in 1 .. Len(reports[c]) : told[i] = reports[c][i]
          /\ told[Len(told)] = result[c]
      <3>1. /\ told \in Seq(Browser!Ends \cup {NoKind}) /\ Len(told) = Len(reports[c]) + 1
            /\ \A i \in 1 .. Len(reports[c]) : told[i] = reports[c][i]
            /\ told[Len(reports[c]) + 1] = result[c]
        BY <2>2, AppendProperties
      <3> QED BY <2>2, <2>3, <3>1
    <2>5. Len(Browser!Plan(planned[c])) \in Nat
      BY <2>2, PlanHasPages
    <2>6. Browser!Checks(c) \/ \A i \in 1 .. visit[c] : told[i] = "read" \/ i = visit[c]
      BY <2>2, <2>3, <2>4
    <2> HIDE DEF told
    <2>7. where' \in [Readers -> Browser!PCs] /\ visit' \in [Readers -> Nat]
      <3>1. visit \in [Readers -> Nat] /\ where \in [Readers -> Browser!PCs]
              /\ visit[c] + 1 \in Nat
        BY <2>2 DEF Reporting
      <3> HIDE DEF last
      <3>2. visit' \in [Readers -> Nat]
        BY <2>1, <3>1
      <3>3. where' = [where EXCEPT ![c] = "done"] \/ where' = [where EXCEPT ![c] = "enter"]
        BY <2>1
      <3> QED BY <3>1, <3>2, <3>3 DEF Browser!PCs
    <2>8. /\ reports' \in [Readers -> Seq(Browser!Ends \cup {NoKind})]
          /\ result' \in [Readers -> Browser!Ends \cup {NoKind}]
      BY <2>1, <2>4 DEF Reporting
    <2>9. reports'[c] = told
      BY <2>1 DEF Reporting
    <2>10. Told(c)'
      <3>1. CASE last
        <4>1. where'[c] = "done" /\ visit'[c] = visit[c] /\ c \notin Browser!Running'
          BY <2>1, <3>1 DEF Reporting, Browser!Running
        <4>2. Browser!Checks(c) => visit[c] = Len(Browser!Plan(planned[c]))
          BY <3>1
        <4> QED BY <2>1, <2>2, <2>4, <2>6, <2>9, <4>1, <4>2 DEF Told, Browser!Checks
      <3>2. CASE ~last
        <4>1. where'[c] = "enter" /\ visit'[c] = visit[c] + 1
          BY <2>1, <3>2 DEF Reporting
        <4>2. visit[c] # Len(Browser!Plan(planned[c]))
                /\ (Browser!Checks(c) \/ result[c] = "read")
          BY <3>2
        <4>3. Browser!Checks(c) \/ \A i \in 1 .. visit[c] : told[i] = "read"
          BY <2>4, <2>6, <4>2
        <4>4. visit[c] + 1 <= Len(Browser!Plan(planned[c])) /\ visit[c] + 1 \in Nat
                /\ visit[c] = (visit[c] + 1) - 1
          BY <2>2, <2>3, <2>5, <4>2
        <4> HIDE DEF last
        <4> QED BY <2>1, <2>2, <2>4, <2>9, <4>1, <4>3, <4>4 DEF Told, Browser!Checks
      <3> QED BY <3>1, <3>2
    <2>11. ASSUME NEW d \in Readers \ {c} PROVE Told(d)'
      <3>1. Told(d) /\ where'[d] = where[d] /\ visit'[d] = visit[d]
              /\ reports'[d] = reports[d]
        BY <2>1 DEF Reporting
      <3> HIDE DEF last
      <3> QED BY <2>1, <3>1 DEF Told, Browser!Running, Browser!Checks
    <2> HIDE DEF last
    <2> QED BY <2>1, <2>7, <2>8, <2>10, <2>11 DEF Reporting
  <1>4. ASSUME (\E c \in Readers : Browser!PageAsks(c)) \/ Browser!Logout
                 \/ UNCHANGED Browser!vars PROVE Reporting'
    <2>1. UNCHANGED <<planned, visit, where, result, reports>>
      BY <1>4 DEF Browser!PageAsks, Browser!Logout, Browser!vars
    <2> QED BY <2>1 DEF Reporting, Told, Browser!Running, Browser!Checks
  <1> QED BY <1>1, <1>2, <1>3, <1>4 DEF Browser!Next

\* A check of the pages reports every page of its plan once, and an operation
\* goes on to a page only after it has read the one before, however calls overlap
\* and whatever fails (verify.ts, browser-portal.ts).
THEOREM PagesAreAnsweredFor ==
    ASSUME Operations
    PROVE  Browser!Spec => []Browser!AnswersFromPages
  <1>1. Browser!Init => Reporting
    BY ReportingAtFirst
  <1>2. Reporting /\ [Browser!Next]_(Browser!vars) => Reporting'
    BY ReportingSteps
  <1>3. Reporting => Browser!AnswersFromPages
    BY DEF Reporting, Told, Browser!AnswersFromPages
  <1> QED BY <1>1, <1>2, <1>3, PTL DEF Browser!Spec
=============================================================================
