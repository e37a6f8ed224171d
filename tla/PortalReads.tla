---------------------------- MODULE PortalReads ----------------------------
(***************************************************************************)
(* Reads of a child's data, and the one write, through the portal objects  *)
(* of core/wiring.ts: cache over recovery over observer over composite,    *)
(* over the SchoolSoft backends.                                           *)
(*                                                                         *)
(* A portal's cookies are bound to one child, the child in focus; a        *)
(* request is about whoever the cookies it was sent with are bound to.     *)
(* The web login's session has a selection of its own, kept by the portal. *)
(*                                                                         *)
(* Two hosts build portals.  The MCP server over stdio builds one pair     *)
(* for the life of the process (shared/bootstrap.ts, loadContext) and runs *)
(* calls as they come.  The connector builds a pair for every turn of its  *)
(* queue, after the focus (http/runtime.ts).                               *)
(*                                                                         *)
(* An action is the code between two awaits.  The tokens of a session, its *)
(* lock and its store are in SessionManager, the waiting for a token of    *)
(* the budget in RequestBudget.                                            *)
(***************************************************************************)
EXTENDS Integers, Sequences, FiniteSets

CONSTANTS
    Callers,      \* calls of operations under way at once
    Children,
    Kinds,        \* week, calendar, page, report
    Hosts,        \* process: one portal for all; turn: one for each call
    Uses,         \* what the guardian does between calls: login, logout, webLogin
    Faults,       \* rejects, unavailable
    MaxEntries,   \* of the read cache
    MaxObjects    \* bound: session objects, numbered

NoChild == "no child"
NoCaller == "no caller"

VARIABLES
    host,         \* which of Hosts this process is
    portal,       \* the session object the process's portal was built with
    object,       \* SessionManager.session
    cookies,      \* per session object: the child its cookies are bound to
    focus,        \* the child in focus of the guardian context
    established,
    lock,         \* the call that restores the session
    saved,        \* the child in focus of the saved session, if there is one
    web,          \* the child the web login's session shows, if there is one
    cache,        \* the entries of the read cache
    used,         \* their keys, least recently used first
    epoch,        \* the calls whose reads began in the cache's present epoch
    call

session == <<object, cookies, focus, established, saved, web>>
memory == <<cache, used, epoch>>
vars == <<host, portal, session, lock, memory, call>>

MaybeChild == Children \cup {NoChild}
Cacheable == {"week", "calendar"}
Phases == {"idle", "ensure", "restoring", "focus", "exchange", "read", "sent",
           "header", "put", "visit", "again", "answered"}

Idle == [at |-> "idle", kind |-> "none", child |-> NoChild, aim |-> NoChild,
         fresh |-> FALSE, obj |-> 0, held |-> NoChild, scope |-> NoChild,
         left |-> 0, got |-> {}, tried |-> FALSE, sent |-> 0]

\* cacheKey(): the rest of the key does not change while a process runs.
Key(e) == <<e.child, e.kind>>

TypeOK ==
    /\ host \in Hosts
    /\ {portal, object} \subseteq 1 .. MaxObjects
    /\ cookies \in [1 .. MaxObjects -> MaybeChild]
    /\ {focus, saved, web} \subseteq MaybeChild
    /\ established \in BOOLEAN
    /\ lock \in Callers \cup {NoCaller}
    /\ epoch \subseteq Callers
    /\ cache \subseteq [child: Children, kind: Cacheable, about: SUBSET MaybeChild,
                       over: BOOLEAN, own: BOOLEAN]
    /\ Len(used) <= MaxEntries /\ Len(used) = Cardinality(cache)
    /\ {Key(e) : e \in cache} = {used[i] : i \in DOMAIN used}
    /\ call \in [Callers ->
         [at: Phases, kind: Kinds \cup {"none"}, child: MaybeChild, aim: MaybeChild,
          fresh: BOOLEAN, obj: 0 .. MaxObjects, held: MaybeChild, scope: MaybeChild,
          left: 0 .. 2, got: SUBSET MaybeChild,
          tried: BOOLEAN, sent: Nat]]

\* A process starts with nothing in memory; the stdio server has built its
\* portal, and with it the first session object.
Init ==
    /\ host \in Hosts
    /\ portal = 1
    /\ object = 1
    /\ cookies = [o \in 1 .. MaxObjects |-> NoChild]
    /\ focus = NoChild
    /\ established = FALSE
    /\ lock = NoCaller
    /\ saved \in Children
    /\ web \in MaybeChild
    /\ cache = {} /\ used = <<>>
    /\ epoch = {}
    /\ call = [c \in Callers |-> Idle]

Rests(c) == call[c].at \in {"idle", "answered"}

Goes(c, phase) == call' = [call EXCEPT ![c].at = phase]

\* The operation throws: the caller is told, and knows no more of the child.
Fails(c) == call' = [call EXCEPT ![c] = Idle]

-----------------------------------------------------------------------------
(* The read cache. *)

\* clear(), on every event of the session but a refresh and the web login's.
Cleared == cache' = {} /\ used' = <<>> /\ epoch' = {}

At(child, kind) == {e \in cache : Key(e) = <<child, kind>>}

\* The order of those whose keys are left.
Order(keys) == SelectSeq(used, LAMBDA k : k \in keys)

\* The session object the portal was built with is still the manager's.
PortalKept == host = "process" => portal = object

\* set(): what has expired goes, then the least recently used.  (History: `own' tells
\* whether the portal had the manager's object when the entry was kept.)
Stored(child, kind, about) ==
    LET others == {e \in cache : ~e.over /\ Key(e) # <<child, kind>>}
        order == Order({Key(e) : e \in others})
        first == IF Len(order) < MaxEntries THEN {} ELSE {order[1]}
        stays == {e \in others : Key(e) \notin first}
    IN  /\ cache' = stays \cup
              {[child |-> child, kind |-> kind, about |-> about, over |-> FALSE,
                own |-> PortalKept]}
        /\ used' = Append(Order({Key(e) : e \in stays}), <<child, kind>>)

\* An entry's time to live passes.
Expire ==
    \E e \in cache :
        /\ ~e.over
        /\ cache' = (cache \ {e}) \cup {[e EXCEPT !.over = TRUE]}
        /\ UNCHANGED <<host, portal, session, lock, used, epoch, call>>

-----------------------------------------------------------------------------
(* The session, as the calls use it. *)

Reset == object < MaxObjects /\ object' = object + 1 /\ established' = FALSE

\* The last number is kept for a restore that was overtaken.
RoomForAnother == object < MaxObjects - 1

\* Whose portal a call reads through.
PortalObject == IF host = "process" THEN portal ELSE object

\* cacheScope() and webChildTarget(): no child while there is no session.
Scope == IF established THEN focus ELSE NoChild

Start(c) ==
    /\ Rests(c)
    /\ host = "turn" => \A d \in Callers : Rests(d)
    /\ \E kind \in Kinds, child \in MaybeChild, fresh \in BOOLEAN :
         /\ fresh => kind \in Cacheable
         /\ kind = "report" => child # NoChild
         /\ call' = [call EXCEPT ![c] =
              [Idle EXCEPT !.at = "ensure", !.kind = kind, !.child = child,
                           !.fresh = fresh]]
    /\ UNCHANGED <<host, portal, session, lock, memory>>

\* withChild(): there is a session; a named child is focused.
Ensured(c) ==
    /\ call[c].at = "ensure"
    /\ established
    /\ IF call[c].child = NoChild
         THEN call' = [call EXCEPT ![c].at = "read", ![c].aim = focus]
         ELSE call' = [call EXCEPT ![c].at = "focus", ![c].aim = call[c].child,
                                   ![c].child = NoChild, ![c].obj = object]
    /\ UNCHANGED <<host, portal, session, lock, memory>>

\* ensureSession() when there is none: one restore at a time.
BeginRestore(c) ==
    /\ call[c].at \in {"ensure", "again"}
    /\ ~established /\ lock = NoCaller
    /\ saved # NoChild
    /\ lock' = c
    /\ call' = [call EXCEPT ![c].at = "restoring", ![c].obj = object, ![c].held = saved]
    /\ UNCHANGED <<host, portal, session, memory>>

NothingSaved(c) ==
    /\ call[c].at \in {"ensure", "again"}
    /\ ~established /\ lock = NoCaller
    /\ saved = NoChild
    /\ Fails(c)
    /\ UNCHANGED <<host, portal, session, lock, memory>>

\* Bound again to the child that was in focus.
Restored(c) ==
    /\ call[c].at = "restoring"
    /\ cookies' = [cookies EXCEPT ![call[c].obj] = call[c].held]
    /\ cookies'[object] # NoChild
    /\ focus' = call[c].held
    /\ saved' = call[c].held
    /\ established' = TRUE
    /\ lock' = NoCaller
    /\ call' = [call EXCEPT ![c].at = IF call[c].tried THEN "again" ELSE "ensure",
                            ![c].obj = 0, ![c].held = NoChild]
    /\ UNCHANGED <<host, portal, object, web, memory>>

\* A failure that says nothing about the saved session drops the live one.
RestoreUnavailable(c) ==
    /\ call[c].at = "restoring"
    /\ "unavailable" \in Faults /\ RoomForAnother
    /\ Reset
    /\ lock' = NoCaller
    /\ Fails(c)
    /\ UNCHANGED <<host, portal, cookies, focus, saved, web, memory>>

\* The saved session is gone; or somebody logged out meanwhile, and the
\* session that is verified is not the one that was restored.
RestoreRejected(c) ==
    /\ call[c].at = "restoring"
    /\ \/ "rejects" \in Faults /\ RoomForAnother
       \/ call[c].obj # object /\ cookies[object] = NoChild
    /\ Reset
    /\ saved' = NoChild
    /\ Cleared
    /\ lock' = NoCaller
    /\ Fails(c)
    /\ UNCHANGED <<host, portal, cookies, focus, web>>

\* focusChild() on the child in focus, and the exchange for another.
Focus(c) ==
    /\ call[c].at = "focus"
    /\ IF ~established THEN Fails(c)
       ELSE IF focus = call[c].aim
              THEN call' = [call EXCEPT ![c].at = "read", ![c].obj = 0]
              ELSE Goes(c, "exchange")
    /\ UNCHANGED <<host, portal, session, lock, memory>>

Exchanged(c) ==
    /\ call[c].at = "exchange"
    /\ cookies' = [cookies EXCEPT ![call[c].obj] = call[c].aim]
    /\ focus' = call[c].aim
    /\ saved' = call[c].aim
    /\ Cleared
    /\ IF established THEN call' = [call EXCEPT ![c].at = "read", ![c].obj = 0]
                      ELSE Fails(c)
    /\ UNCHANGED <<host, portal, object, established, web, lock>>

ExchangeFails(c) ==
    /\ call[c].at = "exchange"
    /\ {"rejects", "unavailable"} \cap Faults # {}
    /\ Fails(c)
    /\ UNCHANGED <<host, portal, session, lock, memory>>

Between == host = "turn" => \A c \in Callers : Rests(c)

\* A login replaces the session object and focuses the first child.
Login ==
    /\ "login" \in Uses /\ Between
    /\ RoomForAnother
    /\ object' = object + 1
    /\ \E child \in Children :
         /\ cookies' = [cookies EXCEPT ![object + 1] = child]
         /\ focus' = child
         /\ saved' = child
    /\ established' = TRUE
    /\ Cleared
    /\ UNCHANGED <<host, portal, web, lock, call>>

Logout ==
    /\ "logout" \in Uses /\ Between
    /\ saved # NoChild /\ RoomForAnother
    /\ Reset
    /\ saved' = NoChild
    /\ web' = NoChild
    /\ Cleared
    /\ UNCHANGED <<host, portal, cookies, focus, lock, call>>

\* The web login's session starts on a child of the portal's choice.
WebLogin ==
    /\ "webLogin" \in Uses
    /\ web = NoChild
    /\ web' \in Children
    /\ UNCHANGED <<host, portal, object, cookies, focus, established, saved, lock,
                   memory, call>>

-----------------------------------------------------------------------------
(* A capability: the cache, then the requests. *)

\* get(): a live copy, which becomes the most recently used.
Hit(c) ==
    /\ call[c].at = "read"
    /\ call[c].kind \in Cacheable /\ ~call[c].fresh
    /\ \E e \in At(Scope, call[c].kind) :
         /\ ~e.over
         /\ used' = Append(Order({Key(f) : f \in cache \ {e}}), Key(e))
         /\ call' = [call EXCEPT ![c] =
              [Idle EXCEPT !.at = "answered", !.aim = call[c].aim, !.got = e.about]]
    /\ UNCHANGED <<host, portal, session, lock, cache, epoch>>

\* An entry that is over is deleted by the lookup.
Missed(c) ==
    IF call[c].kind \in Cacheable /\ ~call[c].fresh
      THEN /\ \A e \in At(Scope, call[c].kind) : e.over
           /\ cache' = cache \ At(Scope, call[c].kind)
           /\ used' = Order({Key(e) : e \in cache'})
      ELSE UNCHANGED <<cache, used>>

\* The requests of one attempt: the calendar's are two, one after the other.
Requests(kind) == IF kind = "calendar" THEN 2 ELSE 1

\* The first request of an attempt leaves with the cookies of the moment; an
\* object that never had any is refused before it is sent.
Sends(c, attempt) ==
    LET cookie == cookies[attempt.obj]
    IN  IF cookie = NoChild THEN Fails(c)
        ELSE call' = [call EXCEPT ![c] =
               [attempt EXCEPT !.at = "sent", !.left = Requests(attempt.kind),
                               !.held = cookie, !.fresh = FALSE, !.got = {},
                               !.sent = IF attempt.kind = "report" THEN @ + 1 ELSE @]]

\* A page of the web login: its session is brought to the child in focus
\* first, by asking which child it shows.
Visits(c, attempt) ==
    IF web = NoChild THEN Fails(c)
    ELSE call' = [call EXCEPT ![c] =
           [attempt EXCEPT !.at = IF Scope = NoChild THEN "visit" ELSE "header",
                           !.held = Scope, !.got = {}]]

Attempts(c, attempt) ==
    IF attempt.kind = "page" THEN Visits(c, attempt) ELSE Sends(c, attempt)

\* The cached portal looks in the cache; what it does not find, it reads,
\* remembering for whom and in which epoch.
Read(c) ==
    /\ call[c].at = "read"
    /\ Missed(c)
    /\ Attempts(c, [call[c] EXCEPT !.obj = PortalObject,
                       !.scope = IF call[c].kind \in Cacheable THEN Scope ELSE NoChild])
    /\ epoch' = IF call[c].kind \in Cacheable THEN epoch \cup {c} ELSE epoch
    /\ UNCHANGED <<host, portal, session, lock>>

Answers(c, got) ==
    call' = [call EXCEPT ![c] =
        [Idle EXCEPT !.at = "answered", !.aim = call[c].aim, !.got = got,
                     !.sent = call[c].sent]]

\* Wrong: kept although the cache was cleared while it was read.
KeptAnyhow(c, got) ==
    IF call[c].scope # NoChild /\ call[c].scope = Scope
      THEN Stored(call[c].scope, call[c].kind, got)
      ELSE UNCHANGED <<cache, used>>

\* Kept only when nobody logged in or out and no child was switched meanwhile.
Kept(c, got) ==
    IF call[c].scope # NoChild /\ call[c].scope = Scope /\ c \in epoch
      THEN Stored(call[c].scope, call[c].kind, got)
      ELSE UNCHANGED <<cache, used>>

\* A request is answered, at the end of the redirects that were followed; the
\* next one leaves with the cookies of now.
Answered(c) ==
    /\ call[c].at = "sent"
    /\ LET got == call[c].got \cup {call[c].held}
       IN  IF call[c].left > 1
             THEN /\ call' = [call EXCEPT ![c].left = @ - 1, ![c].got = got,
                                          ![c].held = cookies[call[c].obj]]
                  /\ UNCHANGED <<cache, used>>
             ELSE Kept(c, got) /\ Answers(c, got)
    /\ epoch' = IF call[c].left > 1 THEN epoch ELSE epoch \ {c}
    /\ UNCHANGED <<host, portal, session, lock>>

\* A network failure, a 5xx, a refusal of the budget, one redirect too many,
\* for a write any redirect: nothing is retried.
Unavailable(c) ==
    /\ call[c].at \in {"sent", "header", "put", "visit"}
    /\ "unavailable" \in Faults
    /\ Fails(c)
    /\ UNCHANGED <<host, portal, session, lock, memory>>

-----------------------------------------------------------------------------
(* The web login's session. *)

\* Wrong: the page is read on whichever child the session shows.
HeaderAnsweredUnsynced(c) ==
    /\ call[c].at = "header"
    /\ Goes(c, "visit")
    /\ UNCHANGED <<host, portal, session, lock, memory>>

\* syncWebChild(): already there, or select the child.
HeaderAnswered(c) ==
    /\ call[c].at = "header"
    /\ Goes(c, IF web = call[c].held THEN "visit" ELSE "put")
    /\ UNCHANGED <<host, portal, session, lock, memory>>

ChildSelected(c) ==
    /\ call[c].at = "put"
    /\ IF web = NoChild THEN Fails(c) /\ UNCHANGED web
                        ELSE Goes(c, "visit") /\ web' = call[c].held
    /\ UNCHANGED <<host, portal, object, cookies, focus, established, saved, lock,
                   memory>>

Visited(c) ==
    /\ call[c].at = "visit"
    /\ IF web = NoChild THEN Fails(c) ELSE Answers(c, {web})
    /\ UNCHANGED <<host, portal, session, lock, memory>>

\* The selection or the page is refused: the web session is over.  It is
\* reported, which empties the cache, and is not recovered.
WebLost(c) ==
    /\ call[c].at \in {"put", "visit"}
    /\ "rejects" \in Faults
    /\ Fails(c)
    /\ Cleared
    /\ UNCHANGED <<host, portal, session, lock>>

-----------------------------------------------------------------------------
(* Recovery. *)

\* The first rejection drops the established session and restores it from
\* the store; the second one is the caller's.
Rejected(c) ==
    /\ call[c].at \in {"sent", "header"}
    /\ "rejects" \in Faults
    /\ IF call[c].tried
         THEN Fails(c) /\ UNCHANGED established
         ELSE /\ call' = [call EXCEPT ![c].at = "again", ![c].tried = TRUE,
                                      ![c].left = 0, ![c].got = {}]
              /\ established' = FALSE
    /\ UNCHANGED <<host, portal, object, cookies, focus, saved, web, lock, memory>>

\* Wrong: whatever was rejected is sent again.
RecoveredRepeating(c) ==
    /\ call[c].at = "again"
    /\ established
    /\ Attempts(c, [call[c] EXCEPT !.obj = PortalObject])
    /\ UNCHANGED <<host, portal, session, lock, memory>>

\* A read is repeated once; a write never.
Recovered(c) ==
    /\ call[c].at = "again"
    /\ established
    /\ IF call[c].kind = "report" THEN Fails(c)
                                  ELSE Attempts(c, [call[c] EXCEPT !.obj = PortalObject])
    /\ UNCHANGED <<host, portal, session, lock, memory>>

-----------------------------------------------------------------------------

Restore(c) ==
    \/ BeginRestore(c) \/ NothingSaved(c) \/ Restored(c)
    \/ RestoreUnavailable(c) \/ RestoreRejected(c)

Aim(c) == Ensured(c) \/ Focus(c) \/ Exchanged(c) \/ ExchangeFails(c)

Request(c) ==
    \/ Hit(c) \/ Read(c) \/ Answered(c) \/ Unavailable(c)
    \/ HeaderAnswered(c) \/ ChildSelected(c) \/ Visited(c) \/ WebLost(c)
    \/ Rejected(c) \/ Recovered(c)

Next ==
    \/ \E c \in Callers : Start(c) \/ Restore(c) \/ Aim(c) \/ Request(c)
    \/ Login \/ Logout \/ WebLogin \/ Expire

Spec == Init /\ [][Next]_vars

\* The portal and the network answer in the end; the budget lets requests by.
\* The fairness is strong because the lock is taken in the order it was asked
\* for, while here any caller may have it next.
Fairness == \A c \in Callers : SF_vars(Restore(c) \/ Aim(c) \/ Request(c))

FairSpec == Spec /\ Fairness

-----------------------------------------------------------------------------

\* What the cache holds under a child's key was read, to the last request of
\* it, while the cookies were bound to that child: a read that overlapped a
\* switch there and back is not kept (cached.ts, withReadCache).  So it is of
\* every entry on the connector, and on the stdio server of every entry that
\* was kept while the portal had the manager's session object, for as long as
\* it is served, after a reset too.  What is kept there later comes with
\* cookies that nobody binds any more.
CacheTellsTruth ==
    \A e \in cache : (e.own \/ host = "turn") => e.about = {e.child}

\* An absence report is sent at most once, whatever is rejected or
\* recovered (recovering.ts).
WrittenOnce == \A c \in Callers : call[c].sent <= 1

\* In a turn of the connector's queue the answer is about the child asked
\* about, across recoveries, cache hits and the web session's own selection.
AnswersTheChildAsked ==
    \A c \in Callers :
        (host = "turn" /\ call[c].at = "answered") => call[c].got = {call[c].aim}

\* A call ends, with an answer or an error: nobody is left waiting for the
\* lock.  (Only a portal that for ever rejects what it has just let in may keep
\* two callers at it, each undoing what the other restored.)
Rejections == \E c \in Callers : Rejected(c)
CallsEnd ==
    \/ \A c \in Callers : ~Rests(c) ~> Rests(c)
    \/ []<><<Rejections>>_vars

\* What wiring.ts says of the portals: "bound to the manager's live session".
ReadsWithTheLiveSession ==
    \A c \in Callers :
        (call[c].at = "sent" /\ established /\ ~call[c].tried) => call[c].obj = object
=============================================================================
