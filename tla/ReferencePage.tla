--------------------------- MODULE ReferencePage ---------------------------
(***************************************************************************)
(* The page the connector serves at /reference/ (http/reference/app.ts):   *)
(* one tab, its sessionStorage, the connector behind it.  Entry points are *)
(* the start of the page and its buttons; each read of a load is a thread  *)
(* of its own that shares the refresh under way.                           *)
(*                                                                         *)
(* A connection is a grant, and a token the pair <<grant, number>>.  A     *)
(* load knows that it is current by comparing numbers; here `stale' is the *)
(* result of that comparison.                                              *)
(***************************************************************************)
EXTENDS Integers, FiniteSets, Sequences

CONSTANTS
    Children,   \* the account's children
    Reads,      \* what a week is read from: schedule, lunch, calendar
    MaxLoads,   \* bound: loads alive at once
    MaxGrants,  \* bound: connections made
    MaxPairs,   \* bound: pairs a connection hands out before it runs out
    MaxOffset,  \* bound: weeks ahead of today's
    Faults      \* of "lost", "mixed"

NoChild == "none"
OtherChild == "another"   \* one the answer was not asked for

VARIABLES
    page,      \* "running", also "connecting", "leaving" for the consent page, "away" there
    saved,     \* sessionStorage: client, refresh token, pending sign-in
    access,    \* the access token in memory
    childId,   \* the child chosen, none before the first session
    offset,    \* the week shown, from today's
    screen,    \* what the parent sees
    request,   \* the one token request: refresh or code, and what it saved first
    load,      \* per load: where it is, whether it is stale, what it reads
    read,      \* per load and read: where its api() is
    revoking,  \* tokens on their way to the revocation endpoint
    grants,    \* at the connector: per connection, alive or not and newest pair
    spent,     \* refresh tokens whose successor has reached the page
    redeemed,  \* sign-ins whose answer was taken
    unsure     \* connections of which a token answer was lost

vars == <<page, saved, access, childId, offset, screen, request, load, read,
          revoking, grants, spent, redeemed, unsure>>

tokenVars == <<saved, access, request, grants, spent, unsure>>

Loads == 1 .. MaxLoads
NoToken == <<0, 0>>
Tokens == (1 .. MaxGrants) \X (1 .. MaxPairs)
Threads == Reads \cup {"session"}

NoRequest == [at |-> "idle", kind |-> "refresh", token |-> NoToken,
              before |-> [client |-> FALSE, refresh |-> NoToken, pending |-> 0],
              answer |-> "none"]
Quiet == [at |-> "none", used |-> NoToken, about |-> NoChild]
NoLoad == [at |-> "free", stale |-> FALSE, child |-> NoChild, offset |-> 0]
Says(kind) == [kind |-> kind, child |-> NoChild, offset |-> 0, shown |-> {}]

Saved == [client: BOOLEAN, refresh: Tokens \cup {NoToken}, pending: 0 .. MaxGrants]

TypeOK ==
    /\ page \in {"running", "connecting", "leaving", "away"}
    /\ saved \in Saved
    /\ access \in Tokens \cup {NoToken}
    /\ childId \in Children \cup {NoChild}
    /\ offset \in 0 .. MaxOffset
    /\ screen \in [kind: {"blank", "connect", "connecting", "loading", "message",
                          "week", "disconnected"},
                   child: Children \cup {NoChild}, offset: 0 .. MaxOffset,
                   shown: SUBSET (Children \cup {OtherChild})]
    /\ request \in [at: {"idle", "asked", "answered"}, kind: {"refresh", "code"},
                    token: Tokens \cup {NoToken} \cup (1 .. MaxGrants) \X {0},
                    before: Saved, answer: {"none", "pair", "refused"}]
    /\ load \in [Loads -> [at: {"free", "session", "reads"}, stale: BOOLEAN,
                           child: Children \cup {NoChild},
                           offset: 0 .. MaxOffset]]
    /\ read \in [Loads -> [Threads ->
          [at: {"none", "first", "getting", "again", "regetting",
                "ok", "problem", "unauthorized"},
           used: Tokens \cup {NoToken}, about: Children \cup {NoChild, OtherChild}]]]
    /\ revoking \subseteq Tokens
    /\ grants \in [1 .. MaxGrants -> [life: {"none", "asked", "live", "ended"},
                                      newest: 0 .. MaxPairs]]
    /\ spent \subseteq Tokens \cup (1 .. MaxGrants) \X {0}
    /\ redeemed \subseteq 1 .. MaxGrants
    /\ unsure \subseteq 1 .. MaxGrants

Init ==
    /\ page = "running"
    /\ saved = NoRequest.before
    /\ access = NoToken
    /\ childId = NoChild
    /\ offset = 0
    /\ screen = Says("connect")
    /\ request = NoRequest
    /\ load = [l \in Loads |-> NoLoad]
    /\ read = [l \in Loads |-> [t \in Threads |-> Quiet]]
    /\ revoking = {}
    /\ grants = [g \in 1 .. MaxGrants |-> [life |-> "none", newest |-> 0]]
    /\ spent = {}
    /\ redeemed = {}
    /\ unsure = {}

Honoured(t) == t # NoToken /\ grants[t[1]].life = "live"

-----------------------------------------------------------------------------
(* Tokens: tokenRequest() and refresh(). *)

Asks(kind, token) ==
    request' = [at |-> "asked", kind |-> kind, token |-> token,
                before |-> saved, answer |-> "none"]

CanRefresh == saved.refresh # NoToken /\ saved.client

ExchangeForever ==
    /\ request.at = "asked"
    /\ grants' = [grants EXCEPT ![request.token[1]].newest = @ + 1]
    /\ request' = [request EXCEPT !.at = "answered", !.answer = "pair"]
    /\ UNCHANGED <<page, saved, access, childId, offset, screen, load, read,
                   revoking, spent, redeemed, unsure>>

\* The connector: a code buys the first pair, the newest refresh token the
\* next one; an older one ends the connection, and so does its lifetime.
Exchange ==
    LET g == request.token[1]
        good == /\ grants[g].life = "live"
                /\ request.token[2] = grants[g].newest
                /\ grants[g].newest < MaxPairs
    IN /\ request.at = "asked"
       /\ grants' = IF good THEN [grants EXCEPT ![g].newest = @ + 1]
                            ELSE [grants EXCEPT ![g].life = "ended"]
       /\ request' = [request EXCEPT !.at = "answered",
                                     !.answer = IF good THEN "pair" ELSE "refused"]
       /\ UNCHANGED <<page, saved, access, childId, offset, screen, load, read,
                      revoking, spent, redeemed, unsure>>

Pair == <<request.token[1], request.token[2] + 1>>

\* Where api() goes once the refresh it waits for has settled.
Continued(r, token) ==
    CASE r.at = "first" -> [r EXCEPT !.at = "getting", !.used = token]
      [] r.at = "again" -> [r EXCEPT !.at = "regetting", !.used = token]
      [] OTHER -> r
Unauthorized == [Quiet EXCEPT !.at = "unauthorized"]
Denied(r) == IF r.at \in {"first", "again"} THEN Unauthorized ELSE r

Everywhere(Op(_)) == [l \in Loads |-> [t \in Threads |-> Op(read[l][t])]]

\* A slot for a load: the thread of a load that is no longer there goes on,
\* so its slot is taken only when all are quiet.
Free(l) ==
    /\ load[l].at = "free"
    /\ \A t \in Threads : read[l][t].at \in {"none", "ok", "problem", "unauthorized"}

\* A button or a page back from the consent page starts a load; which slot it
\* takes makes no difference.
Begins(l) ==
    /\ Free(l) /\ \A k \in 1 .. l - 1 : ~Free(k)
    /\ load' = [k \in Loads |->
                  IF k = l THEN [NoLoad EXCEPT !.at = "session"]
                  ELSE [load[k] EXCEPT !.stale = TRUE]]
    /\ screen' = Says("loading")

\* api() without an access token refreshes first; without a refresh token it
\* answers 401 itself.
Started(token) ==
    IF token # NoToken THEN [Quiet EXCEPT !.at = "getting", !.used = token]
    ELSE IF CanRefresh THEN [Quiet EXCEPT !.at = "first"]
    ELSE Unauthorized

RefreshIfNeeded(token) ==
    IF token = NoToken /\ CanRefresh /\ request.at = "idle"
    THEN Asks("refresh", saved.refresh)
    ELSE UNCHANGED request

\* Both write what storage held when the request left, with the change.
RefreshAnswer ==
    /\ request.at = "answered" /\ request.kind = "refresh"
    /\ \/ /\ request.answer = "pair"
          /\ access' = Pair
          /\ saved' = [request.before EXCEPT !.refresh = Pair]
          /\ spent' = spent \cup {request.token}
          /\ read' = Everywhere(LAMBDA r : Continued(r, Pair))
       \/ /\ request.answer = "refused"
          /\ access' = NoToken
          /\ saved' = [request.before EXCEPT !.refresh = NoToken]
          /\ read' = Everywhere(Denied)
          /\ UNCHANGED spent
    /\ request' = NoRequest
    /\ UNCHANGED <<page, childId, offset, screen, load, revoking, grants, redeemed,
                   unsure>>

Dropped(r) == IF r.at \in {"first", "again"} THEN Quiet ELSE r

\* No answer, or one that is neither a pair nor a refusal: everyone who waits
\* for it fails, and each load with one of them shows a message.
Waiting(l) == \E t \in Threads : read[l][t].at \in {"first", "again"}

TokenRequestFails ==
    /\ request.at \in {"asked", "answered"}
    /\ request.answer = "pair" => "lost" \in Faults
    /\ unsure' = IF request.answer = "pair" THEN unsure \cup {request.token[1]} ELSE unsure
    /\ screen' = IF request.kind = "code" \/ \E l \in Loads : Waiting(l) /\ load[l].at # "free"
                 THEN Says("message") ELSE screen
    /\ load' = [l \in Loads |-> IF Waiting(l) THEN NoLoad ELSE load[l]]
    /\ read' = Everywhere(Dropped)
    /\ request' = NoRequest
    /\ UNCHANGED <<page, saved, access, childId, offset, revoking, grants, spent,
                   redeemed>>

-----------------------------------------------------------------------------
(* A load: the session, then every read of the week at once. *)

Load(l) ==
    /\ Begins(l)
    /\ read' = [read EXCEPT ![l] = [t \in Threads |->
                    IF t = "session" THEN Started(access) ELSE Quiet]]
    /\ RefreshIfNeeded(access)

\* About whom the answer is; the section is asked for the load's child.
About(l, t) == IF t = "session" THEN {NoChild}
               ELSE {read[l][t].about} \cup {c \in {OtherChild} : "mixed" \in Faults}

\* Data for a token that is honoured, a problem for any.  A problem of one of
\* the week's reads is shown in its place and counts as its answer.
Got(l, t) ==
    /\ read[l][t].at \in {"getting", "regetting"}
    /\ \/ /\ Honoured(read[l][t].used)
          /\ \E c \in About(l, t) :
                read' = [read EXCEPT ![l][t] = [Quiet EXCEPT !.at = "ok", !.about = c]]
       \/ /\ t = "session"
          /\ read' = [read EXCEPT ![l][t] = [Quiet EXCEPT !.at = "problem"]]
    /\ UNCHANGED <<page, saved, access, childId, offset, screen, request, load,
                   revoking, grants, spent, redeemed, unsure>>

\* Refused once: unless another read has brought a new token, refresh.
Refused(l, t) ==
    /\ read[l][t].at = "getting"
    /\ IF access # read[l][t].used
       THEN /\ read' = [read EXCEPT ![l][t].at = "regetting", ![l][t].used = access]
            /\ UNCHANGED request
       ELSE IF CanRefresh
       THEN /\ read' = [read EXCEPT ![l][t].at = "again", ![l][t].used = NoToken]
            /\ IF request.at = "idle" THEN Asks("refresh", saved.refresh)
                                      ELSE UNCHANGED request
       ELSE /\ read' = [read EXCEPT ![l][t] = Unauthorized]
            /\ UNCHANGED request
    /\ UNCHANGED <<page, saved, access, childId, offset, screen, load, revoking,
                   grants, spent, redeemed, unsure>>

\* Any access token may have run out, so a first refusal needs no reason; the
\* second means that the connection is gone.
RefusedAgain(l, t) ==
    /\ read[l][t].at = "regetting"
    /\ ~Honoured(read[l][t].used)
    /\ read' = [read EXCEPT ![l][t] = Unauthorized]
    /\ UNCHANGED <<page, saved, access, childId, offset, screen, request, load,
                   revoking, grants, spent, redeemed, unsure>>

\* The network fails one read: the load rejects at once, the others go on.
ReadFails(l, t) ==
    /\ read[l][t].at \in {"getting", "regetting"}
    /\ read' = [read EXCEPT ![l][t] = Quiet]
    /\ IF load[l].at = "free" THEN UNCHANGED <<load, screen>>
       ELSE load' = [load EXCEPT ![l] = NoLoad] /\ screen' = Says("message")
    /\ UNCHANGED <<page, saved, access, childId, offset, request, revoking, grants,
                   spent, redeemed, unsure>>

Ends(l) ==
    /\ load' = [load EXCEPT ![l] = NoLoad]
    /\ read' = [read EXCEPT ![l] = [t \in Threads |-> Quiet]]

\* The session's answer; a load that is stale does nothing with it.
SessionStale(l) ==
    /\ load[l].at = "session" /\ load[l].stale
    /\ read[l]["session"].at \in {"ok", "problem", "unauthorized"}
    /\ Ends(l)
    /\ UNCHANGED <<page, childId, offset, screen, revoking, redeemed, tokenVars>>

SessionRefused(l) ==
    /\ load[l].at = "session" /\ ~load[l].stale
    /\ read[l]["session"].at = "unauthorized"
    /\ access' = NoToken
    /\ screen' = Says("connect")
    /\ Ends(l)
    /\ UNCHANGED <<page, saved, childId, offset, request, revoking, grants,
                   spent, redeemed, unsure>>

\* A problem, a connector that is not signed in, a portal that pushes back.
SessionUnready(l) ==
    /\ load[l].at = "session" /\ ~load[l].stale
    /\ read[l]["session"].at \in {"ok", "problem"}
    /\ screen' = Says("message")
    /\ Ends(l)
    /\ UNCHANGED <<page, childId, offset, revoking, redeemed, tokenVars>>

\* The session covers some of the children: the chosen one, or the first;
\* with no child left there is nothing to show.
SessionOk(l) ==
    /\ load[l].at = "session" /\ ~load[l].stale
    /\ read[l]["session"].at = "ok"
    /\ \E covered \in SUBSET Children :
       IF covered = {}
       THEN /\ access' = NoToken
            /\ screen' = Says("connect")
            /\ Ends(l)
            /\ UNCHANGED <<childId, request>>
       ELSE \E c \in covered :
            /\ childId \in covered => c = childId
            /\ childId' = c
            /\ load' = [load EXCEPT ![l] = [@ EXCEPT !.at = "reads", !.child = c,
                                                     !.offset = offset]]
            /\ read' = [read EXCEPT ![l] = [t \in Threads |->
                           IF t = "session" THEN Quiet
                           ELSE [Started(access) EXCEPT !.about = c]]]
            /\ RefreshIfNeeded(access)
            /\ UNCHANGED <<access, screen>>
    /\ UNCHANGED <<page, saved, offset, revoking, grants, spent, redeemed, unsure>>

Done(l) == \A t \in Reads : read[l][t].at \in {"ok", "problem", "unauthorized"}

\* section(): an answer that names another child is not shown.
Shown(l) == {read[l][t].about : t \in {u \in Reads : /\ read[l][u].at = "ok"
                                                     /\ read[l][u].about = load[l].child}}

WeekStale(l) ==
    /\ load[l].at = "reads" /\ load[l].stale /\ Done(l)
    /\ Ends(l)
    /\ UNCHANGED <<page, childId, offset, screen, revoking, redeemed, tokenVars>>

WeekRefused(l) ==
    /\ load[l].at = "reads" /\ ~load[l].stale /\ Done(l)
    /\ \E t \in Reads : read[l][t].at = "unauthorized"
    /\ access' = NoToken
    /\ screen' = Says("connect")
    /\ Ends(l)
    /\ UNCHANGED <<page, saved, childId, offset, request, revoking, grants,
                   spent, redeemed, unsure>>

WeekShown(l) ==
    /\ load[l].at = "reads" /\ ~load[l].stale /\ Done(l)
    /\ \A t \in Reads : read[l][t].at # "unauthorized"
    /\ screen' = [kind |-> "week", child |-> load[l].child,
                  offset |-> load[l].offset, shown |-> Shown(l)]
    /\ Ends(l)
    /\ UNCHANGED <<page, childId, offset, revoking, redeemed, tokenVars>>

-----------------------------------------------------------------------------
(* The buttons.  The listeners hang on the root and look at no screen: what *)
(* keeps presses apart is the number each load has.                         *)

Listening == page \in {"running", "connecting"}

Reload(l) ==
    /\ Listening
    /\ Load(l)
    /\ UNCHANGED <<page, saved, access, childId, offset, revoking, grants, spent,
                   redeemed, unsure>>

ChangeWeek(l) ==
    /\ Listening
    /\ offset' \in {offset - 1, offset + 1} \cap (0 .. MaxOffset)
    /\ Load(l)
    /\ UNCHANGED <<page, saved, access, childId, revoking, grants, spent, redeemed,
                   unsure>>

ChangeChild(l) ==
    /\ Listening
    /\ childId' \in Children
    /\ Load(l)
    /\ UNCHANGED <<page, saved, access, offset, revoking, grants, spent, redeemed,
                   unsure>>

\* The week stays on the screen until the connector has answered; without
\* anything to revoke the page says so at once.
Disconnect ==
    /\ Listening
    /\ saved' = NoRequest.before
    /\ childId' = NoChild
    /\ offset' = 0
    /\ load' = [l \in Loads |-> [load[l] EXCEPT !.stale = (load[l].at # "free")]]
    /\ IF CanRefresh
       THEN revoking' = revoking \cup {saved.refresh} /\ UNCHANGED <<access, screen>>
       ELSE access' = NoToken /\ screen' = Says("disconnected") /\ UNCHANGED revoking
    /\ UNCHANGED <<page, request, read, grants, spent, redeemed, unsure>>

\* Revoking any token of a connection ends it; without an answer the page
\* goes on all the same.
Disconnected(t) ==
    /\ t \in revoking
    /\ revoking' = revoking \ {t}
    /\ \/ grants' = [grants EXCEPT ![t[1]].life = "ended"] /\ UNCHANGED unsure
       \/ "lost" \in Faults /\ unsure' = unsure \cup {t[1]} /\ UNCHANGED grants
    /\ access' = NoToken
    /\ screen' = Says("disconnected")
    /\ UNCHANGED <<page, saved, childId, offset, request, load, read, spent, redeemed>>

\* Discovery and registration change nothing until they are done; then the
\* sign-in is saved and the page leaves.
Connect ==
    /\ page = "running"
    /\ page' = "connecting"
    /\ screen' = Says("connecting")
    /\ UNCHANGED <<childId, offset, load, read, revoking, redeemed, tokenVars>>

ConnectFails ==
    /\ page = "connecting"
    /\ access' = NoToken
    /\ page' = "running"
    /\ screen' = Says("connect")
    /\ UNCHANGED <<saved, childId, offset, request, load, read, revoking,
                   grants, spent, redeemed, unsure>>

Leave ==
    /\ page = "connecting"
    /\ \E g \in 1 .. MaxGrants :
          /\ grants[g].life = "none"
          /\ grants' = [grants EXCEPT ![g].life = "asked"]
          /\ saved' = [client |-> TRUE, refresh |-> NoToken, pending |-> g]
    /\ page' = "leaving"
    /\ UNCHANGED <<access, childId, offset, screen, request, load, read, revoking,
                   spent, redeemed, unsure>>

-----------------------------------------------------------------------------
(* The tab: memory goes with the document, sessionStorage stays. *)

Unloaded ==
    /\ access' = NoToken
    /\ childId' = NoChild
    /\ offset' = 0
    /\ revoking' = {}
    \* a revocation that was asked for may never have left
    /\ unsure' = unsure \cup {t[1] : t \in revoking}
                        \cup (IF request.at # "idle" THEN {request.token[1]} ELSE {})

LoadsEnd ==
    /\ load' = [l \in Loads |-> NoLoad]
    /\ read' = [l \in Loads |-> [t \in Threads |-> Quiet]]

Unload ==
    /\ page = "leaving"
    /\ page' = "away"
    /\ Unloaded
    /\ screen' = Says("blank")
    /\ request' = NoRequest
    /\ LoadsEnd
    /\ UNCHANGED <<saved, grants, spent, redeemed>>

\* What finishConnect() does with an answer that may carry a code.
FinishConnect(g, pending) ==
    /\ grants[g].life # "none" /\ page # "leaving"
    /\ page' = "running"
    /\ Unloaded
    /\ LoadsEnd
    /\ saved' = [saved EXCEPT !.pending = pending]
    /\ IF saved.pending = g /\ saved.client
       THEN /\ grants' = [grants EXCEPT ![g].life = IF @ = "asked" THEN "live" ELSE @]
            /\ redeemed' = redeemed \cup {g}
            /\ request' = [at |-> "asked", kind |-> "code", token |-> <<g, 0>>,
                           before |-> saved', answer |-> "none"]
            /\ screen' = Says("blank")
       ELSE /\ request' = NoRequest
            /\ screen' = Says("connect")
            /\ UNCHANGED <<grants, redeemed>>
    /\ UNCHANGED spent

\* The callback's address, opened by the consent page or again by the parent:
\* any answer uses up the pending sign-in.
StartConnected(g) == FinishConnect(g, 0)

\* The owner denied, or the answer has no code.
StartDenied ==
    /\ page = "away"
    /\ page' = "running"
    /\ saved' = [saved EXCEPT !.pending = 0]
    /\ screen' = Says("connect")
    /\ UNCHANGED <<access, childId, offset, request, load, read, revoking, grants,
                   spent, redeemed, unsure>>

\* The code's answer: a pair and the first load, or the connect button.
CodeAnswer(l) ==
    /\ request.at = "answered" /\ request.kind = "code"
    /\ request' = NoRequest
    /\ \/ /\ request.answer = "pair"
          /\ access' = Pair
          /\ saved' = [request.before EXCEPT !.refresh = Pair]
          /\ spent' = spent \cup {request.token}
          /\ Begins(l)
          /\ read' = [read EXCEPT ![l] = [t \in Threads |->
                         IF t = "session" THEN Started(Pair) ELSE Quiet]]
       \/ /\ request.answer = "refused"
          /\ access' = NoToken
          /\ saved' = [request.before EXCEPT !.refresh = NoToken]
          /\ screen' = Says("connect")
          /\ UNCHANGED <<spent, load, read>>
    /\ UNCHANGED <<page, childId, offset, revoking, grants, redeemed, unsure>>

\* The parent reloads the document, or opens the page again without an
\* answer: with a refresh token it loads, otherwise it offers to connect.
StartAnew ==
    /\ page # "leaving"
    /\ page' = "running"
    /\ Unloaded
    /\ load' = [k \in Loads |-> IF k = 1 /\ saved.refresh # NoToken
                                THEN [NoLoad EXCEPT !.at = "session"] ELSE NoLoad]
    /\ screen' = Says(IF saved.refresh # NoToken THEN "loading" ELSE "connect")
    /\ read' = [k \in Loads |-> [t \in Threads |->
                  IF k = 1 /\ t = "session" /\ saved.refresh # NoToken
                  THEN Started(NoToken) ELSE Quiet]]
    /\ IF saved.refresh # NoToken /\ saved.client
       THEN Asks("refresh", saved.refresh) ELSE request' = NoRequest
    /\ UNCHANGED <<saved, grants, spent, redeemed>>

\* The owner disconnects the page on the dashboard.
Revoke(g) ==
    /\ grants[g].life = "live"
    /\ grants' = [grants EXCEPT ![g].life = "ended"]
    /\ UNCHANGED <<page, saved, access, childId, offset, screen, request, load, read,
                   revoking, spent, redeemed, unsure>>

-----------------------------------------------------------------------------
Next ==
    \/ Exchange \/ RefreshAnswer \/ TokenRequestFails
    \/ \E l \in Loads, t \in Threads :
          \/ Got(l, t) \/ Refused(l, t) \/ RefusedAgain(l, t) \/ ReadFails(l, t)
    \/ \E l \in Loads :
          \/ SessionStale(l) \/ SessionRefused(l) \/ SessionUnready(l) \/ SessionOk(l)
          \/ WeekStale(l) \/ WeekRefused(l) \/ WeekShown(l)
          \/ Reload(l) \/ ChangeWeek(l) \/ ChangeChild(l)
          \/ CodeAnswer(l)
    \/ Disconnect \/ StartAnew
    \/ \E t \in Tokens : Disconnected(t)
    \/ Connect \/ ConnectFails \/ Leave \/ Unload \/ StartDenied
    \/ \E g \in 1 .. MaxGrants : StartConnected(g) \/ Revoke(g)

\* While something is on its way, the connector, the network and the browser
\* go on delivering.  Nothing is assumed of the parent.
Delivers ==
    \/ Exchange \/ RefreshAnswer \/ Unload
    \/ \E l \in Loads, t \in Threads :
          Got(l, t) \/ Refused(l, t) \/ RefusedAgain(l, t) \/ ReadFails(l, t)
    \/ \E l \in Loads :
          \/ SessionStale(l) \/ SessionRefused(l) \/ SessionUnready(l) \/ SessionOk(l)
          \/ WeekStale(l) \/ WeekRefused(l) \/ WeekShown(l) \/ CodeAnswer(l)
    \/ \E t \in Tokens : Disconnected(t)

Fairness == WF_vars(Delivers)

Spec == Init /\ [][Next]_vars /\ Fairness

-----------------------------------------------------------------------------
(* Properties. *)

\* The week on the screen is the week and child the parent chose last, and
\* everything in it is about that child: no late answer of an older load, and
\* no answer about another child, is rendered.  (After "Disconnect" the week
\* stays until the connector has answered.)
ShowsWhatWasChosen ==
    screen.kind = "week" =>
        /\ screen.shown \subseteq {screen.child}
        /\ childId # NoChild => screen.child = childId /\ screen.offset = offset

\* A refresh token or code whose successor has arrived is never presented
\* again ("a rotated token is never replayed").
NeverReplays ==
    request'.at = "asked" /\ request.at # "asked" => request'.token \notin spent

\* The answer to one sign-in is taken once: going back to the callback's
\* address, or opening it in this tab again, redeems no second code.
AnswerTakenOnce ==
    request'.kind = "code" /\ request'.at = "asked" /\ request.at = "idle"
       => request'.token[1] \notin redeemed

\* A connection the page still has is never lost to its own races: if no
\* answer was lost, sessionStorage holds the newest refresh token.
KeepsNewest ==
    /\ saved.refresh # NoToken
    /\ saved.refresh[1] \notin unsure
    /\ Honoured(saved.refresh)
    /\ request.at = "idle"
    => saved.refresh[2] = grants[saved.refresh[1]].newest

\* When the page says that it is disconnected and nothing is on its way, the
\* connector no longer honours the page, whatever refresh was under way,
\* unless it never heard of it.
DisconnectHolds ==
    screen.kind = "disconnected" /\ revoking = {} /\ request.at = "idle" =>
        \A g \in 1 .. MaxGrants : grants[g].life # "live" \/ grants[g].newest = 0 \/ g \in unsure

=============================================================================
