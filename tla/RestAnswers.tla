---------------------------- MODULE RestAnswers ----------------------------
(****************************************************************************)
(* One request to the connector's REST surface, from its arrival to its     *)
(* answer: the order of the refusals (http/rest.ts), what each failure of   *)
(* the runtime or of the portal becomes as a problem (http/problem.ts), and *)
(* which failures an overview keeps in a section (http/overview.ts).  While *)
(* the request waits, the connection may be revoked, the guardian signed    *)
(* out, and the portal may fail, push back or change its answers.           *)
(****************************************************************************)
EXTENDS Naturals, Sequences, FiniteSets, SequencesExt

CONSTANTS Sections,     \* the overview's operations, in order
          Limit,        \* REST_REQUESTS_PER_MINUTE
          Second,       \* clock ticks in a second
          MaxTime,      \* the clock stands still there (bound)
          MaxPause,     \* the longest push-back, in ticks (bound)
          MaxChanges,   \* changes of the world during a request (bound)
          None

Scopes == ToSet(Sections)

VARIABLES
  token,    \* "good" or "revoked"
  scopes,
  child,    \* the one asked for: "focused", "other" (in focus), "off" (not permitted)
  session,  \* "live", "stale" (the portal will reject it), "lapsed" (not established), "out"
  portal,   \* what the portal does with a request
  retryAt,  \* when the request budget lets requests flow again
  busy,     \* the queue is full, or the connector closes
  now, used, changes,
  pc, req, got, answer,
  reader,   \* what a session and a focus are wanted for, and whether the turn's portal
            \* reads with the manager's session object
  was       \* conditions of the world that held at some time since the request came

world == <<token, scopes, child, session, portal, retryAt, busy>>
vars == <<world, now, used, changes, pc, req, got, answer, reader, was>>

Portals == {"up", "down", "failing", "odd", "pushback", "drift", "rejects"}
Kinds == {"input", "not_authenticated", "not_available", "upstream", "network", "internal"}

-----------------------------------------------------------------------------
(* Errors (core/errors/index.ts), as far as they are told apart.            *)
Agent(kind, key, retryable) == [class |-> "agent", kind |-> kind, key |-> key,
                                retryable |-> retryable, at |-> 0]
NetworkError  == Agent("network", "network", TRUE)
UpstreamError(status) ==
  IF status \in {401, 403} THEN Agent("not_authenticated", "upstream_rejected", FALSE)
  ELSE Agent("upstream", "upstream", status >= 500)
PortalPushbackError(at) == [Agent("upstream", "portal_paused", TRUE)
                              EXCEPT !.class = "pushback", !.at = at]
ResponseDriftError    == Agent("upstream", "response_drift", FALSE)
InputError            == Agent("input", "input", FALSE)
NotAuthenticatedError == Agent("not_authenticated", "not_authenticated", FALSE)
Gated                 == Agent("not_authenticated", "portal_gated", FALSE)
NotOffered            == Agent("not_available", "capability_not_supported", FALSE)
Newer                 == Agent("not_available", "newer_state", FALSE)
InvalidTokenError     == [Agent("not_authenticated", "token", FALSE) EXCEPT !.class = "token"]
CookieExchangeFailed  == Agent("not_authenticated", "cookie_exchange_failed", FALSE)
TokenExchangeFailed   == Agent("not_authenticated", "token_exchange_failed", FALSE)
RejectedTwice         == Agent("not_authenticated", "session_rejected_twice", FALSE)
ConnectorRefusedError(reason) == [Agent("input", reason, reason # "child")
                                    EXCEPT !.class = "refused"]
Fault                 == [Agent("internal", "fault", FALSE) EXCEPT !.class = "bug"]

isTransient(e) == e.kind = "network" \/ (e.kind = "upstream" /\ e.retryable)
keepsSession(e) == isTransient(e) \/ e.key = "response_drift"

WEB_SESSION_KEYS == {"web_login_required", "web_session_lost", "portal_gated"}
NOT_OFFERED_KEYS == {"capability_not_supported", "browser_required", "web_login_unavailable"}

\* Wrong: the key that says more than the kind is not looked at.
ClassifyByKind(e) ==
  CASE e.class = "token"    -> "oauth-token"
    [] e.class = "refused"  -> IF e.key = "child" THEN "child-not-permitted" ELSE "connector-busy"
    [] e.class = "bug"      -> "internal"
    [] OTHER ->
      CASE e.kind = "input"     -> "invalid-input"
        [] e.kind = "not_authenticated" -> "schoolsoft-session"
        [] e.kind = "not_available"     -> "not-available"
        [] e.kind = "network"   -> "network"
        [] OTHER                -> "upstream"

\* The problem an error from the runtime, the OAuth provider or the core amounts to.
classify(e) ==
  CASE e.class = "token"    -> "oauth-token"
    [] e.class = "refused"  -> IF e.key = "child" THEN "child-not-permitted" ELSE "connector-busy"
    [] e.class = "pushback" -> "portal-pushback"
    [] e.class = "bug"      -> "internal"
    [] OTHER ->
      CASE e.kind = "input"     -> "invalid-input"
        [] e.kind = "not_authenticated" ->
             IF e.key \in WEB_SESSION_KEYS THEN "web-session" ELSE "schoolsoft-session"
        [] e.kind = "not_available" ->
             IF e.key \in NOT_OFFERED_KEYS THEN "not-implemented" ELSE "not-available"
        [] e.kind = "upstream"  -> IF e.key = "response_drift" THEN "response-drift" ELSE "upstream"
        [] OTHER                -> "network"

status(name) ==
  CASE name = "ok" -> 200                [] name = "invalid-input" -> 400
    [] name \in {"oauth-token", "sdk"} -> 401
    [] name \in {"scope-not-granted", "child-not-permitted", "foreign-origin"} -> 403
    [] name = "not-found" -> 404
    [] name \in {"schoolsoft-session", "web-session"} -> 409
    [] name = "rate-limited" -> 429      [] name = "internal" -> 500
    [] name = "not-implemented" -> 501
    [] name \in {"response-drift", "upstream"} -> 502
    [] name \in {"connector-busy", "portal-pushback", "not-available"} -> 503
    [] OTHER -> 504

\* Seconds to wait, rounded up, at least one.
retryAfterSeconds(at, t) == IF at <= t THEN 1 ELSE ((at - t) + Second - 1) \div Second

\* problemBody() and the headers send() sets.
problemBody(name, e) ==
  [name |-> name, retryable |-> e.retryable, dashboard |-> name \in {"schoolsoft-session", "web-session"},
   sections |-> << >>, at |-> e.at,
   retryAfter |-> IF name = "connector-busy" THEN 1
                  ELSE IF e.class = "pushback" THEN retryAfterSeconds(e.at, now) ELSE 0]

SECTION_PROBLEMS == {"response-drift", "upstream", "network", "portal-pushback",
                     "not-implemented", "not-available", "web-session", "internal"}
keptInSection(e) == classify(e) \in SECTION_PROBLEMS

-----------------------------------------------------------------------------
Requests == [kind : Scopes \cup {"overview", "elsewhere"}, good : BOOLEAN, foreign : BOOLEAN]
Stages == <<"limit", "token", "origin", "scope", "input", "grant", "turn", "profile",
            "cookies", "alive", "focus", "section", "read", "recover", "again", "verify">>
InTurn == {"profile", "cookies", "alive", "focus", "section", "read", "recover", "again"}
Nothing == [kind |-> None, good |-> TRUE, foreign |-> FALSE]

TypeOK ==
  /\ token \in {"good", "revoked"} /\ scopes \subseteq Scopes
  /\ child \in {"focused", "other", "off"}
  /\ session \in {"live", "stale", "lapsed", "out"} /\ portal \in Portals
  /\ now \in 0 .. MaxTime /\ used \in 0 .. Limit /\ retryAt \in 0 .. MaxTime + MaxPause
  /\ pc \in ToSet(Stages) \cup {"idle"}
  /\ Len(got) <= Len(Sections)
  /\ pc \in InTurn => req.kind \in Scopes \cup {"overview"}
  /\ pc \in {"read", "again"} => session \in {"live", "stale"} /\ child # "other"
  /\ reader \in [for : {"turn", "section", "recovery"}, ours : BOOLEAN]
  /\ answer # None => status(answer.name) \in {200} \cup 400 .. 504

\* What a told refusal must rest on: no session (or one rejected just after it was
\* restored), or no connection.
Holds(t, s, p) == {c \in {"signed-out", "revoked"} :
                     \/ c = "signed-out" /\ (s = "out" \/ p = "rejects")
                     \/ c = "revoked" /\ t = "revoked"}

Init ==
  /\ token = "good" /\ scopes \in SUBSET Scopes /\ child \in {"focused", "other", "off"}
  /\ session \in {"live", "stale", "lapsed", "out"} /\ portal = "up" /\ retryAt = 0 /\ busy = FALSE
  /\ now = 0 /\ used \in {0, Limit} /\ changes = 0
  /\ pc = "idle" /\ req = Nothing /\ got = << >> /\ answer = None /\ was = {}
  /\ reader = [for |-> "turn", ours |-> TRUE]

Send(a) == pc' = "idle" /\ answer' = a /\ got' = << >>
Refuse(name) == Send(problemBody(name, InputError))
Fail(e) == Send(problemBody(classify(e), e))
Pass(next) == pc' = next /\ UNCHANGED <<got, answer>>
Same == UNCHANGED <<token, scopes, child, portal, retryAt, busy, now, changes, req, reader>>

Arrives ==
  /\ pc = "idle" /\ answer = None
  /\ req' \in Requests
  /\ pc' = "limit" /\ was' = Holds(token, session, portal)
  /\ UNCHANGED <<world, now, used, changes, got, answer, reader>>

RateLimit ==
  /\ pc = "limit"
  /\ IF used = Limit THEN Refuse("rate-limited") /\ UNCHANGED used
     ELSE Pass("token") /\ used' = used + 1
  /\ Same /\ UNCHANGED <<session, was>>

\* requireBearerAuth answers for itself; then another site's page, then the route.
BearerAuth ==
  /\ pc = "token"
  /\ IF token = "good" THEN Pass("origin") ELSE Refuse("sdk")
  /\ Same /\ UNCHANGED <<session, used, was>>

OriginChecked ==
  /\ pc = "origin"
  /\ IF req.foreign THEN Refuse("foreign-origin")
     ELSE IF req.kind = "elsewhere" THEN Refuse("not-found") ELSE Pass("scope")
  /\ Same /\ UNCHANGED <<session, used, was>>

Granted == SelectSeq(Sections, LAMBDA s : s \in scopes)

ScopeChecked ==
  /\ pc = "scope"
  /\ IF (IF req.kind = "overview" THEN Granted # << >> ELSE req.kind \in scopes)
       THEN Pass("input") ELSE Refuse("scope-not-granted")
  /\ Same /\ UNCHANGED <<session, used, was>>

parseQuery ==
  /\ pc = "input"
  /\ IF req.good THEN Pass("grant") ELSE Fail(InputError)
  /\ Same /\ UNCHANGED <<session, used, was>>

\* verifyGrant(), and the turn the runtime gives: too many wait, or the child is not permitted.
Grant ==
  /\ pc = "grant"
  /\ IF token # "good" THEN Fail(InvalidTokenError)
     ELSE IF busy THEN Fail(ConnectorRefusedError("unavailable")) ELSE Pass("turn")
  /\ Same /\ UNCHANGED <<session, used, was>>

\* What a request to the portal comes to, unless the budget holds it back.
Answered ==
  IF now < retryAt THEN {PortalPushbackError(retryAt)}
  ELSE CASE portal = "down"     -> {NetworkError}
         [] portal = "failing"  -> {UpstreamError(500)}
         [] portal = "odd"      -> {UpstreamError(404), Fault}
         [] portal = "pushback" -> {PortalPushbackError(now + p) : p \in 1 .. MaxPause}
         [] portal = "drift"    -> {ResponseDriftError}
         [] portal = "rejects"  -> {UpstreamError(401)}
         [] OTHER               -> {None}

Paused(e) == retryAt' = IF e # None /\ e.class = "pushback" THEN e.at ELSE retryAt

\* The exchange does not look at the status: what brings no cookies is a failed login.
Exchanged ==
  LET unread(e) == e \notin {NetworkError, None} /\ e.class # "pushback"
  IN  {IF unread(e) THEN CookieExchangeFailed ELSE e : e \in Answered}
        \cup IF now >= retryAt /\ portal \in {"odd", "drift"} THEN {None} ELSE {}

Todo == IF req.kind = "overview" THEN Granted ELSE <<req.kind>>

Seen == was' = was \cup Holds(token', session', portal')
Told(c) == was' = was \cup Holds(token', session', portal') \cup c

Rest == UNCHANGED <<token, scopes, portal, busy, now, changes, req, used>>

\* A section keeps a failure of its own; any other fails the whole request.
ReadFails(e) ==
  IF req.kind = "overview" /\ keptInSection(e)
    THEN pc' = "section" /\ got' = Append(got, classify(e)) /\ UNCHANGED answer
  ELSE Fail(e)

ReadIs(e) == IF e = None THEN pc' = "section" /\ got' = Append(got, "ok") /\ UNCHANGED answer
             ELSE ReadFails(e)

\* A restore or a switch fails: before the reads nothing keeps it.
Ends(e) == IF reader.for = "turn" THEN Fail(e) ELSE ReadFails(e)

\* ensureSession(): reuse the session, or restore the saved one.
Ensures(for) ==
  /\ IF session = "out" THEN Fail(NotAuthenticatedError)
     ELSE Pass(IF session = "lapsed" THEN "profile" ELSE "focus")
  /\ reader' = [reader EXCEPT !.for = for]

\* The turn begins with consent, and a child that was never permitted is refused first.
Turn ==
  /\ pc = "turn"
  /\ \/ token # "good" /\ Fail(InvalidTokenError) /\ UNCHANGED reader
     \/ token = "good" /\ child = "off" /\ Fail(ConnectorRefusedError("child")) /\ UNCHANGED reader
     \/ token = "good" /\ Ensures("turn")
  /\ UNCHANGED <<child, session, retryAt>> /\ Rest /\ Seen

(* restoreSaved() ends with e.  One that speaks of the session costs the saved one;  *)
(* any other keeps it, and only the object goes that the turn's portal reads with.   *)
Unrestored(e) ==
  /\ IF keepsSession(e) THEN Ends(e) /\ UNCHANGED session
     ELSE Ends(NotAuthenticatedError) /\ session' = "out"
  /\ reader' = [reader EXCEPT !.ours = FALSE]
  /\ Told({"unrestored"})

\* Refreshed tokens, where they are due, and the guardian's profile.
Profile ==
  /\ pc = "profile" /\ Rest /\ UNCHANGED child
  /\ \E e \in Answered \cup {t \in {TokenExchangeFailed} : now >= retryAt /\ portal = "drift"} :
       /\ Paused(e)
       /\ IF e = None THEN Pass("cookies") /\ UNCHANGED <<session, reader>> /\ Seen
          ELSE Unrestored(e)

Cookies ==
  /\ pc = "cookies" /\ Rest /\ UNCHANGED child
  /\ \E e \in Exchanged :
       /\ Paused(e)
       /\ IF e = None THEN Pass("alive") /\ UNCHANGED <<session, reader>> /\ Seen
          ELSE Unrestored(e)

\* verify() looks at the status, and is outside the try: its failures come as they are.
Alive ==
  /\ pc = "alive" /\ Rest /\ UNCHANGED child
  /\ \E e \in Answered :
       /\ Paused(e)
       /\ IF e = None \/ e = ResponseDriftError
            THEN Pass("focus") /\ session' = "live" /\ UNCHANGED reader /\ Seen
          ELSE IF isTransient(e)
            THEN Ends(e) /\ UNCHANGED <<session, reader>> /\ Told({"unrestored"})
          ELSE Unrestored(NotAuthenticatedError)

Focused ==
  /\ pc' = CASE reader.for = "turn" -> "section" [] reader.for = "section" -> "read"
             [] OTHER -> "again"
  /\ reader' = IF reader.for = "turn" THEN [reader EXCEPT !.ours = TRUE] ELSE reader
  /\ UNCHANGED <<got, answer>>

\* What stands before the switch: the permitted children (permitted()), consent and the
\* child (validateChild()); only the latter's own child (childOf()) once the turn reads.
Unfit ==
  IF reader.for = "section" THEN IF child = "off" THEN InputError ELSE None
  ELSE IF token # "good" /\ (reader.for = "recovery" \/ child # "off") THEN InvalidTokenError
  ELSE IF child = "off" THEN ConnectorRefusedError("child") ELSE None

\* focusChild(): one exchange if another child is in focus.
Focus ==
  /\ pc = "focus" /\ Rest
  /\ \/ /\ Unfit # None
        /\ Fail(Unfit) /\ UNCHANGED <<child, session, retryAt, reader>> /\ Seen
     \/ /\ Unfit = None /\ child = "focused"
        /\ Focused /\ UNCHANGED <<child, session, retryAt>> /\ Seen
     \/ /\ Unfit = None /\ child = "other"
        /\ \E e \in Exchanged \cup {t \in {CookieExchangeFailed} : session = "stale"} :
             /\ Paused(e)
             /\ IF e = None THEN child' = "focused" /\ session' \in {session, "live"} /\ Focused
                ELSE Ends(e) /\ UNCHANGED <<child, session, reader>>
             /\ Told({c \in {"unexchanged"} : e = CookieExchangeFailed})

\* Each section of an overview begins as an operation does: withChild().
Section ==
  /\ pc = "section" /\ Len(got) < Len(Todo)
  /\ Ensures("section")
  /\ UNCHANGED <<child, session, retryAt>> /\ Rest /\ Seen

\* What a request made with the session comes to; one made with an object the manager
\* has let go of may be rejected whatever the session is.
ReadAnswered ==
  LET rejected == IF now >= retryAt THEN {UpstreamError(401)} ELSE {}
      own      == IF portal = "odd" /\ now >= retryAt THEN {Gated, NotOffered, Newer} ELSE {}
  IN  IF session = "stale" /\ portal \in {"up", "odd", "drift"} /\ now >= retryAt THEN rejected
      ELSE Answered \cup own \cup IF reader.ours THEN {} ELSE rejected

\* Consent is checked before each request, and a rejected one is recovered from once.
Read ==
  /\ pc = "read"
  /\ IF token # "good" THEN ReadFails(InvalidTokenError) /\ UNCHANGED retryAt
     ELSE \E e \in ReadAnswered :
            /\ Paused(e)
            /\ IF e = UpstreamError(401) THEN Pass("recover") ELSE ReadIs(e)
  /\ UNCHANGED <<child, session, reader>> /\ Rest /\ Seen

\* Consent, then reauthenticate(): the session is forgotten and the saved one restored.
Recover ==
  /\ pc = "recover"
  /\ IF token # "good" THEN ReadFails(InvalidTokenError) /\ UNCHANGED <<session, reader>>
     ELSE IF session = "out" THEN ReadFails(NotAuthenticatedError) /\ UNCHANGED <<session, reader>>
     ELSE Pass("profile") /\ session' = "lapsed" /\ reader' = [reader EXCEPT !.for = "recovery"]
  /\ UNCHANGED <<child, retryAt>> /\ Rest /\ Seen

Again ==
  /\ pc = "again"
  /\ IF token # "good" THEN ReadFails(InvalidTokenError) /\ UNCHANGED retryAt
     ELSE \E e \in ReadAnswered :
            /\ Paused(e)
            /\ ReadIs(IF e = UpstreamError(401) THEN RejectedTwice ELSE e)
  /\ UNCHANGED <<child, session, reader>> /\ Rest /\ Seen

\* validateFocus() on what was read: consent, the session, the child and its focus.
ReadAll ==
  /\ pc = "section" /\ Len(got) = Len(Todo)
  /\ IF token # "good" THEN Fail(InvalidTokenError)
     ELSE IF session \in {"lapsed", "out"} THEN Fail(NotAuthenticatedError)
     ELSE IF child = "off" THEN Fail(ConnectorRefusedError("child"))
     ELSE IF child = "other" THEN Fail(ConnectorRefusedError("child_changed"))
     ELSE Pass("verify")
  /\ Same /\ UNCHANGED <<session, used, was>>

\* The grant once more, then the answer.
Verified ==
  /\ pc = "verify"
  /\ IF token # "good" THEN Fail(InvalidTokenError)
     ELSE Send([problemBody("ok", InputError) EXCEPT !.sections = got])
  /\ Same /\ UNCHANGED <<session, used, was>>

-----------------------------------------------------------------------------
(* The world, at any time.  A turn keeps out the guardian's own logins and logouts, *)
(* so in one only another process ends the saved session or chooses its child, and  *)
(* that is noticed when it is read from the store.                                  *)
FromStore ==
  pc \notin InTurn \ {"recover"} \/ (session = "lapsed" /\ pc = "section")

Changes ==
  /\ changes < MaxChanges /\ pc # "idle"
  /\ changes' = changes + 1
  /\ \/ token' = "revoked" /\ UNCHANGED <<session, child, portal, busy>>
     \/ session = "live" /\ session' = "stale" /\ UNCHANGED <<token, child, portal, busy>>
     \/ FromStore /\ session' = "out" /\ UNCHANGED <<token, child, portal, busy>>
     \/ FromStore /\ child' \in {"other", "off"} /\ UNCHANGED <<token, session, portal, busy>>
     \/ portal' \in Portals /\ UNCHANGED <<token, session, child, busy>>
     \/ busy' = ~busy /\ UNCHANGED <<token, session, child, portal>>
  /\ UNCHANGED <<scopes, retryAt, now, used, pc, req, got, answer, reader>>
  /\ Told({c \in {"signed-out"} : session' # session /\ pc \in {"focus", "again"}
                                    /\ reader.for = "recovery"})

Tick ==
  /\ now < MaxTime /\ now' = now + 1
  /\ UNCHANGED <<world, used, changes, pc, req, got, answer, reader, was>>

Next == \/ Arrives \/ RateLimit \/ BearerAuth \/ OriginChecked \/ ScopeChecked \/ parseQuery
        \/ Grant \/ Turn \/ Profile \/ Cookies \/ Alive \/ Focus \/ Section \/ Read
        \/ Recover \/ Again \/ ReadAll \/ Verified \/ Changes \/ Tick

Spec == Init /\ [][Next]_vars

-----------------------------------------------------------------------------
(* A UI is sent to connect again only when the connection was revoked, and   *)
(* the guardian to sign in again only when the session was gone or rejected, *)
(* at some time while the request was under way (problem.ts:28-33,55-60,     *)
(* 98-103).  Two failures of the portal are told so all the same: a cookie   *)
(* exchange answered without cookies, a 5xx included (session-exchange.ts:   *)
(* 89-102), and, in an overview, a restore that a section kept as its own    *)
(* failure and validateFocus() then finds undone (runtime.ts:323).           *)
SignInOnlyWhenLost ==
  (pc = "idle" /\ answer # None) =>
    /\ answer.name = "schoolsoft-session" =>
         \/ {"signed-out", "unexchanged"} \cap was # {}
         \/ req.kind = "overview" /\ "unrestored" \in was
    /\ answer.name \in {"oauth-token", "sdk"} => "revoked" \in was

(* An outage costs no sign-in: a restore loses the saved session only to an  *)
(* answer of the portal, never while the network fails or requests are held  *)
(* back, and to a rejection or an unknown answer, except that a 5xx on the   *)
(* cookie exchange, a token endpoint that answers without a token and an     *)
(* exchange that brings no cookies count as rejections (core/errors/         *)
(* index.ts:193-210, architecture.md:209, session-exchange.ts:89-102).       *)
OutageKeepsSession ==
  (session = "lapsed" /\ session' = "out" /\ changes' = changes) =>
    /\ now >= retryAt
    /\ \/ portal \in {"rejects", "odd"}
       \/ portal = "failing" /\ pc = "cookies"
       \/ portal = "drift" /\ pc \in {"profile", "cookies"}

(* An overview that is served has an entry for each section the connection *)
(* grants, and none of them hides that the token, the child or the session *)
(* was refused (overview.ts:53-69).                                        *)
OverviewIsWhole ==
  (answer # None /\ answer.name = "ok") =>
    /\ Len(answer.sections) = Len(Todo)
    /\ ToSet(answer.sections) \subseteq SECTION_PROBLEMS \cup {"ok"}
    /\ req.kind # "overview" => answer.sections = <<"ok">>

(* Retry-After is never too short: who waits that long is not refused by  *)
(* the same push-back (problem.ts:260-263), and such an answer says when. *)
RetryAfterIsEnough ==
  (pc # "idle" /\ pc' = "idle" /\ answer'.at > 0) =>
    /\ answer'.retryable /\ answer'.name = "portal-pushback"
    /\ now + answer'.retryAfter * Second >= answer'.at

=============================================================================
