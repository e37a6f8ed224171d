------------------------------ MODULE Connector ------------------------------
(***************************************************************************)
(* The parent's connector: ConnectorRuntime (http/runtime.ts) under the    *)
(* routes that use it (http/server.ts, http/rest.ts, http/overview.ts).    *)
(*                                                                         *)
(* One session, one queue.  A login, a read, a status, a keepalive tick    *)
(* and a logout each take a turn; only the first of the queue runs.  What  *)
(* does not wait for a turn is a revocation, the cancelling of a login,    *)
(* the parent's return from BankID, a client that hangs up and the end of  *)
(* the process.                                                            *)
(*                                                                         *)
(* An answer of the portal is a set of pairs <<guardian, child>>: whose    *)
(* session it was read with and whom it is about.  The tokens of a session *)
(* are in SessionManager, the issue of grants in ConnectorOAuth; here a    *)
(* session lives or is lost, a grant is asked for, live or over.           *)
(***************************************************************************)
EXTENDS Integers, FiniteSets, Sequences

CONSTANTS
    Guardians,   \* those who may complete a BankID login
    Family,      \* per guardian: the children of the account
    Grants,
    Requests,    \* requests the routes serve at once
    Kinds,       \* what they ask: list, read, overview, session, approve
    Sections,    \* what an overview reads, one after the other
    Limit,       \* requests the runtime admits at once
    Uses,        \* what the owner and the host do: login, logout, close, tick
    MaxLogins,   \* bound: logins begun, numbered
    Faults       \* rejects, unavailable, crash, leaves

NoOne == "none"
NoChild == "no child"
Children == UNION {Family[p] : p \in Guardians}
Counted == {"list", "read", "overview"}

ASSUME ConnectorAssumption ==
    /\ IsFiniteSet(Guardians) /\ NoOne \notin Guardians
    /\ Grants # {}
    /\ \A p \in Guardians : IsFiniteSet(Family[p]) /\ Family[p] # {}
    /\ NoChild \notin Children
    /\ IsFiniteSet(Requests) /\ Requests \cap {"login", "logout", "tick", "close"} = {}
    /\ Kinds \subseteq Counted \cup {"session", "approve"}
    /\ {Sections, Limit} \subseteq Nat \ {0}
    /\ MaxLogins \in Nat
    /\ Uses \subseteq {"login", "logout", "close", "tick"}
    /\ Faults \subseteq {"rejects", "unavailable", "crash", "leaves"}

VARIABLES
    saved,        \* the session on disk: whose, the child in focus, its login
    pin,          \* identity.enc: the guardian this connector belongs to
    live,         \* the manager's session: whose, its children, its focus
    established,
    login,        \* ConnectorRuntime.pending and where its login is
    queue,        \* ConnectorRuntime.queue
    closed,
    outstanding,
    request,      \* per request: where it is and what it has read
    grant,        \* per grant: its life and the children it may read
    ended         \* logins that were cancelled, have failed or were disconnected

session == <<saved, live, established>>
vars == <<saved, pin, live, established, login, queue, closed,
          outstanding, request, grant, ended>>

NoSession == [who |-> NoOne, focus |-> NoChild, by |-> 0]
Nobody == [who |-> NoOne, kids |-> {}, focus |-> NoChild]
Idle == [at |-> "idle", kind |-> "list", grant |-> CHOOSE g \in Grants : TRUE,
         child |-> NoChild, allowed |-> {}, aborted |-> FALSE,
         bound |-> "none", left |-> 0, retried |-> FALSE, data |-> {}]

Running == {"restore", "permit", "focus", "read", "portal", "recover", "refocus"}

TypeOK ==
    /\ saved \in [who: Guardians \cup {NoOne}, focus: Children \cup {NoChild},
                  by: 0 .. MaxLogins]
    /\ pin \in Guardians \cup {NoOne}
    /\ live \in [who: Guardians \cup {NoOne}, kids: SUBSET Children,
                 focus: Children \cup {NoChild}]
    /\ established \in BOOLEAN
    /\ login \in [at: {"none", "queued", "user", "tokens", "establish", "done", "failed"},
                  cancelled: BOOLEAN, number: 0 .. MaxLogins]
    /\ \A i \in 1 .. Len(queue) :
          queue[i] \in Requests \cup {"login", "logout", "tick", "close"}
    /\ closed \in BOOLEAN
    /\ outstanding \in 0 .. Limit
    /\ request \in [Requests ->
          [at: {"idle", "waiting", "verify", "answered"} \cup Running,
           kind: {"list", "read", "overview", "session", "approve"}, grant: Grants,
           child: Children \cup {NoChild}, allowed: SUBSET Children, aborted: BOOLEAN,
           bound: {"none", "live", "dropped"}, left: 0 .. Sections, retried: BOOLEAN,
           data: SUBSET (Guardians \X Children)]]
    /\ grant \in [Grants -> [life: {"none", "asked", "live", "over"},
                             children: SUBSET Children]]
    /\ ended \subseteq 0 .. MaxLogins

\* The process starts new, or with its guardian's session and one app.
Init ==
    /\ \/ /\ pin = NoOne
          /\ saved = NoSession
          /\ grant = [g \in Grants |-> [life |-> "none", children |-> {}]]
       \/ /\ pin \in Guardians
          /\ \E c \in Family[pin], g \in Grants, some \in SUBSET Family[pin] \ {{}} :
               /\ saved = [who |-> pin, focus |-> c, by |-> 0]
               /\ grant = [h \in Grants |->
                     IF h = g THEN [life |-> "live", children |-> some]
                              ELSE [life |-> "none", children |-> {}]]
    /\ live = Nobody
    /\ established = FALSE
    /\ login = [at |-> "none", cancelled |-> FALSE, number |-> 0]
    /\ queue = <<>>
    /\ closed = FALSE
    /\ outstanding = 0
    /\ request = [r \in Requests |-> Idle]
    /\ ended = {}

-----------------------------------------------------------------------------
(* The manager's session, as far as the runtime sees it. *)

\* SessionManager.reset()
Reset == live' = Nobody /\ established' = FALSE

\* SessionManager.logout(), and a session the portal has rejected
Forget == saved' = NoSession /\ Reset

\* establish(): the account as the portal shows it now.  The child in focus
\* before stays in focus while it is on the account.
Establish(who, before, by) ==
    \E kids \in (IF "leaves" \in Faults THEN SUBSET Family[who] \ {{}} ELSE {Family[who]}) :
      \E c \in kids :
        /\ before \in kids => c = before
        /\ live' = [who |-> who, kids |-> kids, focus |-> c]
        /\ saved' = [who |-> who, focus |-> c, by |-> by]
        /\ established' = TRUE

\* Wrong: whoever logs in is the guardian.
SameGuardianUnchecked == live.who \in Guardians
\* checkIdentity() pins the first guardian and refuses any other.
SameGuardian == pin \in {NoOne, live.who}
Pinned == pin' = IF pin = NoOne THEN live.who ELSE pin

-----------------------------------------------------------------------------
(* The queue: serialized(). *)

Turn(t) == queue # <<>> /\ Head(queue) = t

Takes(t) == queue' = Append(queue, t)
Leaves == queue' = Tail(queue)

-----------------------------------------------------------------------------
(* Logins. *)

BeginLogin ==
    /\ "login" \in Uses
    /\ ~closed
    /\ login.at = "none"
    /\ login.number < MaxLogins
    /\ login' = [at |-> "queued", cancelled |-> FALSE, number |-> login.number + 1]
    /\ Takes("login")
    /\ UNCHANGED <<session, pin, closed, outstanding, request, grant, ended>>

\* Wrong: the login is marked, but who waits for the parent is not told.
CancelLoginUntold ==
    IF login.at = "none" \/ login.cancelled
      THEN UNCHANGED login
      ELSE login' = [login EXCEPT !.cancelled = TRUE]

\* cancelLogin()
CancelLogin ==
    IF login.at = "none" \/ login.cancelled
      THEN UNCHANGED login
      ELSE login' = [login EXCEPT !.cancelled = TRUE,
                                  !.at = IF @ = "user" THEN "failed" ELSE @]

\* login() forgets the live session and publishes the URL: authorize().
LoginStarts ==
    /\ Turn("login")
    /\ login.at = "queued"
    /\ IF login.cancelled
         THEN login' = [login EXCEPT !.at = "failed"] /\ UNCHANGED session
         ELSE login' = [login EXCEPT !.at = "user"] /\ Reset /\ UNCHANGED saved
    /\ UNCHANGED <<pin, queue, closed, outstanding, request, grant, ended>>

\* The timer, or a parent who returns after the deadline.
LoginExpires ==
    /\ login.at = "user"
    /\ CancelLogin
    /\ ended' = ended \cup {login.number}
    /\ UNCHANGED <<session, pin, queue, closed, outstanding, request, grant>>

\* callback(): the parent returns in time, once.
Callback ==
    /\ ~closed
    /\ login.at = "user" /\ ~login.cancelled
    /\ login' = [login EXCEPT !.at = "tokens"]
    /\ UNCHANGED <<session, pin, queue, closed, outstanding, request, grant, ended>>

\* exchangeCode(): tokens, or not.
CodeExchanged ==
    /\ login.at = "tokens"
    /\ \E to \in {"establish", "failed"} : login' = [login EXCEPT !.at = to]
    /\ UNCHANGED <<session, pin, queue, closed, outstanding, request, grant, ended>>

\* runLogin() keeps the session of whoever has signed in ...
LoginEstablishes ==
    /\ login.at = "establish"
    /\ \E who \in Guardians : Establish(who, NoChild, login.number)
    /\ login' = [login EXCEPT !.at = "done"]
    /\ UNCHANGED <<pin, queue, closed, outstanding, request, grant, ended>>

\* ... and the tokens alone if the rest of the login fails.
LoginKeepsTokens ==
    /\ login.at = "establish"
    /\ \E who \in Guardians :
         saved' = [who |-> who, focus |-> NoChild, by |-> login.number]
    /\ login' = [login EXCEPT !.at = "failed"]
    /\ UNCHANGED <<live, established, pin, queue, closed, outstanding,
                   request, grant, ended>>

\* The end of beginLogin()'s turn.
LoginSucceeds ==
    /\ login.at = "done"
    /\ ~login.cancelled
    /\ SameGuardian
    /\ Pinned
    /\ login' = [login EXCEPT !.at = "none"]
    /\ Leaves
    /\ UNCHANGED <<session, closed, outstanding, request, grant, ended>>

\* Wrong: a login that failed leaves what it had stored.
LoginRefusedUnforgotten ==
    /\ login.at = "failed"
    /\ login' = [login EXCEPT !.at = "none", !.cancelled = FALSE]
    /\ ended' = ended \cup {login.number}
    /\ Leaves
    /\ UNCHANGED <<session, pin, closed, outstanding, request, grant>>

LoginRefused ==
    /\ \/ login.at = "failed"
       \/ login.at = "done" /\ (login.cancelled \/ ~SameGuardian)
    /\ Forget
    /\ login' = [login EXCEPT !.at = "none", !.cancelled = FALSE]
    /\ ended' = ended \cup {login.number}
    /\ Leaves
    /\ UNCHANGED <<pin, closed, outstanding, request, grant>>

-----------------------------------------------------------------------------
(* Disconnect everything, the end of the connector, keepalive. *)

\* POST /owner/schoolsoft/logout: revokeAll(), then logout() waits its turn.
Disconnect ==
    /\ "logout" \in Uses
    /\ ~closed
    /\ "logout" \notin {queue[i] : i \in 1 .. Len(queue)}
    /\ grant' = [g \in Grants |-> IF grant[g].life = "none" THEN grant[g]
                                  ELSE [grant[g] EXCEPT !.life = "over"]]
    /\ CancelLogin
    /\ ended' = ended \cup 0 .. login.number
    /\ Takes("logout")
    /\ UNCHANGED <<session, pin, closed, outstanding, request>>

LogoutRuns ==
    /\ Turn("logout")
    /\ Forget
    /\ Leaves
    /\ UNCHANGED <<pin, login, closed, outstanding, request, grant, ended>>

\* The server takes no more connections, and the runtime ends.
Close ==
    /\ "close" \in Uses
    /\ ~closed
    /\ closed' = TRUE
    /\ CancelLogin
    /\ ended' = IF login.at = "none" THEN ended ELSE ended \cup {login.number}
    /\ Takes("close")
    /\ UNCHANGED <<session, pin, outstanding, request, grant>>

\* close() resolves and the process ends, or it is killed before that: the
\* host starts it again with what is on disk.
Restart ==
    /\ \/ Turn("close")
       \/ "crash" \in Faults
    /\ Reset
    /\ login' = [login EXCEPT !.at = "none", !.cancelled = FALSE]
    /\ queue' = <<>>
    /\ closed' = FALSE
    /\ outstanding' = 0
    /\ request' = [r \in Requests |-> Idle]
    /\ ended' = ended \ {saved.by}   \* what was asked of the old process
    /\ UNCHANGED <<saved, pin, grant>>

\* A keepalive run: it may find that the portal has ended the session.
KeepaliveTick ==
    /\ "tick" \in Uses
    /\ ~closed
    /\ "tick" \notin {queue[i] : i \in 1 .. Len(queue)}
    /\ Takes("tick")
    /\ UNCHANGED <<session, pin, login, closed, outstanding, request, grant, ended>>

TickRuns ==
    /\ Turn("tick")
    /\ \/ UNCHANGED session
       \/ ~closed /\ "rejects" \in Faults /\ Forget
    /\ Leaves
    /\ UNCHANGED <<pin, login, closed, outstanding, request, grant, ended>>

-----------------------------------------------------------------------------
(* Requests: verifyGrant(), then execute(), executeForChild() or status(). *)

rest == <<pin, login, closed, grant, ended>>

Live(g) == grant[g].life = "live"
Step(r, to) == request' = [request EXCEPT ![r].at = to]

\* checker(): the connector is open, the client there, its grant alive.
Check(r) == ~closed /\ ~request[r].aborted /\ Live(request[r].grant)

\* validateChild() and validateFocus()
ValidChild(r) ==
    /\ Check(r)
    /\ established /\ SameGuardian
    /\ request[r].child \in request[r].allowed \cap live.kids
ValidFocus(r) == ValidChild(r) /\ live.focus = request[r].child

\* Wrong: one too many.
RoomForOneMore == outstanding <= Limit
\* admitted() counts a request from its arrival until it settles.
Room == outstanding < Limit
Settled(r) ==
    IF request[r].kind \in Counted THEN outstanding' = outstanding - 1
                                   ELSE UNCHANGED outstanding

\* The turn ends with an error: nothing that was read leaves the runtime.
Fail(r) ==
    /\ request' = [request EXCEPT ![r] = Idle]
    /\ Settled(r)
    /\ Leaves

\* The children a request of this kind may name.
Nameable(kind) ==
    CASE kind \in {"overview", "approve"} -> Children
      [] kind = "read" -> Children \cup {NoChild}
      [] OTHER -> {NoChild}

\* A request as it arrives, with what its grant allows or is to allow.
Arriving(kind, g, child) ==
    [Idle EXCEPT !.at = "waiting", !.kind = kind, !.grant = g, !.child = child,
                 !.allowed = IF kind = "approve" THEN {child} ELSE grant[g].children,
                 !.left = IF kind = "overview" THEN Sections ELSE 1]

Request(r) ==
    /\ ~closed
    /\ request[r].at \in {"idle", "answered"}
    /\ \E kind \in Kinds, g \in Grants : \E child \in Nameable(kind) :
         /\ IF kind = "approve" THEN grant[g].life = "asked" ELSE Live(g)
         /\ kind \in {"session", "approve"} => login.at = "none"
         /\ kind \in Counted => Room
         /\ outstanding' = IF kind \in Counted THEN outstanding + 1 ELSE outstanding
         /\ request' = [request EXCEPT ![r] = Arriving(kind, g, child)]
    /\ Takes(r)
    /\ UNCHANGED <<session, rest>>

\* The client hangs up.
Abort(r) ==
    /\ request[r].at \in Running \cup {"waiting"}
    /\ request[r].kind \in Counted
    /\ ~request[r].aborted
    /\ request' = [request EXCEPT ![r].aborted = TRUE]
    /\ UNCHANGED <<session, queue, outstanding, rest>>

\* Its turn: the check, and a named child outside the grant is refused
\* before the session is restored.
Begin(r) ==
    /\ Turn(r)
    /\ request[r].at = "waiting"
    /\ IF request[r].kind \in Counted THEN Check(r) ELSE ~closed
    /\ request[r].child \in request[r].allowed \cup {NoChild}
    /\ Step(r, "restore")
    /\ UNCHANGED <<session, queue, outstanding, rest>>

\* ensureSession()
Restored(r) ==
    /\ Turn(r)
    /\ request[r].at = "restore"
    /\ \/ established /\ UNCHANGED session
       \/ ~established /\ saved.who # NoOne /\ Establish(saved.who, saved.focus, saved.by)
    /\ Step(r, "permit")
    /\ UNCHANGED <<queue, outstanding, rest>>

\* permitted(): the children the grant may read.
Permitted(r) == live.kids \cap request[r].allowed
Chosen(r) == IF request[r].child = NoChild THEN live.focus ELSE request[r].child

Permit(r) ==
    /\ Turn(r)
    /\ request[r].at = "permit"
    /\ SameGuardian
    /\ Pinned
    /\ CASE request[r].kind \in {"read", "overview"} ->
                 /\ Chosen(r) \in Permitted(r)
                 /\ Check(r)
                 /\ request' = [request EXCEPT ![r].at = "focus", ![r].child = Chosen(r)]
                 /\ UNCHANGED <<queue, outstanding>>
         [] request[r].kind = "list" ->
                 /\ Permitted(r) # {}
                 /\ Check(r)
                 /\ request' = [request EXCEPT ![r].at = "verify",
                                               ![r].data = {live.who} \X Permitted(r)]
                 /\ Settled(r) /\ Leaves
         [] OTHER ->
                 /\ request' = [request EXCEPT ![r].at = "verify",
                                               ![r].data = {live.who} \X live.kids]
                 /\ Settled(r) /\ Leaves
    /\ UNCHANGED <<session, login, closed, grant, ended>>

\* focusChild(), then createPortals() binds to the session object it finds.
Focus(r) ==
    /\ Turn(r)
    /\ request[r].at = "focus"
    /\ request[r].child \in live.kids
    /\ live' = [live EXCEPT !.focus = request[r].child]
    /\ saved' = IF live.focus = request[r].child THEN saved
                ELSE [saved EXCEPT !.who = live.who, !.focus = request[r].child]
    /\ request' = [request EXCEPT ![r].at = "read",
                                  ![r].bound = IF @ = "none" THEN "live" ELSE @]
    /\ UNCHANGED <<established, queue, outstanding, rest>>

\* A section's read goes out under the guards; withChild() has restored the
\* session and the focus before, if the section ahead has lost them.
Send(r) ==
    /\ Turn(r)
    /\ request[r].at = "read"
    /\ \/ ~established /\ Step(r, "restore")
       \/ established /\ live.focus # request[r].child /\ Step(r, "focus")
       \/ ValidFocus(r) /\ Step(r, "portal")
    /\ UNCHANGED <<session, queue, outstanding, rest>>

\* The session object a request is bound to keeps its cookies when the
\* manager drops it: they are still those of the child it had in focus.
Read(r) == IF request[r].bound = "live" THEN <<live.who, live.focus>>
                                        ELSE <<pin, request[r].child>>

\* The section is done: the next one, or the end of the turn.
Advance(r, data) ==
    IF request[r].left > 1
      THEN /\ request' = [request EXCEPT ![r].at = "read", ![r].left = @ - 1,
                                         ![r].retried = FALSE, ![r].data = @ \cup data]
           /\ UNCHANGED <<queue, outstanding>>
      ELSE /\ ValidFocus(r)
           /\ request' = [request EXCEPT ![r].at = "verify", ![r].left = 0,
                                         ![r].data = @ \cup data]
           /\ Settled(r) /\ Leaves

Answered(r) ==
    /\ Turn(r)
    /\ request[r].at = "portal"
    /\ ValidFocus(r)
    /\ Advance(r, {Read(r)})
    /\ UNCHANGED <<session, rest>>

\* keptInSection(): an overview goes on after a failed section.
SectionFails(r) ==
    /\ Turn(r)
    /\ request[r].kind = "overview"
    /\ "unavailable" \in Faults
    /\ request[r].at \in {"portal", "refocus"}
    /\ Advance(r, {})
    /\ UNCHANGED <<session, rest>>

\* 401: withSessionRecovery() checks, then restores the session once.
Rejected(r) ==
    /\ Turn(r)
    /\ request[r].at = "portal"
    /\ "rejects" \in Faults
    /\ ~request[r].retried
    /\ Check(r)
    /\ Reset
    /\ request' = [request EXCEPT ![r].at = "recover", ![r].retried = TRUE]
    /\ UNCHANGED <<saved, queue, outstanding, rest>>

Recovered(r) ==
    /\ Turn(r)
    /\ request[r].at = "recover"
    /\ saved.who # NoOne
    /\ Establish(saved.who, saved.focus, saved.by)
    /\ Step(r, "refocus")
    /\ UNCHANGED <<queue, outstanding, rest>>

\* A restore that fails for the moment drops the session object.  For an
\* overview that is one section that failed.
SectionUnrestored(r) ==
    /\ Turn(r)
    /\ request[r].at = "recover"
    /\ "unavailable" \in Faults
    /\ request[r].kind = "overview" /\ request[r].left > 1
    /\ Reset
    /\ request' = [request EXCEPT ![r].at = "read", ![r].left = @ - 1,
                                  ![r].retried = FALSE, ![r].bound = "dropped"]
    /\ UNCHANGED <<saved, queue, outstanding, rest>>

\* afterRecovery: the child again, before anything is read again.
Refocus(r) ==
    /\ Turn(r)
    /\ request[r].at = "refocus"
    /\ ValidChild(r)
    /\ live' = [live EXCEPT !.focus = request[r].child]
    /\ saved' = [saved EXCEPT !.focus = request[r].child]
    /\ Step(r, "portal")
    /\ UNCHANGED <<established, queue, outstanding, rest>>

-----------------------------------------------------------------------------
(* Refusals and answers. *)

\* checkIdentity() refuses: the stranger's session is forgotten.
Stranger(r) ==
    /\ Turn(r)
    /\ \/ request[r].at = "permit"
       \/ request[r].at = "refocus" /\ Check(r)
    /\ ~SameGuardian
    /\ Forget
    /\ Fail(r)
    /\ UNCHANGED <<pin, login, closed, grant, ended>>

Reads(r) == request[r].kind \in {"read", "overview"}

\* Why a turn ends early while the session stays as it is.
Refusal(r) ==
    CASE request[r].at = "waiting" ->
           IF request[r].kind \in Counted
             THEN ~Check(r) \/ request[r].child \notin request[r].allowed \cup {NoChild}
             ELSE closed
      [] request[r].at = "permit" ->
           /\ SameGuardian
           /\ \/ request[r].kind \in Counted /\ (~Check(r) \/ Permitted(r) = {})
              \/ Reads(r) /\ Chosen(r) \notin Permitted(r)
      [] request[r].at = "focus" ->     \* the portal refuses the exchange
           live.focus # request[r].child /\ Faults \cap {"rejects", "unavailable"} # {}
      [] request[r].at = "read" ->
           /\ established
           /\ \/ request[r].child \notin live.kids
              \/ live.focus = request[r].child /\ ~ValidFocus(r)
      [] request[r].at = "portal" ->
           \/ ~ValidFocus(r)
           \/ request[r].kind = "read" /\ "unavailable" \in Faults
           \/ request[r].retried /\ "rejects" \in Faults
      [] request[r].at = "refocus" ->
           /\ ~Check(r) \/ SameGuardian
           /\ \/ ~ValidChild(r)
              \/ /\ request[r].kind = "read" /\ live.focus # request[r].child
                 /\ "unavailable" \in Faults
      [] OTHER -> FALSE

Refused(r) ==
    /\ Turn(r)
    /\ r \in Requests /\ Refusal(r)
    /\ Fail(r)
    /\ UNCHANGED <<session, rest>>

\* A restore that does not succeed: none saved, not now, or never again.
Unrestored(r) ==
    /\ Turn(r)
    /\ request[r].at \in {"restore", "recover"}
    /\ ~established
    /\ \/ saved.who = NoOne /\ UNCHANGED session
       \/ /\ "unavailable" \in Faults
          /\ ~(request[r].kind = "overview" /\ request[r].at = "recover"
               /\ request[r].left > 1)
          /\ Reset /\ UNCHANGED saved
       \/ "rejects" \in Faults /\ Forget
    /\ Fail(r)
    /\ UNCHANGED rest

\* Wrong: the grant was there when the request came.
AnswerUnverified(r) ==
    /\ request[r].at = "verify"
    /\ request[r].kind # "approve"
    /\ request' = [request EXCEPT ![r] = [Idle EXCEPT !.at = "answered"]]
    /\ UNCHANGED <<session, queue, outstanding, rest>>

\* The route's last word: the grant again, then the answer.
Answer(r) ==
    /\ request[r].at = "verify"
    /\ request[r].kind # "approve"
    /\ Live(request[r].grant)
    /\ request' = [request EXCEPT ![r] = [Idle EXCEPT !.at = "answered"]]
    /\ UNCHANGED <<session, queue, outstanding, rest>>

\* The owner approves children the account has now, of a consent that was
\* asked for and is not over.
Approvable(r) ==
    /\ grant[request[r].grant].life = "asked"
    /\ \E p \in Guardians : {p} \X request[r].allowed \subseteq request[r].data

Approve(r) ==
    /\ request[r].at = "verify"
    /\ request[r].kind = "approve"
    /\ Approvable(r)
    /\ grant' = [grant EXCEPT ![request[r].grant] =
                   [life |-> "live", children |-> request[r].allowed]]
    /\ request' = [request EXCEPT ![r] = Idle]
    /\ UNCHANGED <<session, pin, login, queue, closed, outstanding, ended>>

Withheld(r) ==
    /\ request[r].at = "verify"
    /\ IF request[r].kind = "approve" THEN ~Approvable(r) ELSE ~Live(request[r].grant)
    /\ request' = [request EXCEPT ![r] = Idle]
    /\ UNCHANGED <<session, queue, outstanding, rest>>

\* An app asks for consent.
Ask(g) ==
    /\ "approve" \in Kinds
    /\ ~closed
    /\ grant[g].life = "none"
    /\ grant' = [grant EXCEPT ![g].life = "asked"]
    /\ UNCHANGED <<session, pin, login, queue, closed, outstanding,
                   request, ended>>

\* The owner or the app revokes one grant, at any moment.
Revoke(g) ==
    /\ Live(g)
    /\ ~closed
    /\ grant' = [grant EXCEPT ![g].life = "over"]
    /\ UNCHANGED <<session, pin, login, queue, closed, outstanding,
                   request, ended>>

-----------------------------------------------------------------------------

LoginTurn ==
    \/ LoginStarts \/ LoginExpires \/ CodeExchanged \/ LoginEstablishes
    \/ LoginKeepsTokens \/ LoginSucceeds \/ LoginRefused

Turns(r) ==
    \/ Begin(r) \/ Restored(r) \/ Permit(r) \/ Focus(r) \/ Send(r)
    \/ Answered(r) \/ SectionFails(r) \/ Rejected(r) \/ Recovered(r)
    \/ SectionUnrestored(r) \/ Refocus(r) \/ Stranger(r) \/ Refused(r)
    \/ Unrestored(r)

Ends(r) == Answer(r) \/ Withheld(r) \/ Approve(r)

Next ==
    \/ BeginLogin \/ Callback \/ LoginTurn
    \/ Disconnect \/ LogoutRuns \/ Close \/ Restart
    \/ KeepaliveTick \/ TickRuns
    \/ \E r \in Requests : Request(r) \/ Abort(r) \/ Turns(r) \/ Ends(r)
    \/ \E g \in Grants : Ask(g) \/ Revoke(g)

\* Whatever has the turn goes on: the portal answers or the budget gives up,
\* a login ends at the latest with its timer.
Fairness ==
    /\ WF_vars(LoginTurn)
    /\ WF_vars(LogoutRuns)
    /\ WF_vars(TickRuns)
    /\ WF_vars(Restart)
    /\ \A r \in Requests : WF_vars(Turns(r)) /\ WF_vars(Ends(r))

Spec == Init /\ [][Next]_vars /\ Fairness

-----------------------------------------------------------------------------
(* Properties. *)

\* What a client gets was read under the pinned guardian's session, about
\* the child it asked for and its approval names, and its approval lives.
OnlyWhatWasPermitted ==
    [][\A r \in Requests :
         request[r].at = "verify" /\ request'[r].at = "answered" /\ request[r].kind \in Counted =>
           /\ Live(request[r].grant)
           /\ request[r].data \subseteq
                {pin} \X (grant[request[r].grant].children \cap
                          (IF request[r].kind = "list" THEN Children ELSE {request[r].child}))]_vars

\* A session of another guardian than the connector's is never live once the
\* turn that found it has ended.
NoStrangersSession ==
    established /\ live.who # pin =>
      /\ queue # <<>>
      /\ \/ Head(queue) = "login" /\ login.at = "done"
         \/ Head(queue) \in Requests /\ request[Head(queue)].at \in {"permit", "refocus"}

\* A login that failed, was cancelled or came before "Disconnect everything"
\* leaves no session behind once its turn, or the logout's, has ended.
EndedLoginLeavesNothing ==
    saved.who # NoOne /\ saved.by \in ended =>
      \/ login.at # "none" /\ login.number = saved.by
      \/ \E i \in 1 .. Len(queue) : queue[i] = "logout"

\* The count that admits requests is the number of those under way.
CountsThoseUnderWay ==
    outstanding = Cardinality({r \in Requests :
        request[r].kind \in Counted /\ request[r].at \in Running \cup {"waiting"}})

\* Every approval names children of the pinned guardian's own account.
ApprovesOwnChildren ==
    \A g \in Grants : Live(g) => pin # NoOne /\ grant[g].children \subseteq Family[pin]

\* Every variable has its type, and `outstanding' counts exactly the calls
\* that are admitted and not settled, so that the limit neither leaks nor
\* locks everybody out (runtime.ts).
PlacesAccounted == TypeOK /\ CountsThoseUnderWay

\* What is read and what may be approved is the pinned guardian's own: no
\* session of another adult outlives the turn that brought it, and every
\* approval names children of the pinned account (runtime.ts, approval.ts).
OnlyThePinnedGuardians == NoStrangersSession /\ ApprovesOwnChildren

\* A request that was admitted, and a login that was begun, come to an end.
UnderWay(r) == request[r].at \notin {"idle", "answered"}
LoggingIn == login.at # "none"
=============================================================================
