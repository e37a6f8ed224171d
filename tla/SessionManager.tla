-------------------------- MODULE SessionManager --------------------------
(**************************************************************************)
(* The owner of one process's portal session: SessionManager              *)
(* (core/session/session-manager.ts) driving BankIdBrowserStrategy        *)
(* (providers/schoolsoft/auth/bankid-browser.ts) over the session store.  *)
(*                                                                        *)
(* Access and refresh tokens come in pairs, numbered in the order the     *)
(* portal issues them; refreshing spends the pair.  A session object is a *)
(* cell: the pair it holds and whether it holds cookies.  reset() drops   *)
(* the manager's object but not the references that calls already under   *)
(* way have taken, and getSession() makes a new one.  A reset object that *)
(* getSession() has made again but nobody else has taken is the same as   *)
(* none, so only the calls that keep a reference make cells here.         *)
(*                                                                        *)
(* An action is the code between two awaits; each request to the portal   *)
(* is one step for its departure and one for every outcome of its answer. *)
(**************************************************************************)
EXTENDS Integers, Sequences

CONSTANTS
    Callers,     \* concurrent callers: operations, keepalive, recovery
    Objects,     \* session objects
    NoObject,    \* null
    Calls,       \* the operations the callers use
    Faults,      \* "rejects": the portal ends sessions; "loses": its answer to
                 \* a refresh is lost; "crash": the process stops and restarts;
                 \* "unavailable": it answers the cookie exchange with a 5xx
    MaxTokens    \* bound: token pairs the portal issues

ASSUME SessionAssumption ==
    /\ NoObject \notin Objects
    /\ Calls \subseteq {"restore", "renew", "focus", "login", "logout"}
    /\ Faults \subseteq {"rejects", "loses", "crash", "unavailable"}
    /\ MaxTokens \in Nat \ {0}

VARIABLES
    saved,         \* the store: a token pair, Blank (data without tokens), None
    issued,        \* the last pair the portal issued
    spent,         \* pairs whose refresh token the portal has exchanged
    expired,       \* pairs whose access token has expired
    forgotten,     \* pairs of logins that a logout has ended
    object,        \* SessionManager.session: an object or NoObject
    cell,          \* what each object holds
    established,
    lock,          \* the calls chained on SessionManager.lock; the first runs
    task,          \* the call each caller has under way
    signIn         \* SessionManager.inFlight

portal == <<issued, spent, expired, forgotten>>
vars == <<saved, portal, object, cell, established, lock, task, signIn>>

None == -1
Blank == 0
Tokens == 1 .. MaxTokens

Kinds == {"none", "restore", "renew", "focus"}
Stages == {"idle", "waiting", "refresh", "answered", "establish", "verify",
           "exchange"}

EmptyCell == [tok |-> Blank, cookies |-> FALSE]
Idle == [kind |-> "none", at |-> "idle", obj |-> NoObject,
         token |-> Blank, loaded |-> None, retried |-> FALSE]
NoSignIn == [at |-> "none", obj |-> NoObject]

TypeOK ==
    /\ saved \in Tokens \cup {Blank, None}
    /\ issued \in 0 .. MaxTokens
    /\ spent \subseteq Tokens
    /\ expired \subseteq Tokens
    /\ forgotten \subseteq Tokens
    /\ object \in Objects \cup {NoObject}
    /\ cell \in [Objects -> [tok: Tokens \cup {Blank}, cookies: BOOLEAN]]
    /\ established \in BOOLEAN
    /\ lock \in Seq(Callers)
    /\ task \in [Callers ->
                  [kind: Kinds, at: Stages, obj: Objects \cup {NoObject},
                   token: Tokens \cup {Blank},
                   loaded: Tokens \cup {Blank, None}, retried: BOOLEAN]]
    /\ signIn \in [at: {"none", "user", "establish"},
                   obj: Objects \cup {NoObject}]

\* The process starts with a session of an earlier login on disk, or none.
Init ==
    /\ \/ saved = 1 /\ issued = 1
       \/ saved = None /\ issued = 0
    /\ spent = {}
    /\ expired = {}
    /\ forgotten = {}
    /\ object = NoObject
    /\ cell = [o \in Objects |-> EmptyCell]
    /\ established = FALSE
    /\ lock = <<>>
    /\ task = [c \in Callers |-> Idle]
    /\ signIn = NoSignIn

-----------------------------------------------------------------------------
(* The session object. *)

Held == {task[c].obj : c \in Callers} \cup {signIn.obj}

\* getSession(): the manager's object, made when there is none.
GetSession(o) ==
    IF object = NoObject THEN o \in Objects \ Held ELSE o = object

Cell(o) == IF o = object THEN cell[o] ELSE EmptyCell

\* serialize(getSession()), where the cells are those of c.
Serialized(c) == IF object = NoObject THEN Blank ELSE c[object].tok

\* Wrong: the object survives a reset.
ResetKeepingObject == UNCHANGED object /\ established' = FALSE

\* reset()
Reset == object' = NoObject /\ established' = FALSE

\* loseAppSession() after a reset
Lose == Reset /\ saved' = None

-----------------------------------------------------------------------------
(* The lock: restores and renewals run one at a time, in order of arrival. *)

Queue(c, kind) ==
    /\ task' = [task EXCEPT ![c] = [Idle EXCEPT !.kind = kind, !.at = "waiting"]]
    /\ lock' = Append(lock, c)

\* Wrong: nobody waits for the lock.
RunsAtOnce(c) == lock # <<>>

Runs(c) == lock # <<>> /\ Head(lock) = c

\* The call settles, and with it its place in the chain.
Settle(c) ==
    /\ task' = [task EXCEPT ![c] = Idle]
    /\ lock' = Tail(lock)

-----------------------------------------------------------------------------
(* Calls. *)

\* ensureSession() when there is a session to restore; otherwise it returns
\* at once.
Ensure(c) ==
    /\ "restore" \in Calls
    /\ task[c].at = "idle"
    /\ ~established
    /\ Queue(c, "restore")
    /\ UNCHANGED <<saved, portal, object, cell, established, signIn>>

Reauthenticate(c) ==
    /\ "restore" \in Calls
    /\ task[c].at = "idle"
    /\ established
    /\ established' = FALSE
    /\ Queue(c, "restore")
    /\ UNCHANGED <<saved, portal, object, cell, signIn>>

Renew(c) ==
    /\ "renew" \in Calls
    /\ task[c].at = "idle"
    /\ Queue(c, "renew")
    /\ UNCHANGED <<saved, portal, object, cell, established, signIn>>

\* focusChild() on a live session: the exchange runs outside the lock.
\* Focusing the child already in focus changes nothing.
FocusChild(c) ==
    /\ "focus" \in Calls
    /\ task[c].at = "idle"
    /\ established
    /\ \E o \in Objects :
         /\ GetSession(o)
         /\ object' = o
         /\ cell' = [cell EXCEPT ![o] = Cell(o)]
         /\ task' = [task EXCEPT ![c] =
                       [Idle EXCEPT !.kind = "focus", !.at = "exchange", !.obj = o]]
    /\ UNCHANGED <<saved, portal, established, lock, signIn>>

\* ... and on none: the restore comes first.
FocusChildUnrestored(c) ==
    /\ "focus" \in Calls
    /\ task[c].at = "idle"
    /\ ~established
    /\ Queue(c, "focus")
    /\ UNCHANGED <<saved, portal, object, cell, established, signIn>>

Logout ==
    /\ "logout" \in Calls
    /\ saved' = None
    /\ Reset
    /\ forgotten' = 1 .. issued
    /\ UNCHANGED <<issued, spent, expired, cell, lock, task, signIn>>

-----------------------------------------------------------------------------
(* restoreSaved() and the keepalive renewal, at the head of the lock. *)

Restoring(c) == task[c].kind \in {"restore", "focus"}

\* The call now has a live session: a focus goes on to its exchange.
Restored(c) ==
    /\ established' = TRUE
    /\ IF task[c].kind = "focus"
         THEN /\ \E o \in Objects :
                   /\ GetSession(o)
                   /\ object' = o
                   /\ cell' = [cell EXCEPT ![o] = Cell(o)]
                   /\ task' = [task EXCEPT ![c] =
                                 [Idle EXCEPT !.kind = "focus", !.at = "exchange",
                                              !.obj = o]]
              /\ lock' = Tail(lock)
         ELSE /\ Settle(c)
              /\ UNCHANGED <<object, cell>>

\* A caller ahead in the queue restored the session.
AlreadyRestored(c) ==
    /\ Runs(c) /\ task[c].at = "waiting" /\ Restoring(c)
    /\ established
    /\ Restored(c)
    /\ UNCHANGED <<saved, portal, signIn>>

NothingSaved(c) ==
    /\ Runs(c) /\ task[c].at = "waiting"
    /\ Restoring(c) => ~established
    /\ saved = None
    /\ Settle(c)
    /\ UNCHANGED <<saved, portal, object, cell, established, signIn>>

\* The saved data holds no token: neither restore() nor renew() can use it.
NoTokensSaved(c) ==
    /\ Runs(c) /\ task[c].at = "waiting"
    /\ Restoring(c) => ~established
    /\ saved = Blank
    /\ Lose
    /\ Settle(c)
    /\ UNCHANGED <<portal, cell, signIn>>

\* The saved pair is adopted.  It is refreshed when its access token has
\* expired, and also when the expiry is unknown or within the lead time.
AdoptSaved(c, next) ==
    \E o \in Objects :
        /\ GetSession(o)
        /\ object' = o
        /\ cell' = [cell EXCEPT ![o] = [Cell(o) EXCEPT !.tok = saved]]
        /\ task' = [task EXCEPT ![c] =
                      [@ EXCEPT !.obj = o, !.loaded = saved, !.at = next,
                                !.token = IF next = "refresh" THEN saved ELSE Blank]]

BeginRestore(c) ==
    /\ Runs(c) /\ task[c].at = "waiting" /\ Restoring(c)
    /\ ~established
    /\ saved \in Tokens
    /\ \/ saved \notin expired /\ AdoptSaved(c, "establish")
       \/ AdoptSaved(c, "refresh")
    /\ UNCHANGED <<saved, portal, established, lock, signIn>>

\* Wrong: the renewal does not look whether anything is saved.
BeginRenewalUnchecked(c) ==
    /\ Runs(c) /\ task[c].at = "waiting" /\ task[c].kind = "renew"
    /\ AdoptSaved(c, "refresh")
    /\ UNCHANGED <<saved, portal, established, lock, signIn>>

BeginRenewal(c) ==
    /\ Runs(c) /\ task[c].at = "waiting" /\ task[c].kind = "renew"
    /\ saved \in Tokens
    /\ AdoptSaved(c, "refresh")
    /\ UNCHANGED <<saved, portal, established, lock, signIn>>

\* The saved pair outlives the lead time: another call refreshed it.
RenewedAlready(c) ==
    /\ Runs(c) /\ task[c].at = "waiting" /\ task[c].kind = "renew"
    /\ saved \in Tokens \ expired
    /\ \E o \in Objects :
         /\ GetSession(o)
         /\ object' = o
         /\ cell' = [cell EXCEPT ![o] = [Cell(o) EXCEPT !.tok = saved]]
    /\ Settle(c)
    /\ UNCHANGED <<saved, portal, established, signIn>>

\* The portal exchanges a refresh token once.
PortalRefreshes(c) ==
    /\ task[c].at = "refresh"
    /\ task[c].token \in Tokens \ spent
    /\ issued < MaxTokens
    /\ issued' = issued + 1
    /\ spent' = spent \cup {task[c].token}
    /\ forgotten' = IF task[c].token \in forgotten
                      THEN forgotten \cup {issued + 1} ELSE forgotten
    /\ task' = [task EXCEPT ![c].at = "answered", ![c].token = issued + 1]
    /\ UNCHANGED <<saved, expired, object, cell, established, lock, signIn>>

\* Wrong: the rotated pair is saved only when the restore has succeeded.
RefreshAnsweredUnsaved(c) ==
    /\ task[c].at = "answered"
    /\ cell' = [cell EXCEPT ![task[c].obj].tok = task[c].token]
    /\ IF task[c].kind = "renew"
         THEN Settle(c)
         ELSE /\ task' = [task EXCEPT ![c].at = "establish", ![c].token = Blank]
              /\ UNCHANGED lock
    /\ UNCHANGED <<saved, portal, object, established, signIn>>

\* refresh() adopts the pair and reports it, and noteRefresh() saves it at
\* once, before anything else can fail.
RefreshAnswered(c) ==
    /\ task[c].at = "answered"
    /\ cell' = [cell EXCEPT ![task[c].obj].tok = task[c].token]
    /\ saved' = IF saved = None THEN None ELSE Serialized(cell')
    /\ IF task[c].kind = "renew"
         THEN Settle(c)
         ELSE /\ task' = [task EXCEPT ![c].at = "establish", ![c].token = Blank]
              /\ UNCHANGED lock
    /\ UNCHANGED <<portal, object, established, signIn>>

\* Wrong: every failure of a restore or renewal clears the saved session.
FailLosing(c) ==
    /\ task[c].at \in {"refresh", "establish"}
    /\ Lose
    /\ Settle(c)
    /\ UNCHANGED <<portal, cell, signIn>>

\* Wrong: a call that fails leaves the lock taken.
FailHoldingLock(c) ==
    /\ \/ task[c].at \in {"refresh", "establish"}
       \/ task[c].at = "answered" /\ "loses" \in Faults
    /\ IF Restoring(c) THEN Reset ELSE UNCHANGED <<object, established>>
    /\ task' = [task EXCEPT ![c] = Idle]
    /\ UNCHANGED <<saved, portal, cell, lock, signIn>>

\* A network failure, a 5xx or the budget's refusal: the saved session is
\* kept, and restoreSaved() drops the live one.
FailTransiently(c) ==
    /\ \/ task[c].at \in {"refresh", "establish"}
       \/ task[c].at = "answered" /\ "loses" \in Faults
    /\ IF Restoring(c) THEN Reset ELSE UNCHANGED <<object, established>>
    /\ Settle(c)
    /\ UNCHANGED <<saved, portal, cell, signIn>>

\* What a rejection does: the session is lost, unless a renewal finds that
\* somebody else has saved another one meanwhile.
Rejected(c) ==
    /\ IF task[c].kind = "renew" /\ saved \notin {None, task[c].loaded}
         THEN UNCHANGED <<saved, object, established>>
         ELSE Lose
    /\ Settle(c)

RefreshRejected(c) ==
    /\ task[c].at = "refresh"
    /\ task[c].token \in spent \/ "rejects" \in Faults
    /\ Rejected(c)
    /\ UNCHANGED <<portal, cell, signIn>>

\* establish() is the profile and then the cookie exchange; only the second
\* changes state, so one step stands for both.  It succeeded: restoreSaved()
\* persists, and asks the portal whether the manager's object of the moment
\* is alive.
Establish(c) ==
    /\ task[c].at = "establish"
    /\ cell' = [cell EXCEPT ![task[c].obj].cookies = TRUE]

Established(c) ==
    /\ Establish(c)
    /\ object # NoObject /\ cell'[object].cookies
    /\ saved' = Serialized(cell')
    /\ task' = [task EXCEPT ![c].at = "verify"]
    /\ UNCHANGED <<portal, object, established, lock, signIn>>

\* An object without cookies is not: the session was reset meanwhile.
EstablishedForNothing(c) ==
    /\ Establish(c)
    /\ ~(object # NoObject /\ cell'[object].cookies)
    /\ Lose
    /\ Settle(c)
    /\ UNCHANGED <<portal, signIn>>

\* Clock skew or early revocation of the access token: one refresh and one
\* retry.
EstablishRejectedOnce(c) ==
    /\ task[c].at = "establish"
    /\ ~task[c].retried
    /\ task' = [task EXCEPT ![c].at = "refresh", ![c].retried = TRUE,
                            ![c].token = cell[task[c].obj].tok]
    /\ UNCHANGED <<saved, portal, object, cell, established, lock, signIn>>

\* Rejected again, or refused for another reason.
EstablishRejected(c) ==
    /\ task[c].at = "establish"
    /\ "rejects" \in Faults
    /\ Rejected(c)
    /\ UNCHANGED <<portal, cell, signIn>>

\* exchangeTokenForCookies() looks for cookies, not at the status: a 5xx
\* without them is "not authenticated", which is no transient failure.
ExchangeUnavailable(c) ==
    /\ task[c].at = "establish"
    /\ "unavailable" \in Faults
    /\ Rejected(c)
    /\ UNCHANGED <<portal, cell, signIn>>

VerifiedAlive(c) ==
    /\ task[c].at = "verify"
    /\ Restored(c)
    /\ UNCHANGED <<saved, portal, signIn>>

VerifiedDead(c) ==
    /\ task[c].at = "verify"
    /\ "rejects" \in Faults
    /\ Lose
    /\ Settle(c)
    /\ UNCHANGED <<portal, cell, signIn>>

\* verify() is called outside the try: the live object stays.
VerifyFails(c) ==
    /\ task[c].at = "verify"
    /\ Settle(c)
    /\ UNCHANGED <<saved, portal, object, cell, established, signIn>>

-----------------------------------------------------------------------------
(* The exchange of focusChild(), and the interactive login. *)

FocusDone(c) ==
    /\ task[c].at = "exchange"
    /\ cell' = [cell EXCEPT ![task[c].obj].cookies = TRUE]
    /\ saved' = Serialized(cell')
    /\ task' = [task EXCEPT ![c] = Idle]
    /\ UNCHANGED <<portal, object, established, lock, signIn>>

FocusFails(c) ==
    /\ task[c].at = "exchange"
    /\ task' = [task EXCEPT ![c] = Idle]
    /\ UNCHANGED <<saved, portal, object, cell, established, lock, signIn>>

\* login() starts from a reset; a login under way is shared.
LoginStart ==
    /\ "login" \in Calls
    /\ signIn.at = "none"
    /\ established' = FALSE
    /\ \E o \in Objects \ (Held \cup {object}) :
         /\ object' = o
         /\ cell' = [cell EXCEPT ![o] = EmptyCell]
         /\ signIn' = [at |-> "user", obj |-> o]
    /\ UNCHANGED <<saved, portal, lock, task>>

\* The user has signed in and the code is exchanged for a token pair.
LoginToken ==
    /\ signIn.at = "user"
    /\ issued < MaxTokens
    /\ issued' = issued + 1
    /\ cell' = [cell EXCEPT ![signIn.obj].tok = issued + 1]
    /\ signIn' = [signIn EXCEPT !.at = "establish"]
    /\ UNCHANGED <<saved, spent, expired, forgotten, object, established,
                   lock, task>>

LoginDone ==
    /\ signIn.at = "establish"
    /\ cell' = [cell EXCEPT ![signIn.obj].cookies = TRUE]
    /\ saved' = Serialized(cell')
    /\ established' = TRUE
    /\ signIn' = NoSignIn
    /\ UNCHANGED <<portal, object, lock, task>>

\* The user gave up, the callback timed out, or a request failed.  What the
\* provider serializes always has its keys, so this persists with or without
\* tokens.
LoginFails ==
    /\ signIn.at # "none"
    /\ saved' = Serialized(cell)
    /\ signIn' = NoSignIn
    /\ UNCHANGED <<portal, object, cell, established, lock, task>>

-----------------------------------------------------------------------------
(* The environment. *)

\* The access token of the saved session expires.
Expire ==
    /\ saved \in Tokens \ expired
    /\ expired' = expired \cup {saved}
    /\ UNCHANGED <<saved, issued, spent, forgotten, object, cell, established,
                   lock, task, signIn>>

\* The process stops and a new one starts.  A stop while the portal's answer
\* to a refresh is on its way loses that answer.
Restart ==
    /\ "crash" \in Faults
    /\ "loses" \in Faults \/ \A c \in Callers : task[c].at # "answered"
    /\ object' = NoObject
    /\ cell' = [o \in Objects |-> EmptyCell]
    /\ established' = FALSE
    /\ lock' = <<>>
    /\ task' = [c \in Callers |-> Idle]
    /\ signIn' = NoSignIn
    /\ UNCHANGED <<saved, portal>>

\* What the event loop and the portal's answers do for a call under way.
Step(c) ==
    \/ AlreadyRestored(c) \/ NothingSaved(c) \/ NoTokensSaved(c)
    \/ BeginRestore(c) \/ BeginRenewal(c) \/ RenewedAlready(c)
    \/ PortalRefreshes(c) \/ RefreshAnswered(c)
    \/ RefreshRejected(c) \/ FailTransiently(c)
    \/ Established(c) \/ EstablishedForNothing(c)
    \/ EstablishRejectedOnce(c) \/ EstablishRejected(c) \/ ExchangeUnavailable(c)
    \/ VerifiedAlive(c) \/ VerifiedDead(c) \/ VerifyFails(c)
    \/ FocusDone(c) \/ FocusFails(c)

Call(c) ==
    Ensure(c) \/ Reauthenticate(c) \/ Renew(c)
    \/ FocusChild(c) \/ FocusChildUnrestored(c)

Login == LoginStart \/ LoginToken \/ LoginDone \/ LoginFails

Next ==
    \/ \E c \in Callers : Call(c) \/ Step(c)
    \/ Login
    \/ Logout
    \/ Expire
    \/ Restart

Spec == Init /\ [][Next]_vars

\* Ready callbacks run and every request to the portal is answered or fails.
Fairness == \A c \in Callers : WF_vars(Step(c))

FairSpec == Spec /\ Fairness

-----------------------------------------------------------------------------
(* Properties. *)

\* Restores and renewals, whatever fails transiently and wherever the process
\* is stopped, never cost the user a login: a saved session stays saved.  It
\* takes a rotated pair saved before the next request can fail, and no two
\* callers refreshing at once.
SessionSurvives == [][(saved \in Tokens) => (saved' \in Tokens)]_vars

\* No request ever presents a refresh token the portal has already exchanged;
\* the portal would answer it by ending the session.
NeverPresentsSpent ==
    \A c \in Callers : task[c].at = "refresh" => task[c].token \notin spent

\* The saved pair is spent only while its successor is on the way to the
\* manager's own object, so what is on disk is what the portal accepts.
RotationIsSaved ==
    saved \in spent =>
        \E c \in Callers : task[c].at = "answered" /\ task[c].obj = object

\* After logout() no pair of a login it ended comes back to disk, whatever
\* restore, renewal, child switch or login was under way.
LogoutForgets == saved \notin forgotten

\* Every call that waits for the lock, or for the portal, ends.
Called(c) == task[c].at # "idle"
CallsReturn == \A c \in Callers : Called(c) ~> ~Called(c)

\* A login that reports success has saved tokens (login.ts: poll auth_status
\* until it is authenticated).
LoginIsSaved ==
    [][signIn.at = "establish" /\ signIn'.at = "none" /\ established'
          => saved' \in Tokens]_vars

\* A login that fails before any token leaves the store as it was.
FailedLoginKeepsStore ==
    [][signIn.at = "user" /\ signIn'.at = "none" => saved' = saved]_vars

=============================================================================
