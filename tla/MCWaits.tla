------------------------------- MODULE MCWaits -------------------------------
(***************************************************************************)
(* The parts in which somebody waits, with small numbers for TLC.  As in   *)
(* MCParts a behaviour is one of one part, which shares the variables x1   *)
(* to x14 with the others.  Each part has the fairness of its own module,  *)
(* which is no more than that timers fire, answers or failures come and    *)
(* callbacks run: nothing is asked of a person, a caller or a browser tab. *)
(***************************************************************************)
EXTENDS Integers, Sequences, TLC

CONSTANTS
    c1, c2,    \* callers, requests
    p1, p2,    \* processes, children, schools
    Nil

VARIABLES
    part,
    x1, x2, x3, x4, x5, x6, x7, x8, x9, x10, x11, x12, x13, x14

vars == <<part, x1, x2, x3, x4, x5, x6, x7, x8, x9, x10, x11, x12, x13, x14>>

-----------------------------------------------------------------------------
(* The instances. *)

\* Two reads where one has room; every push-back opens the breaker.
Budget == INSTANCE RequestBudget WITH
    Requests <- {c1, c2}, Writes <- {}, Background <- {}, Threshold <- 1,
    Window <- 2, CoolDown <- 1, MaxCoolDown <- 2, BackoffBase <- 1,
    BackoffMax <- 2, MinRetryAfter <- 1, MaxRetryAfter <- 3, MaxWait <- 2,
    PerMinute <- 2, Minute <- 2, Burst <- 1, MaxInFlight <- 1, Hints <- {2},
    MaxTime <- 3, now <- x1, breaker <- x2, limiter <- x3, pc <- x4,
    probes <- x5, wakeAt <- x6, aborted <- x7

\* Two calls of one process that read a page or report an absence.
Recovery == INSTANCE PortalReads WITH
    Callers <- {c1, c2}, Children <- {p1}, Kinds <- {"page", "report"},
    Hosts <- {"process"}, Uses <- {"login", "logout"},
    Faults <- {"rejects", "unavailable"}, MaxEntries <- 1, MaxObjects <- 3,
    host <- x1, portal <- x2, object <- x3, cookies <- x4, focus <- x5,
    established <- x6, lock <- x7, saved <- x8, web <- x9, cache <- x10,
    used <- x11, epoch <- x12, call <- x13

\* Two processes on one machine, two logins.
Login == INSTANCE LoginFlow WITH
    Procs <- {p1, p2}, MaxLogins <- 2, Timeout <- 2, Ttl <- 3,
    Faults <- {"crash", "reused", "unsaved"}, None <- Nil, login <- x1,
    server <- x2, marker <- x3, tabs <- x4, spent <- x5, exchanged <- x6,
    count <- x7, dead <- x8, reused <- x9, unsaved <- x10

\* One process and the window it opens twice.
Web == INSTANCE WebSession WITH
    Procs <- {p1}, MaxLogins <- 2, MaxPolls <- 2, NoSession <- Nil, up <- x1,
    web <- x2, store <- x3, window <- x4, polls <- x5, kept <- x6, told <- x7,
    ended <- x8, forgotten <- x9

\* Every flag, environment and answer, with two schools.
Setup == INSTANCE GuidedSetup WITH
    Schools <- {p1, p2}, None <- Nil, flags <- x1, env <- x2, file <- x3,
    logins <- x4, pc <- x5, tries <- x6, hits <- x7, chosen <- x8,
    account <- x9, asked <- x10, bankId <- x11, checked <- x12, outcome <- x13

\* One request, one login, one approval.
Connection == INSTANCE Connector WITH
    Guardians <- {"owner", "other"},
    Family <- [owner |-> {"a", "b"}, other |-> {"b"}], Grants <- {p1},
    Requests <- {c1}, Kinds <- {"session", "overview"}, Sections <- 1,
    Limit <- 2, Uses <- {"login", "logout", "close"}, MaxLogins <- 1,
    Faults <- {"rejects"}, saved <- x1, pin <- x2, live <- x3,
    established <- x4, login <- x5, queue <- x6, closed <- x7,
    outstanding <- x8, request <- x9, grant <- x10, ended <- x11

\* Two calls of an app that share a pair, renewed twice.
Client == INSTANCE TypedClient WITH
    Calls <- {c1, c2}, MaxPairs <- 3, KnowsExpiry <- {2},
    Faults <- {"load", "save", "lost", "unavailable", "reload"}, grant <- x1,
    age <- x2, tokens <- x3, stored <- x4, loaded <- x5, refreshing <- x6,
    call <- x7, spent <- x8, unsure <- x9

\* Two loads of one week.
Page == INSTANCE ReferencePage WITH
    Children <- {p1}, Reads <- {"schedule"}, MaxLoads <- 2, MaxGrants <- 1,
    MaxPairs <- 1, MaxOffset <- 0, Faults <- {}, page <- x1, saved <- x2,
    access <- x3, childId <- x4, offset <- x5, screen <- x6, request <- x7,
    load <- x8, read <- x9, revoking <- x10, grants <- x11, spent <- x12,
    redeemed <- x13, unsure <- x14

-----------------------------------------------------------------------------
(* Side by side. *)

Init ==
    \/ part = "budget" /\ Budget!Init
       /\ x8 = Nil /\ x9 = Nil /\ x10 = Nil /\ x11 = Nil /\ x12 = Nil /\ x13 = Nil /\ x14 = Nil
    \/ part = "reads" /\ Recovery!Init /\ x14 = Nil
    \/ part = "login" /\ Login!Init /\ x11 = Nil /\ x12 = Nil /\ x13 = Nil /\ x14 = Nil
    \/ part = "webSession" /\ Web!Init
       /\ x10 = Nil /\ x11 = Nil /\ x12 = Nil /\ x13 = Nil /\ x14 = Nil
    \/ part = "setup" /\ Setup!Init /\ x14 = Nil
    \/ part = "connector" /\ Connection!Init /\ x12 = Nil /\ x13 = Nil /\ x14 = Nil
    \/ part = "client" /\ Client!Init
       /\ x10 = Nil /\ x11 = Nil /\ x12 = Nil /\ x13 = Nil /\ x14 = Nil
    \/ part = "page" /\ Page!Init

OnlyBudget == part = "budget" /\ UNCHANGED <<part, x8, x9, x10, x11, x12, x13, x14>>
OnlyRecovery == part = "reads" /\ UNCHANGED <<part, x14>>
OnlyLogin == part = "login" /\ UNCHANGED <<part, x11, x12, x13, x14>>
OnlyWeb == part = "webSession" /\ UNCHANGED <<part, x10, x11, x12, x13, x14>>
OnlySetup == part = "setup" /\ UNCHANGED <<part, x14>>
OnlyConnection == part = "connector" /\ UNCHANGED <<part, x12, x13, x14>>
OnlyClient == part = "client" /\ UNCHANGED <<part, x10, x11, x12, x13, x14>>
OnlyPage == part = "page" /\ UNCHANGED <<part>>

Next ==
    \/ OnlyBudget /\ Budget!Next
    \/ OnlyRecovery /\ Recovery!Next
    \/ OnlyLogin /\ Login!Next
    \/ OnlyWeb /\ Web!Next
    \/ OnlySetup /\ Setup!Next
    \/ OnlyConnection /\ Connection!Next
    \/ OnlyClient /\ Client!Next
    \/ OnlyPage /\ Page!Next

Fairness ==
    /\ WF_vars(OnlyBudget /\ Budget!Progress)
    /\ WF_vars(OnlyBudget /\ Budget!TimerFires)
    /\ WF_vars(OnlyBudget /\ Budget!Tick)
    /\ \A c \in {c1, c2} : SF_vars(OnlyRecovery /\ (Recovery!Restore(c) \/ Recovery!Aim(c) \/ Recovery!Request(c)))
    /\ WF_vars(OnlyLogin /\ Login!Tick)
    /\ \A p \in {p1, p2} : WF_vars(OnlyLogin /\ Login!Writes(p))
    /\ \A p \in {p1, p2} : WF_vars(OnlyLogin /\ Login!Listens(p))
    /\ \A p \in {p1, p2} : WF_vars(OnlyLogin /\ Login!PortBusy(p))
    /\ \A p \in {p1, p2} : WF_vars(OnlyLogin /\ Login!TimedOut(p))
    /\ \A p \in {p1, p2} : WF_vars(OnlyLogin /\ Login!Exchange(p))
    /\ \A i \in 1 .. 2 : WF_vars(OnlyLogin /\ Login!Closes(i))
    /\ WF_vars(OnlyWeb /\ (Web!Poll(p1) \/ Web!webLogin(p1)))
    /\ WF_vars(OnlySetup /\ Setup!Next)
    /\ WF_vars(OnlyConnection /\ Connection!LoginTurn)
    /\ WF_vars(OnlyConnection /\ Connection!LogoutRuns)
    /\ WF_vars(OnlyConnection /\ Connection!Restart)
    /\ WF_vars(OnlyConnection /\ Connection!Turns(c1))
    /\ WF_vars(OnlyConnection /\ Connection!Ends(c1))
    /\ \A c \in {c1, c2} : WF_vars(OnlyClient /\ Client!Proceed(c))
    /\ \A c \in {c1, c2} : WF_vars(OnlyClient /\ (Client!Answered(c) \/ Client!Unauthorized(c) \/ Client!UnauthorizedAgain(c)))
    /\ \A c \in {c1, c2} : WF_vars(OnlyClient /\ Client!Forget(c))
    /\ \A c \in {c1, c2} : WF_vars(OnlyClient /\ Client!Forgotten(c))
    /\ WF_vars(OnlyClient /\ Client!Load)
    /\ WF_vars(OnlyClient /\ Client!Exchange)
    /\ WF_vars(OnlyClient /\ Client!RefreshAnswer)
    /\ WF_vars(OnlyClient /\ Client!Saved)
    /\ WF_vars(OnlyClient /\ Client!Cleared)
    /\ WF_vars(OnlyPage /\ Page!Delivers)

FairSpec == Init /\ [][Next]_vars /\ Fairness

-----------------------------------------------------------------------------
(* Properties. *)

\* Somebody waits: for the portal, for a place in the budget, for
\* the browser's callback, in a login window, in the guide, for the connector
\* or for a pair of tokens that is being renewed.
Waits(who) ==
    \/ part = "budget" /\ who \in {c1, c2} /\ Budget!UnderWay(who)
    \/ part = "reads" /\ who \in {c1, c2} /\ ~Recovery!Rests(who)
    \/ part = "login" /\ who \in {p1, p2} /\ Login!LoggingIn(who)
    \/ part = "webSession" /\ who = p1 /\ Web!Watches(who)
    \/ part = "setup" /\ who = p1 /\ Setup!Guides
    \/ part = "connector" /\ who = c1 /\ Connection!UnderWay(who)
    \/ part = "connector" /\ who = p1 /\ Connection!LoggingIn
    \/ part = "client" /\ who \in {c1, c2} /\ Client!Called(who)

\* A login is refused because another is said to run.
Blocked(p) == part = "login" /\ Login!Blocked(p)

\* The reference page says "Loading".
Loads == part = "page" /\ x6.kind = "loading"

\* The parent loads anew: a button, another week or child, a new document.
Reloads == OnlyPage /\ \E l \in 1 .. 2 :
    Page!StartAnew \/ Page!Reload(l) \/ Page!ChangeWeek(l) \/ Page!ChangeChild(l)

\* The portal rejects the session of a call.
Rejections == OnlyRecovery /\ Recovery!Rejections

\* Every wait ends: a call with an answer or an error, whatever fails under
\* it, a login with its timer, a window with its deadline, the guide with its
\* outcome; a login is not refused for ever for a marker nobody stands behind;
\* and the page does not say "Loading" for good unless its parent reloads for
\* ever (limiter.ts, recovering.ts, callback-server.ts,
\* login-state.ts, web-login.ts, first-run.ts, runtime.ts, client/index.ts,
\* reference/app.ts).
EveryWaitEnds ==
    /\ \/ \A who \in {c1, c2, p1, p2} : Waits(who) ~> ~Waits(who)
       \/ []<><<Rejections>>_vars
    /\ \A p \in {p1, p2} : Blocked(p) ~> ~Blocked(p)
    /\ []<>~Loads \/ []<><<Reloads>>_vars
=============================================================================
