------------------------------- MODULE MCParts -------------------------------
(***************************************************************************)
(* The parts that run on their own, with small numbers for TLC.  A         *)
(* behaviour is one of one part, `part': the parts share the variables x1  *)
(* to x16, and those a part has no use for stay Nil.  What is checked is   *)
(* said of all parts together and holds of each.                           *)
(***************************************************************************)
EXTENDS Integers, Sequences, TLC

CONSTANTS
    c1, c2,             \* callers, requests, registrations
    o1, o2, o3,         \* consent requests
    p1, p2,             \* processes, children, schools, keys, guardians
    Nil, Damaged, Later

VARIABLES
    part,
    x1, x2, x3, x4, x5, x6, x7, x8, x9, x10, x11, x12, x13, x14, x15, x16

vars == <<part, x1, x2, x3, x4, x5, x6, x7, x8, x9, x10, x11, x12, x13, x14, x15, x16>>

-----------------------------------------------------------------------------
(* The instances. *)

\* Three reads, so that a burst, a refill and a third start can be compared.
Budget == INSTANCE RequestBudgetTrace WITH
    Requests <- {c1, c2, p1}, Writes <- {}, Background <- {}, Threshold <- 2,
    Window <- 2, CoolDown <- 1, MaxCoolDown <- 2, BackoffBase <- 1,
    BackoffMax <- 2, MinRetryAfter <- 1, MaxRetryAfter <- 2, MaxWait <- 1,
    PerMinute <- 2, Minute <- 3, Burst <- 2, MaxInFlight <- 2,
    Hints <- {0, 3}, MaxTime <- 3, grantedAt <- x1, pauseUntil <- x2,
    now <- x3, breaker <- x4, limiter <- x5, pc <- x6, probes <- x7,
    wakeAt <- x8, aborted <- x9

\* Three reads; every push-back opens the breaker, so that probe after probe fails.
Probes == INSTANCE RequestBudget WITH
    Requests <- {c1, c2, p1}, Writes <- {}, Background <- {}, Threshold <- 1,
    Window <- 2, CoolDown <- 1, MaxCoolDown <- 2, BackoffBase <- 1,
    BackoffMax <- 2, MinRetryAfter <- 1, MaxRetryAfter <- 3, MaxWait <- 1,
    PerMinute <- 2, Minute <- 3, Burst <- 2, MaxInFlight <- 2, Hints <- {2},
    MaxTime <- 3, now <- x1, breaker <- x2, limiter <- x3, pc <- x4,
    probes <- x5, wakeAt <- x6, aborted <- x7

\* Two calls, of one process or one turn each, and two children.
Recovery == INSTANCE MCPortalReads WITH
    Callers <- {c1, c2}, Children <- {p1, p2},
    Kinds <- {"calendar", "page", "report"}, Hosts <- {"process", "turn"},
    Uses <- {"login", "logout", "webLogin"},
    Faults <- {"rejects", "unavailable"}, MaxEntries <- 1, MaxObjects <- 2,
    host <- x1, portal <- x2, object <- x3, cookies <- x4, focus <- x5,
    established <- x6, lock <- x7, saved <- x8, web <- x9, cache <- x10,
    used <- x11, epoch <- x12, call <- x13

\* The same for one call at a time through three API objects.
RecoveryAlone == INSTANCE MCPortalReads WITH
    Callers <- {c1}, Children <- {p1, p2},
    Kinds <- {"week", "calendar", "page", "report"},
    Hosts <- {"process", "turn"}, Uses <- {"login", "logout", "webLogin"},
    Faults <- {"rejects", "unavailable"}, MaxEntries <- 2, MaxObjects <- 3,
    host <- x1, portal <- x2, object <- x3, cookies <- x4, focus <- x5,
    established <- x6, lock <- x7, saved <- x8, web <- x9, cache <- x10,
    used <- x11, epoch <- x12, call <- x13

\* Two processes on one machine, three logins, a browser tab each.
Login == INSTANCE LoginFlow WITH
    Procs <- {p1, p2}, MaxLogins <- 3, Timeout <- 2, Ttl <- 3,
    Faults <- {"crash", "reused", "unsaved"}, None <- Nil, login <- x1,
    server <- x2, marker <- x3, tabs <- x4, spent <- x5, exchanged <- x6,
    count <- x7, dead <- x8, reused <- x9, unsaved <- x10

\* One process and the window it opens twice.
Web == INSTANCE WebSession WITH
    Procs <- {p1}, MaxLogins <- 2, MaxPolls <- 2, NoSession <- Nil, up <- x1,
    web <- x2, store <- x3, window <- x4, polls <- x5, kept <- x6, told <- x7,
    ended <- x8, forgotten <- x9

\* Strangers of two networks ask for consent until the tables are full.
Consents == INSTANCE MCConnectorOAuth WITH
    ClientIds <- {c1, c2}, RequestIds <- {o1, o2, o3, p1}, GrantIds <- {p2},
    Networks <- {"n1", "n2"}, Scopes <- {"read"}, MaxClients <- 1,
    MaxPending <- 3, MaxPerRequester <- 2, MaxGrants <- 1, MaxTokens <- 1,
    Faults <- {}, Ending <- {c1, o1}, MaxRotations <- 2, MaxRuns <- 1,
    state <- x1, disk <- x2, over <- x3, run <- x4, held <- x5, born <- x6,
    revoked <- x7, spent <- x8, unsure <- x9

\* Two browsers sign in, out and wrongly at the owner's page.
Owner == INSTANCE OwnerSessions WITH
    Browsers <- {"o1", "o2"}, MaxOwners <- 2, SessionLife <- 2, MaxTime <- 4,
    MaxTokens <- 4, Limit <- 2, now <- x1, sessions <- x2, cookie <- x3,
    issued <- x4, ended <- x5, spent <- x6, logins <- x7, shutOut <- x8

\* Two callers, two writes, one preview held at a time.
Confirm == INSTANCE Confirmations WITH
    Callers <- {"b1", "b2"}, Intents <- {"i1", "i2"}, MaxHeld <- 1, Ttl <- 2,
    MaxTime <- 3, MaxPreviews <- 2, now <- x1, records <- x2, shown <- x3,
    sends <- x4

\* One report for one of two siblings, across midnight.
Absence == INSTANCE AbsenceReport WITH
    Children <- {c1, c2}, Firsts <- {p1, p2}, MaxDay <- 2,
    ABSENCE_MAX_DAYS <- 2, MaxCalls <- 1,
    Faults <- {"rejects", "fails", "pushback", "refused", "expired"},
    None <- Nil, firstName <- x1, guardians <- x2, allowWrites <- x3,
    today <- x4, focus <- x5, calls <- x6, call <- x7, pc <- x8,
    recorded <- x9, answer <- x10

\* Every chain of redirects, one longer than is followed.
Fetch == INSTANCE PortalFetch WITH
    Portal <- "portal", Elsewhere <- "elsewhere", MaxRedirects <- 5,
    asked <- x1, requests <- x2, answer <- x3

\* Two clients of the probe server and one page.
Probe == INSTANCE HostProbe WITH
    Clients <- {"a", "b"}, MaxGrants <- 2, MaxIds <- 2, MaxSessions <- 1,
    IdleAfter <- 2, MaxPages <- 1, MaxHeld <- 1, PageLife <- 1, MaxTime <- 2,
    now <- x1, grants <- x2, sessions <- x3, opened <- x4, call <- x5,
    required <- x6, passes <- x7, pages <- x8, made <- x9, told <- x10

\* The same without pages: three sessions where two fit.
ProbeRoom == INSTANCE HostProbe WITH
    Clients <- {"a", "b"}, MaxGrants <- 2, MaxIds <- 3, MaxSessions <- 2,
    IdleAfter <- 2, MaxPages <- 0, MaxHeld <- 1, PageLife <- 1, MaxTime <- 2,
    now <- x1, grants <- x2, sessions <- x3, opened <- x4, call <- x5,
    required <- x6, passes <- x7, pages <- x8, made <- x9, told <- x10

\* Two calls of an app that share a pair, renewed twice.
Client == INSTANCE TypedClient WITH
    Calls <- {c1, c2}, MaxPairs <- 3, KnowsExpiry <- {2},
    Faults <- {"load", "save", "lost", "unavailable", "reload"}, grant <- x1,
    age <- x2, tokens <- x3, stored <- x4, loaded <- x5, refreshing <- x6,
    call <- x7, spent <- x8, unsure <- x9

\* Two loads of two weeks, one pair of tokens.
Page == INSTANCE ReferencePage WITH
    Children <- {p1}, Reads <- {"schedule"}, MaxLoads <- 2, MaxGrants <- 1,
    MaxPairs <- 1, MaxOffset <- 1, Faults <- {"lost", "mixed"}, page <- x1,
    saved <- x2, access <- x3, childId <- x4, offset <- x5, screen <- x6,
    request <- x7, load <- x8, read <- x9, revoking <- x10, grants <- x11,
    spent <- x12, redeemed <- x13, unsure <- x14

\* One load of one week, with a pair that is renewed twice.
PageTokens == INSTANCE ReferencePage WITH
    Children <- {p1}, Reads <- {"schedule"}, MaxLoads <- 1, MaxGrants <- 1,
    MaxPairs <- 3, MaxOffset <- 0, Faults <- {"lost", "mixed"}, page <- x1,
    saved <- x2, access <- x3, childId <- x4, offset <- x5, screen <- x6,
    request <- x7, load <- x8, read <- x9, revoking <- x10, grants <- x11,
    spent <- x12, redeemed <- x13, unsure <- x14

\* Two builds that save two accounts in one file; one fault.
Files == INSTANCE AccountFiles WITH
    Procs <- {p1, p2}, AccountOf <- (p1 :> "taby") @@ (p2 :> "nacka"),
    Build <- (p1 :> 2) @@ (p2 :> 3), Current <- 2, Keys <- {"k1", "k2"},
    Faults <- {"crash", "power", "damage", "keyLost"}, MaxFaults <- 1,
    Numbers <- {1}, closed <- x1, file <- x2, key <- x3, tmp <- x4, pc <- x5,
    op <- x6, doc <- x7, bytes <- x8, moved <- x9, risk <- x10, torn <- x11,
    faults <- x12

\* One process that is stopped and started for another account.
History == INSTANCE SessionHistory WITH
    Procs <- {p1}, Accounts <- {"taby", "nacka"},
    Configured <- [{p1} -> {"taby", "nacka"}], MaxTime <- 1, MaxSpans <- 2,
    MaxEvents <- 4, MaxLosses <- 1, MaxCrashes <- 1, None <- Nil,
    Damaged <- Damaged, Later <- Later, account <- x1, sealed <- x2,
    plain <- x3, now <- x4, spans <- x5, pc <- x6, work <- x7, moved <- x8,
    crashes <- x9, events <- x10

\* Two processes that record what they see in one file.
Histories == INSTANCE SessionHistory WITH
    Procs <- {p1, p2}, Accounts <- {"taby", "nacka"},
    Configured <- {(p1 :> "taby") @@ (p2 :> "taby"), (p1 :> "taby") @@ (p2 :> "nacka")},
    MaxTime <- 1, MaxSpans <- 1, MaxEvents <- 3, MaxLosses <- 1,
    MaxCrashes <- 0, None <- Nil, Damaged <- Damaged, Later <- Later,
    account <- x1, sealed <- x2, plain <- x3, now <- x4, spans <- x5,
    pc <- x6, work <- x7, moved <- x8, crashes <- x9, events <- x10

\* Three runs with two keys and two logins between their steps.
Repair == INSTANCE Doctor WITH
    Keys <- {p1, p2}, MaxRuns <- 3, MaxLogins <- 2, Faults <- {"crash"},
    None <- Nil, legacy <- x1, current <- x2, drawn <- x3, configured <- x4,
    fix <- x5, pc <- x6, todo <- x7, checks <- x8, report <- x9,
    worked <- x10, runs <- x11, logins <- x12

\* A file of any former version, two schools, an edit.
Config == INSTANCE Configuration WITH
    Schools <- {p1, p2}, OrgIds <- {"org1", "org2"},
    Providers <- {"schoolsoft"}, DEFAULT_PROVIDER <- "schoolsoft",
    MaxEdits <- 1, None <- Nil, version <- x1, top <- x2, account <- x3,
    accounts <- x4, writes <- x5, given <- x6, loose <- x7, edits <- x8

\* Every flag, environment and answer, with two schools.
Setup == INSTANCE GuidedSetup WITH
    Schools <- {p1, p2}, None <- Nil, flags <- x1, env <- x2, file <- x3,
    logins <- x4, pc <- x5, tries <- x6, hits <- x7, chosen <- x8,
    account <- x9, asked <- x10, bankId <- x11, checked <- x12, outcome <- x13

\* An inbox, a schedule and the grades of two children.
Verify == INSTANCE ReadVerification WITH
    AccountOps <- <<"inbox">>, ChildOps <- <<"schedule", "grades">>,
    Children <- <<"a", "b">>, Gated <- {"grades"}, InBrowser <- {"grades"},
    Faults <- {"drift", "error", "lost", "crash"}, None <- Nil,
    everyChild <- x1, web <- x2, browser <- x3, loggedIn <- x4, before <- x5,
    focus <- x6, results <- x7, pc <- x8, told <- x9

\* Two calls that may overlap, through five browsers.
Browser == INSTANCE BrowserSession WITH
    Calls <- {c1, c2}, Kinds <- {"criteria", "verify"}, MaxBrowsers <- 5,
    Overlapping <- TRUE, Faults <- {"launch", "context", "sync"}, None <- Nil,
    kind <- x1, at <- x2, pc <- x3, mine <- x4, result <- x5, reports <- x6,
    synced <- x7, had <- x13, menu <- x14, browser <- x8, open <- x9,
    left <- x15, launched <- x10, webSession <- x11, sent <- x12

\* An overview of two sections, with two changes meanwhile.
Rest == INSTANCE RestAnswers WITH
    Sections <- <<"schedule", "lunch">>, Limit <- 1, Second <- 2,
    MaxTime <- 2, MaxPause <- 3, MaxChanges <- 2, None <- Nil, token <- x1,
    scopes <- x2, child <- x3, session <- x4, portal <- x5, retryAt <- x6,
    busy <- x7, now <- x8, used <- x9, changes <- x10, pc <- x11, req <- x12,
    got <- x13, answer <- x14, was <- x15, reader <- x16

\* From 28 December 2020, 28 June, 24 October and 24 March 2021 (in days since 2001).
Calendar == INSTANCE Weeks WITH
    Starts <- {7301, 7483, 7601, 7387}, Hours <- 96, Step <- 5, Far <- 26,
    PageWeeks <- 3, None <- Nil, now <- x1, until <- x2, asked <- x3,
    answer <- x4

\* Two pages of one of two guardians, captured twice and promoted.
Capturing == INSTANCE Capture WITH
    Targets <- <<[file |-> "form", kind |-> "forms", web |-> TRUE],
                    [file |-> "agenda", kind |-> "json", web |-> FALSE]>>,
    Guardians <- {p1, p2}, Words <- {"pair"}, Ids <- {c1, c2},
    MaxCaptures <- 2, MaxPromotes <- 1, Faults <- {}, None <- Nil,
    guardian <- x1, web <- x2, redactor <- x3, next <- x4, dir <- x5,
    done <- x6, manifest <- x7, hashed <- x8, moving <- x9, fixtures <- x10,
    before <- x11, told <- x12, runs <- x13, promotes <- x14

-----------------------------------------------------------------------------
(* Side by side. *)

Init ==
    \/ part = "budget" /\ Budget!TraceInit
       /\ x10 = Nil /\ x11 = Nil /\ x12 = Nil /\ x13 = Nil /\ x14 = Nil
       /\ x15 = Nil /\ x16 = Nil
    \/ part = "probes" /\ Probes!Init
       /\ x8 = Nil /\ x9 = Nil /\ x10 = Nil /\ x11 = Nil /\ x12 = Nil
       /\ x13 = Nil /\ x14 = Nil /\ x15 = Nil /\ x16 = Nil
    \/ part = "reads" /\ Recovery!Init
       /\ x14 = Nil /\ x15 = Nil /\ x16 = Nil
    \/ part = "readsAlone" /\ RecoveryAlone!Init
       /\ x14 = Nil /\ x15 = Nil /\ x16 = Nil
    \/ part = "login" /\ Login!Init
       /\ x11 = Nil /\ x12 = Nil /\ x13 = Nil /\ x14 = Nil /\ x15 = Nil /\ x16 = Nil
    \/ part = "webSession" /\ Web!Init
       /\ x10 = Nil /\ x11 = Nil /\ x12 = Nil /\ x13 = Nil /\ x14 = Nil
       /\ x15 = Nil /\ x16 = Nil
    \/ part = "consents" /\ Consents!Init
       /\ x10 = Nil /\ x11 = Nil /\ x12 = Nil /\ x13 = Nil /\ x14 = Nil
       /\ x15 = Nil /\ x16 = Nil
    \/ part = "owner" /\ Owner!Init
       /\ x9 = Nil /\ x10 = Nil /\ x11 = Nil /\ x12 = Nil /\ x13 = Nil
       /\ x14 = Nil /\ x15 = Nil /\ x16 = Nil
    \/ part = "confirmations" /\ Confirm!Init
       /\ x5 = Nil /\ x6 = Nil /\ x7 = Nil /\ x8 = Nil /\ x9 = Nil
       /\ x10 = Nil /\ x11 = Nil /\ x12 = Nil /\ x13 = Nil /\ x14 = Nil
       /\ x15 = Nil /\ x16 = Nil
    \/ part = "absence" /\ Absence!Init
       /\ x11 = Nil /\ x12 = Nil /\ x13 = Nil /\ x14 = Nil /\ x15 = Nil /\ x16 = Nil
    \/ part = "fetch" /\ Fetch!Init
       /\ x4 = Nil /\ x5 = Nil /\ x6 = Nil /\ x7 = Nil /\ x8 = Nil
       /\ x9 = Nil /\ x10 = Nil /\ x11 = Nil /\ x12 = Nil /\ x13 = Nil
       /\ x14 = Nil /\ x15 = Nil /\ x16 = Nil
    \/ part = "probe" /\ Probe!Init
       /\ x11 = Nil /\ x12 = Nil /\ x13 = Nil /\ x14 = Nil /\ x15 = Nil /\ x16 = Nil
    \/ part = "probeRoom" /\ ProbeRoom!Init
       /\ x11 = Nil /\ x12 = Nil /\ x13 = Nil /\ x14 = Nil /\ x15 = Nil /\ x16 = Nil
    \/ part = "client" /\ Client!Init
       /\ x10 = Nil /\ x11 = Nil /\ x12 = Nil /\ x13 = Nil /\ x14 = Nil
       /\ x15 = Nil /\ x16 = Nil
    \/ part = "page" /\ Page!Init
       /\ x15 = Nil /\ x16 = Nil
    \/ part = "pageTokens" /\ PageTokens!Init
       /\ x15 = Nil /\ x16 = Nil
    \/ part = "files" /\ Files!Init
       /\ x13 = Nil /\ x14 = Nil /\ x15 = Nil /\ x16 = Nil
    \/ part = "history" /\ History!Init
       /\ x11 = Nil /\ x12 = Nil /\ x13 = Nil /\ x14 = Nil /\ x15 = Nil /\ x16 = Nil
    \/ part = "histories" /\ Histories!Init
       /\ x11 = Nil /\ x12 = Nil /\ x13 = Nil /\ x14 = Nil /\ x15 = Nil /\ x16 = Nil
    \/ part = "doctor" /\ Repair!Init
       /\ x13 = Nil /\ x14 = Nil /\ x15 = Nil /\ x16 = Nil
    \/ part = "configuration" /\ Config!Init
       /\ x9 = Nil /\ x10 = Nil /\ x11 = Nil /\ x12 = Nil /\ x13 = Nil
       /\ x14 = Nil /\ x15 = Nil /\ x16 = Nil
    \/ part = "setup" /\ Setup!Init
       /\ x14 = Nil /\ x15 = Nil /\ x16 = Nil
    \/ part = "verification" /\ Verify!Init
       /\ x10 = Nil /\ x11 = Nil /\ x12 = Nil /\ x13 = Nil /\ x14 = Nil
       /\ x15 = Nil /\ x16 = Nil
    \/ part = "browser" /\ Browser!Init
       /\ x16 = Nil
    \/ part = "rest" /\ Rest!Init
    \/ part = "weeks" /\ Calendar!Init
       /\ x5 = Nil /\ x6 = Nil /\ x7 = Nil /\ x8 = Nil /\ x9 = Nil
       /\ x10 = Nil /\ x11 = Nil /\ x12 = Nil /\ x13 = Nil /\ x14 = Nil
       /\ x15 = Nil /\ x16 = Nil
    \/ part = "capture" /\ Capturing!Init
       /\ x15 = Nil /\ x16 = Nil

Next ==
    \/ part = "budget" /\ Budget!TraceNext
       /\ UNCHANGED <<part, x10, x11, x12, x13, x14, x15, x16>>
    \/ part = "probes" /\ Probes!Next
       /\ UNCHANGED <<part, x8, x9, x10, x11, x12, x13, x14, x15, x16>>
    \/ part = "reads" /\ Recovery!Next
       /\ UNCHANGED <<part, x14, x15, x16>>
    \/ part = "readsAlone" /\ RecoveryAlone!Next
       /\ UNCHANGED <<part, x14, x15, x16>>
    \/ part = "login" /\ Login!Next
       /\ UNCHANGED <<part, x11, x12, x13, x14, x15, x16>>
    \/ part = "webSession" /\ Web!Next
       /\ UNCHANGED <<part, x10, x11, x12, x13, x14, x15, x16>>
    \/ part = "consents" /\ Consents!Next
       /\ UNCHANGED <<part, x10, x11, x12, x13, x14, x15, x16>>
    \/ part = "owner" /\ Owner!Next
       /\ UNCHANGED <<part, x9, x10, x11, x12, x13, x14, x15, x16>>
    \/ part = "confirmations" /\ Confirm!Next
       /\ UNCHANGED <<part, x5, x6, x7, x8, x9, x10, x11, x12, x13, x14, x15, x16>>
    \/ part = "absence" /\ Absence!Next
       /\ UNCHANGED <<part, x11, x12, x13, x14, x15, x16>>
    \/ part = "fetch" /\ Fetch!Next
       /\ UNCHANGED <<part, x4, x5, x6, x7, x8, x9, x10, x11, x12, x13, x14,
            x15, x16>>
    \/ part = "probe" /\ Probe!Next
       /\ UNCHANGED <<part, x11, x12, x13, x14, x15, x16>>
    \/ part = "probeRoom" /\ ProbeRoom!Next
       /\ UNCHANGED <<part, x11, x12, x13, x14, x15, x16>>
    \/ part = "client" /\ Client!Next
       /\ UNCHANGED <<part, x10, x11, x12, x13, x14, x15, x16>>
    \/ part = "page" /\ Page!Next
       /\ UNCHANGED <<part, x15, x16>>
    \/ part = "pageTokens" /\ PageTokens!Next
       /\ UNCHANGED <<part, x15, x16>>
    \/ part = "files" /\ Files!Next
       /\ UNCHANGED <<part, x13, x14, x15, x16>>
    \/ part = "history" /\ History!Next
       /\ UNCHANGED <<part, x11, x12, x13, x14, x15, x16>>
    \/ part = "histories" /\ Histories!Next
       /\ UNCHANGED <<part, x11, x12, x13, x14, x15, x16>>
    \/ part = "doctor" /\ Repair!Next
       /\ UNCHANGED <<part, x13, x14, x15, x16>>
    \/ part = "configuration" /\ Config!Next
       /\ UNCHANGED <<part, x9, x10, x11, x12, x13, x14, x15, x16>>
    \/ part = "setup" /\ Setup!Next
       /\ UNCHANGED <<part, x14, x15, x16>>
    \/ part = "verification" /\ Verify!Next
       /\ UNCHANGED <<part, x10, x11, x12, x13, x14, x15, x16>>
    \/ part = "browser" /\ Browser!Next
       /\ UNCHANGED <<part, x16>>
    \/ part = "rest" /\ Rest!Next
       /\ UNCHANGED <<part>>
    \/ part = "weeks" /\ Calendar!Next
       /\ UNCHANGED <<part, x5, x6, x7, x8, x9, x10, x11, x12, x13, x14, x15, x16>>
    \/ part = "capture" /\ Capturing!Next
       /\ UNCHANGED <<part, x15, x16>>

Spec == Init /\ [][Next]_vars

\* Of some parts what their modules say is enough to tell their states apart.
View ==
    CASE part = "reads" -> <<part, Recovery!MCView>>
      [] part = "readsAlone" -> <<part, RecoveryAlone!MCView>>
      [] part = "consents" -> <<part, Consents!View>>
      [] OTHER -> vars

-----------------------------------------------------------------------------
(* Properties. *)

\* The type invariant of each part.
TypeOK ==
    /\ (part = "budget" => Budget!TypeOK)
    /\ (part = "probes" => Probes!TypeOK)
    /\ (part = "reads" => Recovery!TypeOK)
    /\ (part = "readsAlone" => RecoveryAlone!TypeOK)
    /\ (part = "login" => Login!TypeOK)
    /\ (part = "webSession" => Web!TypeOK)
    /\ (part = "consents" => Consents!TypeOK)
    /\ (part = "owner" => Owner!TypeOK)
    /\ (part = "confirmations" => Confirm!TypeOK)
    /\ (part = "absence" => Absence!TypeOK)
    /\ (part = "fetch" => Fetch!TypeOK)
    /\ (part = "probe" => Probe!TypeOK)
    /\ (part = "probeRoom" => ProbeRoom!TypeOK)
    /\ (part = "client" => Client!TypeOK)
    /\ (part = "page" => Page!TypeOK)
    /\ (part = "pageTokens" => PageTokens!TypeOK)
    /\ (part = "files" => Files!TypeOK)
    /\ (part = "history" => History!TypeOK)
    /\ (part = "histories" => Histories!TypeOK)
    /\ (part = "doctor" => Repair!TypeOK)
    /\ (part = "configuration" => Config!TypeOK)
    /\ (part = "setup" => Setup!TypeOK)
    /\ (part = "verification" => Verify!TypeOK)
    /\ (part = "browser" => Browser!TypeOK)
    /\ (part = "rest" => Rest!TypeOK)
    /\ (part = "weeks" => Calendar!TypeOK)
    /\ (part = "capture" => Capturing!TypeOK)

\* A write reaches the portal once, as a person was shown it, for the child it
\* is about, and what is said of it is what became of it: no confirmation is
\* spent twice, no redirect repeats a write or carries it elsewhere, no report of
\* absence changes child or day on its way (confirmations.ts, report-absence.ts,
\* net.ts).
WritesAreMeant ==
    /\ (part = "confirmations" => Confirm!SentOnce)
    /\ (part = "absence" => Absence!SentAsMeant /\ Absence!OutcomeTold)
    /\ (part = "fetch" =>
         /\ Fetch!StaysAtThePortal
         /\ Fetch!WritesAreSentOnce
         /\ Fetch!ReadsAfterSeeOther)

\* What is written to disk is what is found there later: a session a repair
\* moves still opens with the key beside it, an answered write outlasts a power
\* cut, a lost login is recorded once and its age adds up, and what a capture
\* leaves behind names nobody and is whole (doctor.ts, private-files.ts,
\* history.ts, capture.ts).
StateIsKept ==
    /\ (part = "doctor" => Repair!SessionOpens)
    /\ (part = "files" => Files!AnsweredWritesLast)
    /\ (part = "history" => History!LostOnce /\ History!LifetimesAddUp)
    /\ (part = "histories" => Histories!LostOnce /\ Histories!LifetimesAddUp)
    /\ (part = "capture" =>
         /\ Capturing!NamesStayOut
         /\ Capturing!AllOrNothing
         /\ Capturing!ReferencesKept)

\* Nobody gets, keeps or loses a login by another's doing: a callback is
\* exchanged by the login it belongs to and the port is returned, a stranger's
\* registration does not displace an app's, nor wrong passwords the owner,
\* a revoked grant is cut from its sessions, an app whose pair is refused still
\* finds the newest one, and a page that disconnected is disconnected.
LoginsAreTheirOwn ==
    /\ (part = "login" => Login!ExchangesItsOwn /\ Login!PortIsReturned)
    /\ (part = "consents" => Consents!ClientsInUseStay)
    /\ (part = "webSession" =>
         /\ Web!KeepsThePortals
         /\ Web!WebLoginStays
         /\ Web!LogoutForgetsIt)
    /\ (part = "owner" => Owner!EndedStaysEnded /\ Owner!OwnerIsNotShutOut)
    /\ (part = "probe" => Probe!RevokedIsCut /\ Probe!PassesAreEarned)
    /\ (part = "probeRoom" => ProbeRoom!RevokedIsCut)
    /\ (part = "client" => Client!StoreHoldsNewest)
    /\ (part = "page" => Page!DisconnectHolds)
    /\ (part = "pageTokens" => PageTokens!KeepsNewest /\ PageTokens!DisconnectHolds)

\* What a person or an agent is told is so: "ready" and "ok" of a program that
\* reads, "sign in" only when the login was lost, the cookie exchange failed or an
\* overview kept a failed restore as a section's, this week when it is this week, the
\* week and child that were chosen, the settings of the school that was
\* named, a login that is under way, a page that is done, told once.
ToldTruly ==
    /\ (part = "setup" => Setup!NeverAsksInVain /\ Setup!ReadyMeansReady)
    /\ (part = "verification" => Verify!FocusPutBack /\ Verify!WellMeansAllRead)
    /\ (part = "doctor" => Repair!OkMeansLoggedIn)
    /\ (part = "configuration" => Config!NeverBorrows /\ Config!WritesNeedAYes)
    /\ (part = "browser" =>
         /\ Browser!NoBrowserLingers
         /\ Browser!PagesOnlyRead
         /\ Browser!AnswersFromPages)
    /\ (part = "rest" => Rest!SignInOnlyWhenLost /\ Rest!OverviewIsWhole)
    /\ (part = "weeks" => Calendar!SameWeek /\ Calendar!NearestOfAll
        /\ Calendar!ThisWeekHoldsToday /\ Calendar!LocalTimeKept)
    /\ (part = "page" => Page!ShowsWhatWasChosen)
    /\ (part = "pageTokens" => PageTokens!ShowsWhatWasChosen)
    /\ (part = "login" => Login!MarkerTellsOfALogin)
    /\ (part = "probe" => Probe!ToldOnce)

\* In no stretch of time does the limiter start more requests than the bucket
\* held and the rate added: burst + rate * T, whoever asked for them.
RateBound == part = "budget" => Budget!RateBound

\* A breaker that closes after failed probes starts with its first cool-down
\* again (breaker.ts).
ClosedMeansFreshCoolDown == part = "probes" => Probes!ClosedMeansFreshCoolDown

\* What the cache keeps under a child is what the portal said of that child,
\* whatever switches and recoveries ran while it was read: on the connector
\* always, on the stdio server each page that was kept while the portal read with
\* the session object the manager has (cached.ts).
CacheTellsTruth ==
    /\ (part = "reads" => Recovery!CacheTellsTruth)
    /\ (part = "readsAlone" => RecoveryAlone!CacheTellsTruth)

\* A report of absence is sent to the portal at most once, whatever recovery
\* follows (recovering.ts).
WrittenOnce ==
    /\ (part = "reads" => Recovery!WrittenOnce)
    /\ (part = "readsAlone" => RecoveryAlone!WrittenOnce)

\* A turn of the connector answers about the child it was asked about, whoever
\* switches child meanwhile (runtime.ts, overview.ts, web-session-api.ts).
AnswersTheChildAsked ==
    /\ (part = "reads" => Recovery!AnswersTheChildAsked)
    /\ (part = "readsAlone" => RecoveryAlone!AnswersTheChildAsked)

\* No step takes away what was promised: a save keeps the other accounts'
\* entries and whatever it cannot read, a migration hands a former record to one
\* account and removes it last, a configured school leaves the others alone, a
\* setup logs in and saves only as it said, a spent token is not presented again,
\* a confirmed write is the one that was shown, a full table displaces nobody's
\* only request for the sake of one who holds several, and an outage costs no saved
\* session, unless it is the cookie exchange that it hits.
StepsKeepTheirWord ==
    [][/\ (part = "files" => Files!KeepsTheOthers /\ Files!UnreadStays
             /\ Files!OpensAfterwards /\ Files!NeverHalfAFile)
       /\ (part = "history" => History!LegacyGoesToOne /\ History!PlainGoesLast)
       /\ (part = "histories" =>
            /\ Histories!LegacyGoesToOne
            /\ Histories!PlainGoesLast)
       /\ (part = "configuration" => Config!ConfigureTouchesOne)
       /\ (part = "setup" => Setup!NoLoginInVain /\ Setup!SavesTheChosen)
       /\ (part = "doctor" => Repair!NewestSessionStays)
       /\ (part = "client" => Client!NeverReplays)
       /\ (part = "page" => Page!NeverReplays /\ Page!AnswerTakenOnce)
       /\ (part = "pageTokens" =>
            /\ PageTokens!NeverReplays
            /\ PageTokens!AnswerTakenOnce)
       /\ (part = "confirmations" => Confirm!SentAsShown)
       /\ (part = "probeRoom" => ProbeRoom!OldestMakesRoom)
       /\ (part = "consents" => Consents!OnlyRequestStays)
       /\ (part = "rest" => Rest!OutageKeepsSession /\ Rest!RetryAfterIsEnough)]_vars

\* A Retry-After that pauses the breaker binds every later request, also after
\* the breaker opened, which forgets the pause, and closed again (breaker.ts).
RetryAfterHonoured == [][part = "budget" => Budget!RetryAfterHonoured]_vars
=============================================================================
