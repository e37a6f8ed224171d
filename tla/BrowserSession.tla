--------------------------- MODULE BrowserSession ---------------------------
(****************************************************************************)
(* The pages SchoolSoft only offers as web pages are read in a browser:     *)
(* portal/browser-portal.ts plans the visits of an operation, `browser      *)
(* verify` (core/portal/verify.ts) visits every page, and each visit is one *)
(* withPage() of core/browser/playwright.ts: a browser is launched, a page  *)
(* opened with the cookies of the app or the web session, one navigation    *)
(* made, and the browser closed.  All the operations of a process share one *)
(* PlaywrightSession, whose single field `browser` names the last browser   *)
(* launched.  The calls of an MCP client may overlap (Overlapping).         *)
(*                                                                          *)
(* A page is "app" or "web" (a page behind the GDPR gate).  The page of     *)
(* criteria needs a subject from the menu, an app page: the operation plans *)
(* both, and `browser verify` opens the menu as part of that page's check   *)
(* ("linked").  Whatever of the program runs, a browser that is left behind *)
(* can be told by its history: `left' remembers who lost the call that      *)
(* would have closed it.                                                    *)
(****************************************************************************)
EXTENDS Naturals, Sequences, FiniteSets

CONSTANTS Calls,         \* calls of operations and of `browser verify`
          Kinds,         \* what they are: of {"contacts", "grades", "criteria", "verify"}
          MaxBrowsers,   \* bound: browsers launched
          Overlapping,   \* may a call begin while another is under way
          Faults,        \* of {"launch", "context", "sync", "logout"}
          None

Plan(k) == CASE k = "contacts" -> <<"app">>
             [] k = "grades"   -> <<"web">>
             [] k = "criteria" -> <<"app", "web">>
             [] k = "verify"   -> <<"app", "web", "linked">>
Landings == {"portal", "login", "gate"}
Methods  == {"GET", "POST"}

VARIABLES
  kind,      \* the operation of each call, None before it begins
  at,        \* which visit of its plan it makes
  pc,        \* where in that visit it is
  mine,      \* the browser its visit launched
  result,    \* how the visit under way ended, as far as known
  reports,   \* what each finished visit came to
  synced,    \* verifyPages' flag: the web session's child was aligned
  had,       \* verifyPages' option: was a web login stored when the check began
  menu,      \* has the check read the menu for the page it is at
  browser,   \* PlaywrightSession.browser
  open,      \* the browsers that run
  left,      \* history: those whose call ended without closing them, or that the
             \* field no longer named while they ran
  launched,  \* how many were launched
  webSession,\* is a web login stored
  sent       \* requests of the pages that reached the portal

vars == <<kind, at, pc, mine, result, reports, synced, had, menu, browser,
          open, left, launched, webSession, sent>>

PCs == {"idle", "enter", "syncing", "opening", "launching", "context", "page",
        "leaving", "closing", "visited", "done"}
Ends == {"read", "refused", "skipped", "lost", "gated", "failed"}

TypeOK ==
  /\ kind \in [Calls -> Kinds \cup {None}]
  /\ at \in [Calls -> 1 .. 3]
  /\ pc \in [Calls -> PCs]
  /\ mine \in [Calls -> (1 .. MaxBrowsers) \cup {None}]
  /\ result \in [Calls -> Ends \cup {None}]
  /\ \A c \in Calls : /\ reports[c] \in Seq(Ends)
                      /\ kind[c] # None => Len(reports[c]) <= Len(Plan(kind[c]))
  /\ synced \in [Calls -> BOOLEAN] /\ had \in [Calls -> BOOLEAN]
  /\ menu \in [Calls -> BOOLEAN]
  /\ launched \in 0 .. MaxBrowsers
  /\ browser \in (1 .. launched) \cup {None}
  /\ open \subseteq 1 .. launched /\ left \subseteq 1 .. launched
  /\ webSession \in BOOLEAN
  /\ sent \subseteq Methods

Init ==
  /\ kind = [c \in Calls |-> None]
  /\ at = [c \in Calls |-> 1]
  /\ pc = [c \in Calls |-> "idle"]
  /\ mine = [c \in Calls |-> None]
  /\ result = [c \in Calls |-> None]
  /\ reports = [c \in Calls |-> << >>]
  /\ synced = [c \in Calls |-> FALSE] /\ had = synced /\ menu = synced
  /\ browser = None
  /\ open = {} /\ left = {}
  /\ launched = 0
  /\ webSession \in BOOLEAN
  /\ sent = {}

Running == {c \in Calls : pc[c] \notin {"idle", "done"}}
IsWeb(c) == Plan(kind[c])[at[c]] # "app"
Checks(c) == kind[c] = "verify"
OnMenu(c) == Plan(kind[c])[at[c]] = "linked" /\ ~menu[c]
Goto(c, place) == pc' = [pc EXCEPT ![c] = place]

\* The visit ends without a browser having been asked for.
EndsAs(c, r) == /\ result' = [result EXCEPT ![c] = r]
                /\ Goto(c, "visited")

\* `browser verify` is a command of its own process, so it overlaps nothing.
Begin(c) ==
  /\ pc[c] = "idle"
  /\ \E k \in Kinds :
       /\ Running = {} \/ (Overlapping /\ \A d \in Running : "verify" \notin {k, kind[d]})
       /\ kind' = [kind EXCEPT ![c] = k]
  /\ had' = [had EXCEPT ![c] = webSession]
  /\ Goto(c, "enter")
  /\ UNCHANGED <<at, mine, result, reports, synced, menu, browser, open, left, launched,
                 webSession, sent>>

(* visit(), and the head of verifyPages' loop, which was told at the start  *)
(* whether there is a web login and aligns the child only once: a gated     *)
(* page needs the web login and the web session's child.                    *)
Visit(c) ==
  /\ pc[c] = "enter"
  /\ IF ~IsWeb(c) THEN Goto(c, "opening") /\ UNCHANGED <<result, synced>>
     ELSE IF ~(IF Checks(c) THEN had[c] ELSE webSession)
       THEN EndsAs(c, IF Checks(c) THEN "skipped" ELSE "refused") /\ UNCHANGED synced
     ELSE IF Checks(c) /\ synced[c] THEN Goto(c, "opening") /\ UNCHANGED <<result, synced>>
     ELSE /\ synced' = [synced EXCEPT ![c] = TRUE]
          /\ Goto(c, "syncing")
          /\ UNCHANGED result
  /\ UNCHANGED <<kind, at, mine, reports, had, menu, browser, open, left, launched,
                 webSession, sent>>

SyncWebChild(c) ==
  /\ pc[c] = "syncing"
  /\ \/ webSession /\ Goto(c, "opening") /\ UNCHANGED result
     \/ ("sync" \in Faults \/ ~webSession) /\ EndsAs(c, "failed")
  /\ UNCHANGED <<kind, at, mine, reports, synced, had, menu, browser, open, left,
                 launched, webSession, sent>>

\* withPage(): the cookies are read first, and again may be gone.
WithPage(c) ==
  /\ pc[c] = "opening"
  /\ IF IsWeb(c) /\ ~OnMenu(c) /\ ~webSession THEN EndsAs(c, "lost")
                                ELSE Goto(c, "launching") /\ UNCHANGED result
  /\ UNCHANGED <<kind, at, mine, reports, synced, had, menu, browser, open, left, launched,
                 webSession, sent>>

\* getBrowser(): awaited, and then the field names this browser, whatever it named.
Launched(c) ==
  /\ pc[c] = "launching"
  /\ launched < MaxBrowsers
  /\ launched' = launched + 1
  /\ left' = left \cup ({browser} \cap open)
  /\ open' = open \cup {launched'}
  /\ browser' = launched'
  /\ mine' = [mine EXCEPT ![c] = launched']
  /\ Goto(c, "context")
  /\ UNCHANGED <<kind, at, result, reports, synced, had, menu, webSession, sent>>

NotLaunched(c) ==
  /\ pc[c] = "launching"
  /\ "launch" \in Faults
  /\ EndsAs(c, "failed")
  /\ UNCHANGED <<kind, at, mine, reports, synced, had, menu, browser, open, left, launched,
                 webSession, sent>>

\* newContext() stands before the try: when it throws, nothing closes the browser.
NewContext(c) ==
  /\ pc[c] = "context"
  /\ \/ mine[c] \in open /\ Goto(c, "page") /\ UNCHANGED <<result, left>>
     \/ /\ mine[c] \notin open \/ "context" \in Faults
        /\ EndsAs(c, "failed")
        /\ left' = left \cup ({mine[c]} \cap open)
  /\ UNCHANGED <<kind, at, mine, reports, synced, had, menu, browser, open, launched,
                 webSession, sent>>

\* The page's own script asks for something; the route decides.
READ_METHODS == {"GET", "HEAD", "OPTIONS"}

Route(m) == m \in READ_METHODS

PageAsks(c) ==
  /\ pc[c] = "page"
  /\ mine[c] \in open
  /\ \E m \in Methods : Route(m) /\ sent' = sent \cup {m}
  /\ UNCHANGED <<kind, at, pc, mine, result, reports, synced, had, menu, browser, open, left,
                 launched, webSession>>

(* goto() and the extractor: a page that landed on the login page or at the *)
(* gate is not read, and in a closed browser nothing can be.                *)
Landed(l) == CASE l = "portal" -> "read"
               [] l = "login"  -> "lost"
               [] l = "gate"   -> "gated"

Read(c) ==
  /\ pc[c] = "page"
  /\ \E l \in Landings :
       \/ mine[c] \in open /\ result' = [result EXCEPT ![c] = Landed(l)]
       \/ /\ mine[c] \notin open \/ OnMenu(c)      \* a menu may name no subject
          /\ result' = [result EXCEPT ![c] = "failed"]
  /\ Goto(c, "leaving")
  /\ UNCHANGED <<kind, at, mine, reports, synced, had, menu, browser, open, left,
                 launched, webSession, sent>>

CloseContext(c) ==
  /\ pc[c] = "leaving"
  /\ Goto(c, "closing")
  /\ UNCHANGED <<kind, at, mine, result, reports, synced, had, menu, browser, open, left,
                 launched, webSession, sent>>

\* close(): whatever the field names, which need not be the browser of this call.
Close(c) ==
  /\ pc[c] = "closing"
  /\ Goto(c, "visited")
  /\ open' = open \ {browser}
  /\ browser' = None
  /\ UNCHANGED <<kind, at, mine, result, reports, synced, had, menu, left, launched,
                 webSession, sent>>

\* exampleQuery: the menu was read, and now the page it leads to.
MenuRead(c) ==
  /\ pc[c] = "visited" /\ OnMenu(c) /\ result[c] = "read"
  /\ menu' = [menu EXCEPT ![c] = TRUE]
  /\ result' = [result EXCEPT ![c] = None]
  /\ mine' = [mine EXCEPT ![c] = None]
  /\ Goto(c, "opening")
  /\ UNCHANGED <<kind, at, reports, synced, had, browser, open, left, launched,
                 webSession, sent>>

(* The page's outcome: an operation goes on to its next page only after a    *)
(* read, `browser verify` goes on whatever came of it and closes the session *)
(* at the end.                                                               *)
NextPage(c) ==
  /\ pc[c] = "visited" /\ ~(OnMenu(c) /\ result[c] = "read")
  /\ reports' = [reports EXCEPT ![c] = Append(@, result[c])]
  /\ IF at[c] = Len(Plan(kind[c])) \/ (~Checks(c) /\ result[c] # "read")
       THEN /\ Goto(c, "done")
            /\ IF Checks(c) THEN open' = open \ {browser} /\ browser' = None
                            ELSE UNCHANGED <<open, browser>>
            /\ UNCHANGED at
       ELSE /\ Goto(c, "enter")
            /\ at' = [at EXCEPT ![c] = @ + 1]
            /\ UNCHANGED <<open, browser>>
  /\ result' = [result EXCEPT ![c] = None]
  /\ mine' = [mine EXCEPT ![c] = None]
  /\ menu' = [menu EXCEPT ![c] = FALSE]
  /\ UNCHANGED <<kind, synced, had, left, launched, webSession, sent>>

\* The web login's session is forgotten meanwhile.
Logout ==
  /\ "logout" \in Faults /\ webSession
  /\ webSession' = FALSE
  /\ UNCHANGED <<kind, at, pc, mine, result, reports, synced, had, menu, browser, open, left,
                 launched, sent>>

Next ==
  \/ \E c \in Calls :
       \/ Begin(c) \/ Visit(c) \/ SyncWebChild(c) \/ WithPage(c) \/ Launched(c)
       \/ NotLaunched(c) \/ NewContext(c) \/ PageAsks(c) \/ Read(c)
       \/ CloseContext(c) \/ Close(c) \/ MenuRead(c) \/ NextPage(c)
  \/ Logout

Spec == Init /\ [][Next]_vars

-----------------------------------------------------------------------------
(* "One browser per call (...): a lingering Chromium would keep the CLI /    *)
(* MCP process alive after the operation finished" (playwright.ts:117-119):  *)
(* when no call is under way no browser runs but those that lost the call    *)
(* that would have closed them: newContext() threw (playwright.ts:75-77), or *)
(* another call launched its own and the field named that one (:57-65).      *)
NoBrowserLingers == Running = {} => open \subseteq left

(* Nothing that changes the portal leaves a page that is read, whatever its *)
(* scripts try (playwright.ts:107-113).                                     *)
PagesOnlyRead == sent \subseteq READ_METHODS

(* A check of the pages reports every page of the plan once, and an         *)
(* operation answers only when each of its visits read a page of the portal *)
(* (verify.ts:46-85, browser-portal.ts:109-136): never what the login page  *)
(* or the gate shows, nor a later page after a failed one.                  *)
AnswersFromPages ==
  \A c \in Calls : pc[c] = "done" =>
    IF Checks(c)
      THEN Len(reports[c]) = Len(Plan(kind[c]))
      ELSE \A i \in 1 .. Len(reports[c]) :
             reports[c][i] = "read" \/ i = Len(reports[c])

=============================================================================
