----------------------------- MODULE WebSession -----------------------------
(****************************************************************************)
(* The web login: core/browser/web-login.ts opens a visible browser window, *)
(* polls its pages until one of them is a page of the portal and keeps the  *)
(* portal's cookies; SessionManager.webLogin() holds them in memory and     *)
(* beside the app session in the store.  Every persist() writes the web     *)
(* session this process has in memory, noteRefresh() the one in the store.  *)
(* Several processes (a CLI command, the server of an assistant) may share  *)
(* the store.  A web session is the number of its login, 0 is none.         *)
(****************************************************************************)
EXTENDS Naturals, FiniteSets

CONSTANTS Procs,       \* processes with the same state directory
          MaxLogins,   \* bound: web logins completed
          MaxPolls,    \* polls until the window is given up
          NoSession    \* what an empty store holds

Pages   == {"login", "portal", "elsewhere"}
Cookies == {"portal", "provider"}

VARIABLES
  up,       \* the processes that run
  web,      \* SessionManager.web of each
  store,    \* the web session in the store, NoSession when nothing is saved
  window,   \* the login window of each: its pages and cookies, {} when shut
  polls,    \* how often each has polled, 0 when no login is under way
  kept,     \* what the cookies of each completed login were
  told,     \* the newest web login reported as done while an app session was saved
  ended,    \* the web sessions that went with a lost app session
  forgotten \* those the guardian logged out of

vars == <<up, web, store, window, polls, kept, told, ended, forgotten>>

Shut == [pages |-> {}, cookies |-> {}]

TypeOK ==
  /\ up \subseteq Procs
  /\ web \in [Procs -> 0 .. MaxLogins]
  /\ store \in (0 .. MaxLogins) \cup {NoSession}
  /\ \A p \in Procs : /\ window[p].pages \subseteq Pages
                      /\ window[p].cookies \subseteq Cookies
  /\ polls \in [Procs -> 0 .. MaxPolls]
  /\ \A n \in DOMAIN kept : kept[n] \subseteq Cookies /\ kept[n] # {}
  /\ DOMAIN kept \in {1 .. n : n \in 0 .. MaxLogins}
  /\ told \in {0} \cup DOMAIN kept
  /\ ended \subseteq DOMAIN kept /\ forgotten \subseteq DOMAIN kept

Init ==
  /\ up = {}
  /\ web = [p \in Procs |-> 0]
  /\ store \in {0, NoSession}
  /\ window = [p \in Procs |-> Shut]
  /\ polls = [p \in Procs |-> 0]
  /\ kept = << >>
  /\ told = 0
  /\ ended = {}
  /\ forgotten = {}

Saved == IF store = NoSession THEN 0 ELSE store
Newest == Cardinality(DOMAIN kept)

\* The constructor reads the web session that was saved.
Start(p) ==
  /\ p \notin up
  /\ up' = up \cup {p}
  /\ web' = [web EXCEPT ![p] = Saved]
  /\ UNCHANGED <<store, window, polls, kept, told, ended, forgotten>>

Exit(p) ==
  /\ p \in up
  /\ up' = up \ {p}
  /\ web' = [web EXCEPT ![p] = 0]
  /\ window' = [window EXCEPT ![p] = Shut]
  /\ polls' = [polls EXCEPT ![p] = 0]
  /\ UNCHANGED <<store, kept, told, ended, forgotten>>

\* webLogin(): the window, on the portal's address, which leads to its login.
OpenWindow(p) ==
  /\ p \in up /\ polls[p] = 0
  /\ Newest + Cardinality({q \in Procs : polls[q] > 0}) < MaxLogins
  /\ polls' = [polls EXCEPT ![p] = 1]
  /\ window' = [window EXCEPT ![p] = [pages |-> {"login"}, cookies |-> {"provider"}]]
  /\ UNCHANGED <<up, web, store, kept, told, ended, forgotten>>

\* The guardian and the identity provider, in whichever tab.
Browse(p) ==
  /\ polls[p] > 0
  /\ \E page \in Pages : window' = [window EXCEPT ![p].pages =
                             IF page \in @ THEN @ \ {page} ELSE @ \cup {page}]
  /\ UNCHANGED <<up, web, store, polls, kept, told, ended, forgotten>>

CookieSet(p) ==
  /\ "portal" \in window[p].pages
  /\ window' = [window EXCEPT ![p].cookies = @ \cup {"portal"}]
  /\ UNCHANGED <<up, web, store, polls, kept, told, ended, forgotten>>

\* One turn of the polling loop: some page is the portal's, and it has cookies.
PortalCookies(p) ==
  IF "portal" \in window[p].pages THEN window[p].cookies \cap {"portal"} ELSE {}

CloseWindow(p) == /\ window' = [window EXCEPT ![p] = Shut]
                  /\ polls' = [polls EXCEPT ![p] = 0]

webLogin(p) ==
  /\ polls[p] > 0 /\ PortalCookies(p) # {}
  /\ CloseWindow(p)
  /\ kept' = [n \in 1 .. Newest + 1 |-> IF n <= Newest THEN kept[n] ELSE PortalCookies(p)]
  /\ web' = [web EXCEPT ![p] = Newest + 1]
  /\ IF store = NoSession THEN UNCHANGED <<store, told>>
                          ELSE store' = Newest + 1 /\ told' = Newest + 1
  /\ UNCHANGED <<up, ended, forgotten>>

Poll(p) ==
  /\ polls[p] > 0 /\ PortalCookies(p) = {}
  /\ IF polls[p] < MaxPolls
       THEN polls' = [polls EXCEPT ![p] = @ + 1] /\ UNCHANGED window
       ELSE CloseWindow(p)
  /\ UNCHANGED <<up, web, store, kept, told, ended, forgotten>>

\* The guardian shuts the window, or the navigation fails: the browser is closed.
WindowFails(p) ==
  /\ polls[p] > 0
  /\ CloseWindow(p)
  /\ UNCHANGED <<up, web, store, kept, told, ended, forgotten>>

\* The app session beside it: a restore, a child switch or a login is persisted
\* with the web session in memory, a refresh with the one in the store.
persist(p) ==
  /\ p \in up
  /\ store' = web[p]
  /\ UNCHANGED <<up, web, window, polls, kept, told, ended, forgotten>>

\* Losing the app session empties the store, and this process keeps the web session.
loseAppSession(p) ==
  /\ p \in up /\ store # NoSession
  /\ store' = NoSession
  /\ ended' = ended \cup ({store} \ {0})
  /\ UNCHANGED <<up, web, window, polls, kept, told, forgotten>>

logout(p) ==
  /\ p \in up
  /\ store' = NoSession
  /\ web' = [web EXCEPT ![p] = 0]
  /\ forgotten' = forgotten \cup ({Saved, web[p]} \ {0})
  /\ UNCHANGED <<up, window, polls, kept, told, ended>>

Next ==
  \E p \in Procs :
    \/ Start(p) \/ Exit(p) \/ OpenWindow(p) \/ Browse(p) \/ CookieSet(p)
    \/ webLogin(p) \/ Poll(p) \/ WindowFails(p) \/ persist(p)
    \/ loseAppSession(p) \/ logout(p)

Spec == Init /\ [][Next]_vars

\* The window's deadline comes, whatever the guardian does in it.
FairSpec == Spec /\ \A p \in Procs : WF_vars(Poll(p) \/ webLogin(p))

-----------------------------------------------------------------------------
(* The cookies of a completed web login are the portal's, taken when one of *)
(* the window's pages was the portal's (web-login.ts:71-94): never those of *)
(* the login page or of the identity provider alone.                        *)
KeepsThePortals == \A n \in DOMAIN kept : kept[n] = {"portal"}

(* "Interactive web login (...); stores the cookies"                     *)
(* (session-manager.ts:433): a web login told as done stays in the store *)
(* until a logout or the loss of the app session it was saved beside.    *)
(* So it is in one process; another process that shares the store writes *)
(* over it the one it has in memory.                                     *)
WebLoginStays == (told # 0 /\ told \notin ended \cup forgotten) => Saved >= told

(* A logout forgets the web login for good: no later persist of the process *)
(* brings it back to the store (session-manager.ts:452-457).                *)
LogoutForgetsIt == Saved \notin forgotten

(* A login window is given up in the end, however long it is looked at   *)
(* (web-login.ts:67-104).                                                *)
Watches(p) == polls[p] > 0

=============================================================================
