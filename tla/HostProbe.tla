------------------------------ MODULE HostProbe ------------------------------
(* The host probe over HTTP: MCP sessions behind the connector's OAuth        *)
(* provider, the tools that ask the host's user something, and the pages they *)
(* point at (http/probe/app.ts, tools.ts, web.ts). A session is of one client *)
(* and follows its newest grant; the least recently used one makes room for a *)
(* new one; what the owner revokes is cut. Grants are ConnectorOAuth's.       *)
EXTENDS Naturals, Sequences, FiniteSets

CONSTANTS
  Clients,
  MaxGrants,     \* bound on the approvals
  MaxIds,        \* bound on the MCP sessions opened
  MaxSessions,   \* sessions kept open
  IdleAfter,     \* sessionIdleMs
  MaxPages,      \* bound on the pages made
  MaxHeld,       \* pages kept by UrlPages
  PageLife,      \* 30 minutes
  MaxTime        \* bound on the clock

VARIABLES
  now,
  grants,     \* in the order of approval: [client, state]; state is live, revoked (by the
              \* owner) or returned (by the host)
  sessions,   \* the Map of MCP sessions: id -> [client, grant, lastUsed]
  opened,     \* how many session ids there have been
  call,       \* per session: the page its elicitation waits for, 0 when none does
  required,   \* per session: the page probe_elicit_url_required asked for; 0: none
  passes,     \* per session: how often that tool let a call through
  pages,      \* the Map of pages, in the order of insertion
  made,       \* every page ever made: its session and how far it got
  told        \* how often the host was told that each page is done

vars == <<now, grants, sessions, opened, call, required, passes, pages, made, told>>
kept == <<now, grants, pages, made, told>>   \* what a session's end leaves alone

Ids   == 1..MaxIds
Pages == 1..MaxPages
Open  == DOMAIN sessions
Live(g)  == grants[g].state = "live"
ByOwner(g) == grants[g].state = "revoked"

Init ==
  /\ now = 0 /\ grants = <<>> /\ opened = 0
  /\ sessions = <<>>
  /\ call = [s \in Ids |-> 0] /\ required = [s \in Ids |-> 0] /\ passes = [s \in Ids |-> 0]
  /\ pages = <<>> /\ made = <<>> /\ told = [p \in Pages |-> 0]

Restricted(S) == [s \in S |-> sessions[s]]

(* closeSessions: the transport and the server go with the entry, and an *)
(* elicitation that waits for an answer fails.                           *)
CloseAllBut(S) ==
  /\ sessions' = Restricted(S)
  /\ call' = [s \in Ids |-> IF s \in Open \ S THEN 0 ELSE call[s]]

Fresh == {s \in Open : now - sessions[s].lastUsed < IdleAfter}

(*************************************************************************)
(* The owner and the host's side of OAuth.                               *)
(*************************************************************************)
Approve(c) ==
  /\ Len(grants) < MaxGrants
  /\ grants' = Append(grants, [client |-> c, state |-> "live"])
  /\ UNCHANGED <<now, sessions, opened, call, required, passes, pages, made, told>>

Revoke(g) ==   \* POST /owner/revoke
  /\ Live(g)
  /\ grants' = [grants EXCEPT ![g].state = "revoked"]
  /\ CloseAllBut({s \in Open : sessions[s].grant # g})
  /\ UNCHANGED <<now, opened, required, passes, pages, made, told>>

RevokeAll ==
  /\ \E g \in DOMAIN grants : Live(g)
  /\ grants' = [g \in DOMAIN grants |-> IF Live(g) THEN [grants[g] EXCEPT !.state = "revoked"]
                                        ELSE grants[g]]
  /\ CloseAllBut({})
  /\ UNCHANGED <<now, opened, required, passes, pages, made, told>>

Returned(g) ==   \* POST /revoke by the host: its sessions stay until they are idle
  /\ Live(g)
  /\ grants' = [grants EXCEPT ![g].state = "returned"]
  /\ UNCHANGED <<now, sessions, opened, call, required, passes, pages, made, told>>

(*****************************************************************************)
(* /mcp: the bearer token is verified, idle sessions go, then the session id *)
(* decides. A tool call whose scope is missing is refused before that.       *)
(*****************************************************************************)
Refused(g) ==   \* no session, another client's, or a missing scope: 400, 403 or 404
  /\ Live(g) /\ Fresh # Open
  /\ CloseAllBut(Fresh)
  /\ UNCHANGED <<opened, required, passes>> /\ UNCHANGED kept

Uses(g, s) == s \in Fresh /\ sessions[s].client = grants[g].client

(* The session follows the grant that was used last (after a step-up).        *)
Touched(g, s) == [Restricted(Fresh) EXCEPT ![s].grant = g, ![s].lastUsed = now]

Rest(s) == [t \in Ids |-> IF t \in Open \ Fresh THEN 0 ELSE call[t]]

Request(g, s) ==   \* a call that is answered at once: a read, a write, a step-up
  /\ Live(g) /\ Uses(g, s)
  /\ sessions' = Touched(g, s) /\ call' = Rest(s)
  /\ UNCHANGED <<opened, required, passes>> /\ UNCHANGED kept

Close(g, s) ==   \* DELETE: onsessionclosed
  /\ Live(g) /\ Uses(g, s)
  /\ CloseAllBut(Fresh \ {s})
  /\ UNCHANGED <<opened, required, passes>> /\ UNCHANGED kept

(* The least recently used session makes room.                                *)
Evict(S) ==
  IF Cardinality(S) < MaxSessions THEN S
  ELSE S \ {CHOOSE s \in S : \A t \in S : sessions[s].lastUsed <= sessions[t].lastUsed}

Initialize(g) ==
  /\ Live(g) /\ opened < MaxIds
  /\ LET id == opened + 1 IN
     /\ opened' = id
     /\ sessions' = [s \in Evict(Fresh) \cup {id} |->
                       IF s = id THEN [client |-> grants[g].client, grant |-> g, lastUsed |-> now]
                       ELSE sessions[s]]
  /\ call' = [s \in Ids |-> IF s \in Open \ Evict(Fresh) THEN 0 ELSE call[s]]
  /\ UNCHANGED <<required, passes>> /\ UNCHANGED kept

(**************************************************************************)
(* UrlPages: at most MaxHeld, the oldest goes; a page lives half an hour. *)
(**************************************************************************)
NewPage(s) == Len(made) + 1

CreatePage(s) ==
  /\ Len(made) < MaxPages
  /\ pages' = Append(IF Len(pages) >= MaxHeld THEN Tail(pages) ELSE pages,
                     [id |-> NewPage(s), since |-> now])
  /\ made' = Append(made, [session |-> s, done |-> FALSE, telling |-> 0])

HeldPage(p) == \E k \in DOMAIN pages : pages[k].id = p /\ now < pages[k].since + PageLife

(* probe_elicit_url: the call waits until the host answers or times out.      *)
ElicitUrl(g, s) ==
  /\ Live(g) /\ Uses(g, s) /\ call[s] = 0
  /\ CreatePage(s)
  /\ sessions' = Touched(g, s) /\ call' = [Rest(s) EXCEPT ![s] = NewPage(s)]
  /\ UNCHANGED <<now, grants, opened, required, passes, told>>

(* The user's answer, or elicitTimeoutMs.                                     *)
ElicitEnds(s) ==
  /\ call[s] # 0 /\ call' = [call EXCEPT ![s] = 0]
  /\ UNCHANGED <<sessions, opened, required, passes>> /\ UNCHANGED kept

Done(p) == p # 0 /\ HeldPage(p) /\ made[p].done

(* probe_elicit_url_required: a retry passes once the page it asked for is *)
(* completed; otherwise a new page is required.                            *)
RequireUrl(g, s) ==
  /\ Live(g) /\ Uses(g, s)
  /\ sessions' = Touched(g, s) /\ call' = Rest(s)
  /\ IF Done(required[s])
     THEN /\ passes' = [passes EXCEPT ![s] = @ + 1]
          /\ required' = [required EXCEPT ![s] = 0]
          /\ UNCHANGED <<pages, made>>
     ELSE /\ CreatePage(s)
          /\ required' = [required EXCEPT ![s] = NewPage(s)]
          /\ passes' = passes
  /\ UNCHANGED <<now, grants, opened, told>>

(* complete, up to its await: an expired page goes, a completed one is told *)
(* of no more.                                                              *)
Complete(p) ==
  /\ HeldPage(p) /\ ~made[p].done
  /\ made' = [made EXCEPT ![p].done = TRUE, ![p].telling = @ + 1]
  /\ UNCHANGED <<now, grants, sessions, opened, call, required, passes, pages, told>>

(* onComplete: the host is told, if its session is still there.               *)
Told(p) ==
  /\ made[p].telling > 0
  /\ made' = [made EXCEPT ![p].telling = @ - 1, ![p].done = TRUE]
  /\ told' = [told EXCEPT ![p] = IF made[p].session \in Open THEN @ + 1 ELSE @]
  /\ UNCHANGED <<now, grants, sessions, opened, call, required, passes, pages>>

Tick ==
  /\ now < MaxTime /\ now' = now + 1
  /\ UNCHANGED <<grants, sessions, opened, call, required, passes, pages, made, told>>

Next ==
  \/ \E c \in Clients : Approve(c)
  \/ \E g \in DOMAIN grants :
       \/ Revoke(g) \/ Returned(g) \/ Refused(g) \/ Initialize(g)
       \/ \E s \in Open : Request(g, s) \/ Close(g, s) \/ ElicitUrl(g, s) \/ RequireUrl(g, s)
  \/ \E s \in Ids : ElicitEnds(s)
  \/ \E p \in DOMAIN made : Complete(p) \/ Told(p)
  \/ RevokeAll \/ Tick

Spec == Init /\ [][Next]_vars

(*************************************************************************)
(* Properties.                                                           *)
(*************************************************************************)
(* The types; a session that was closed has no call waiting.             *)
TypeOK ==
  /\ now \in 0..MaxTime /\ Open \subseteq Ids /\ opened \in 0..MaxIds
  /\ \A s \in Open : sessions[s].grant \in DOMAIN grants /\ sessions[s].lastUsed <= now
  /\ call \in [Ids -> 0..MaxPages] /\ required \in [Ids -> 0..MaxPages]
  /\ \A s \in Ids : call[s] # 0 => s \in Open
  /\ Len(pages) <= MaxHeld /\ Len(made) <= MaxPages

(* What the owner has disconnected is cut: no open session is of a grant the *)
(* owner revoked, whichever grants it went through before, and every session *)
(* is of the client that opened it.                                          *)
RevokedIsCut ==
  \A s \in Open : /\ ~ByOwner(sessions[s].grant)
                  /\ grants[sessions[s].grant].client = sessions[s].client

(* At most MaxSessions are open, and a session that is neither idle, revoked *)
(* nor closed by its host goes only when every other was used since.         *)
OldestMakesRoom ==
  /\ Cardinality(Open') <= MaxSessions
  /\ \A s \in Fresh \ Open' :
       opened' # opened => \A t \in Fresh \ {s} : sessions[t].lastUsed >= sessions[s].lastUsed

(* The host is told at most once that a page is done, however often and by *)
(* however many the page is submitted.                                     *)
ToldOnce == \A p \in Pages : told[p] <= 1

(* The tool that requires a page lets a session through once per page that the *)
(* owner completed.                                                            *)
PassesAreEarned ==
  \A s \in Ids :
    passes[s] <= Cardinality({p \in DOMAIN made : made[p].session = s /\ made[p].done})
=============================================================================
