--------------------------- MODULE OwnerSessions ---------------------------
(* The owner's sign-ins at the connector's and the probe's web pages           *)
(* (http/owner-session.ts) and what stands in front of the owner routes        *)
(* (http/server.ts): the gate, and the limiters that count a caller's requests *)
(* per minute. A browser holds one cookie; the table holds at most MaxOwners   *)
(* sign-ins and is emptied rather than refuse one more; a sign-in is good for  *)
(* half an hour. Strangers share the owner's address, so its budgets too.      *)
EXTENDS Naturals, FiniteSets

CONSTANTS
  Browsers,    \* who signs in; each keeps the cookie it was given last
  MaxOwners,   \* 16
  SessionLife, \* 30 minutes
  MaxTime,     \* bound on the clock
  MaxTokens,   \* bound on the sign-ins
  Limit        \* requests per window and limiter (20)

VARIABLES
  now,
  sessions,   \* the Map: token -> when it expires (0: no entry)
  cookie,     \* the token each browser presents; 0: none
  issued,     \* how many tokens were issued
  ended,      \* tokens signed out of, swept away or over
  spent,      \* what each limiter has counted for the address in this window
  logins,     \* the portal logins the owner began in this window
  shutOut     \* a 429 answered the right password, or a portal login of the owner's
              \* who had begun fewer than Limit

vars == <<now, sessions, cookie, issued, ended, spent, logins, shutOut>>

Tokens == 1..MaxTokens
Kept == {t \in Tokens : sessions[t] # 0}
Limiters == {"ownerLogin", "upstreamLogin", "callback"}

Init ==
  /\ now = 1 /\ issued = 0 /\ ended = {}
  /\ sessions = [t \in Tokens |-> 0]
  /\ cookie = [b \in Browsers |-> 0]
  /\ spent = [l \in Limiters |-> 0] /\ logins = 0 /\ shutOut = FALSE

(****************************************************************************)
(* The limiters of server.ts: one budget each, of the caller's address. The *)
(* first skips a request that carries the owner's password.                 *)
(****************************************************************************)
Counts(right) == ~right

Passes(l) == spent[l] < Limit
Spends(l) == spent' = [spent EXCEPT ![l] = IF @ < Limit THEN @ + 1 ELSE @]

(* A wrong password: 401, or 429 beyond the limit.                            *)
Guess ==
  /\ Counts(FALSE)
  /\ Spends("ownerLogin")
  /\ UNCHANGED <<now, sessions, cookie, issued, ended, logins, shutOut>>

(* GET /schoolsoft/callback is open to anyone, so it has a budget of its own. *)
Calls ==
  /\ Spends("callback")
  /\ UNCHANGED <<now, sessions, cookie, issued, ended, logins, shutOut>>

(*************************************************************************)
(* owner-session.ts.                                                     *)
(*************************************************************************)
Over(t) == sessions[t] <= now

(* Emptied, not refused: the password is right.                               *)
Sweep(live) == IF Cardinality(live) >= MaxOwners THEN {} ELSE live

(* login: the expired go, then, in a full table, everyone.                    *)
SignedIn(b) ==
  LET live == Sweep({t \in Kept : ~Over(t)})
      new  == issued + 1 IN
  /\ issued < MaxTokens
  /\ sessions' = [t \in Tokens |-> CASE t = new -> now + SessionLife
                                     [] t \in live -> sessions[t]
                                     [] OTHER -> 0]
  /\ cookie' = [cookie EXCEPT ![b] = new]
  /\ issued' = new
  /\ ended' = ended \cup (Kept \ live)

login(b) ==
  /\ IF Counts(TRUE) THEN Spends("ownerLogin") ELSE spent' = spent
  /\ IF Counts(TRUE) /\ ~Passes("ownerLogin")
     THEN shutOut' = TRUE /\ UNCHANGED <<sessions, cookie, issued, ended>>
     ELSE SignedIn(b) /\ shutOut' = shutOut
  /\ UNCHANGED <<now, logins>>

(* get: what the owner routes ask of every request; an expired entry goes.    *)
Opens(b) == cookie[b] # 0 /\ cookie[b] \in Kept /\ ~Over(cookie[b])

get(b) ==
  /\ cookie[b] \in Kept /\ Over(cookie[b])
  /\ sessions' = [sessions EXCEPT ![cookie[b]] = 0]
  /\ ended' = ended \cup {cookie[b]}
  /\ UNCHANGED <<now, cookie, issued, spent, logins, shutOut>>

(* POST /owner/schoolsoft/login: the gate first, then its own budget.          *)
BeginLogin(b) ==
  /\ Opens(b)
  /\ Spends("upstreamLogin")
  /\ logins' = IF logins < Limit THEN logins + 1 ELSE logins
  /\ shutOut' = (shutOut \/ (~Passes("upstreamLogin") /\ logins < Limit))
  /\ UNCHANGED <<now, sessions, cookie, issued, ended>>

(* logout: the entry of the cookie goes; the response clears the cookie, which *)
(* somebody may have kept.                                                     *)
logout(b) ==
  /\ Opens(b)
  /\ sessions' = [sessions EXCEPT ![cookie[b]] = 0]
  /\ ended' = ended \cup {cookie[b]}
  /\ cookie' \in {cookie, [cookie EXCEPT ![b] = 0]}
  /\ UNCHANGED <<now, issued, spent, logins, shutOut>>

(* clear: the owner disconnects everything.                                   *)
clear ==
  /\ \E b \in Browsers : Opens(b)
  /\ sessions' = [t \in Tokens |-> 0]
  /\ ended' = ended \cup Kept
  /\ UNCHANGED <<now, cookie, issued, spent, logins, shutOut>>

(* A cookie is copied to another browser.                                     *)
Copied(b, c) ==
  /\ cookie' = [cookie EXCEPT ![c] = cookie[b]]
  /\ UNCHANGED <<now, sessions, issued, ended, spent, logins, shutOut>>

(* Ten minutes pass: every window is over.                                    *)
Tick ==
  /\ now < MaxTime /\ now' = now + 1
  /\ spent' = [l \in Limiters |-> 0] /\ logins' = 0
  /\ UNCHANGED <<sessions, cookie, issued, ended, shutOut>>

Next ==
  \/ \E b \in Browsers :
       \/ login(b) \/ get(b) \/ BeginLogin(b) \/ logout(b)
       \/ \E c \in Browsers \ {b} : Copied(b, c)
  \/ Guess \/ Calls \/ clear \/ Tick

Spec == Init /\ [][Next]_vars

(*************************************************************************)
(* Properties.                                                           *)
(*************************************************************************)
TypeOK ==
  /\ now \in 1..MaxTime /\ issued \in 0..MaxTokens /\ ended \subseteq Tokens
  /\ sessions \in [Tokens -> 0..(MaxTime + SessionLife)] /\ Cardinality(Kept) <= MaxOwners
  /\ cookie \in [Browsers -> Tokens \cup {0}]
  /\ spent \in [Limiters -> 0..Limit] /\ logins \in 0..Limit /\ shutOut \in BOOLEAN

(* A sign-in that was ended opens nothing from then on, whoever kept its *)
(* cookie, and none outlives its half hour.                              *)
EndedStaysEnded ==
  \A b \in Browsers : Opens(b) => cookie[b] \notin ended /\ now < sessions[cookie[b]]

(* Whatever others at the owner's address send, the owner's password signs in *)
(* and the owner's logins at the portal have their whole budget               *)
(* (server.ts:113-117, owner-session.ts:34-37).                               *)
OwnerIsNotShutOut == ~shutOut
=============================================================================
