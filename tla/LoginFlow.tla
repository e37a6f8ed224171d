------------------------------ MODULE LoginFlow ------------------------------
(***************************************************************************)
(* BankID in the user's own browser: the processes of one state directory  *)
(* that log in (the command line, its detached copy, an assistant's        *)
(* server), the one callback port they share, the listener that answers    *)
(* once and lingers, the browser tabs that come back late, twice or for    *)
(* another login, and the marker that tells the other processes of a login *)
(* under way.  A login is a number: its `state`, its code and its verifier *)
(* are told apart by that number alone.                                    *)
(*                                                                         *)
(* Models src/core/auth/callback-server.ts, src/core/session/pending-      *)
(* login.ts, the login half of src/core/session/session-manager.ts,        *)
(* runBrowserLogin of browser-flow.ts and backgroundLogin of cli/program.  *)
(***************************************************************************)
EXTENDS Naturals, FiniteSets

CONSTANTS Procs,       \* the processes; a process is named by its pid
          MaxLogins,   \* logins started, over all processes
          Timeout,     \* how long a listener waits (timeoutMs)
          Ttl,         \* how old a marker may be (PENDING_LOGIN_TTL_MS)
          Faults,      \* of {"crash", "reused", "unsaved"}
          None

VARIABLES login,      \* per process: where its login is, its number, the code it got, its age
          server,     \* per login: its listener, "none", "up" or "lingering"
          marker,     \* the pending marker, or None
          tabs,       \* the logins whose address the browser has opened
          spent,      \* the codes the portal has taken
          exchanged,  \* <<login, the login its code was made for>>
          count,      \* logins started
          dead,       \* processes that crashed
          reused,     \* the dead whose pid another program now has
          unsaved     \* processes whose login ended in a save that threw

vars == <<login, server, marker, tabs, spent, exchanged, count, dead, reused, unsaved>>

Logins == 1 .. MaxLogins
Places == {"none", "checked", "starting", "waiting", "coded"}
Idle == [at |-> "none", id |-> 0, code |-> 0, age |-> 0]
Marker(s, p, at, url) == [state |-> s, pid |-> p, age |-> at, url |-> url]

Living == Procs \ dead
PortTaken == \E i \in Logins : server[i] # "none"

(* pendingLogin: a marker too old, or of another process that is gone, is cleared. *)
Stale == marker # None /\ marker.age > Ttl
Gone(p) == /\ marker # None
           /\ marker.state = "running"
           /\ marker.pid # p
           /\ marker.pid \in dead \ reused
pendingLogin(p) == IF Stale \/ Gone(p) THEN None ELSE marker
Blocked(p) == LET m == pendingLogin(p) IN m # None /\ m.state = "running" /\ m.pid # p

TypeOK ==
  /\ login \in [Procs -> [at : Places, id : 0 .. MaxLogins, code : 0 .. MaxLogins,
                          age : 0 .. Timeout]]
  /\ server \in [Logins -> {"none", "up", "lingering"}]
  /\ marker = None \/ marker \in [state : {"running", "failed"}, pid : Procs,
                                  age : 0 .. Ttl + 1, url : 0 .. MaxLogins]
  /\ tabs \subseteq Logins /\ spent \subseteq Logins
  /\ exchanged \subseteq Logins \X Logins
  /\ count \in 0 .. MaxLogins
  /\ dead \subseteq Procs /\ reused \subseteq dead /\ unsaved \subseteq Procs
  /\ Cardinality({i \in Logins : server[i] # "none"}) <= 1

Init ==
  /\ login = [p \in Procs |-> Idle]
  /\ server = [i \in Logins |-> "none"]
  /\ marker = None
  /\ tabs = {} /\ spent = {} /\ exchanged = {} /\ count = 0
  /\ dead = {} /\ reused = {} /\ unsaved = {}

Waiting(p) == p \in Living /\ login[p].at = "waiting"

---------------------------------------------------------------------------
(* How a login ends: "in" clears the marker, a failure is recorded in it under the *)
(* age it has, and a save that throws leaves it as it is.                          *)
Failed(p) ==
  /\ marker' = Marker("failed", p, IF marker = None THEN 0 ELSE marker.age, 0)
  /\ login' = [login EXCEPT ![p] = Idle]
  /\ UNCHANGED unsaved

LoggedIn(p) ==
  /\ marker' = None
  /\ login' = [login EXCEPT ![p] = Idle]
  /\ UNCHANGED unsaved

Unsaved(p) ==
  /\ "unsaved" \in Faults
  /\ unsaved' = unsaved \cup {p}
  /\ login' = [login EXCEPT ![p] = Idle]
  /\ UNCHANGED marker

---------------------------------------------------------------------------
(* login: the marker of another live login refuses this one.  Reading the marker and *)
(* writing it are two calls, and another process may come between them.              *)
Checks(p) ==
  /\ p \in Living /\ login[p].at = "none" /\ count < MaxLogins
  /\ ~Blocked(p)
  /\ count' = count + 1
  /\ login' = [login EXCEPT ![p] = [Idle EXCEPT !.at = "checked", !.id = count + 1]]
  /\ marker' = pendingLogin(p)
  /\ UNCHANGED <<server, tabs, spent, exchanged, dead, reused, unsaved>>

Writes(p) ==
  /\ p \in Living /\ login[p].at = "checked"
  /\ marker' = Marker("running", p, 0, 0)
  /\ login' = [login EXCEPT ![p].at = "starting"]
  /\ UNCHANGED <<server, tabs, spent, exchanged, count, dead, reused, unsaved>>

(* Listening opens the browser and notes its address in whatever running marker is *)
(* there by then (noteLoginUrl).                                                   *)
Listens(p) ==
  /\ p \in Living /\ login[p].at = "starting" /\ ~PortTaken
  /\ marker' = IF marker # None /\ marker.state = "running"
               THEN [marker EXCEPT !.url = login[p].id] ELSE marker
  /\ server' = [server EXCEPT ![login[p].id] = "up"]
  /\ tabs' = tabs \cup {login[p].id}
  /\ login' = [login EXCEPT ![p].at = "waiting"]
  /\ UNCHANGED <<spent, exchanged, count, dead, reused, unsaved>>

(* The port is another login's: callback_port_busy. *)
PortBusy(p) ==
  /\ p \in Living /\ login[p].at = "starting" /\ PortTaken
  /\ Failed(p)
  /\ UNCHANGED <<server, tabs, spent, exchanged, count, dead, reused>>

---------------------------------------------------------------------------
\* Wrong: whose login the callback is about is not asked.
RightStateUnasked(i, j) == TRUE

(* A tab comes back to the port with a code, an error or nothing, for the login it    *)
(* was opened for, to whichever listener has the port.  An error is not asked for its *)
(* state; the right code resolves the login, everything else rejects it.              *)
RightState(i, j) == i = j

Callback(i, with) ==
  /\ i \in tabs
  /\ \E p \in Procs :
       /\ Waiting(p) /\ server[login[p].id] = "up"
       /\ server' = [server EXCEPT ![login[p].id] = "lingering"]
       /\ IF with = "code" /\ RightState(i, login[p].id)
          THEN /\ login' = [login EXCEPT ![p].at = "coded", ![p].code = i, ![p].age = 0]
               /\ UNCHANGED <<marker, unsaved>>
          ELSE Failed(p)
  /\ UNCHANGED <<tabs, spent, exchanged, count, dead, reused>>

(* The answer is out: the listener lets the port go. *)
Closes(i) ==
  /\ server[i] = "lingering"
  /\ server' = [server EXCEPT ![i] = "none"]
  /\ UNCHANGED <<login, marker, tabs, spent, exchanged, count, dead, reused, unsaved>>

(* Nobody came in time: the listener is closed and the login rejected. *)
CloseServer(i) == server' = [server EXCEPT ![i] = "none"]

TimedOut(p) ==
  /\ Waiting(p) /\ login[p].age = Timeout
  /\ CloseServer(login[p].id)
  /\ Failed(p)
  /\ UNCHANGED <<tabs, spent, exchanged, count, dead, reused>>

(* exchangeCode with this login's verifier: the portal takes a code once, and only *)
(* with the verifier it was asked for; what follows (the user, the children) may   *)
(* fail, and so may the save.                                                      *)
Exchange(p) ==
  LET i == login[p].id
      c == login[p].code
  IN /\ p \in Living /\ login[p].at = "coded"
     /\ exchanged' = exchanged \cup {<<i, c>>}
     /\ spent' = spent \cup {c}
     /\ \/ c = i /\ c \notin spent /\ LoggedIn(p)
        \/ Failed(p)
        \/ Unsaved(p)
     /\ UNCHANGED <<server, tabs, count, dead, reused>>

---------------------------------------------------------------------------
(* A process stops at any point; the system closes its listener and may give its pid *)
(* to another program.  Its marker stays.                                            *)
Crash(p) ==
  /\ "crash" \in Faults /\ p \in Living
  /\ dead' = dead \cup {p}
  /\ \/ reused' = reused
     \/ "reused" \in Faults /\ reused' = reused \cup {p}
  /\ server' = [i \in Logins |-> IF i = login[p].id THEN "none" ELSE server[i]]
  /\ login' = [login EXCEPT ![p] = Idle]
  /\ UNCHANGED <<marker, tabs, spent, exchanged, count, unsaved>>

(* Whoever asks (auth_status, startLogin, login --background) clears a stale marker. *)
Polls(p) ==
  /\ p \in Living
  /\ marker # pendingLogin(p)
  /\ marker' = pendingLogin(p)
  /\ UNCHANGED <<login, server, tabs, spent, exchanged, count, dead, reused, unsaved>>

(* A minute passes; no listener waits longer than its timeout, and a process is not *)
(* a minute between reading the marker and writing it.                              *)
Tick ==
  /\ (\E p \in Procs : Waiting(p)) \/ (marker # None /\ marker.age <= Ttl)
  /\ \A p \in Procs : /\ login[p].at \notin {"checked", "starting"}
                      /\ Waiting(p) => login[p].age < Timeout
  /\ marker' = IF marker = None \/ Stale THEN marker
               ELSE [marker EXCEPT !.age = @ + 1]
  /\ login' = [p \in Procs |-> IF Waiting(p) THEN [login[p] EXCEPT !.age = @ + 1]
                                             ELSE login[p]]
  /\ UNCHANGED <<server, tabs, spent, exchanged, count, dead, reused, unsaved>>

Next ==
  \/ \E p \in Procs : Checks(p) \/ Writes(p) \/ Listens(p) \/ PortBusy(p) \/ TimedOut(p)
                      \/ Exchange(p) \/ Crash(p) \/ Polls(p)
  \/ \E i \in Logins : Closes(i) \/ \E with \in {"code", "error", "nothing"} : Callback(i, with)
  \/ Tick

(* Timers fire, requests are answered and files are written; no user and no caller *)
(* need ever act.                                                                  *)
Fairness ==
  /\ WF_vars(Tick)
  /\ \A p \in Procs : WF_vars(Writes(p)) /\ WF_vars(Listens(p)) /\ WF_vars(PortBusy(p))
                      /\ WF_vars(TimedOut(p)) /\ WF_vars(Exchange(p))
  /\ \A i \in Logins : WF_vars(Closes(i))

Spec == Init /\ [][Next]_vars
FairSpec == Spec /\ Fairness

---------------------------------------------------------------------------
(* A login only ever exchanges the code that carries its own state: a tab left over *)
(* from an abandoned login, or one of another process, logs nobody in.              *)
ExchangesItsOwn == \A e \in exchanged : e[1] = e[2]

(* The port is held by a login that waits, or for the moment an answer takes. *)
PortIsReturned ==
  \A i \in Logins : server[i] = "up" => \E p \in Living : login[p].at = "waiting" /\ login[p].id = i

(* A marker that says a login runs is about one that does, or about a process that    *)
(* crashed or whose save threw: nobody is refused for a login that ended, however the *)
(* starts of two processes crossed.                                                   *)
MarkerTellsOfALogin ==
  marker # None /\ marker.state = "running" =>
    \/ \E p \in Living : login[p].at # "none" /\ marker.pid = p
    \/ marker.pid \in dead \cup unsaved

(* Every login ends, whatever the user does. *)
LoggingIn(p) == login[p].at # "none"

==============================================================================
