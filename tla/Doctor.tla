------------------------------- MODULE Doctor -------------------------------
(****************************************************************************)
(* `doctor` and `doctor --fix` (cli/commands/doctor.ts): the checks it      *)
(* reports, and the one repair it makes.  The repair moves the files of the *)
(* former state directory into the current one, file by file, in the order  *)
(* readdir lists them (by name: key.bin, session-history.enc, session.enc). *)
(* A file is sealed with the key that lay beside it, and a run may be       *)
(* stopped between two files; other commands log in and out in between.     *)
(****************************************************************************)
EXTENDS Naturals, Sequences

CONSTANTS Keys,       \* keys that may be drawn (bound)
          MaxRuns,    \* runs of doctor (bound)
          MaxLogins,  \* logins by other commands (bound)
          Faults,     \* of {"crash"}
          None

Maybe(S) == S \cup {None}
Names == <<"key", "history", "session">>
Files == {"key", "history", "session"}

VARIABLES
  legacy,   \* the former directory: of each file the key (it is, or is sealed with), or None
  current,  \* the state directory
  drawn,    \* keys drawn so far
  configured,
  fix,      \* the run was asked to repair
  pc,
  todo,     \* files still to move
  checks,   \* what the run found: check -> ok
  report,   \* the last run's verdict, until something changes
  worked,   \* the session file that opened where it was last used, as <<key, n>>
  runs, logins

vars == <<legacy, current, drawn, configured, fix, pc, todo, checks, report, worked, runs, logins>>

Empty == [f \in Files |-> None]
NoChecks == << >>
Opens(dir, f) == dir[f] # None /\ dir[f] = dir["key"]

\* What the former build may have left: nothing, or files beside their key.
Left(k) == {Empty} \cup
  {[key |-> k, history |-> h, session |-> s] : h \in {None, k}, s \in {None, k}}

Init ==
  /\ \E k \in Keys : legacy \in Left(k) /\ drawn = {k}
  /\ current = Empty
  /\ configured \in BOOLEAN
  /\ fix = FALSE /\ pc = "idle" /\ todo = << >> /\ checks = NoChecks /\ report = None
  /\ worked = IF Opens(legacy, "session") THEN "legacy" ELSE None
  /\ runs = 0 /\ logins = 0

TypeOK ==
  /\ drawn \subseteq Keys
  /\ legacy \in [Files -> Maybe(drawn)] /\ current \in [Files -> Maybe(drawn)]
  /\ pc \in {"idle", "legacy", "moving", "session", "rest"}
  /\ pc = "moving" => fix /\ configured
  /\ report \in Maybe({"ok", "not ok"})
  /\ worked \in Maybe({"legacy", "current"})

-----------------------------------------------------------------------------
\* Wrong: the session is moved before its key.
ListedSessionFirst(dir) == SelectSeq(<<"session", "history", "key">>, LAMBDA f : dir[f] # None)
Listed(dir) == SelectSeq(Names, LAMBDA f : dir[f] # None)

Found(check, ok) == checks' = [c \in DOMAIN checks \cup {check} |->
                                 IF c = check THEN ok ELSE checks[c]]

\* The command, with or without --fix; loadConfig() is its first check.
Run ==
  /\ pc = "idle" /\ runs < MaxRuns
  /\ runs' = runs + 1
  /\ fix' \in BOOLEAN
  /\ checks' = [c \in {"config"} |-> configured]
  /\ pc' = IF configured THEN "legacy" ELSE "rest"
  /\ report' = None
  /\ UNCHANGED <<legacy, current, drawn, configured, todo, worked, logins>>

MayMove == legacy["session"] # None /\ current["session"] = None

\* A former session, and none since, is moved if asked, and otherwise a failed check.
Legacy ==
  /\ pc = "legacy"
  /\ IF MayMove /\ fix
       THEN pc' = "moving" /\ todo' = Listed(legacy) /\ UNCHANGED checks
       ELSE /\ pc' = "session" /\ UNCHANGED todo
            /\ IF MayMove THEN Found("migration", FALSE) ELSE UNCHANGED checks
  /\ UNCHANGED <<legacy, current, drawn, configured, fix, report, worked, runs, logins>>

\* renameSync: the file replaces one of its name.
Move ==
  /\ pc = "moving" /\ todo # << >>
  /\ LET f == Head(todo)
     IN /\ current' = [current EXCEPT ![f] = legacy[f]]
        /\ legacy'  = [legacy EXCEPT ![f] = None]
        /\ worked'  = IF f = "session" /\ worked = "legacy" THEN "current" ELSE worked
  /\ todo' = Tail(todo)
  /\ UNCHANGED <<drawn, configured, fix, pc, checks, report, runs, logins>>

Moved ==
  /\ pc = "moving" /\ todo = << >>
  /\ pc' = "session" /\ Found("migration", TRUE)
  /\ UNCHANGED <<legacy, current, drawn, configured, fix, todo, report, worked, runs, logins>>

\* sessionCheck(): the store opens and the configured account has a session.
sessionCheck(dir) == Opens(dir, "session")

Session ==
  /\ pc = "session"
  /\ Found("session", sessionCheck(current))
  /\ pc' = "rest"
  /\ UNCHANGED <<legacy, current, drawn, configured, fix, todo, report, worked, runs, logins>>

\* The portal answers or not; the other checks inform and never fail.
Rest ==
  /\ pc = "rest"
  /\ \E network \in BOOLEAN :
       /\ checks' = NoChecks
       /\ report' = IF network /\ \A c \in DOMAIN checks : checks[c] THEN "ok" ELSE "not ok"
  /\ pc' = "idle" /\ fix' = FALSE
  /\ UNCHANGED <<legacy, current, drawn, configured, todo, worked, runs, logins>>

Crash ==
  /\ "crash" \in Faults /\ pc # "idle"
  /\ pc' = "idle" /\ todo' = << >> /\ checks' = NoChecks /\ fix' = FALSE
  /\ UNCHANGED <<legacy, current, drawn, configured, report, worked, runs, logins>>

-----------------------------------------------------------------------------
\* Other commands, between two runs: a login seals with the key it finds or draws one.
Login ==
  /\ pc = "idle" /\ configured /\ logins < MaxLogins
  /\ \E k \in Keys :
       /\ IF current["key"] = None THEN k \notin drawn ELSE k = current["key"]
       /\ current' = [key |-> k, history |-> k, session |-> k]
       /\ drawn' = drawn \cup {k}
  /\ worked' = "current" /\ report' = None /\ logins' = logins + 1
  /\ UNCHANGED <<legacy, configured, fix, pc, todo, checks, runs>>

Logout ==
  /\ pc = "idle" /\ current["session"] # None
  /\ current' = [current EXCEPT !["session"] = None]
  /\ worked' = None /\ report' = None
  /\ UNCHANGED <<legacy, drawn, configured, fix, pc, todo, checks, runs, logins>>

configure ==
  /\ pc = "idle" /\ ~configured
  /\ configured' = TRUE /\ report' = None
  /\ UNCHANGED <<legacy, current, drawn, fix, pc, todo, checks, worked, runs, logins>>

Next == Run \/ Legacy \/ Move \/ Moved \/ Session \/ Rest \/ Crash
          \/ Login \/ Logout \/ configure

Spec == Init /\ [][Next]_vars

-----------------------------------------------------------------------------
(* The session a repair moves, and the one a login saved since, stay in the *)
(* possession of the key they are sealed with, also when the repair stops   *)
(* half way: whatever lies in the state directory as session.enc opens.     *)
(* It rests on the key being listed, and so moved, before the session       *)
(* (doctor.ts:150-153; sealed.ts reads key.bin of the same directory).      *)
SessionOpens == current["session"] # None => Opens(current, "session")

(* A repair replaces no session: the one that worked last before the run is *)
(* the one that works after it, wherever it lies, and a login made since    *)
(* the move to the current directory is not undone by an old one            *)
(* (doctor.ts:147-160).                                                     *)
NewestSessionStays ==
  (pc = "moving" /\ worked = "current") => current'["session"] = current["session"]

(* "ok" is reported only of a configured program whose saved session opens, *)
(* for as long as nothing has changed since (doctor.ts:49-74,146-163,212).  *)
OkMeansLoggedIn == report = "ok" => configured /\ Opens(current, "session")

=============================================================================
