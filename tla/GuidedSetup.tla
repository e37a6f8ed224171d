----------------------------- MODULE GuidedSetup -----------------------------
(*************************************************************************)
(* The guided first run, cli/guide/first-run.ts, as `setup` or the bare  *)
(* command start it (cli/commands/setup.ts, cli/program.ts): find the    *)
(* school, save it, log in with BankID unless a saved login still works, *)
(* check every read, show the schedule.  It asks only at a terminal and  *)
(* only when no answer was given as a flag.                              *)
(*                                                                       *)
(* A person may answer a question in any way, or stop the program.  What *)
(* the school directory, the portal and the check answer is anything.    *)
(*************************************************************************)
EXTENDS Naturals, FiniteSets

CONSTANTS Schools, None

TRIES == 3
Maybe(S) == S \cup {None}
\* Exit codes by the kind of the error (cli/exit-codes.ts).
Kinds == {"internal", "not_authenticated", "not_configured", "network", "input", "upstream"}

VARIABLES
  flags,      \* --query, --school, --no-login; is there a prompt
  env,        \* the school of the environment
  file,       \* the school of config.json
  logins,     \* the schools with a saved login that works
  pc,
  tries,      \* of the question asked now
  hits,       \* what the directory found for the name typed
  chosen,     \* the school chosen in this run
  account,    \* the school whose session and portal the rest is about
  asked,      \* questions asked of the person
  bankId,     \* BankID logins started
  checked,    \* did the check pass
  outcome     \* "ready", or the kind of the error; None while it runs

vars == <<flags, env, file, logins, pc, tries, hits, chosen, account, asked,
          bankId, checked, outcome>>
given == <<flags, env>>

Steps == {"choose", "ask", "pick", "save", "context", "session", "confirm",
          "login", "check", "schedule", "end"}

TypeOK ==
  /\ flags \in [query : BOOLEAN, school : Maybe(Schools), login : BOOLEAN, terminal : BOOLEAN]
  /\ {env, file, chosen, account} \subseteq Maybe(Schools)
  /\ logins \subseteq Schools
  /\ pc \in Steps
  /\ tries \in 1 .. TRIES
  /\ hits \subseteq Schools
  /\ asked \in 0 .. 2 * TRIES + 1
  /\ bankId \in 0 .. 1
  /\ checked \in BOOLEAN
  /\ outcome \in {None, "ready"} \cup Kinds
  /\ (outcome # None) <=> pc = "end"

Init ==
  /\ flags \in [query : BOOLEAN, school : Maybe(Schools), login : BOOLEAN, terminal : BOOLEAN]
  /\ env \in Maybe(Schools) /\ file \in Maybe(Schools)
  /\ logins \in SUBSET Schools
  /\ pc = "choose" /\ tries = 1 /\ hits = {}
  /\ chosen = None /\ account = None
  /\ asked = 0 /\ bankId = 0 /\ checked = FALSE /\ outcome = None

\* An answer given as a flag means nobody is there to ask.
Prompt == flags.terminal /\ ~flags.query /\ flags.login /\ flags.school = None

Step(from, to) == /\ pc = from /\ pc' = to
                  /\ UNCHANGED <<flags, env, outcome>>
Ends(kind) == /\ pc' = "end" /\ outcome' = kind
              /\ UNCHANGED <<flags, env>>
first(a, b, c) == IF a # None THEN a ELSE IF b # None THEN b ELSE c
Configured == first(flags.school, env, file)

-----------------------------------------------------------------------------
\* Step 1: the school of a flag, the best match of --query, the configured one ...
Choose ==
  /\ IF flags.school # None
       THEN Step("choose", "save") /\ chosen' = flags.school
     ELSE IF flags.query
       THEN /\ pc = "choose"
            /\ \/ \E s \in Schools : chosen' = s /\ Step("choose", "save")
               \/ Ends("input") /\ UNCHANGED chosen      \* no such school
               \/ Ends("network") /\ UNCHANGED chosen    \* no directory
     ELSE IF Configured # None
       THEN Step("choose", "context") /\ UNCHANGED chosen
     ELSE IF ~Prompt
       THEN pc = "choose" /\ Ends("not_configured") /\ UNCHANGED chosen
       ELSE Step("choose", "ask") /\ UNCHANGED chosen
  /\ UNCHANGED <<file, logins, tries, hits, account, asked, bankId, checked>>

\* ... or one asked for, three times: nothing typed, no match, one match, several.
AskSchool ==
  /\ pc = "ask" /\ Prompt
  /\ asked' = asked + 1
  /\ \E found \in SUBSET Schools :
       /\ hits' = found
       /\ IF found # {}
            THEN /\ tries' = 1
                 /\ IF Cardinality(found) = 1
                      THEN Step("ask", "save") /\ chosen' \in found
                      ELSE Step("ask", "pick") /\ UNCHANGED chosen
          ELSE /\ UNCHANGED chosen
               /\ IF tries = TRIES THEN Ends("input") /\ UNCHANGED tries
                                   ELSE Step("ask", "ask") /\ tries' = tries + 1
  /\ UNCHANGED <<file, logins, account, bankId, checked>>

DirectoryFails ==
  /\ pc = "ask" /\ Ends("network")
  /\ asked' = asked + 1
  /\ UNCHANGED <<file, logins, tries, hits, chosen, account, bankId, checked>>

Pick ==
  /\ pc = "pick" /\ Prompt
  /\ asked' = asked + 1
  /\ \/ Step("pick", "save") /\ chosen' \in hits /\ UNCHANGED tries
     \/ /\ UNCHANGED chosen        \* not a number of the list
        /\ IF tries = TRIES THEN Ends("input") /\ UNCHANGED tries
                            ELSE Step("pick", "pick") /\ tries' = tries + 1
  /\ UNCHANGED <<file, logins, hits, account, bankId, checked>>

\* Step 2: saveSchool(), refused over a newer build's file.
Save ==
  /\ pc = "save"
  /\ \/ Step("save", "context") /\ file' = chosen
     \/ Ends("internal") /\ UNCHANGED file
  /\ UNCHANGED <<logins, tries, hits, chosen, account, asked, bankId, checked>>

\* getContext(): what flags, environment and file say now.
Context ==
  /\ Step("context", "session")
  /\ account' = Configured
  /\ UNCHANGED <<file, logins, tries, hits, chosen, asked, bankId, checked>>

(* Step 3: only "not logged in" means BankID is needed; a portal that cannot *)
(* be asked ends the guide.                                                  *)
MeansLogin == {"not_authenticated"}

Session ==
  /\ pc = "session"
  /\ \/ account \in logins /\ Step("session", "check")
     \/ \E kind \in {"network", "upstream", "not_authenticated"} :
          /\ kind = "not_authenticated" => account \notin logins
          /\ IF kind \notin MeansLogin THEN Ends(kind)
             ELSE IF ~flags.login THEN Ends("not_authenticated")
             ELSE Step("session", IF Prompt THEN "confirm" ELSE "login")
  /\ UNCHANGED <<file, logins, tries, hits, chosen, account, asked, bankId, checked>>

Confirm ==
  /\ Step("confirm", "login")
  /\ asked' = asked + 1
  /\ UNCHANGED <<file, logins, tries, hits, chosen, account, bankId, checked>>

\* BankID in the parent's own browser; it is refused, given up, or done.
Login ==
  /\ pc = "login"
  /\ bankId' = bankId + 1
  /\ \/ Step("login", "check") /\ logins' = logins \cup {account}
     \/ \E kind \in {"not_authenticated", "network", "upstream"} :
          Ends(kind) /\ UNCHANGED logins
  /\ UNCHANGED <<file, tries, hits, chosen, account, asked, checked>>

\* Step 4: every read once; its exit code, when it is not 0, is the guide's.
Check ==
  /\ pc = "check"
  /\ \/ Step("check", "schedule") /\ checked' = TRUE
     \/ \E kind \in {"upstream", "network", "not_authenticated", "internal"} :
          Ends(kind) /\ UNCHANGED checked
  /\ UNCHANGED <<file, logins, tries, hits, chosen, account, asked, bankId>>

\* Step 5: this week's schedule, read once more.
Schedule ==
  /\ pc = "schedule"
  /\ \E kind \in {"ready", "network", "upstream", "not_authenticated"} : Ends(kind)
  /\ UNCHANGED <<file, logins, tries, hits, chosen, account, asked, bankId, checked>>

\* Ctrl+C or Ctrl+D while a question waits.
Cancelled ==
  /\ pc \in {"ask", "pick", "confirm"} /\ Ends("input")
  /\ UNCHANGED <<file, logins, tries, hits, chosen, account, asked, bankId, checked>>

Next == \/ Choose \/ AskSchool \/ DirectoryFails \/ Pick \/ Save \/ Context
        \/ Session \/ Confirm \/ Login \/ Check \/ Schedule \/ Cancelled

Spec == Init /\ [][Next]_vars
FairSpec == Spec /\ WF_vars(Next)

-----------------------------------------------------------------------------
(* "It asks questions only when a prompt exists (stdin is a terminal) and no *)
(* answer flag was given; otherwise it never waits for a person, except for  *)
(* BankID itself, which --no-login turns off" (first-run.ts:9-11).           *)
NeverAsksInVain ==
  /\ asked > 0 => (flags.terminal /\ ~flags.query /\ flags.school = None /\ flags.login)
  /\ bankId > 0 => flags.login

(* BankID is not started while the login saved for that school works, nor *)
(* because the portal could not be asked (first-run.ts:268-277).          *)
NoLoginInVain ==
  (pc = "session" /\ pc' \in {"login", "confirm"}) => account \notin logins

(* "ready" is said of a school whose saved login works and whose every read *)
(* passed the check, and of the school chosen in this run unless --query    *)
(* chose one while the environment names another (first-run.ts:126-235).    *)
ReadyMeansReady ==
  outcome = "ready" =>
    /\ checked /\ account \in logins
    /\ chosen = None \/ account = chosen \/ (flags.query /\ env \notin {None, chosen})

(* The settings change only to a school the run chose, after it was chosen, *)
(* and a run that was stopped at a question before leaves them alone        *)
(* (first-run.ts:130-157).                                                  *)
SavesTheChosen == file' # file => (chosen # None /\ file' = chosen)

(* The guide ends, whatever a person types and whatever answers          *)
(* (first-run.ts:240-262).                                               *)
Guides == outcome = None

=============================================================================
