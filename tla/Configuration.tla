---------------------------- MODULE Configuration ----------------------------
(****************************************************************************)
(* Which school, and whose settings, a command works with: config.json      *)
(* (core/config.ts, core/accounts.ts, shared/bootstrap.ts) holds the        *)
(* settings of each account and those of the machine; flags come before the *)
(* environment, the environment before the file.  `configure` makes a       *)
(* school the current account and writes the file in the current format,    *)
(* people edit it by hand, and a newer build may have written it.           *)
(*                                                                          *)
(* Of an account's settings orgId stands for those that choose its login    *)
(* (orgId, userType, clientId), and of the machine's allowWrites.           *)
(****************************************************************************)
EXTENDS Naturals, FiniteSets

CONSTANTS Schools, OrgIds, Providers, DEFAULT_PROVIDER,
          MaxEdits,   \* bound: changes of the file
          None

Format == 2
Newer  == 3
Words  == {"yes", "no", "maybe"}     \* what may be written where a switch is expected
Maybe(S) == S \cup {None}

accountKey(provider, school) ==
  <<IF provider = None THEN DEFAULT_PROVIDER ELSE provider, school>>

Keys == (Providers \cup {DEFAULT_PROVIDER}) \X Schools
Settings == [school : Maybe(Schools), provider : Maybe(Providers), orgId : Maybe(OrgIds)]
NoSettings == [school |-> None, provider |-> None, orgId |-> None]

\* {...under, ...over}
Over(under, over) ==
  [k \in DOMAIN under |-> IF over[k] # None THEN over[k] ELSE under[k]]

VARIABLES
  version,    \* of the file, None when there is none
  top,        \* its account settings at the top level
  account,    \* the current account
  accounts,   \* its accounts
  writes,     \* allowWrites in the file
  given,      \* history: the orgIds ever written for each school
  loose,      \* history: those written at the top level without a school
  edits

vars == <<version, top, account, accounts, writes, given, loose, edits>>
Doc == [top |-> top, account |-> account, accounts |-> accounts]

TypeOK ==
  /\ version \in {None} \cup 0 .. Newer
  /\ top \in Settings
  /\ account \in Maybe(Keys)
  /\ DOMAIN accounts \subseteq Keys
  /\ \A k \in DOMAIN accounts : accounts[k] \in Settings /\ accounts[k].school = k[2]
  /\ writes \in Maybe(Words)
  /\ given \in [Schools -> SUBSET OrgIds]
  /\ loose \subseteq OrgIds
  /\ edits \in 0 .. MaxEdits
  /\ version \in {None, 0, 1} => accounts = << >> /\ account = None

\* No file, or one of the days before accounts with whatever was in it.
Init ==
  /\ version \in {None, 0, 1}
  /\ top \in IF version = None THEN {NoSettings} ELSE Settings
  /\ account = None
  /\ accounts = << >>
  /\ writes \in IF version = None THEN {None} ELSE Maybe(Words)
  /\ given = [s \in Schools |-> IF top.school = s THEN {top.orgId} \ {None} ELSE {}]
  /\ loose = IF top.school = None THEN {top.orgId} \ {None} ELSE {}
  /\ edits = 0

settingsOf(doc, a) == IF a \in DOMAIN doc.accounts THEN doc.accounts[a] ELSE NoSettings

withAccount(doc, a, entry) ==
  [k \in DOMAIN doc.accounts \cup {a} |-> IF k = a THEN entry ELSE doc.accounts[k]]

\* A document that names a school: its settings move into that school's account.
foldAccountSettings(doc) ==
  IF doc.top.school = None THEN doc
  ELSE LET a == accountKey(doc.top.provider, doc.top.school)
       IN [top |-> NoSettings, account |-> a,
           accounts |-> withAccount(doc, a, Over(settingsOf(doc, a), doc.top))]

\* The first of three sources that says anything.
first(a, b, c) == IF a # None THEN a ELSE IF b # None THEN b ELSE c

(* The file's settings for the selected account.  A selected school without *)
(* an entry adds none.                                                      *)
accountSource(doc, selection) ==
  LET folded  == foldAccountSettings(doc)
      current == settingsOf(folded, folded.account)
      provider == first(selection.provider, current.provider, folded.top.provider)
      a == IF selection.school = None THEN folded.account
                                      ELSE accountKey(provider, selection.school)
  IN Over(folded.top, settingsOf(folded, a))

\* A switch is on only after an explicit yes; anything unrecognised is an error.
parseSwitch(raw) == CASE raw = "maybe" -> "error"
                      [] raw = "yes" -> "on"
                      [] OTHER -> "off"

\* Flags before the environment before the file; a newer build's file is an error.
loadConfig(flags, env) ==
  LET selection == [school |-> first(flags.school, env.school, None),
                    provider |-> first(flags.provider, env.provider, None)]
      file == accountSource(Doc, selection)
      said == first(flags.writes, env.writes, writes)
      school == first(flags.school, env.school, file.school)
  IN IF version = Newer \/ school = None \/ parseSwitch(said) = "error"
       THEN [error |-> TRUE]
       ELSE [error |-> FALSE,
             school |-> school,
             provider |-> first(selection.provider, file.provider, DEFAULT_PROVIDER),
             orgId |-> first(flags.orgId, env.orgId, file.orgId),
             allowWrites |-> parseSwitch(said) = "on"]

\* writeConfigFile(): folded, in the current format.
writeConfigFile(doc) ==
  LET folded == foldAccountSettings(doc)
  IN /\ version' = Format
     /\ top' = folded.top
     /\ account' = folded.account
     /\ accounts' = folded.accounts

Edited == edits < MaxEdits /\ edits' = edits + 1
GivenTo(s, o) == given' = [given EXCEPT ![s] = @ \cup ({o} \ {None})]

(* configure: the school of --school or the chosen one of the directory's     *)
(* list, which comes with its orgId.  A file of a newer build is not touched. *)
saveSchool(provider, school, orgId) ==
  LET existing == foldAccountSettings(Doc)
      a == accountKey(provider, school)
      entry == Over(settingsOf(existing, a),
                    [school |-> school, provider |-> provider, orgId |-> orgId])
  IN /\ version # Newer /\ Edited
     /\ writeConfigFile([existing EXCEPT !.account = a,
                                         !.accounts = withAccount(existing, a, entry)])
     /\ GivenTo(school, orgId)
     /\ UNCHANGED <<writes, loose>>

Configure ==
  \E p \in Maybe(Providers), s \in Schools, o \in Maybe(OrgIds) : saveSchool(p, s, o)

HandEdit ==
  /\ version # None /\ Edited
  /\ \/ writes' \in Maybe(Words) /\ UNCHANGED <<top, given, loose>>
     \/ /\ top' \in Settings
        /\ IF top'.school = None
             THEN loose' = loose \cup ({top'.orgId} \ {None}) /\ UNCHANGED given
             ELSE GivenTo(top'.school, top'.orgId) /\ UNCHANGED loose
        /\ UNCHANGED writes
  /\ UNCHANGED <<version, account, accounts>>

NewerBuild ==
  /\ version = Format /\ Edited
  /\ version' = Newer
  /\ UNCHANGED <<top, account, accounts, writes, given, loose>>

Next == Configure \/ HandEdit \/ NewerBuild

Spec == Init /\ [][Next]_vars

-----------------------------------------------------------------------------
Nothing == [school |-> None, provider |-> None, orgId |-> None, writes |-> None]
Selected(s) == [Nothing EXCEPT !.school = s]

(* "A selected school without an entry adds no account settings, so it       *)
(* never borrows another school's orgId or login route" (config.ts:137-142): *)
(* whatever was configured, migrated and edited before, the orgId a command  *)
(* gets from the file was written for its school, or for no school at all.   *)
NeverBorrows ==
  \A flags, env \in {Nothing} \cup {Selected(s) : s \in Schools} :
    LET c == loadConfig(flags, env)
    IN ~c.error => c.orgId \in {None} \cup given[c.school] \cup loose

(* "Make the school the current account in config.json, keeping every other *)
(* school's settings" (configure.ts:58): afterwards a command without flags *)
(* gets that school, and one that names another school what it got before,  *)
(* although the file may have been an old or an edited one until now.       *)
ConfigureTouchesOne ==
  \A p \in Maybe(Providers), s \in Schools, o \in Maybe(OrgIds) :
    saveSchool(p, s, o) =>
      LET now == loadConfig(Nothing, Nothing)'
      IN /\ now.error \/ (now.school = s /\ o \in {None, now.orgId})
         /\ \A other \in Schools \ {s} :
              loadConfig(Selected(other), Nothing)' = loadConfig(Selected(other), Nothing)

(* "Only an explicit yes turns writes on; anything unrecognised is an error, *)
(* never a silent on" (config.ts:224): and the source that comes first       *)
(* decides, also when it says no (config.ts:246-255).                        *)
WritesNeedAYes ==
  \A f, e \in Maybe(Words) :
    LET c == loadConfig([Nothing EXCEPT !.writes = f], [Nothing EXCEPT !.writes = e])
    IN ~c.error => (c.allowWrites <=> first(f, e, writes) = "yes")

=============================================================================
