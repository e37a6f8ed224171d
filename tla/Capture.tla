------------------------------ MODULE Capture ------------------------------
(*****************************************************************************)
(* The maintainer's capture probe, providers/schoolsoft/capture: pages and   *)
(* an agenda are read with the saved session, redacted and written to a      *)
(* directory outside git (capture.ts, redact.ts, forms.ts); later, reviewed, *)
(* they are scanned and moved to the fixtures, all or none (promote.ts,      *)
(* scan.ts).                                                                 *)
(*                                                                           *)
(* A page is one piece of text and one identifier.  Of the text the          *)
(* redactor looks at where it stands and what it looks like: a name the      *)
(* session knows (named by its guardian), words of the interface, one lower  *)
(* case word, a capitalised one, two of them, or digits.                     *)
(*****************************************************************************)
EXTENDS Naturals, Sequences, FiniteSets, SequencesExt

CONSTANTS Targets,     \* what is captured, in order: [file, kind, web]; "json" is the agenda
          Guardians,   \* whose names a session knows
          Words,       \* of {"interface", "lower", "capital", "pair", "digits"}
          Ids,         \* identifiers the portal uses
          MaxCaptures, MaxPromotes,
          Faults,      \* of {"crash"}
          None

Texts == Guardians \cup Words
Files == {Targets[i].file : i \in DOMAIN Targets}

VARIABLES
  guardian,   \* whose session is saved; None: nobody's
  web,        \* is there a web session
  redactor,   \* of a run: whose names it knows, and the identifiers met, in order
  next,       \* the target a run is at; 0 while none runs
  dir,        \* the capture directory: file -> what is left of the page
  done,       \* files the run has captured
  manifest,   \* files of the manifest; None before the first
  hashed,     \* whose names are in names.sha256.json; None before the first
  moving,     \* files a promotion has still to move
  fixtures,   \* file -> what became a fixture
  before,     \* the fixtures when the promotion began
  told,       \* how the last command ended
  runs, promotes

vars == <<guardian, web, redactor, next, dir, done, manifest, hashed, moving, fixtures,
          before, told, runs, promotes>>

Nothing == [names |-> None, ids |-> << >>]
Left == [text : Texts \cup {None}, id : Ids, as : 1 .. Cardinality(Ids), by : Guardians]
Maybe(S) == S \cup {None}

TypeOK ==
  /\ guardian \in Maybe(Guardians) /\ web \in BOOLEAN
  /\ next \in 0 .. Len(Targets) + 2 /\ done \subseteq Files
  /\ next > 0 => redactor.names \in Guardians /\ moving = {}
  /\ ToSet(redactor.ids) \subseteq Ids /\ Len(redactor.ids) <= Cardinality(Ids)
  /\ \A f \in Files : dir[f] \in Maybe(Left) /\ fixtures[f] \in Maybe(Left)
  /\ manifest \in Maybe(SUBSET Files) /\ hashed \in Maybe(Guardians)
  /\ moving \subseteq (IF manifest = None THEN {} ELSE manifest)
  /\ told \in {None, "captured", "failed", "refused", "promoted", "moving"}

Init ==
  /\ guardian \in Guardians /\ web \in BOOLEAN
  /\ redactor = Nothing /\ next = 0 /\ done = {}
  /\ dir = [f \in Files |-> None] /\ manifest = None /\ hashed = None
  /\ moving = {} /\ fixtures = dir /\ before = dir /\ told = None
  /\ runs = 0 /\ promotes = 0

-----------------------------------------------------------------------------
(* The redactor: what is left of a text; None when it is a placeholder.     *)
hasKnownName(t) == t = redactor.names
isSafeText(t) == ~hasKnownName(t) /\ t = "interface"
text(t) == IF isSafeText(t) THEN t ELSE None
code(t) == IF t = "lower" /\ ~hasKnownName(t) THEN t ELSE text(t)
digits(t) == IF t = "digits" THEN None ELSE t
\* A path's segment, a query's value; one named id is an identifier whatever it is.
url(t) == code(t)
\* What is quoted in a handler, and the rest of it.
script(t) == {code(t), digits(t)}

attr(where, t) ==
  CASE where = "ident"     -> {digits(t)}
    [] where = "url"       -> {url(t), None}
    [] where = "handler"   -> script(t)
    [] where = "choice"    -> {code(t)}
    [] where = "prefilled" -> {None}
    [] OTHER               -> {text(t)}

html(where, t) ==
  CASE where \in {"comment", "script"} -> {None}
    [] where = "text"                  -> {text(t)}
    [] OTHER                           -> attr(where, t)

\* A form's structure: captions and labels, names and ids, its action, the choices.
extractForms(where, t) ==
  IF where \in {"comment", "script", "handler"} THEN {None} ELSE html(where, t)

json(where, t) ==
  CASE where = "key" -> {digits(t)}
    [] where = "id"  -> {None}
    [] OTHER         -> {code(t)}

Places(kind) == IF kind = "json" THEN {"key", "id", "string"}
                ELSE {"comment", "script", "text", "ident", "url", "handler", "choice",
                      "prefilled", "data"}
Redacted(kind, where, t) ==
  CASE kind = "json"  -> json(where, t)
    [] kind = "forms" -> extractForms(where, t)
    [] OTHER          -> html(where, t)

\* The run's numbers of identifiers, with one more when this one is new.
idNumber(ids, id) == IF id \in ToSet(ids) THEN ids ELSE Append(ids, id)

-----------------------------------------------------------------------------
Promoting == UNCHANGED <<moving, fixtures, before, promotes>>
Idle == next = 0 /\ moving = {}

\* runCapture(): a missing session ends it before anything is read.
Start ==
  /\ Idle /\ runs < MaxCaptures
  /\ runs' = runs + 1
  /\ IF guardian = None THEN told' = "failed" /\ UNCHANGED <<next, redactor, done>>
     ELSE /\ next' = 1 /\ done' = {} /\ told' = None
          /\ redactor' = [names |-> guardian, ids |-> << >>]
  /\ UNCHANGED <<guardian, web, dir, manifest, hashed>> /\ Promoting

Save(file, left, id) ==
  LET ids == idNumber(redactor.ids, id)
  IN /\ redactor' = [redactor EXCEPT !.ids = ids]
     /\ dir' = [dir EXCEPT ![file] = [text |-> left, id |-> id, by |-> redactor.names,
                                      as |-> CHOOSE n \in DOMAIN ids : ids[n] = id]]
     /\ done' = done \cup {file}

\* A target is captured; or it failed, or needs the web session, and the next one is tried.
Page ==
  /\ next \in DOMAIN Targets
  /\ LET p == Targets[next]
     IN \/ /\ p.web => web
           /\ \E where \in Places(p.kind), t \in Texts, id \in Ids :
                \E left \in Redacted(p.kind, where, t) : Save(p.file, left, id)
        \/ UNCHANGED <<redactor, dir, done>>
  /\ next' = next + 1
  /\ UNCHANGED <<guardian, web, manifest, hashed, told, runs>> /\ Promoting

Manifest ==
  /\ next = Len(Targets) + 1
  /\ manifest' = done /\ next' = next + 1
  /\ UNCHANGED <<guardian, web, redactor, dir, done, hashed, told, runs>> /\ Promoting

Hashed == hashed' = redactor.names

Names ==
  /\ next = Len(Targets) + 2
  /\ Hashed
  /\ next' = 0 /\ redactor' = Nothing /\ told' = "captured"
  /\ UNCHANGED <<guardian, web, dir, done, manifest, runs>> /\ Promoting

\* The maintainer reads the files, and takes out of one what the scan would miss.
Review ==
  /\ Idle
  /\ \E f \in Files : dir[f] # None /\ dir' = [dir EXCEPT ![f].text = None]
  /\ UNCHANGED <<guardian, web, redactor, next, done, manifest, hashed, told, runs>>
  /\ Promoting

-----------------------------------------------------------------------------
\* What still looks personal: two capitalised words, or a word of the denylist.
scanForPersonalData(left) == left.text = "pair" \/ (hashed # None /\ left.text = hashed)

Problem == \E f \in manifest : dir[f] = None \/ scanForPersonalData(dir[f])

Promote ==
  /\ Idle /\ promotes < MaxPromotes
  /\ promotes' = promotes + 1 /\ before' = fixtures
  /\ IF manifest \in {None, {}} THEN told' = "refused" /\ UNCHANGED moving
     ELSE IF Problem THEN told' = "refused" /\ UNCHANGED moving
     ELSE told' = "moving" /\ moving' = manifest
  /\ UNCHANGED <<guardian, web, redactor, next, dir, done, manifest, hashed, fixtures, runs>>

Move ==
  /\ \E f \in moving :
       /\ fixtures' = [fixtures EXCEPT ![f] = dir[f]]
       /\ dir' = [dir EXCEPT ![f] = None]
       /\ moving' = moving \ {f}
  /\ told' = IF moving' = {} THEN "promoted" ELSE told
  /\ UNCHANGED <<guardian, web, redactor, next, done, manifest, hashed, before, runs, promotes>>

\* Either command is stopped half way.
Crash ==
  /\ "crash" \in Faults /\ ~Idle
  /\ next' = 0 /\ moving' = {} /\ redactor' = Nothing /\ told' = None
  /\ UNCHANGED <<guardian, web, dir, done, manifest, hashed, fixtures, before, runs, promotes>>

\* Logins and logouts, between the commands.
Login ==
  /\ Idle
  /\ guardian' \in Maybe(Guardians) \ {guardian} /\ web' \in BOOLEAN
  /\ UNCHANGED <<redactor, next, dir, done, manifest, hashed, told, runs>> /\ Promoting

Next == Start \/ Page \/ Manifest \/ Names \/ Review \/ Promote \/ Move \/ Crash \/ Login

Spec == Init /\ [][Next]_vars

-----------------------------------------------------------------------------
(* No fixture holds a name that the session it was captured with knew: what *)
(* the redactor leaves (element names, ids and handlers keep any word) the  *)
(* scan finds by the hashes that capture wrote, so the files, the manifest  *)
(* and the hashes must be of one run (redact.ts:1-9, capture.ts:141-158,    *)
(* promote.ts:40-57).                                                       *)
NamesStayOut == \A f \in Files : fixtures[f] # None => fixtures[f].text # fixtures[f].by

(* "All or nothing: every file listed in the manifest is scanned first, and *)
(* one finding anywhere means nothing moves" (promote.ts:4-7): a refused    *)
(* promotion changed no fixture, a finished one moved every file of its     *)
(* manifest.                                                                *)
AllOrNothing ==
  /\ told = "refused" => fixtures = before
  /\ (told = "promoted" /\ Idle) => \A f \in manifest : dir[f] = None /\ fixtures[f] # None
  /\ told = "moving" => \A f \in moving : ~scanForPersonalData(dir[f])

(* "The same id maps to the same placeholder within one capture" and so a  *)
(* fixture keeps its references: among the files of a run two placeholders *)
(* are equal exactly when the identifiers were (redact.ts:5-8,102-111).    *)
ReferencesKept ==
  \A f, g \in done : (next > 0 /\ dir[f] # None /\ dir[g] # None) =>
    ((dir[f].as = dir[g].as) <=> (dir[f].id = dir[g].id))

=============================================================================
