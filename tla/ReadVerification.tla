-------------------------- MODULE ReadVerification --------------------------
(****************************************************************************)
(* `doctor --verify` and the guide's check: core/operations/verify.ts runs  *)
(* every typed read once, for the child in focus or for every child, and    *)
(* reports for each whether the portal's answer still has the shape the     *)
(* operation declares.  Reading for a child selects it (focusChild, which   *)
(* persists the choice); the check selects the former one again at the end. *)
(****************************************************************************)
EXTENDS Naturals, Sequences, SequencesExt

CONSTANTS AccountOps,   \* the verifiable reads about the account, in order
          ChildOps,     \* those about a child
          Gated,        \* the ones that need the web login's session
          InBrowser,    \* the ones a browser reads
          Children,     \* the guardian's children, in order
          Faults,       \* of {"drift", "error", "lost", "crash"}
          None

Statuses == {"ok", "drift", "skipped", "error"}

VARIABLES
  everyChild, \* --all-children
  web,        \* is a web session stored
  browser,    \* is the browser usable
  loggedIn,   \* does the session answer
  before,     \* the child in focus when the check began
  focus,      \* the child in focus, as persisted
  results,    \* what each read came to, in order
  pc,
  told        \* how the check ended

vars == <<everyChild, web, browser, loggedIn, before, focus, results, pc, told>>
chosen == <<everyChild, web, browser>>

Targets == IF everyChild THEN Children ELSE <<before>>
Todo == [i \in 1 .. Len(AccountOps) |-> [op |-> AccountOps[i], child |-> None]]
        \o FlattenSeq([t \in 1 .. Len(Targets) |->
             [i \in 1 .. Len(ChildOps) |-> [op |-> ChildOps[i], child |-> Targets[t]]]])

TypeOK ==
  /\ {before, focus} \subseteq ToSet(Children)
  /\ pc \in {"session", "reading", "restoring", "end"}
  /\ results \in Seq(Statuses) /\ Len(results) <= Len(Todo)
  /\ told \in {None, "report", "drifted", "threw", "stopped"}
  /\ pc = "end" <=> told # None
  /\ pc = "restoring" \/ told = "report" => Len(results) = Len(Todo)

Init ==
  /\ everyChild \in BOOLEAN /\ web \in BOOLEAN /\ browser \in BOOLEAN
  /\ loggedIn \in BOOLEAN
  /\ before \in ToSet(Children) /\ focus = before
  /\ results = << >> /\ pc = "session" /\ told = None

Ends(how) == pc' = "end" /\ told' = how

\* ensureSession(): not logged in is thrown; a profile of another shape is reported.
Session ==
  /\ pc = "session"
  /\ \/ loggedIn /\ pc' = "reading" /\ UNCHANGED <<results, told>>
     \/ ~loggedIn /\ Ends("threw") /\ UNCHANGED results
     \/ /\ loggedIn /\ "drift" \in Faults
        /\ Ends("drifted")
        /\ results' = [i \in 1 .. Len(AccountOps \o ChildOps) |-> "skipped"]
  /\ UNCHANGED <<everyChild, web, browser, loggedIn, before, focus>>

skipReason(op) == (op \in Gated /\ ~web) \/ (op \in InBrowser /\ ~browser)

\* With child_id the operation selects the child first.
chosenFor(next) == IF next.child = None \/ ~everyChild THEN focus ELSE next.child

(* verifyOne(): a read that cannot run is skipped before the child is    *)
(* selected; whatever a read throws is its result.                       *)
verifyOne ==
  LET next == Todo[Len(results) + 1]
  IN /\ pc = "reading" /\ Len(results) < Len(Todo)
     /\ IF skipReason(next.op)
          THEN results' = Append(results, "skipped") /\ UNCHANGED <<focus, loggedIn>>
        ELSE IF ~loggedIn
          THEN results' = Append(results, "error") /\ UNCHANGED <<focus, loggedIn>>
        ELSE \/ /\ focus' = chosenFor(next)
                /\ \E s \in {"ok"} \cup (Faults \cap {"drift", "error"}) :
                     results' = Append(results, s)
                /\ UNCHANGED loggedIn
             \/ /\ "lost" \in Faults
                /\ results' = Append(results, "error")
                /\ loggedIn' = FALSE
                /\ focus' \in {focus, chosenFor(next)}
     /\ UNCHANGED <<everyChild, web, browser, before, pc, told>>

\* The former child is selected again, which throws when the session is gone.
EndOfReads ==
  /\ pc = "reading" /\ Len(results) = Len(Todo)
  /\ IF everyChild THEN pc' = "restoring" /\ UNCHANGED told ELSE Ends("report")
  /\ UNCHANGED <<everyChild, web, browser, loggedIn, before, focus, results>>

Restore ==
  /\ pc = "restoring"
  /\ \/ loggedIn /\ focus' = before /\ Ends("report")
     \/ (~loggedIn \/ "error" \in Faults) /\ Ends("threw") /\ UNCHANGED focus
  /\ UNCHANGED <<everyChild, web, browser, loggedIn, before, results>>

\* The command is stopped: the child it had selected stays selected.
Stopped ==
  /\ "crash" \in Faults /\ pc # "end"
  /\ Ends("stopped")
  /\ UNCHANGED <<everyChild, web, browser, loggedIn, before, focus, results>>

Next == Session \/ verifyOne \/ EndOfReads \/ Restore \/ Stopped

Spec == Init /\ [][Next]_vars

-----------------------------------------------------------------------------
(* The command's exit code: drift anywhere before any error, and 0 only when *)
(* nothing drifted and nothing failed (verify.ts:202-213).                   *)
exitCode(rs) ==
  IF "drift" \in ToSet(rs) THEN "upstream"
  ELSE IF "error" \in ToSet(rs) THEN "error" ELSE "ok"

verifyExitCode ==
  CASE told = "drifted" -> "upstream"
    [] told = "report"  -> exitCode(results)
    [] OTHER            -> "threw"

(* "a check must not change what later commands default to" (verify.ts:192): *)
(* a check that reports has put the child in focus back, whatever its reads  *)
(* came to.  One that throws at that very step, or is stopped, has not.      *)
FocusPutBack == told \in {"report", "drifted"} => focus = before

(* "Everything is well" is said only when each read of the plan was made    *)
(* for each child asked about, or could not be made for want of a web login *)
(* or a browser (verify.ts:90-153,202-213).                                 *)
WellMeansAllRead ==
  (pc = "end" /\ verifyExitCode = "ok") =>
    /\ Len(results) = Len(Todo)
    /\ \A i \in 1 .. Len(results) :
         \/ results[i] = "ok"
         \/ results[i] = "skipped" /\ skipReason(Todo[i].op)

=============================================================================
