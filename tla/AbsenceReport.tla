--------------------------- MODULE AbsenceReport ---------------------------
(****************************************************************************)
(* report_absence, the one operation that writes to the portal              *)
(* (core/operations/report-absence.ts, _absence-window.ts and the backend   *)
(* providers/schoolsoft/portal/api/absence-api.ts).  An agent first calls   *)
(* it for a preview, and calls it again with the same arguments and         *)
(* confirm: true; the answer to that call must let the guardian know        *)
(* whether the school now believes the child absent.  Days are numbers, and *)
(* the wall clock's day may change between two calls.                       *)
(****************************************************************************)
EXTENDS Naturals, FiniteSets

CONSTANTS Children, Firsts,   \* the guardian's children, and their first names
          MaxDay,             \* days after which the clock stands still
          ABSENCE_MAX_DAYS,
          MaxCalls,
          Faults,             \* of {"rejects", "fails", "pushback", "refused", "expired"}
          None

Maybe(S) == S \cup {None}
Days == 1 .. MaxDay + 1

\* What a call names: a first name or a child's full name, an id, dates and a part of a day.
Args == [name : Maybe(Firsts \cup Children), id : Maybe(Children),
         start : Maybe(Days), end : Maybe(Days),
         part : {"whole", "part", "half-said"}, confirm : BOOLEAN]

VARIABLES
  firstName,   \* each child's first name: two may share one
  guardians,   \* the children the login gives
  allowWrites,
  today,
  focus,       \* the child in focus at the portal
  calls,       \* calls made
  call,        \* the call under way: its arguments, window and child
  pc,
  recorded,    \* the absences the portal has registered
  answer       \* what the last call told

vars == <<firstName, guardians, allowWrites, today, focus, calls, call, pc, recorded, answer>>
given == <<firstName, guardians, allowWrites>>

Idle == [args |-> None, window |-> None, child |-> None, day |-> None]
Answers == {"preview", "reported", "invalid", "writes_disabled", "not_authenticated",
            "child_name_not_found", "child_not_found", "absence_child_required",
            "absence_rejected", "write_outcome_unknown", "pushback", "session"}

TypeOK ==
  /\ today \in 1 .. MaxDay /\ calls \in 0 .. MaxCalls
  /\ focus \in guardians
  /\ pc \in {"idle", "session", "focus", "send"}
  /\ pc = "idle" <=> call = Idle
  /\ answer \in Maybe(Answers)
  /\ \A r \in recorded : r.child \in guardians /\ r.call \in 1 .. calls
  /\ call # Idle => /\ call.window.end - call.window.start < ABSENCE_MAX_DAYS
                    /\ call.window.start \in call.day .. call.window.end
                    /\ call.window.whole \/ call.window.end = call.window.start

Init ==
  /\ firstName \in [Children -> Firsts]
  /\ guardians \in SUBSET Children \ {{}}
  /\ allowWrites \in BOOLEAN
  /\ focus \in guardians
  /\ today = 1 /\ calls = 0 /\ call = Idle /\ pc = "idle"
  /\ recorded = {} /\ answer = None

-----------------------------------------------------------------------------
Or(a, b) == IF a = None THEN b ELSE a

\* The days of a report, today and later, or a part of one of them.
absenceWindow(args) ==
  LET start == Or(args.start, today)
      end   == Or(args.end, start)
      valid == /\ start >= today /\ end >= start
               /\ end - start + 1 <= ABSENCE_MAX_DAYS
               /\ args.part = "whole" \/ (args.part = "part" /\ end = start)
  IN IF valid THEN [start |-> start, end |-> end, whole |-> args.part = "whole"] ELSE None

Named(args) == {c \in guardians : args.name \in {firstName[c], c}}

Chosen(c)  == [child |-> c, error |-> None]
NoChild(e) == [child |-> None, error |-> e]

\* The child a call is about, never guessed when there is a choice to make.
pickChild(args) ==
  IF args.name # None
    THEN IF \E c \in guardians : Named(args) = {c} /\ args.id \in {None, c}
           THEN Chosen(CHOOSE c \in guardians : Named(args) = {c})
           ELSE NoChild("child_name_not_found")
  ELSE IF args.id # None
    THEN IF args.id \in guardians THEN Chosen(args.id) ELSE NoChild("child_not_found")
  ELSE IF Cardinality(guardians) = 1 THEN Chosen(CHOOSE c \in guardians : TRUE)
  ELSE NoChild("absence_child_required")

Tell(what) == answer' = what /\ pc' = "idle" /\ call' = Idle

Called(args) ==
  /\ pc = "idle" /\ calls < MaxCalls
  /\ calls' = calls + 1
  /\ IF ~allowWrites THEN Tell("writes_disabled")
     ELSE IF absenceWindow(args) = None THEN Tell("invalid")
     ELSE /\ pc' = "session"
          /\ call' = [args |-> args, window |-> absenceWindow(args),
                      child |-> None, day |-> today]
          /\ UNCHANGED answer
  /\ UNCHANGED <<given, today, focus, recorded>>

\* ensureSession(), the child, and the preview unless the call confirms.
Session ==
  /\ pc = "session"
  /\ LET picked == pickChild(call.args)
     IN \/ "expired" \in Faults /\ Tell("not_authenticated")
        \/ picked.child = None /\ Tell(picked.error)
        \/ picked.child # None /\ ~call.args.confirm /\ Tell("preview")
        \/ /\ picked.child # None /\ call.args.confirm
           /\ pc' = "focus" /\ call' = [call EXCEPT !.child = picked.child]
           /\ UNCHANGED answer
  /\ UNCHANGED <<given, today, focus, calls, recorded>>

\* withChild(): the report goes to the child in focus.
withChild ==
  /\ pc = "focus"
  /\ \/ focus' = call.child /\ pc' = "send" /\ UNCHANGED <<call, answer>>
     \/ "expired" \in Faults /\ Tell("not_authenticated") /\ UNCHANGED focus
  /\ UNCHANGED <<given, today, calls, recorded>>

\* writeFailure(): only an answer that says so is told as a definite failure.
writeFailure(how) ==
  CASE how = "ok"      -> "reported"
    [] how = "rejects" -> "absence_rejected"
    [] how = "refused" -> "pushback"
    [] how = "expired" -> "session"
    [] OTHER           -> "write_outcome_unknown"

\* What the portal does with the request: a failure or a 429 may come after it registered.
MayRegister(how) == how \in {"ok", "fails", "pushback"}
MustRegister(how) == how = "ok"

Send ==
  /\ pc = "send"
  /\ \E how \in {"ok"} \cup Faults, registers \in BOOLEAN :
       /\ registers => MayRegister(how)
       /\ MustRegister(how) => registers
       /\ recorded' = IF registers
                        THEN recorded \cup {[child |-> call.child, window |-> call.window,
                                             call |-> calls]}
                        ELSE recorded
       /\ Tell(writeFailure(how))
  /\ UNCHANGED <<given, today, focus, calls>>

\* Another operation, between two reports, selects a child.
OtherRead ==
  /\ pc = "idle"
  /\ \E c \in guardians \ {focus} : focus' = c
  /\ UNCHANGED <<given, today, calls, call, pc, recorded, answer>>

Midnight ==
  /\ today < MaxDay
  /\ today' = today + 1
  /\ UNCHANGED <<given, focus, calls, call, pc, recorded, answer>>

Next == \/ \E args \in Args : Called(args)
        \/ Session \/ withChild \/ Send \/ OtherRead \/ Midnight

Spec == Init /\ [][Next]_vars

-----------------------------------------------------------------------------
Fits(c, args) == args.name \in {None, firstName[c], c} /\ args.id \in {None, c}

(* "A report never falls back to the child in focus when there is a choice  *)
(* to make" (report-absence.ts:14): a report is sent only on the guardian's *)
(* word, for the one child that everything the call says fits, and while    *)
(* that child is the one in focus, to which the portal binds the request    *)
(* (absence-api.ts:4-5).                                                    *)
SentAsMeant ==
  pc = "send" => /\ call.args.confirm /\ allowWrites
                 /\ {c \in guardians : Fits(c, call.args)} = {call.child}
                 /\ focus = call.child

(* The guardian is never told that nothing was reported while the school   *)
(* believes the child absent, nor that it was reported when it was not; in *)
(* doubt the answer says so (absence-api.ts:6-11,51-72).                   *)
OutcomeTold ==
  pc = "idle" =>
    /\ (\E r \in recorded : r.call = calls) => answer \in {"reported", "write_outcome_unknown"}
    /\ answer = "reported" => \E r \in recorded : r.call = calls

=============================================================================
