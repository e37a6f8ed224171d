------------------------- MODULE RequestBudgetTrace -------------------------
(***************************************************************************)
(* RequestBudget with two history variables, for the promises that speak   *)
(* of the past: when each request got its token, and until when the portal *)
(* has asked to be left alone.                                             *)
(***************************************************************************)
EXTENDS RequestBudget

VARIABLES
    grantedAt,    \* when a request got its token; NotYet before
    pauseUntil    \* the latest Retry-After, as clamped, that left the breaker closed

NotYet == -1

traceVars == <<now, breaker, limiter, pc, probes, wakeAt, aborted,
               grantedAt, pauseUntil>>

TraceInit ==
    /\ Init
    /\ grantedAt = [r \in Requests |-> NotYet]
    /\ pauseUntil = 0

Record ==
    grantedAt' = [r \in Requests |->
                    IF pc[r] # "granted" /\ pc'[r] = "granted"
                      THEN now ELSE grantedAt[r]]

Note(hint) ==
    LET until == IF hint = NoHint \/ breaker'.current # "closed" THEN 0
                 ELSE now + Clamped(hint)
    IN  pauseUntil' = Greatest(pauseUntil, until)

TraceNext ==
    /\ \/ \E r \in Requests :
            \/ /\ \/ Start(r) \/ Wake(r) \/ Enqueue(r) \/ Reject(r)
                  \/ Send(r) \/ AnswerWell(r) \/ Abort(r)
               /\ UNCHANGED pauseUntil
            \/ \E hint \in Hints \cup {NoHint} :
                  AnswerPushback(r, hint) /\ Note(hint)
       \/ (TimerFires \/ Snapshot \/ Tick) /\ UNCHANGED pauseUntil
    /\ Record

TraceSpec == TraceInit /\ [][TraceNext]_traceVars

GrantedBetween(from, until) ==
    {r \in Requests : grantedAt[r] # NotYet /\ grantedAt[r] \in from .. until}

\* In no stretch of time does the limiter start more requests than the bucket
\* held and the rate added: burst + rate * T, whoever asked for them.
RateBound ==
    \A from, until \in 0 .. now :
        from <= until =>
            Minute * Cardinality(GrantedBetween(from, until))
                <= Minute * Burst + PerMinute * (until - from)

\* A Retry-After that pauses the breaker binds every later request, also
\* after the breaker opened, which forgets the pause, and closed again.
RetryAfterHonoured ==
    \A r \in Requests :
       grantedAt'[r] # grantedAt[r] => now >= pauseUntil

=============================================================================
