------------------------------ MODULE Breaker ------------------------------
(***************************************************************************)
(* The push-back half of the request budget (core/budget/breaker.ts): the  *)
(* fields of class Breaker as one record, and its methods as operators     *)
(* that return the record after the call.  Pure state over an injected     *)
(* "now"; RequestBudget owns the only instance.                            *)
(*                                                                         *)
(* The counter "consecutive" is kept as the pause it yields: backoffMs is  *)
(* min(backoffMaxMs, backoffBaseMs * 2^consecutive), the pause the next    *)
(* push-back without a Retry-After would cause.  The list "failures" is a  *)
(* set of [at, by]: an answer is pushed once, so the pair names the entry. *)
(***************************************************************************)
EXTENDS Integers, FiniteSets

CONSTANTS
    Requests,        \* the requests a process sends; one run() each
    Threshold,       \* push-backs within Window that open the breaker
    Window,
    CoolDown,        \* first cool-down; doubles up to MaxCoolDown
    MaxCoolDown,
    BackoffBase,     \* pause after one push-back without Retry-After
    BackoffMax,
    MinRetryAfter,   \* Retry-After is clamped to these limits
    MaxRetryAfter,
    MaxWait          \* a request waits out a pause that ends within this

ASSUME BreakerAssumption ==
    /\ Threshold \in Nat \ {0}
    /\ Window \in Nat \ {0}
    /\ CoolDown \in Nat \ {0}
    /\ MaxCoolDown \in Nat /\ CoolDown <= MaxCoolDown
    /\ BackoffBase \in Nat \ {0}
    /\ BackoffMax \in Nat /\ BackoffBase <= BackoffMax
    /\ MinRetryAfter \in Nat /\ MaxRetryAfter \in Nat
    /\ MinRetryAfter <= MaxRetryAfter
    /\ MaxWait \in Nat

NoHint == -1   \* the answer carried no readable Retry-After

Least(a, b) == IF a <= b THEN a ELSE b
Greatest(a, b) == IF a >= b THEN a ELSE b

BreakerStates == {"closed", "open", "half_open"}

Breakers ==
    [current: BreakerStates,
     failures: SUBSET [at: Nat, by: Requests],
     backoffMs: Nat,
     pausedUntil: Nat,
     openUntil: Nat,
     coolDownMs: CoolDown .. MaxCoolDown,
     probing: BOOLEAN]

NewBreaker ==
    [current |-> "closed", failures |-> {}, backoffMs |-> BackoffBase,
     pausedUntil |-> 0, openUntil |-> 0, coolDownMs |-> CoolDown,
     probing |-> FALSE]

\* state(now): the cool-down ends when somebody looks, never by itself.
Looked(b, now) ==
    IF b.current = "open" /\ now >= b.openUntil
      THEN [b EXCEPT !.current = "half_open", !.probing = FALSE]
      ELSE b

\* retryAt(now) ?? now, of a breaker somebody just looked at.
FlowsAgainAt(b, now) ==
    CASE b.current = "open" -> b.openUntil
      [] b.current = "closed" /\ b.pausedUntil > now -> b.pausedUntil
      [] OTHER -> now

\* The three verdicts of admit(), for a breaker somebody just looked at.
\* Exactly one real user read tests the water.
Refuses(b, now, kind) ==
    \/ b.current = "open"
    \/ b.current = "half_open" /\ (b.probing \/ kind # "read")
    \/ /\ b.current = "closed"
       /\ b.pausedUntil > now
       /\ kind = "background" \/ b.pausedUntil - now > MaxWait

MakesWait(b, now, kind) ==
    /\ b.current = "closed"
    /\ b.pausedUntil > now
    /\ ~Refuses(b, now, kind)

LetsGo(b, now, kind) == ~Refuses(b, now, kind) /\ ~MakesWait(b, now, kind)

\* Wrong: the probe is not remembered, so a second one follows.
AdmittedUnmarked(b) == b

Admitted(b) == [b EXCEPT !.probing = @ \/ b.current = "half_open"]

\* Wrong: a probe cancelled while queued keeps its place.
AbandonForgotten(b, probe) == b

Abandon(b, probe) == [b EXCEPT !.probing = @ /\ ~probe]

\* Wrong: a closed breaker remembers its last cool-down.
SuccessKeepingCoolDown(b, probe) ==
    LET quiet == [b EXCEPT !.failures = {}, !.backoffMs = BackoffBase]
    IN  IF probe THEN [quiet EXCEPT !.current = "closed", !.probing = FALSE]
                 ELSE quiet

Success(b, probe) ==
    LET quiet == [b EXCEPT !.failures = {}, !.backoffMs = BackoffBase]
    IN  IF probe
          THEN [quiet EXCEPT !.current = "closed", !.probing = FALSE,
                             !.coolDownMs = CoolDown]
          ELSE quiet

Clamped(hint) ==
    IF hint = NoHint THEN NoHint
    ELSE Least(MaxRetryAfter, Greatest(MinRetryAfter, hint))

Open(b, now, hinted) ==
    [b EXCEPT !.current = "open",
              !.openUntil = now + Greatest(b.coolDownMs, hinted),
              !.failures = {},
              !.backoffMs = BackoffBase,
              !.pausedUntil = 0]

\* A failed probe reopens the breaker for twice as long.
ProbePushback(b, now, hinted) ==
    Open([b EXCEPT !.probing = FALSE,
                   !.coolDownMs = Least(MaxCoolDown, 2 * @)], now, hinted)

\* An answer to a request sent before the breaker opened: only a longer
\* Retry-After counts, and only while it is open.
StalePushback(b, now, hinted) ==
    IF b.current = "open" /\ hinted # NoHint
      THEN [b EXCEPT !.openUntil = Greatest(@, now + hinted)]
      ELSE b

\* Wrong: the pause is always the backoff, whatever the portal asked for.
CountedPushbackUnhinted(b, now, by, hinted) ==
    LET recent == {f \in b.failures : now - f.at < Window}
                    \cup {[at |-> now, by |-> by]}
    IN  IF Cardinality(recent) >= Threshold
          THEN Open(b, now, hinted)
          ELSE [b EXCEPT !.failures = recent,
                         !.backoffMs = Least(BackoffMax, 2 * @),
                         !.pausedUntil = Greatest(@, now + b.backoffMs)]

CountedPushback(b, now, by, hinted) ==
    LET recent == {f \in b.failures : now - f.at < Window}
                    \cup {[at |-> now, by |-> by]}
        pause  == IF hinted = NoHint THEN b.backoffMs ELSE hinted
    IN  IF Cardinality(recent) >= Threshold
          THEN Open(b, now, hinted)
          ELSE [b EXCEPT !.failures = recent,
                         !.backoffMs = Least(BackoffMax, 2 * @),
                         !.pausedUntil = Greatest(@, now + pause)]

Pushback(b, now, by, probe, hint) ==
    LET hinted == Clamped(hint)
        seen   == Looked(b, now)
    IN  IF probe THEN ProbePushback(b, now, hinted)
        ELSE IF seen.current # "closed" THEN StalePushback(seen, now, hinted)
        ELSE CountedPushback(seen, now, by, hinted)

=============================================================================
