------------------------------ MODULE Limiter ------------------------------
(***************************************************************************)
(* The rate half of the request budget (core/budget/limiter.ts): a token   *)
(* bucket and a cap on requests in flight, with one FIFO queue in front of *)
(* both.  The fields of class Limiter are one record; each method is an    *)
(* operator that returns the record after the call, its closing pump()     *)
(* included.                                                               *)
(*                                                                         *)
(* Tokens are fractions in the code (perMinute / 60_000 of one each        *)
(* millisecond).  Here they are the integer number of credits that makes   *)
(* the arithmetic exact: a token is Minute credits and every unit of time  *)
(* adds PerMinute of them.                                                 *)
(***************************************************************************)
EXTENDS Integers, Sequences

CONSTANTS
    PerMinute,    \* tokens added per Minute
    Minute,       \* the length of a minute in units of time (60_000)
    Burst,        \* the size of the bucket
    MaxInFlight   \* requests waiting for an answer at the same time

ASSUME LimiterAssumption ==
    /\ PerMinute \in Nat \ {0}
    /\ Minute \in Nat \ {0}
    /\ Burst \in Nat \ {0}
    /\ MaxInFlight \in Nat \ {0}

NoTimer == -1

Limiters(Waiters) ==
    [credits: 0 .. Burst * Minute,
     refilledAt: Nat,
     inFlight: 0 .. MaxInFlight,
     holdUntil: Nat,
     queue: Seq(Waiters),
     timer: Nat \cup {NoTimer}]

NewLimiter ==
    [credits |-> Burst * Minute, refilledAt |-> 0, inFlight |-> 0,
     holdUntil |-> 0, queue |-> <<>>, timer |-> NoTimer]

Lesser(a, b) == IF a <= b THEN a ELSE b
Larger(a, b) == IF a >= b THEN a ELSE b

Waiting(l) == {l.queue[i] : i \in DOMAIN l.queue}

\* Wrong: the bucket has no rim.
RefilledPastBurst(l, now) == l.credits + (now - l.refilledAt) * PerMinute

\* The bucket after the time since the last look.
Refilled(l, now) ==
    Lesser(Burst * Minute, l.credits + (now - l.refilledAt) * PerMinute)

\* How many waiters the loop of pump() grants out of a bucket of credits.
Grantable(l, credits, now) ==
    IF now < l.holdUntil THEN 0
    ELSE Lesser(Len(l.queue), Lesser(MaxInFlight - l.inFlight, credits \div Minute))

\* The instant at which the bucket holds a whole token, rounded up.
TokenAt(credits, now) ==
    IF credits >= Minute THEN now
    ELSE now + (Minute - credits + PerMinute - 1) \div PerMinute

\* Wrong: the timer is for holds only, nobody wakes a queue out of tokens.
GrantedUntimed(l, credits, n, now) ==
    [l EXCEPT !.credits = credits - n * Minute,
              !.refilledAt = now,
              !.inFlight = @ + n,
              !.queue = SubSeq(@, n + 1, Len(@)),
              !.timer = IF /\ Len(l.queue) > n
                           /\ l.inFlight + n < MaxInFlight
                           /\ now < l.holdUntil
                          THEN l.holdUntil ELSE NoTimer]

\* n waiters granted and the timer set: only time can unblock a full bucket
\* or a hold; a free slot arrives with release().
Granted(l, credits, n, now) ==
    [l EXCEPT !.credits = credits - n * Minute,
              !.refilledAt = now,
              !.inFlight = @ + n,
              !.queue = SubSeq(@, n + 1, Len(@)),
              !.timer = IF Len(l.queue) > n /\ l.inFlight + n < MaxInFlight
                          THEN Larger(l.holdUntil,
                                      TokenAt(credits - n * Minute, now))
                          ELSE NoTimer]

Pump(l, now) ==
    LET credits == Refilled(l, now)
    IN  Granted(l, credits, Grantable(l, credits, now), now)

Acquire(l, now, r) == Pump([l EXCEPT !.queue = Append(@, r)], now)

\* indexOf and splice.
Without(queue, r) ==
    LET i == CHOOSE i \in DOMAIN queue : queue[i] = r
    IN  SubSeq(queue, 1, i - 1) \o SubSeq(queue, i + 1, Len(queue))

\* The abort listener of a queued waiter.
Withdraw(l, now, r) == Pump([l EXCEPT !.queue = Without(@, r)], now)

\* Wrong: the queue is not told of the pause.
ReleaseUnheld(l, now, until) == Pump([l EXCEPT !.inFlight = @ - 1], now)

\* Wrong: the queue is emptied and nobody told.
FlushUnreleased(l, now) == Pump([l EXCEPT !.queue = <<>>], now)

\* hold(until) or flush() and then release(): two pumps at one instant grant
\* what one pump does after both changes.
HoldAndRelease(l, now, until) ==
    Pump([l EXCEPT !.holdUntil = Larger(@, until), !.inFlight = @ - 1], now)

FlushAndRelease(l, now) ==
    Pump([l EXCEPT !.queue = <<>>, !.inFlight = @ - 1], now)

=============================================================================
