------------------------ MODULE RequestBudgetProofs ------------------------
(*************************************************************************)
(* Proofs about RequestBudget and its history, RequestBudgetTrace, for   *)
(* any set of requests and any policy.                                   *)
(*************************************************************************)
EXTENDS RequestBudgetTrace, FiniteSetTheorems, SequenceTheorems, TLAPS

(*************************************************************************)
(* The breaker's methods keep its type.                                  *)
(*************************************************************************)

\* What a look at the breaker and an admission return.
LEMMA LookedType ==
    ASSUME NEW b \in Breakers, NEW n \in Nat
    PROVE  Looked(b, n) \in Breakers
  BY DEF Looked, Breakers, BreakerStates

LEMMA AdmittedType ==
    ASSUME NEW b \in Breakers
    PROVE  Admitted(b) \in Breakers
  BY DEF Admitted, Breakers, BreakerStates

\* A Retry-After, once clamped, is an instant distance or NoHint.
LEMMA ClampedType ==
    ASSUME NEW hint \in Nat \cup {NoHint}
    PROVE  Clamped(hint) \in Nat \cup {NoHint}
  BY BreakerAssumption DEF Clamped, Least, Greatest, NoHint

LEMMA OpenType ==
    ASSUME NEW b \in Breakers, NEW n \in Nat, NEW h \in Nat \cup {NoHint}
    PROVE  Open(b, n, h) \in Breakers
<1>1. n + Greatest(b.coolDownMs, h) \in Nat
  BY BreakerAssumption DEF Greatest, NoHint, Breakers
<1>2. QED
  BY <1>1, BreakerAssumption DEF Open, Breakers, BreakerStates

LEMMA SuccessType ==
    ASSUME NEW b \in Breakers, NEW p
    PROVE  Success(b, p) \in Breakers
<1>1. CoolDown \in CoolDown .. MaxCoolDown /\ BackoffBase \in Nat
  BY BreakerAssumption
<1>2. [b EXCEPT !.failures = {}, !.backoffMs = BackoffBase] \in Breakers
  BY <1>1 DEF Breakers
<1>3. CASE p
  BY <1>1, <1>2, <1>3 DEF Success, Breakers, BreakerStates
<1>4. CASE ~p
  BY <1>2, <1>4 DEF Success
<1>5. QED
  BY <1>3, <1>4

LEMMA PushbackType ==
    ASSUME NEW b \in Breakers, NEW n \in Nat, NEW r \in Requests,
           NEW p, NEW hint \in Nat \cup {NoHint}
    PROVE  Pushback(b, n, r, p, hint) \in Breakers
<1> DEFINE h == Clamped(hint)
<1> DEFINE s == Looked(b, n)
<1>1. h \in Nat \cup {NoHint}
  BY ClampedType
<1>2. s \in Breakers
  BY LookedType
<1> HIDE DEF h, s
<1>3. ProbePushback(b, n, h) \in Breakers
  <2>1. [b EXCEPT !.probing = FALSE,
                  !.coolDownMs = Least(MaxCoolDown, 2 * @)] \in Breakers
    <3>1. Least(MaxCoolDown, 2 * b.coolDownMs) \in CoolDown .. MaxCoolDown
      BY BreakerAssumption DEF Least, Breakers
    <3>2. QED
      BY <3>1 DEF Breakers
  <2>2. QED
    BY <1>1, <2>1, OpenType DEF ProbePushback
<1>4. StalePushback(s, n, h) \in Breakers
  BY <1>1, <1>2 DEF StalePushback, Greatest, NoHint, Breakers, BreakerStates
<1>5. CountedPushback(s, n, r, h) \in Breakers
  <2> DEFINE recent == {f \in s.failures : n - f.at < Window}
                         \cup {[at |-> n, by |-> r]}
  <2> DEFINE pause == IF h = NoHint THEN s.backoffMs ELSE h
  <2>1. recent \in SUBSET [at: Nat, by: Requests]
    BY <1>2 DEF Breakers
  <2>2. pause \in Nat
    BY <1>1, <1>2 DEF Breakers, NoHint
  <2> HIDE DEF recent, pause
  <2>3. [s EXCEPT !.failures = recent,
                  !.backoffMs = Least(BackoffMax, 2 * @),
                  !.pausedUntil = Greatest(@, n + pause)] \in Breakers
    <3>1. Least(BackoffMax, 2 * s.backoffMs) \in Nat
      BY <1>2, BreakerAssumption DEF Least, Breakers
    <3>2. Greatest(s.pausedUntil, n + pause) \in Nat
      BY <1>2, <2>2 DEF Greatest, Breakers
    <3>3. QED
      BY <1>2, <2>1, <3>1, <3>2 DEF Breakers
  <2>4. QED
    BY <1>1, <1>2, <2>3, OpenType DEF CountedPushback, recent, pause
<1>6. QED
  BY <1>3, <1>4, <1>5 DEF Pushback, h, s

(*************************************************************************)
(* The limiter's methods keep its type.                                  *)
(*************************************************************************)

\* The same waiter is never queued twice.
NoTwice(queue) ==
    \A i, j \in DOMAIN queue : queue[i] = queue[j] => i = j

\* What the time since the last look adds stays within the bucket.
LEMMA RefilledType ==
    ASSUME NEW l \in Limiters(Requests), NEW t \in Nat, t >= l.refilledAt
    PROVE  Refilled(l, t) \in 0 .. Burst * Minute
<1>1. (t - l.refilledAt) * PerMinute \in Nat
  BY LimiterAssumption DEF Limiters
<1>2. Burst * Minute \in Nat
  BY LimiterAssumption
<1>3. l.credits \in 0 .. Burst * Minute
  BY DEF Limiters
<1>4. QED
  BY <1>1, <1>2, <1>3 DEF Refilled, Lesser

\* Whole tokens in the bucket, and what they cost.
LEMMA WholeTokens ==
    ASSUME NEW c \in Nat
    PROVE  /\ c \div Minute \in Nat
           /\ \A n \in Nat : n <= c \div Minute =>
                 n * Minute \in Nat /\ n * Minute <= c
  BY LimiterAssumption

\* The loop of pump() grants no more than wait, fit in the slots and are paid.
LEMMA GrantableType ==
    ASSUME NEW l \in Limiters(Requests), NEW c \in Nat, NEW t \in Nat
    PROVE  LET n == Grantable(l, c, t)
           IN  /\ n \in 0 .. Len(l.queue)
               /\ l.inFlight + n \in 0 .. MaxInFlight
               /\ n * Minute \in Nat
               /\ n * Minute <= c
<1>1. Len(l.queue) \in Nat
  BY DEF Limiters
<1>2. l.inFlight \in Nat /\ MaxInFlight - l.inFlight \in Nat
  BY LimiterAssumption DEF Limiters
<1>3. c \div Minute \in Nat
  BY WholeTokens
<1>4. Grantable(l, c, t) \in Nat
  BY <1>1, <1>2, <1>3 DEF Grantable, Lesser
<1>5. /\ Grantable(l, c, t) <= Len(l.queue)
      /\ Grantable(l, c, t) <= MaxInFlight - l.inFlight
      /\ Grantable(l, c, t) <= c \div Minute
  BY <1>1, <1>2, <1>3 DEF Grantable, Lesser
<1> DEFINE n == Grantable(l, c, t)
<1> HIDE DEF n
<1>6. n * Minute \in Nat /\ n * Minute <= c
  BY <1>4, <1>5, WholeTokens DEF n
<1>7. n \in 0 .. Len(l.queue) /\ l.inFlight + n \in 0 .. MaxInFlight
  BY <1>1, <1>2, <1>4, <1>5, LimiterAssumption DEF n
<1>8. QED
  BY <1>6, <1>7 DEF n

LEMMA TokenAtType ==
    ASSUME NEW c \in Nat, NEW t \in Nat
    PROVE  TokenAt(c, t) \in Nat
<1>1. ASSUME NEW x \in Nat
      PROVE  x \div PerMinute \in Nat
  BY LimiterAssumption
<1>2. c < Minute => Minute - c + PerMinute - 1 \in Nat
  BY LimiterAssumption
<1>3. QED
  BY <1>1, <1>2, LimiterAssumption DEF TokenAt

\* pump() keeps the limiter's type.
LEMMA PumpType ==
    ASSUME NEW l \in Limiters(Requests), NEW t \in Nat, t >= l.refilledAt
    PROVE  Pump(l, t) \in Limiters(Requests) /\ Pump(l, t).refilledAt = t
<1> DEFINE c == Refilled(l, t)
<1> DEFINE n == Grantable(l, c, t)
<1>1. c \in Nat /\ c \in 0 .. Burst * Minute
  BY RefilledType
<1>2. /\ n \in 0 .. Len(l.queue)
      /\ l.inFlight + n \in 0 .. MaxInFlight
      /\ n * Minute \in Nat
      /\ n * Minute <= c
  BY <1>1, GrantableType
<1>3. Pump(l, t) = Granted(l, c, n, t)
  BY DEF Pump
<1> HIDE DEF c, n
<1>4. c - n * Minute \in 0 .. Burst * Minute /\ c - n * Minute \in Nat
  <2> DEFINE paid == n * Minute
  <2> DEFINE full == Burst * Minute
  <2>1. paid \in Nat /\ paid <= c /\ full \in Nat /\ c \in 0 .. full
    BY <1>1, <1>2, LimiterAssumption
  <2> HIDE DEF paid, full
  <2>2. c - paid \in 0 .. full /\ c - paid \in Nat
    BY <2>1
  <2>3. QED
    BY <2>2 DEF paid, full
<1>5. SubSeq(l.queue, n + 1, Len(l.queue)) \in Seq(Requests)
  BY <1>2 DEF Limiters
<1>6. Larger(l.holdUntil, TokenAt(c - n * Minute, t)) \in Nat
  BY <1>4, TokenAtType DEF Larger, Limiters
<1>7. QED
  BY <1>2, <1>3, <1>4, <1>5, <1>6 DEF Granted, Limiters, NoTimer
\* pump() takes a prefix of the queue, and the slots it hands out are as many
\* as the waiters it grants.
LEMMA PumpEffect ==
    ASSUME NEW l \in Limiters(Requests), NEW t \in Nat, t >= l.refilledAt,
           NoTwice(l.queue)
    PROVE  LET m == Pump(l, t)
               served == Waiting(l) \ Waiting(m)
           IN  /\ NoTwice(m.queue)
               /\ Waiting(m) \subseteq Waiting(l)
               /\ IsFiniteSet(served)
               /\ m.inFlight = l.inFlight + Cardinality(served)
<1> DEFINE c == Refilled(l, t)
<1> DEFINE n == Grantable(l, c, t)
<1> DEFINE m == Pump(l, t)
<1> DEFINE q == l.queue
<1>1. c \in Nat
  BY RefilledType, LimiterAssumption
<1>2. n \in 0 .. Len(q) /\ n \in Nat
  <2> HIDE DEF c
  <2>1. Len(q) \in Nat
    BY DEF Limiters
  <2>2. n \in 0 .. Len(q)
    BY <1>1, GrantableType
  <2>3. QED
    BY <2>1, <2>2
<1>3. m.queue = SubSeq(q, n + 1, Len(q)) /\ m.inFlight = l.inFlight + n
  BY DEF Pump, Granted, Limiters
<1>4. q \in Seq(Requests) /\ DOMAIN q = 1 .. Len(q) /\ Len(q) \in Nat
  BY DEF Limiters
<1> HIDE DEF c, n, m
<1>5. /\ DOMAIN m.queue = 1 .. (Len(q) - n)
      /\ \A i \in 1 .. (Len(q) - n) : m.queue[i] = q[i + n]
  BY <1>2, <1>3, <1>4
<1>6. NoTwice(m.queue)
  <2>1. ASSUME NEW i \in DOMAIN m.queue, NEW j \in DOMAIN m.queue,
               m.queue[i] = m.queue[j]
        PROVE  i = j
    <3>1. i + n \in DOMAIN q /\ j + n \in DOMAIN q /\ i \in Int /\ j \in Int
      BY <1>2, <1>4, <1>5
    <3>2. q[i + n] = q[j + n]
      BY <1>5, <2>1
    <3>3. i + n = j + n
      BY <3>1, <3>2 DEF NoTwice
    <3>4. QED
      BY <1>2, <3>1, <3>3
  <2>2. QED
    BY <2>1 DEF NoTwice
<1>7. Waiting(m) = {q[i] : i \in (n + 1) .. Len(q)}
  <2>1. ASSUME NEW x \in Waiting(m)
        PROVE  \E i \in (n + 1) .. Len(q) : x = q[i]
    BY <1>2, <1>4, <1>5 DEF Waiting
  <2>2. ASSUME NEW i \in (n + 1) .. Len(q)
        PROVE  q[i] \in Waiting(m)
    <3>1. i - n \in 1 .. (Len(q) - n) /\ m.queue[i - n] = q[i]
      BY <1>2, <1>4, <1>5
    <3>2. QED
      BY <3>1, <1>5 DEF Waiting
  <2>3. QED
    BY <2>1, <2>2
<1>8. Waiting(l) = {q[i] : i \in 1 .. Len(q)}
  BY <1>4 DEF Waiting
<1> DEFINE served == Waiting(l) \ Waiting(m)
<1>9. served = {q[i] : i \in 1 .. n}
  BY <1>2, <1>4, <1>7, <1>8 DEF NoTwice
<1>10. IsFiniteSet(served) /\ Cardinality(served) = n
  <2> DEFINE f == [i \in 1 .. n |-> q[i]]
  <2>1. f \in Bijection(1 .. n, served)
    BY <1>2, <1>4, <1>9
    DEF Bijection, Injection, Surjection, IsInjective, NoTwice
  <2>2. IsFiniteSet(1 .. n) /\ Cardinality(1 .. n) = n
    BY <1>2, FS_Interval
  <2>3. ExistsBijection(1 .. n, served)
    BY <2>1 DEF ExistsBijection
  <2> HIDE DEF served
  <2>4. QED
    BY <2>2, <2>3, FS_Bijection
<1>11. QED
  BY <1>3, <1>6, <1>7, <1>8, <1>2, <1>10 DEF m

\* A pump in front of F requests in flight, as the books see it.
LEMMA PumpBooks ==
    ASSUME NEW l \in Limiters(Requests), NEW t \in Nat, t >= l.refilledAt,
           NoTwice(l.queue),
           NEW F, IsFiniteSet(F), l.inFlight = Cardinality(F),
           F \cap Waiting(l) = {}
    PROVE  LET m == Pump(l, t)
               G == F \cup (Waiting(l) \ Waiting(m))
           IN  /\ m \in Limiters(Requests)
               /\ m.refilledAt = t
               /\ NoTwice(m.queue)
               /\ Waiting(m) \subseteq Waiting(l)
               /\ IsFiniteSet(G)
               /\ m.inFlight = Cardinality(G)
<1> DEFINE m == Pump(l, t)
<1> DEFINE served == Waiting(l) \ Waiting(m)
<1>1. m \in Limiters(Requests) /\ m.refilledAt = t
  BY PumpType
<1>2. /\ NoTwice(m.queue)
      /\ Waiting(m) \subseteq Waiting(l)
      /\ IsFiniteSet(served)
      /\ m.inFlight = l.inFlight + Cardinality(served)
  BY PumpEffect
<1> HIDE DEF m
<1>3. F \cap served = {}
  OBVIOUS
<1> HIDE DEF served
<1>4. /\ IsFiniteSet(F \cup served)
      /\ Cardinality(F \cup served)
            = Cardinality(F) + Cardinality(served) - Cardinality(F \cap served)
  BY <1>2, FS_Union
<1>5. Cardinality(F \cap served) = 0
  BY <1>3, FS_EmptySet
<1>6. Cardinality(F) \in Nat /\ Cardinality(served) \in Nat
  BY <1>2, FS_CardinalityType
<1>7. m.inFlight = Cardinality(F \cup served)
  BY <1>2, <1>4, <1>5, <1>6
<1>8. QED
  BY <1>1, <1>2, <1>4, <1>7 DEF m, served

(**************************************************************************)
(* The limiter's books always agree with the requests.  Balanced is       *)
(* inductive: the slot count is the number of requests that hold one, the *)
(* queue has exactly the queued requests, each once, and the bucket was   *)
(* never refilled in the future.                                          *)
(**************************************************************************)
Queued == {r \in Requests : pc[r] = "queued"}

Balanced ==
    /\ TypeOK
    /\ limiter.refilledAt <= now
    /\ NoTwice(limiter.queue)
    /\ Waiting(limiter) = Queued
    /\ IsFiniteSet(InFlight)
    /\ limiter.inFlight = Cardinality(InFlight)

LEMMA BalancedInit == Init => Balanced
<1> SUFFICES ASSUME Init PROVE Balanced
  OBVIOUS
<1>1. TypeOK
  <2>1. breaker \in Breakers
    BY BreakerAssumption DEF Init, NewBreaker, Breakers, BreakerStates
  <2>2. Burst * Minute \in 0 .. Burst * Minute
    BY LimiterAssumption
  <2>3. limiter \in Limiters(Requests)
    BY <2>2, LimiterAssumption DEF Init, NewLimiter, Limiters
  <2>4. QED
    BY <2>1, <2>3 DEF Init, TypeOK, Places
<1>2. limiter.refilledAt <= now /\ NoTwice(limiter.queue)
  BY DEF Init, NewLimiter, NoTwice
<1>3. Waiting(limiter) = {} /\ Queued = {} /\ InFlight = {}
  BY DEF Init, NewLimiter, Waiting, Queued, InFlight
<1>4. limiter.inFlight = 0
  BY DEF Init, NewLimiter
<1>5. QED
  BY <1>1, <1>2, <1>3, <1>4, FS_EmptySet DEF Balanced

\* Steps that neither touch the limiter nor a queued or in-flight request.
LEMMA BalancedElsewhere ==
    ASSUME Balanced, TypeOK', UNCHANGED limiter, now' \in Nat, now' >= now,
           \A r \in Requests :
              /\ pc'[r] = "queued" <=> pc[r] = "queued"
              /\ pc'[r] \in {"granted", "sent"} <=> pc[r] \in {"granted", "sent"}
    PROVE  Balanced'
<1>1. Queued' = Queued /\ InFlight' = InFlight
  BY DEF Queued, InFlight
<1>2. limiter'.refilledAt <= now'
  BY DEF Balanced, TypeOK, Limiters
<1>3. QED
  BY <1>1, <1>2 DEF Balanced

\* Steps that pump a limiter l made from the present one in front of F
\* requests in flight: the rest of the books follows from what becomes of pc.
LEMMA BalancedPump ==
    ASSUME Balanced, TypeOK', now' = now,
           NEW l \in Limiters(Requests), l.refilledAt <= now, NoTwice(l.queue),
           NEW F, IsFiniteSet(F), l.inFlight = Cardinality(F),
           F \cap Waiting(l) = {},
           limiter' = Pump(l, now),
           Queued' = Waiting(limiter'),
           InFlight' = F \cup (Waiting(l) \ Waiting(limiter'))
    PROVE  Balanced'
<1>1. now \in Nat /\ now >= l.refilledAt
  BY DEF Balanced, TypeOK, Limiters
<1>2. /\ limiter'.refilledAt = now
      /\ NoTwice(limiter'.queue)
      /\ IsFiniteSet(InFlight')
      /\ limiter'.inFlight = Cardinality(InFlight')
  BY <1>1, PumpBooks
<1>3. QED
  BY <1>1, <1>2 DEF Balanced

\* What becomes of a queue that r joins or leaves.
LEMMA JoinQueue ==
    ASSUME NEW q \in Seq(Requests), NEW r \in Requests, NoTwice(q),
           \A i \in DOMAIN q : q[i] # r
    PROVE  /\ Append(q, r) \in Seq(Requests)
           /\ NoTwice(Append(q, r))
           /\ {Append(q, r)[i] : i \in DOMAIN Append(q, r)}
                 = {q[i] : i \in DOMAIN q} \cup {r}
<1> DEFINE a == Append(q, r)
<1>1. /\ a \in Seq(Requests)
      /\ DOMAIN q = 1 .. Len(q) /\ Len(q) \in Nat
      /\ DOMAIN a = 1 .. (Len(q) + 1)
      /\ \A i \in 1 .. Len(q) : a[i] = q[i]
      /\ a[Len(q) + 1] = r
  OBVIOUS
<1> HIDE DEF a
<1>2. NoTwice(a)
  <2>1. \A i \in 1 .. (Len(q) + 1) : i \in 1 .. Len(q) \/ i = Len(q) + 1
    BY <1>1
  <2>2. QED
    BY <1>1, <2>1 DEF NoTwice
<1>3. {a[i] : i \in DOMAIN a} = {q[i] : i \in DOMAIN q} \cup {r}
  <2>1. DOMAIN a = (DOMAIN q) \cup {Len(q) + 1}
    BY <1>1
  <2>2. QED
    BY <1>1, <2>1
<1>4. QED
  BY <1>1, <1>2, <1>3 DEF a

LEMMA LeaveQueue ==
    ASSUME NEW q \in Seq(Requests), NEW r \in Requests, NoTwice(q),
           \E i \in DOMAIN q : q[i] = r
    PROVE  /\ Without(q, r) \in Seq(Requests)
           /\ NoTwice(Without(q, r))
           /\ {Without(q, r)[i] : i \in DOMAIN Without(q, r)}
                 = {q[i] : i \in DOMAIN q} \ {r}
<1> DEFINE k == CHOOSE i \in DOMAIN q : q[i] = r
<1> DEFINE w == Without(q, r)
<1>1. k \in DOMAIN q /\ q[k] = r
  OBVIOUS
<1>2. DOMAIN q = 1 .. Len(q) /\ Len(q) \in Nat /\ k \in 1 .. Len(q)
  BY <1>1
<1>3. w = SubSeq(q, 1, k - 1) \o SubSeq(q, k + 1, Len(q))
  BY DEF Without
<1> HIDE DEF k, w
<1> DEFINE u == SubSeq(q, 1, k - 1)
<1> DEFINE v == SubSeq(q, k + 1, Len(q))
<1>4. /\ u \in Seq(Requests) /\ Len(u) = k - 1
      /\ \A i \in 1 .. (k - 1) : u[i] = q[i]
  BY <1>2
<1>5. /\ v \in Seq(Requests) /\ Len(v) = Len(q) - k
      /\ \A i \in 1 .. (Len(q) - k) : v[i] = q[i + k]
  <2>1. k \in Nat /\ Len(q) \in Nat /\ k <= Len(q)
    BY <1>2
  <2>2. /\ k + 1 \in Int /\ Len(q) \in Int
        /\ \A i \in (k + 1) .. Len(q) : q[i] \in Requests
    BY <1>2
  <2>3. /\ v \in Seq(Requests)
        /\ Len(v) = IF k + 1 <= Len(q) THEN Len(q) - (k + 1) + 1 ELSE 0
        /\ \A i \in 1 .. (Len(q) - (k + 1) + 1) : v[i] = q[(k + 1) + i - 1]
    BY <2>2, SubSeqProperties
  <2> HIDE DEF u, v
  <2>4. Len(q) - (k + 1) + 1 = Len(q) - k
    BY <2>1
  <2>5. \A i \in 1 .. (Len(q) - k) : (k + 1) + i - 1 = i + k
    BY <2>1
  <2>6. Len(v) = Len(q) - k
    <3>1. Len(v) = IF k + 1 <= Len(q) THEN Len(q) - (k + 1) + 1 ELSE 0
      BY <2>3
    <3>2. CASE k + 1 <= Len(q)
      BY <2>4, <3>1, <3>2
    <3>3. CASE ~(k + 1 <= Len(q))
      <4>1. Len(q) - k = 0
        BY <2>1, <3>3
      <4>2. QED
        BY <3>1, <3>3, <4>1
    <3>4. QED
      BY <3>2, <3>3
  <2>7. QED
    BY <2>3, <2>4, <2>5, <2>6
<1> HIDE DEF u, v
<1>6. /\ w \in Seq(Requests)
      /\ Len(w) = Len(q) - 1
      /\ DOMAIN w = 1 .. (Len(q) - 1)
      /\ \A i \in 1 .. (Len(q) - 1) :
            w[i] = IF i <= k - 1 THEN u[i] ELSE v[i - (k - 1)]
  <2>1. w = u \o v
    BY <1>3 DEF u, v
  <2>2. Len(u) + Len(v) = Len(q) - 1
    BY <1>2, <1>4, <1>5
  <2>3. /\ w \in Seq(Requests)
        /\ Len(w) = Len(q) - 1
        /\ \A i \in 1 .. (Len(q) - 1) :
              w[i] = IF i <= Len(u) THEN u[i] ELSE v[i - Len(u)]
    BY <1>4, <1>5, <2>1, <2>2, ConcatProperties
  <2>4. DOMAIN w = 1 .. (Len(q) - 1)
    BY <2>3
  <2>5. QED
    BY <1>4, <2>3, <2>4
<1>7. \A i \in 1 .. (Len(q) - 1) : w[i] = IF i < k THEN q[i] ELSE q[i + 1]
  <2>1. ASSUME NEW i \in 1 .. (Len(q) - 1), i < k
        PROVE  w[i] = q[i]
    BY <1>2, <1>6, <1>4, <2>1
  <2>2. ASSUME NEW i \in 1 .. (Len(q) - 1), ~(i < k)
        PROVE  w[i] = q[i + 1]
    <3>1. i - (k - 1) \in 1 .. (Len(q) - k) /\ (i - (k - 1)) + k = i + 1
      BY <1>2, <2>2
    <3>2. w[i] = v[i - (k - 1)]
      BY <1>2, <1>6, <2>2
    <3>3. QED
      BY <1>5, <3>1, <3>2
  <2>3. QED
    BY <2>1, <2>2
<1> DEFINE at(i) == IF i < k THEN i ELSE i + 1
<1>8. \A i \in 1 .. (Len(q) - 1) : at(i) \in DOMAIN q /\ at(i) # k /\ w[i] = q[at(i)]
  BY <1>2, <1>7
<1>9. NoTwice(w)
  <2>1. \A i, j \in 1 .. (Len(q) - 1) : at(i) = at(j) => i = j
    BY <1>2
  <2> HIDE DEF at
  <2>2. QED
    BY <1>6, <1>8, <2>1 DEF NoTwice
<1>10. {w[i] : i \in DOMAIN w} \subseteq {q[i] : i \in DOMAIN q} \ {r}
  <2> HIDE DEF at
  <2>1. QED
    BY <1>1, <1>6, <1>8 DEF NoTwice
<1>11. ASSUME NEW j \in DOMAIN q, q[j] # r
      PROVE  \E i \in DOMAIN w : w[i] = q[j]
  <2>1. j # k /\ j \in 1 .. Len(q)
    BY <1>1, <1>2, <1>11
  <2>2. CASE j < k
    <3>1. j \in 1 .. (Len(q) - 1)
      BY <1>2, <2>1, <2>2
    <3>2. QED
      BY <1>6, <1>7, <2>2, <3>1
  <2>3. CASE j > k
    <3>1. j - 1 \in 1 .. (Len(q) - 1) /\ ~(j - 1 < k) /\ (j - 1) + 1 = j
      BY <1>2, <2>1, <2>3
    <3>2. w[j - 1] = q[j]
      BY <1>7, <3>1
    <3>3. QED
      BY <1>6, <3>1, <3>2
  <2>4. QED
    BY <1>2, <2>1, <2>2, <2>3
<1>12. {w[i] : i \in DOMAIN w} = {q[i] : i \in DOMAIN q} \ {r}
  BY <1>10, <1>11
<1>13. QED
  BY <1>6, <1>9, <1>12 DEF w

\* admit() leaves every request in a place it may be, none of them queued.
LEMMA AdmitEffect ==
    ASSUME TypeOK, NEW r \in Requests, Admit(r), pc[r] \in {"new", "sleeping"}
    PROVE  /\ breaker' \in Breakers
           /\ wakeAt' \in [Requests -> Nat]
           /\ probes' \subseteq Requests
           /\ \E place \in {"unsent", "sleeping", "admitted"} : Goto(r, place)
<1> DEFINE b == Looked(breaker, now)
<1>1. b \in Breakers
  BY LookedType DEF TypeOK
<1>2. Admitted(b) \in Breakers /\ b.pausedUntil \in Nat
  BY <1>1, AdmittedType DEF Breakers
<1> HIDE DEF b
<1>3. breaker' \in Breakers
  BY <1>1, <1>2 DEF Admit, b, TypeOK
<1>4. wakeAt' \in [Requests -> Nat]
  BY <1>2 DEF Admit, b, TypeOK
<1>5. QED
  BY <1>3, <1>4 DEF Admit, TypeOK

LEMMA BalancedAdmit ==
    ASSUME Balanced, NEW r \in Requests, Start(r) \/ Wake(r)
    PROVE  Balanced'
<1>1. PICK place \in {"unsent", "sleeping", "admitted"} : Goto(r, place)
  BY AdmitEffect DEF Balanced, Start, Wake
<1>2. TypeOK'
  BY <1>1, AdmitEffect DEF Balanced, TypeOK, Start, Wake, Goto, Places
<1>3. QED
  BY <1>1, <1>2, BalancedElsewhere DEF Balanced, TypeOK, Start, Wake, Goto

LEMMA BalancedEnqueue ==
    ASSUME Balanced, NEW r \in Requests, Enqueue(r)
    PROVE  Balanced'
<1>1. CASE r \in aborted
  <2>1. TypeOK'
    BY <1>1 DEF Balanced, TypeOK, Enqueue, Goto, Places
  <2>2. QED
    BY <1>1, <2>1, BalancedElsewhere DEF Balanced, TypeOK, Enqueue, Goto
<1>2. CASE r \notin aborted
  <2> DEFINE l == [limiter EXCEPT !.queue = Append(@, r)]
  <2>1. \A i \in DOMAIN limiter.queue : limiter.queue[i] # r
    BY DEF Balanced, Enqueue, Waiting, Queued
  <2>2. limiter.queue \in Seq(Requests)
    BY DEF Balanced, TypeOK, Limiters
  <2>3. /\ l \in Limiters(Requests)
        /\ l.refilledAt <= now
        /\ l.inFlight = Cardinality(InFlight)
        /\ NoTwice(l.queue)
        /\ Waiting(l) = Queued \cup {r}
    <3> DEFINE a == Append(limiter.queue, r)
    <3>1. /\ a \in Seq(Requests)
          /\ NoTwice(a)
          /\ {a[i] : i \in DOMAIN a} = Waiting(limiter) \cup {r}
      BY <2>1, <2>2, JoinQueue DEF Balanced, Waiting
    <3>2. l = [limiter EXCEPT !.queue = a]
      BY DEF Balanced, TypeOK, Limiters
    <3> HIDE DEF a, l
    <3>3. l \in Limiters(Requests) /\ l.queue = a
      BY <3>1, <3>2 DEF Balanced, TypeOK, Limiters
    <3>4. l.refilledAt <= now /\ l.inFlight = Cardinality(InFlight)
      BY <3>2 DEF Balanced, TypeOK, Limiters
    <3>5. QED
      BY <3>1, <3>3, <3>4 DEF Balanced, Waiting
  <2>4. limiter' = Pump(l, now) /\ now' = now
    BY <1>2 DEF Enqueue, Acquire
  <2> HIDE DEF l
  <2>5. InFlight \cap Waiting(l) = {}
    BY <2>3 DEF InFlight, Queued, Enqueue
  <2>6. limiter' \in Limiters(Requests) /\ Waiting(limiter') \subseteq Waiting(l)
    BY <2>3, <2>4, <2>5, PumpBooks DEF Balanced, TypeOK, Limiters
  <2>7. pc' = [x \in Requests |->
                 IF x \in Waiting(limiter') THEN "queued"
                 ELSE IF x = r \/ x \in Waiting(limiter) THEN "granted"
                 ELSE pc[x]]
    BY <1>2 DEF Enqueue
  <2>8. TypeOK'
    BY <2>6, <2>7 DEF Balanced, TypeOK, Enqueue, Places
  <2>9. Queued' = Waiting(limiter')
    BY <2>3, <2>6, <2>7 DEF Queued, Balanced
  <2>10. InFlight' = InFlight \cup (Waiting(l) \ Waiting(limiter'))
    BY <2>3, <2>5, <2>6, <2>7 DEF InFlight, Queued, Balanced
  <2>11. QED
    BY <2>3, <2>4, <2>5, <2>8, <2>9, <2>10, BalancedPump DEF Balanced
<1>3. QED
  BY <1>1, <1>2

LEMMA BalancedReject ==
    ASSUME Balanced, NEW r \in Requests, Reject(r)
    PROVE  Balanced'
<1>1. breaker' \in Breakers
  BY DEF Reject, Abandon, Balanced, TypeOK, Breakers, BreakerStates
<1>2. TypeOK'
  BY <1>1 DEF Balanced, TypeOK, Reject, Goto, Places
<1>3. QED
  BY <1>2, BalancedElsewhere DEF Balanced, TypeOK, Reject, Goto

LEMMA BalancedSend ==
    ASSUME Balanced, NEW r \in Requests, Send(r)
    PROVE  Balanced'
<1>1. TypeOK'
  BY DEF Balanced, TypeOK, Send, Goto, Places
<1>2. QED
  BY <1>1, BalancedElsewhere DEF Balanced, TypeOK, Send, Goto

\* settle(): one slot comes back, and the queue is flushed or pumped.
LEMMA BalancedSettle ==
    ASSUME Balanced, NEW r \in Requests, pc[r] = "sent",
           NEW learned \in Breakers, Settle(r, learned)
    PROVE  Balanced'
<1> DEFINE b == Looked(learned, now)
<1> DEFINE F == InFlight \ {r}
<1>1. b \in Breakers /\ now \in Nat
  BY LookedType DEF Balanced, TypeOK
<1>2. FlowsAgainAt(b, now) \in Nat
  BY <1>1 DEF FlowsAgainAt, Breakers
<1>3. /\ IsFiniteSet(F)
      /\ limiter.inFlight - 1 = Cardinality(F)
      /\ limiter.inFlight - 1 \in 0 .. MaxInFlight
  <2>1. r \in InFlight
    BY DEF InFlight
  <2>2. IsFiniteSet(F) /\ Cardinality(F) = Cardinality(InFlight) - 1
    BY <2>1, FS_RemoveElement DEF Balanced
  <2>3. Cardinality(F) \in Nat
    BY <2>2, FS_CardinalityType
  <2>4. QED
    BY <2>2, <2>3, LimiterAssumption DEF Balanced, TypeOK, Limiters
<1> HIDE DEF b
<1>4. CASE b.current = "open"
  <2> DEFINE l == [limiter EXCEPT !.queue = <<>>, !.inFlight = @ - 1]
  <2>1. /\ l \in Limiters(Requests)
        /\ l.refilledAt <= now
        /\ l.inFlight = Cardinality(F)
        /\ NoTwice(l.queue)
        /\ Waiting(l) = {}
    <3>1. l.queue = <<>> /\ l \in Limiters(Requests)
      BY <1>3, EmptySeq DEF Balanced, TypeOK, Limiters
    <3>2. l.refilledAt <= now /\ l.inFlight = Cardinality(F)
      BY <1>3 DEF Balanced, TypeOK, Limiters
    <3> HIDE DEF l
    <3>3. DOMAIN l.queue = {}
      BY <3>1
    <3>4. QED
      BY <3>1, <3>2, <3>3 DEF Waiting, NoTwice
  <2>2. limiter' = Pump(l, now) /\ now' = now
    BY <1>4 DEF Settle, FlushAndRelease, b
  <2> HIDE DEF l
  <2>3. limiter' \in Limiters(Requests) /\ Waiting(limiter') = {}
    BY <1>1, <1>3, <2>1, <2>2, PumpBooks DEF Limiters
  <2>4. pc' = [Resume(limiter, limiter', "rejected") EXCEPT ![r] = "answered"]
    BY <1>4 DEF Settle, b
  <2>5. TypeOK'
    BY <1>1, <2>3, <2>4 DEF Balanced, TypeOK, Settle, Resume, Places, b
  <2>6. Queued' = Waiting(limiter')
    BY <2>3, <2>4 DEF Queued, Balanced, Resume
  <2>7. InFlight' = F \cup (Waiting(l) \ Waiting(limiter'))
    BY <2>1, <2>3, <2>4 DEF InFlight, Queued, Balanced, Resume
  <2>8. QED
    BY <1>3, <2>1, <2>2, <2>5, <2>6, <2>7, BalancedPump
<1>5. CASE b.current # "open"
  <2> DEFINE l == [limiter EXCEPT !.holdUntil = Larger(@, FlowsAgainAt(b, now)),
                                  !.inFlight = @ - 1]
  <2>0. Larger(limiter.holdUntil, FlowsAgainAt(b, now)) \in Nat
    BY <1>2 DEF Larger, Balanced, TypeOK, Limiters
  <2>1. /\ l \in Limiters(Requests)
        /\ l.refilledAt <= now
        /\ l.inFlight = Cardinality(F)
        /\ NoTwice(l.queue)
        /\ Waiting(l) = Queued
    BY <1>3, <2>0 DEF Balanced, TypeOK, Limiters, Waiting
  <2>2. limiter' = Pump(l, now) /\ now' = now
    BY <1>5 DEF Settle, HoldAndRelease, b
  <2> HIDE DEF l
  <2>3. F \cap Waiting(l) = {}
    BY <2>1 DEF InFlight, Queued
  <2>4. limiter' \in Limiters(Requests) /\ Waiting(limiter') \subseteq Waiting(l)
    BY <1>1, <1>3, <2>1, <2>2, <2>3, PumpBooks DEF Limiters
  <2>5. pc' = [Resume(limiter, limiter', "granted") EXCEPT ![r] = "answered"]
    BY <1>5 DEF Settle, b
  <2>6. TypeOK'
    BY <1>1, <2>4, <2>5 DEF Balanced, TypeOK, Settle, Resume, Places, b
  <2>7. Queued' = Waiting(limiter')
    BY <2>1, <2>4, <2>5 DEF Queued, Balanced, Resume
  <2>8. InFlight' = F \cup (Waiting(l) \ Waiting(limiter'))
    BY <2>1, <2>4, <2>5 DEF InFlight, Queued, Balanced, Resume
  <2>9. QED
    BY <1>3, <2>1, <2>2, <2>3, <2>6, <2>7, <2>8, BalancedPump
<1>6. QED
  BY <1>4, <1>5

LEMMA BalancedAbort ==
    ASSUME Balanced, NEW r \in Requests, Abort(r)
    PROVE  Balanced'
<1>1. CASE pc[r] = "queued"
  <2> DEFINE l == [limiter EXCEPT !.queue = Without(@, r)]
  <2>1. limiter' = Pump(l, now) /\ now' = now
    BY <1>1 DEF Abort, Withdraw
  <2>2. pc' = [Resume(limiter, limiter', "granted") EXCEPT ![r] = "rejected"]
    BY <1>1 DEF Abort
  <2>3. /\ l \in Limiters(Requests)
        /\ l.refilledAt <= now
        /\ l.inFlight = Cardinality(InFlight)
        /\ NoTwice(l.queue)
        /\ Waiting(l) = Queued \ {r}
    <3> DEFINE w == Without(limiter.queue, r)
    <3>1. \E i \in DOMAIN limiter.queue : limiter.queue[i] = r
      BY <1>1 DEF Balanced, Waiting, Queued
    <3>2. limiter.queue \in Seq(Requests)
      BY DEF Balanced, TypeOK, Limiters
    <3>3. /\ w \in Seq(Requests)
          /\ NoTwice(w)
          /\ {w[i] : i \in DOMAIN w} = Waiting(limiter) \ {r}
      BY <3>1, <3>2, LeaveQueue DEF Balanced, Waiting
    <3>4. l = [limiter EXCEPT !.queue = w]
      BY DEF Balanced, TypeOK, Limiters
    <3> HIDE DEF w, l
    <3>5. l \in Limiters(Requests) /\ l.queue = w
      BY <3>3, <3>4 DEF Balanced, TypeOK, Limiters
    <3>6. l.refilledAt <= now /\ l.inFlight = Cardinality(InFlight)
      BY <3>4 DEF Balanced, TypeOK, Limiters
    <3>7. QED
      BY <3>3, <3>5, <3>6 DEF Balanced, Waiting
  <2> HIDE DEF l
  <2>4. InFlight \cap Waiting(l) = {}
    BY <2>3 DEF InFlight, Queued
  <2>5. limiter' \in Limiters(Requests) /\ Waiting(limiter') \subseteq Waiting(l)
    BY <2>1, <2>3, <2>4, PumpBooks DEF Balanced, TypeOK, Limiters
  <2>6. TypeOK'
    BY <1>1, <2>2, <2>5 DEF Balanced, TypeOK, Abort, Resume, Places
  <2>7. Queued' = Waiting(limiter')
    BY <2>2, <2>3, <2>5 DEF Queued, Balanced, Resume
  <2>8. InFlight' = InFlight \cup (Waiting(l) \ Waiting(limiter'))
    BY <1>1, <2>2, <2>3, <2>5 DEF InFlight, Queued, Balanced, Resume
  <2>9. QED
    BY <2>1, <2>3, <2>4, <2>6, <2>7, <2>8, BalancedPump DEF Balanced
<1>2. CASE pc[r] # "queued"
  <2>1. UNCHANGED limiter /\ (UNCHANGED pc \/ (pc[r] = "sleeping" /\ Goto(r, "unsent")))
    BY <1>2 DEF Abort
  <2>2. TypeOK'
    BY <1>2, <2>1 DEF Balanced, TypeOK, Abort, Goto, Places
  <2>3. QED
    BY <2>1, <2>2, BalancedElsewhere DEF Balanced, TypeOK, Abort, Goto
<1>3. QED
  BY <1>1, <1>2

LEMMA BalancedTimer ==
    ASSUME Balanced, TimerFires
    PROVE  Balanced'
<1>1. limiter' = Pump(limiter, now) /\ now' = now
  BY DEF TimerFires
<1>2. pc' = Resume(limiter, limiter', "granted")
  BY DEF TimerFires
<1>3. InFlight \cap Waiting(limiter) = {}
  BY DEF Balanced, InFlight, Queued
<1>4. limiter' \in Limiters(Requests) /\ Waiting(limiter') \subseteq Waiting(limiter)
  BY <1>1, <1>3, PumpBooks DEF Balanced, TypeOK, Limiters
<1>5. TypeOK'
  BY <1>2, <1>4 DEF Balanced, TypeOK, TimerFires, Resume, Places
<1>6. Queued' = Waiting(limiter')
  BY <1>2, <1>4 DEF Queued, Balanced, Resume
<1>7. InFlight' = InFlight \cup (Waiting(limiter) \ Waiting(limiter'))
  BY <1>2, <1>4 DEF InFlight, Queued, Balanced, Resume
<1>8. QED
  BY <1>1, <1>3, <1>5, <1>6, <1>7, BalancedPump DEF Balanced, TypeOK

LEMMA BalancedStep == Balanced /\ [Next]_vars => Balanced'
<1> SUFFICES ASSUME Balanced, [Next]_vars PROVE Balanced'
  OBVIOUS
<1>1. ASSUME NEW r \in Requests, RequestStep(r)
      PROVE  Balanced'
  <2>1. CASE Start(r) \/ Wake(r)
    BY <2>1, BalancedAdmit
  <2>2. CASE Enqueue(r)
    BY <2>2, BalancedEnqueue
  <2>3. CASE Reject(r)
    BY <2>3, BalancedReject
  <2>4. CASE Send(r)
    BY <2>4, BalancedSend
  <2>5. CASE AnswerWell(r)
    <3>1. Success(breaker, r \in probes) \in Breakers
      BY SuccessType DEF Balanced, TypeOK
    <3>2. QED
      BY <2>5, <3>1, BalancedSettle DEF AnswerWell
  <2>6. ASSUME NEW hint \in Hints \cup {NoHint}, AnswerPushback(r, hint)
        PROVE  Balanced'
    <3>1. hint \in Nat \cup {NoHint}
      BY BudgetAssumption
    <3>2. Pushback(breaker, now, r, r \in probes, hint) \in Breakers
      BY <3>1, PushbackType DEF Balanced, TypeOK
    <3>3. QED
      BY <2>6, <3>2, BalancedSettle DEF AnswerPushback
  <2>7. CASE Abort(r)
    BY <2>7, BalancedAbort
  <2>8. QED
    BY <1>1, <2>1, <2>2, <2>3, <2>4, <2>5, <2>6, <2>7 DEF RequestStep, Answer
<1>2. CASE TimerFires
  BY <1>2, BalancedTimer
<1>3. CASE Snapshot
  <2>1. TypeOK'
    BY <1>3, LookedType DEF Balanced, TypeOK, Snapshot
  <2>2. QED
    BY <1>3, <2>1, BalancedElsewhere DEF Balanced, TypeOK, Snapshot
<1>4. CASE Tick
  <2>1. TypeOK'
    BY <1>4 DEF Balanced, TypeOK, Tick
  <2>2. QED
    BY <1>4, <2>1, BalancedElsewhere DEF Balanced, TypeOK, Tick
<1>5. CASE UNCHANGED vars
  BY <1>5 DEF vars, Balanced, TypeOK, Queued, InFlight, Waiting
<1>6. QED
  BY <1>1, <1>2, <1>3, <1>4, <1>5 DEF Next

\* The type invariant and the slots rest on this one.
THEOREM AlwaysBalanced == Spec => []Balanced
  BY BalancedInit, BalancedStep, PTL DEF Spec

\* The type invariant: among others, never more than MaxInFlight requests hold
\* a slot and the bucket is never overdrawn (Limiters).
THEOREM TypeCorrect == Spec => []TypeOK
<1>1. Balanced => TypeOK
  BY DEF Balanced
<1>2. QED
  BY <1>1, AlwaysBalanced, PTL

\* No path through run() leaks a slot, returns it twice or loses a waiter.
THEOREM SlotsNeverLeak == Spec => []SlotsAccounted
<1>1. Balanced => SlotsAccounted
  <2> SUFFICES ASSUME Balanced PROVE SlotsAccounted
    OBVIOUS
  <2> DEFINE q == limiter.queue
  <2>1. DOMAIN q = 1 .. Len(q) /\ Len(q) \in Nat
    BY DEF Balanced, TypeOK, Limiters
  <2>2. q \in Bijection(DOMAIN q, Waiting(limiter))
    BY DEF Balanced, TypeOK, Limiters, Waiting, NoTwice,
           Bijection, Injection, Surjection, IsInjective
  <2>3. ExistsBijection(1 .. Len(q), Waiting(limiter))
    BY <2>1, <2>2 DEF ExistsBijection
  <2>4. IsFiniteSet(1 .. Len(q)) /\ Cardinality(1 .. Len(q)) = Len(q)
    BY <2>1, FS_Interval
  <2>5. Cardinality(Waiting(limiter)) = Len(q)
    BY <2>3, <2>4, FS_Bijection
  <2>6. QED
    BY <2>5 DEF Balanced, SlotsAccounted, Queued
<1>2. QED
  BY <1>1, AlwaysBalanced, PTL

(*************************************************************************)
(* The probe.  OneProbe is inductive together with the type and the      *)
(* cool-down of a closed breaker.                                        *)
(*************************************************************************)
Probing ==
    /\ Balanced
    /\ OneProbe
    /\ ClosedMeansFreshCoolDown

LEMMA ProbingInit == Init => Probing
  BY BalancedInit DEF Init, Probing, OneProbe, ClosedMeansFreshCoolDown, NewBreaker

\* A step that leaves the breaker's gate and its probes alone, and moves no
\* probe out of run().
LEMMA ProbingElsewhere ==
    ASSUME Probing, Balanced', UNCHANGED probes,
           breaker'.probing = breaker.probing,
           breaker'.current = breaker.current,
           breaker'.coolDownMs = breaker.coolDownMs,
           \A r \in probes :
              pc'[r] \in Places \ ({"new", "sleeping"} \cup Finished)
    PROVE  Probing'
  BY DEF Probing, OneProbe, ClosedMeansFreshCoolDown

\* A look at the breaker finds no probe in an open one, so it forgets none.
LEMMA ProbingLooked ==
    ASSUME Probing
    PROVE  LET b == Looked(breaker, now)
           IN  /\ b \in Breakers
               /\ b.probing <=> probes # {}
               /\ probes # {} => b.current = "half_open"
               /\ b.current = "closed" => b.coolDownMs = CoolDown
  BY LookedType
  DEF Probing, Balanced, TypeOK, OneProbe, ClosedMeansFreshCoolDown,
      Looked, Breakers, BreakerStates

LEMMA ProbingAdmit ==
    ASSUME Probing, NEW r \in Requests, Start(r) \/ Wake(r)
    PROVE  Probing'
<1> DEFINE b == Looked(breaker, now)
<1>1. Balanced'
  BY BalancedAdmit DEF Probing
<1>2. Admit(r) /\ pc[r] \in {"new", "sleeping"} /\ pc \in [Requests -> Places]
  BY DEF Start, Wake, Probing, Balanced, TypeOK
<1>3. r \notin probes
  BY <1>2 DEF Probing, OneProbe
<1>4. /\ b \in Breakers
      /\ b.probing <=> probes # {}
      /\ probes # {} => b.current = "half_open"
      /\ b.current = "closed" => b.coolDownMs = CoolDown
  BY ProbingLooked
<1>5. \A x \in probes : pc'[x] = pc[x] /\ x \in Requests
  BY <1>2, <1>3 DEF Admit, Goto, Probing, Balanced, TypeOK
<1> HIDE DEF b
<1>6. CASE breaker' \in {breaker, b} /\ UNCHANGED probes
  BY <1>1, <1>4, <1>5, <1>6 DEF Probing, OneProbe, ClosedMeansFreshCoolDown
<1>7. CASE /\ LetsGo(b, now, Kind(r)) /\ Goto(r, "admitted")
           /\ breaker' = Admitted(b)
           /\ probes' = IF b.current = "half_open" THEN probes \cup {r} ELSE probes
  <2>1. CASE b.current = "half_open"
    <3>1. probes = {} /\ Kind(r) = "read"
      BY <1>4, <1>7, <2>1 DEF LetsGo, Refuses
    <3>2. pc'[r] = "admitted"
      BY <1>2, <1>7 DEF Goto
    <3>3. breaker'.probing /\ breaker'.current = "half_open"
      BY <1>4, <1>7, <2>1 DEF Admitted, Breakers
    <3>4. QED
      BY <1>1, <1>7, <2>1, <3>1, <3>2, <3>3
      DEF Probing, OneProbe, ClosedMeansFreshCoolDown, Places, Finished
  <2>2. CASE b.current # "half_open"
    <3>1. /\ breaker'.probing = b.probing
          /\ breaker'.current = b.current
          /\ breaker'.coolDownMs = b.coolDownMs
      BY <1>4, <1>7, <2>2 DEF Admitted, Breakers
    <3>2. QED
      BY <1>1, <1>4, <1>5, <1>7, <2>2, <3>1
      DEF Probing, OneProbe, ClosedMeansFreshCoolDown
  <2>3. QED
    BY <2>1, <2>2
<1>8. QED
  BY <1>2, <1>6, <1>7 DEF Admit, b

\* settle() ends one request and resumes some of those that are queued.
LEMMA SettlePlaces ==
    ASSUME Balanced, NEW r \in Requests, pc[r] = "sent", NEW learned,
           Settle(r, learned)
    PROVE  /\ pc'[r] = "answered"
           /\ \A x \in Requests \ {r} :
                 \/ pc'[x] = pc[x]
                 \/ pc[x] = "queued" /\ pc'[x] \in {"rejected", "granted"}
<1>1. ASSUME NEW place \in {"rejected", "granted"},
             pc' = [Resume(limiter, limiter', place) EXCEPT ![r] = "answered"]
      PROVE  /\ pc'[r] = "answered"
             /\ \A x \in Requests \ {r} :
                   \/ pc'[x] = pc[x]
                   \/ pc[x] = "queued" /\ pc'[x] = place
  <2>1. \A x \in Waiting(limiter) : pc[x] = "queued"
    BY DEF Balanced, Queued
  <2>2. pc'[r] = "answered"
    BY <1>1 DEF Resume
  <2>3. \A x \in Requests \ {r} :
           pc'[x] = IF x \in Waiting(limiter) /\ x \notin Waiting(limiter')
                      THEN place ELSE pc[x]
    BY <1>1 DEF Resume
  <2>4. QED
    BY <2>1, <2>2, <2>3
<1>2. QED
  BY <1>1 DEF Settle

LEMMA ProbingSettleWell ==
    ASSUME Probing, NEW r \in Requests, AnswerWell(r), Balanced'
    PROVE  Probing'
<1> DEFINE s == Success(breaker, r \in probes)
<1>1. breaker' = Looked(s, now) /\ probes' = probes \ {r}
  BY DEF AnswerWell, Settle
<1>2. \A x \in probes \ {r} : FALSE \/ r \notin probes
  BY DEF Probing, OneProbe
<1>3. CASE r \in probes
  <2>1. probes' = {}
    BY <1>1, <1>3 DEF Probing, OneProbe
  <2>2. s.current = "closed" /\ s.probing = FALSE /\ s.coolDownMs = CoolDown
    BY <1>3 DEF Success, Probing, Balanced, TypeOK, Breakers
  <2>3. breaker' = s
    BY <1>1, <2>2 DEF Looked
  <2>4. QED
    BY <2>1, <2>2, <2>3 DEF Probing, OneProbe, ClosedMeansFreshCoolDown
<1>4. CASE r \notin probes
  <2>1. /\ s.current = breaker.current
        /\ s.probing = breaker.probing
        /\ s.coolDownMs = breaker.coolDownMs
        /\ s.openUntil = breaker.openUntil
    BY <1>4 DEF Success, Probing, Balanced, TypeOK, Breakers
  <2> HIDE DEF s
  <2>2. probes' = probes /\ probes \subseteq Requests
    BY <1>1, <1>4 DEF Probing, Balanced, TypeOK
  <2>3. \A x \in probes : pc'[x] \in Places \ ({"new", "sleeping"} \cup Finished)
    BY <1>4, <2>2, SettlePlaces
    DEF AnswerWell, Probing, OneProbe, Places, Finished
  <2>4. /\ breaker'.probing <=> probes # {}
        /\ probes # {} => breaker'.current = "half_open"
        /\ breaker'.current = "closed" => breaker'.coolDownMs = CoolDown
    BY <1>1, <2>1 DEF Looked, Probing, OneProbe, ClosedMeansFreshCoolDown,
       Balanced, TypeOK, Breakers, BreakerStates
  <2>5. QED
    BY <2>2, <2>3, <2>4 DEF Probing, OneProbe, ClosedMeansFreshCoolDown
<1>5. QED
  BY <1>3, <1>4

LEMMA ProbingSettlePushback ==
    ASSUME Probing, NEW r \in Requests, NEW hint \in Hints \cup {NoHint},
           AnswerPushback(r, hint), Balanced'
    PROVE  Probing'
<1> DEFINE h == Clamped(hint)
<1> DEFINE p == Pushback(breaker, now, r, r \in probes, hint)
<1>0. h \in Nat \cup {NoHint} /\ breaker \in Breakers /\ now \in Nat
  BY ClampedType, BudgetAssumption DEF Probing, Balanced, TypeOK
<1>1. breaker' = Looked(p, now) /\ probes' = probes \ {r}
  BY DEF AnswerPushback, Settle
<1>2. p \in Breakers
  BY <1>0, PushbackType, BudgetAssumption
<1> HIDE DEF h
<1>3. CASE r \in probes
  <2>1. probes' = {}
    BY <1>1, <1>3 DEF Probing, OneProbe
  <2>2. p.current = "open" /\ ~p.probing
    BY <1>0, <1>3 DEF Pushback, ProbePushback, Open, Breakers, h
  <2> HIDE DEF p
  <2>3. ~breaker'.probing /\ breaker'.current \in {"open", "half_open"}
    BY <1>1, <1>2, <2>2 DEF Looked, Breakers
  <2>4. QED
    BY <2>1, <2>3 DEF Probing, OneProbe, ClosedMeansFreshCoolDown
<1>4. CASE r \notin probes
  <2> DEFINE s == Looked(breaker, now)
  <2>1. /\ s \in Breakers
        /\ s.probing <=> probes # {}
        /\ probes # {} => s.current = "half_open"
        /\ s.current = "closed" => s.coolDownMs = CoolDown
    BY ProbingLooked
  <2> HIDE DEF s
  <2>2. /\ p.probing <=> probes # {}
        /\ probes # {} => p.current = "half_open"
        /\ p.current = "closed" => p.coolDownMs = CoolDown
    <3>1. CASE s.current # "closed"
      <4>1. p = StalePushback(s, now, h)
        BY <1>4, <3>1 DEF Pushback, h, s
      <4>2. p.probing = s.probing /\ p.current = s.current
        BY <2>1, <4>1 DEF StalePushback, Breakers
      <4>3. QED
        BY <2>1, <3>1, <4>2
    <3>2. CASE s.current = "closed"
      <4>1. p = CountedPushback(s, now, r, h)
        BY <1>4, <3>2 DEF Pushback, h, s
      <4>2. p.probing = s.probing /\ p.coolDownMs = s.coolDownMs
        BY <2>1, <4>1 DEF CountedPushback, Open, Breakers
      <4>3. QED
        BY <2>1, <3>2, <4>2
    <3>3. QED
      BY <3>1, <3>2
  <2> HIDE DEF p
  <2>3. /\ breaker'.probing <=> probes # {}
        /\ probes # {} => breaker'.current = "half_open"
        /\ breaker'.current = "closed" => breaker'.coolDownMs = CoolDown
    BY <1>1, <1>2, <2>2 DEF Looked, Breakers, BreakerStates
  <2>4. probes' = probes /\ probes \subseteq Requests
    BY <1>1, <1>4 DEF Probing, Balanced, TypeOK
  <2>5. \A x \in probes : pc'[x] \in Places \ ({"new", "sleeping"} \cup Finished)
    BY <1>4, <2>4, SettlePlaces
    DEF AnswerPushback, Probing, OneProbe, Places, Finished
  <2>6. QED
    BY <2>3, <2>4, <2>5 DEF Probing, OneProbe, ClosedMeansFreshCoolDown
<1>5. QED
  BY <1>3, <1>4

\* acquire() gave up: the probe, if it was this one, makes room for the next.
LEMMA ProbingReject ==
    ASSUME Probing, NEW r \in Requests, Reject(r), Balanced'
    PROVE  Probing'
<1>1. /\ breaker' = Abandon(breaker, r \in probes)
      /\ probes' = probes \ {r}
      /\ Goto(r, "unsent")
  BY DEF Reject
<1>2. /\ breaker'.current = breaker.current
      /\ breaker'.coolDownMs = breaker.coolDownMs
      /\ breaker'.probing <=> breaker.probing /\ r \notin probes
  BY <1>1 DEF Abandon, Probing, Balanced, TypeOK, Breakers
<1>3. \A x \in probes' : pc'[x] = pc[x]
  BY <1>1 DEF Goto, Probing, Balanced, TypeOK
<1>4. breaker'.probing <=> probes' # {}
  BY <1>1, <1>2 DEF Probing, OneProbe
<1>5. QED
  BY <1>1, <1>2, <1>3, <1>4 DEF Probing, OneProbe, ClosedMeansFreshCoolDown

LEMMA ProbingStep == Probing /\ [Next]_vars => Probing'
<1> SUFFICES ASSUME Probing, [Next]_vars PROVE Probing'
  OBVIOUS
<1>1. Balanced'
  BY BalancedStep DEF Probing
<1>2. pc \in [Requests -> Places] /\ probes \subseteq Requests
  BY DEF Probing, Balanced, TypeOK
<1>3. ASSUME NEW r \in Requests, RequestStep(r)
      PROVE  Probing'
  <2>1. CASE Start(r) \/ Wake(r)
    BY <2>1, ProbingAdmit
  <2>2. CASE Enqueue(r)
    <3>1. \A x \in Requests :
             pc'[x] = pc[x] \/ pc'[x] \in {"rejected", "queued", "granted"}
      BY <1>2, <2>2 DEF Enqueue, Goto
    <3>2. QED
      BY <1>1, <1>2, <2>2, <3>1, ProbingElsewhere
      DEF Enqueue, Probing, OneProbe, Places, Finished
  <2>3. CASE Reject(r)
    BY <1>1, <2>3, ProbingReject
  <2>4. CASE Send(r)
    BY <1>1, <1>2, <2>4, ProbingElsewhere
    DEF Send, Goto, Probing, OneProbe, Places, Finished
  <2>5. CASE AnswerWell(r)
    BY <1>1, <2>5, ProbingSettleWell
  <2>6. ASSUME NEW hint \in Hints \cup {NoHint}, AnswerPushback(r, hint)
        PROVE  Probing'
    BY <1>1, <2>6, ProbingSettlePushback
  <2>7. CASE Abort(r)
    <3>1. \A x \in probes : pc'[x] = pc[x] \/ pc'[x] \in {"rejected", "granted"}
      BY <1>2, <2>7 DEF Abort, Goto, Resume, Probing, OneProbe, Finished
    <3>2. QED
      BY <1>1, <1>2, <2>7, <3>1, ProbingElsewhere
      DEF Abort, Probing, OneProbe, Places, Finished
  <2>8. QED
    BY <1>3, <2>1, <2>2, <2>3, <2>4, <2>5, <2>6, <2>7 DEF RequestStep, Answer
<1>4. CASE TimerFires
  <2>1. \A x \in Requests : pc'[x] = pc[x] \/ pc'[x] = "granted"
    BY <1>2, <1>4 DEF TimerFires, Resume
  <2>2. QED
    BY <1>1, <1>2, <1>4, <2>1, ProbingElsewhere
    DEF TimerFires, Probing, OneProbe, Places, Finished
<1>5. CASE Snapshot
  <2>1. breaker' = Looked(breaker, now) /\ UNCHANGED <<probes, pc>>
    BY <1>5 DEF Snapshot
  <2>2. QED
    BY <1>1, <2>1, ProbingLooked DEF Probing, OneProbe, ClosedMeansFreshCoolDown
<1>6. CASE Tick
  BY <1>1, <1>6, ProbingElsewhere DEF Tick, Probing, OneProbe
<1>7. CASE UNCHANGED vars
  BY <1>1, <1>7 DEF vars, Probing, OneProbe, ClosedMeansFreshCoolDown
<1>8. QED
  BY <1>3, <1>4, <1>5, <1>6, <1>7 DEF Next

\* Exactly one real user read tests the water, and a probe that is given up
\* never leaves the flag behind that would lock every later one out.
THEOREM AtMostOneProbe == Spec => []OneProbe
<1>1. Probing => OneProbe
  BY DEF Probing
<1>2. QED
  BY <1>1, ProbingInit, ProbingStep, PTL DEF Spec

\* A breaker that is closed starts from its first cool-down the next time.
THEOREM ClosingResets == Spec => []ClosedMeansFreshCoolDown
<1>1. Probing => ClosedMeansFreshCoolDown
  BY DEF Probing
<1>2. QED
  BY <1>1, ProbingInit, ProbingStep, PTL DEF Spec

(*************************************************************************)
(* The budget implements PortalGate: every step is a step of the gate or *)
(* leaves it alone.                                                      *)
(*************************************************************************)
fates == [x \in Requests |-> FateOf(pc[x])]

LEMMA FateValues ==
    /\ FateOf("new") = "new" /\ FateOf("sent") = "sent"
    /\ FateOf("answered") = "answered" /\ FateOf("unsent") = "unsent"
    /\ \A place \in {"sleeping", "admitted", "queued", "granted", "rejected"} :
          FateOf(place) = "waiting"
  BY DEF FateOf, Finished

\* A step that moves one request changes one fate.
LEMMA OneFate ==
    ASSUME NEW r \in Requests, NEW was, NEW is,
           FateOf(pc[r]) \in was, FateOf(pc'[r]) = is,
           \A x \in Requests \ {r} : FateOf(pc'[x]) = FateOf(pc[x])
    PROVE  Gate!Fate(r, was, is)
<1>1. fates' = [fates EXCEPT ![r] = is]
  BY DEF fates
<1>2. QED
  BY <1>1 DEF Gate!Fate, fates

LEMMA GateCools ==
    ASSUME Probing
    PROVE  LET b == Looked(breaker, now)
           IN  b.current = breaker.current
                 \/ (breaker.current = "open" /\ b.current = "half_open")
  BY DEF Looked, Probing, Balanced, TypeOK, Breakers

LEMMA GateAdmit ==
    ASSUME Probing, NEW r \in Requests, Start(r) \/ Wake(r)
    PROVE  [Gate!Next]_(Gate!gateVars)
<1> DEFINE b == Looked(breaker, now)
<1>1. /\ Admit(r) /\ pc[r] \in {"new", "sleeping"}
      /\ pc \in [Requests -> Places] /\ breaker \in Breakers
  BY DEF Start, Wake, Probing, Balanced, TypeOK
<1>2. FateOf(pc[r]) \in {"new", "waiting"}
  BY <1>1, FateValues
<1>3. b.current = breaker.current
        \/ (breaker.current = "open" /\ b.current = "half_open")
  BY GateCools
<1>4. b \in Breakers
  BY ProbingLooked
<1>5. b.probing <=> probes # {}
  BY ProbingLooked
<1> HIDE DEF b
<1>6. CASE Goto(r, "unsent") /\ breaker' \in {breaker, b} /\ UNCHANGED probes
  <2>1. Gate!Fate(r, {"new", "waiting"}, "unsent")
    BY <1>1, <1>2, <1>6, FateValues, OneFate DEF Goto
  <2>2. Gate!MayCool
    BY <1>3, <1>6 DEF Gate!MayCool
  <2>3. QED
    BY <2>1, <2>2 DEF Gate!Next, Gate!GiveUp
<1>7. CASE Goto(r, "sleeping") /\ breaker' = b /\ UNCHANGED probes
  <2>1. Gate!Fate(r, {"new", "waiting"}, "waiting")
    BY <1>1, <1>2, <1>7, FateValues, OneFate DEF Goto
  <2>2. Gate!MayCool
    BY <1>3, <1>7 DEF Gate!MayCool
  <2>3. QED
    BY <2>1, <2>2 DEF Gate!Next, Gate!Admit
<1>8. CASE /\ LetsGo(b, now, Kind(r)) /\ Goto(r, "admitted")
           /\ breaker' = Admitted(b)
           /\ probes' = IF b.current = "half_open" THEN probes \cup {r} ELSE probes
  <2>1. Gate!Fate(r, {"new", "waiting"}, "waiting")
    BY <1>1, <1>2, <1>8, FateValues, OneFate DEF Goto
  <2>2. breaker'.current = b.current
    BY <1>4, <1>8 DEF Admitted, Breakers
  <2>3. CASE b.current = "half_open"
    <3>1. probes = {} /\ Kind(r) = "read"
      BY <1>5, <1>8, <2>3 DEF LetsGo, Refuses
    <3>2. r \in Requests \ (Writes \cup Background)
      BY <3>1 DEF Kind
    <3>3. breaker.current # "closed"
      BY <1>3, <2>3
    <3>4. Gate!AdmitProbe(r)
      BY <1>8, <2>1, <2>2, <2>3, <3>1, <3>2, <3>3 DEF Gate!AdmitProbe
    <3>5. QED
      BY <3>4 DEF Gate!Next
  <2>4. CASE b.current # "half_open"
    <3>1. Gate!MayCool
      BY <1>3, <1>8, <2>2, <2>4 DEF Gate!MayCool
    <3>2. QED
      BY <2>1, <3>1 DEF Gate!Next, Gate!Admit
  <2>5. QED
    BY <2>3, <2>4
<1>9. QED
  BY <1>1, <1>6, <1>7, <1>8 DEF Admit, b

LEMMA GateReject ==
    ASSUME Probing, NEW r \in Requests, Reject(r)
    PROVE  [Gate!Next]_(Gate!gateVars)
<1>1. Gate!Fate(r, {"new", "waiting"}, "unsent")
  BY FateValues, OneFate DEF Reject, Goto, Probing, Balanced, TypeOK
<1>2. breaker'.current = breaker.current /\ probes' = probes \ {r}
  BY DEF Reject, Abandon, Probing, Balanced, TypeOK, Breakers
<1>3. r \in probes => probes' = {}
  BY <1>2 DEF Probing, OneProbe
<1>4. r \notin probes => probes' = probes
  BY <1>2
<1>5. Gate!GiveUp(r)
  BY <1>1, <1>2, <1>3, <1>4 DEF Gate!GiveUp, Gate!MayCool
<1>6. QED
  BY <1>5 DEF Gate!Next

LEMMA GateSend ==
    ASSUME Probing, NEW r \in Requests, Send(r)
    PROVE  [Gate!Next]_(Gate!gateVars)
<1>1. Gate!Fate(r, {"waiting"}, "sent")
  BY FateValues, OneFate DEF Send, Goto, Probing, Balanced, TypeOK
<1>2. QED
  BY <1>1 DEF Gate!Send, Gate!Next, Send

\* What an answer may do to the gate.
LEMMA GateAnswer ==
    ASSUME Probing, NEW r \in Requests, pc[r] = "sent", NEW learned \in Breakers,
           Settle(r, learned),
           r \in probes => learned.current \in {"closed", "open"}
                             /\ breaker'.current = learned.current,
           r \notin probes =>
             \/ breaker'.current = breaker.current
             \/ breaker.current = "open" /\ breaker'.current = "half_open"
             \/ breaker.current = "closed" /\ breaker'.current = "open"
    PROVE  [Gate!Next]_(Gate!gateVars)
<1>1. Gate!Fate(r, {"sent"}, "answered")
  <2>1. FateOf(pc[r]) \in {"sent"} /\ FateOf(pc'[r]) = "answered"
    BY FateValues, SettlePlaces DEF Probing
  <2>2. \A x \in Requests \ {r} : FateOf(pc'[x]) = FateOf(pc[x])
    BY FateValues, SettlePlaces DEF Probing
  <2>3. QED
    BY <2>1, <2>2, OneFate
<1>2. probes' = probes \ {r}
  BY DEF Settle
<1>3. CASE r \in probes
  <2>1. probes' = {}
    BY <1>2, <1>3 DEF Probing, OneProbe
  <2>2. QED
    BY <1>1, <1>3, <2>1 DEF Gate!Answer, Gate!Next
<1>4. CASE r \notin probes
  <2>1. probes' = probes
    BY <1>2, <1>4
  <2>2. QED
    BY <1>1, <1>4, <2>1 DEF Gate!Answer, Gate!MayCool, Gate!Next
<1>5. QED
  BY <1>3, <1>4

LEMMA GateAnswerWell ==
    ASSUME Probing, NEW r \in Requests, AnswerWell(r)
    PROVE  [Gate!Next]_(Gate!gateVars)
<1> DEFINE s == Success(breaker, r \in probes)
<1>1. breaker \in Breakers /\ s \in Breakers
  BY SuccessType DEF Probing, Balanced, TypeOK
<1>2. breaker' = Looked(s, now) /\ Settle(r, s) /\ pc[r] = "sent"
  BY DEF AnswerWell, Settle
<1>3. CASE r \in probes
  <2>1. s.current = "closed"
    BY <1>1, <1>3 DEF Success, Breakers
  <2>2. breaker'.current = "closed"
    BY <1>2, <2>1 DEF Looked
  <2> HIDE DEF s
  <2>3. QED
    BY <1>1, <1>2, <1>3, <2>1, <2>2, GateAnswer
<1>4. CASE r \notin probes
  <2>1. s.current = breaker.current
    BY <1>1, <1>4 DEF Success, Breakers
  <2> HIDE DEF s
  <2>2. breaker'.current = breaker.current
          \/ (breaker.current = "open" /\ breaker'.current = "half_open")
    BY <1>1, <1>2, <2>1 DEF Looked, Breakers
  <2>3. QED
    BY <1>1, <1>2, <1>4, <2>2, GateAnswer
<1>5. QED
  BY <1>3, <1>4

LEMMA GateAnswerPushback ==
    ASSUME Probing, NEW r \in Requests, NEW hint \in Hints \cup {NoHint},
           AnswerPushback(r, hint)
    PROVE  [Gate!Next]_(Gate!gateVars)
<1> DEFINE h == Clamped(hint)
<1> DEFINE p == Pushback(breaker, now, r, r \in probes, hint)
<1>1. h \in Nat \cup {NoHint} /\ breaker \in Breakers /\ now \in Nat
  BY ClampedType, BudgetAssumption DEF Probing, Balanced, TypeOK
<1>2. p \in Breakers
  BY <1>1, PushbackType, BudgetAssumption
<1>3. breaker' = Looked(p, now) /\ Settle(r, p) /\ pc[r] = "sent"
  BY DEF AnswerPushback, Settle
<1> HIDE DEF h
<1>4. CASE r \in probes
  \* The cool-down is positive, so the look that follows finds it running.
  <2> DEFINE longer == Least(MaxCoolDown, 2 * breaker.coolDownMs)
  <2> DEFINE w == [breaker EXCEPT !.probing = FALSE, !.coolDownMs = longer]
  <2>1. longer \in Nat /\ longer > 0 /\ w.coolDownMs = longer
    BY <1>1, BreakerAssumption DEF Breakers, Least
  <2>2. p = Open(w, now, h)
    BY <1>1, <1>4 DEF Pushback, ProbePushback, Breakers, h
  <2>3. w \in [current: BreakerStates, failures: SUBSET [at: Nat, by: Requests],
                backoffMs: Nat, pausedUntil: Nat, openUntil: Nat,
                coolDownMs: Nat, probing: BOOLEAN]
    BY <1>1, <2>1 DEF Breakers
  <2> HIDE DEF longer, w, p
  <2>4. p.current = "open" /\ p.openUntil > now
    BY <1>1, <2>1, <2>2, <2>3 DEF Open, Greatest, NoHint
  <2>5. breaker'.current = "open"
    BY <1>1, <1>2, <1>3, <2>4 DEF Looked, Breakers
  <2>6. QED
    BY <1>2, <1>3, <1>4, <2>4, <2>5, GateAnswer
<1>5. CASE r \notin probes
  <2> DEFINE s == Looked(breaker, now)
  <2>1. s \in Breakers /\ (s.current = breaker.current
          \/ (breaker.current = "open" /\ s.current = "half_open"))
    BY ProbingLooked, GateCools
  <2> HIDE DEF s
  <2>2. \/ p.current = s.current
        \/ s.current = "closed" /\ p.current = "open" /\ p.openUntil > now
    <3>1. CASE s.current # "closed"
      <4>1. p = StalePushback(s, now, h)
        BY <1>5, <3>1 DEF Pushback, h, s
      <4>2. QED
        BY <2>1, <4>1 DEF StalePushback, Breakers
    <3>2. CASE s.current = "closed"
      <4>1. p = CountedPushback(s, now, r, h)
        BY <1>5, <3>2 DEF Pushback, h, s
      <4>2. now + Greatest(s.coolDownMs, h) > now
        BY <1>1, <2>1, BreakerAssumption DEF Greatest, NoHint, Breakers
      <4>3. QED
        BY <2>1, <3>2, <4>1, <4>2 DEF CountedPushback, Open, Breakers
    <3>3. QED
      BY <3>1, <3>2
  <2> HIDE DEF p
  <2>3. \/ breaker'.current = p.current
        \/ p.current = "open" /\ p.openUntil <= now
             /\ breaker'.current = "half_open"
    BY <1>1, <1>2, <1>3 DEF Looked, Breakers
  <2>4. \/ breaker'.current = breaker.current
        \/ breaker.current = "open" /\ breaker'.current = "half_open"
        \/ breaker.current = "closed" /\ breaker'.current = "open"
    BY <1>1, <1>2, <2>1, <2>2, <2>3 DEF Breakers, BreakerStates
  <2>5. QED
    BY <1>2, <1>3, <1>5, <2>4, GateAnswer
<1>6. QED
  BY <1>4, <1>5

LEMMA GateStep == Probing /\ Probing' /\ [Next]_vars => [Gate!Next]_(Gate!gateVars)
<1> SUFFICES ASSUME Probing, Probing', [Next]_vars
             PROVE  [Gate!Next]_(Gate!gateVars)
  OBVIOUS
<1>1. pc \in [Requests -> Places]
  BY DEF Probing, Balanced, TypeOK
<1>2. ASSUME fates' = fates, UNCHANGED <<breaker, probes>>
      PROVE  UNCHANGED Gate!gateVars
  BY <1>2 DEF Gate!gateVars, fates
<1>3. ASSUME NEW r \in Requests, RequestStep(r)
      PROVE  [Gate!Next]_(Gate!gateVars)
  <2>1. CASE Start(r) \/ Wake(r)
    BY <2>1, GateAdmit
  <2>2. CASE Enqueue(r)
    <3>1. \A x \in Requests :
             \/ pc'[x] = pc[x]
             \/ /\ pc[x] \in {"admitted", "queued"}
                /\ pc'[x] \in {"rejected", "queued", "granted"}
      <4>1. CASE r \in aborted
        BY <1>1, <2>2, <4>1 DEF Enqueue, Goto
      <4>2. CASE r \notin aborted
        <5>1. Waiting(limiter) = Queued /\ Waiting(limiter') = Queued'
          BY DEF Probing, Balanced
        <5>2. \A x \in Requests :
                pc'[x] = IF x \in Waiting(limiter') THEN "queued"
                         ELSE IF x = r \/ x \in Waiting(limiter) THEN "granted"
                         ELSE pc[x]
          BY <2>2, <4>2 DEF Enqueue
        <5>3. Waiting(limiter') \subseteq Waiting(limiter) \cup {r}
          <6> DEFINE l == [limiter EXCEPT !.queue = Append(@, r)]
          <6>1. /\ limiter.queue \in Seq(Requests)
                /\ \A i \in DOMAIN limiter.queue : limiter.queue[i] # r
                /\ NoTwice(limiter.queue)
            BY <2>2 DEF Enqueue, Probing, Balanced, TypeOK, Limiters, Waiting, Queued
          <6>2. l \in Limiters(Requests) /\ l.queue = Append(limiter.queue, r)
            <7> DEFINE a == Append(limiter.queue, r)
            <7>1. a \in Seq(Requests)
              BY <6>1, JoinQueue
            <7>2. l = [limiter EXCEPT !.queue = a]
              BY DEF Probing, Balanced, TypeOK, Limiters
            <7> HIDE DEF a, l
            <7>3. l \in Limiters(Requests) /\ l.queue = a
              BY <7>1, <7>2 DEF Probing, Balanced, TypeOK, Limiters
            <7>4. QED
              BY <7>3 DEF a
          <6>3. l.refilledAt <= now /\ now \in Nat /\ limiter' = Pump(l, now)
            BY <2>2, <4>2 DEF Probing, Balanced, TypeOK, Limiters, Enqueue, Acquire
          <6> HIDE DEF l
          <6>4. NoTwice(l.queue) /\ Waiting(l) = Waiting(limiter) \cup {r}
            BY <6>1, <6>2, JoinQueue DEF Waiting
          <6>5. Waiting(limiter') \subseteq Waiting(l)
            BY <6>2, <6>3, <6>4, PumpEffect DEF Limiters
          <6>6. QED
            BY <6>4, <6>5
        <5>4. QED
          BY <2>2, <5>1, <5>2, <5>3 DEF Queued, Enqueue
      <4>3. QED
        BY <4>1, <4>2
    <3>2. fates' = fates
      BY <3>1, FateValues DEF fates
    <3>3. QED
      BY <1>2, <2>2, <3>2 DEF Enqueue
  <2>3. CASE Reject(r)
    BY <2>3, GateReject
  <2>4. CASE Send(r)
    BY <2>4, GateSend
  <2>5. CASE AnswerWell(r)
    BY <2>5, GateAnswerWell
  <2>6. ASSUME NEW hint \in Hints \cup {NoHint}, AnswerPushback(r, hint)
        PROVE  [Gate!Next]_(Gate!gateVars)
    BY <2>6, GateAnswerPushback
  <2>7. CASE Abort(r) /\ pc[r] = "sleeping"
    <3>1. Gate!Fate(r, {"new", "waiting"}, "unsent")
      BY <1>1, <2>7, FateValues, OneFate DEF Abort, Goto
    <3>2. QED
      BY <2>7, <3>1 DEF Abort, Gate!GiveUp, Gate!MayCool, Gate!Next
  <2>8. CASE Abort(r) /\ pc[r] = "queued"
    <3>1. \A x \in Requests :
             \/ pc'[x] = pc[x]
             \/ pc[x] = "queued" /\ pc'[x] \in {"rejected", "granted"}
      <4>1. \A x \in Waiting(limiter) : pc[x] = "queued"
        BY DEF Probing, Balanced, Queued
      <4>2. \A x \in Requests :
               pc'[x] = IF x = r THEN "rejected"
                        ELSE IF x \in Waiting(limiter) /\ x \notin Waiting(limiter')
                               THEN "granted" ELSE pc[x]
        BY <2>8 DEF Abort, Resume
      <4>3. QED
        BY <2>8, <4>1, <4>2
    <3>2. fates' = fates
      BY <3>1, FateValues DEF fates
    <3>3. QED
      BY <1>2, <2>8, <3>2 DEF Abort
  <2>9. CASE Abort(r) /\ pc[r] \notin {"sleeping", "queued"}
    BY <1>2, <2>9 DEF Abort, fates
  <2>10. QED
    BY <1>3, <2>1, <2>2, <2>3, <2>4, <2>5, <2>6, <2>7, <2>8, <2>9
    DEF RequestStep, Answer
<1>4. CASE TimerFires
  <2>1. \A x \in Waiting(limiter) : pc[x] = "queued"
    BY DEF Probing, Balanced, Queued
  <2>2. \A x \in Requests :
           pc'[x] = pc[x] \/ (pc[x] = "queued" /\ pc'[x] = "granted")
    BY <1>4, <2>1 DEF TimerFires, Resume
  <2>3. fates' = fates
    BY <2>2, FateValues DEF fates
  <2>4. QED
    BY <1>2, <1>4, <2>3 DEF TimerFires
<1>5. CASE Snapshot
  <2>1. Gate!Look
    BY <1>5, GateCools DEF Snapshot, Gate!Look, Gate!MayCool
  <2>2. QED
    BY <2>1 DEF Gate!Next
<1>6. CASE Tick \/ UNCHANGED vars
  BY <1>2, <1>6 DEF Tick, vars, fates
<1>7. QED
  BY <1>3, <1>4, <1>5, <1>6 DEF Next

\* The breaker, the limiter and run() together are a PortalGate.
THEOREM BudgetIsGate == Spec => ImplementsGate
<1>1. Init => Gate!Init
  BY FateValues DEF Init, Gate!Init, NewBreaker
<1>2. Spec => []Probing
  BY ProbingInit, ProbingStep, PTL DEF Spec
<1>3. QED
  BY <1>1, <1>2, GateStep, PTL DEF Spec, ImplementsGate, Gate!Spec

(***************************************************************************)
(* When slots are handed out.  Timed is inductive: the timer is armed      *)
(* exactly while a slot is free and somebody waits, for an instant at      *)
(* which neither the hold nor the bucket is in the way; the hold covers    *)
(* the breaker's pause; a cancelled request has left the queue.            *)
(***************************************************************************)
Armed(l) ==
    /\ l.timer # NoTimer <=> l.queue # <<>> /\ l.inFlight < MaxInFlight
    /\ l.timer # NoTimer =>
          l.timer >= l.holdUntil /\ l.timer >= TokenAt(l.credits, l.refilledAt)

Timed ==
    /\ Balanced
    /\ Armed(limiter)
    /\ breaker.pausedUntil <= limiter.holdUntil
    /\ aborted \cap Queued = {}

\* pump() leaves the timer armed as it should be, and the hold as it was.
LEMMA PumpArms ==
    ASSUME NEW l \in Limiters(Requests), NEW t \in Nat, t >= l.refilledAt
    PROVE  Armed(Pump(l, t)) /\ Pump(l, t).holdUntil = l.holdUntil
<1> DEFINE c == Refilled(l, t)
<1> DEFINE n == Grantable(l, c, t)
<1> DEFINE m == Pump(l, t)
<1> DEFINE until == Larger(l.holdUntil, TokenAt(c - n * Minute, t))
<1>1. c \in Nat
  BY RefilledType, LimiterAssumption
<1>2. n \in 0 .. Len(l.queue) /\ n * Minute \in Nat /\ n * Minute <= c
  <2> HIDE DEF c
  <2>1. QED
    BY <1>1, GrantableType
<1>3. m = Granted(l, c, n, t)
  BY DEF Pump
<1> HIDE DEF c, n, m
<1>4. /\ m.queue = SubSeq(l.queue, n + 1, Len(l.queue))
      /\ m.inFlight = l.inFlight + n
      /\ m.credits = c - n * Minute
      /\ m.refilledAt = t
      /\ m.holdUntil = l.holdUntil
      /\ m.timer = IF Len(l.queue) > n /\ l.inFlight + n < MaxInFlight
                     THEN until ELSE NoTimer
  BY <1>3 DEF Granted, Limiters
<1>5. m.queue # <<>> <=> Len(l.queue) > n
  <2>1. Len(l.queue) \in Nat /\ n \in Nat /\ n <= Len(l.queue)
    BY <1>2 DEF Limiters
  <2>2. m.queue \in Seq(Requests) /\ Len(m.queue) = Len(l.queue) - n
    BY <1>4, <2>1 DEF Limiters
  <2>3. m.queue # <<>> <=> Len(m.queue) # 0
    BY <2>2, EmptySeq
  <2>4. QED
    BY <2>1, <2>2, <2>3
<1>6. c - n * Minute \in Nat
  <2> DEFINE paid == n * Minute
  <2>1. paid \in Nat /\ paid <= c
    BY <1>2
  <2> HIDE DEF paid
  <2>2. c - paid \in Nat
    BY <1>1, <2>1
  <2>3. QED
    BY <2>2 DEF paid
<1> DEFINE token == TokenAt(c - n * Minute, t)
<1>7. token \in Nat /\ l.holdUntil \in Nat
  BY <1>6, TokenAtType DEF Limiters
<1>8. until \in Nat /\ until >= l.holdUntil /\ until >= token
  <2> HIDE DEF token
  <2>1. until = Larger(l.holdUntil, token)
    BY DEF token
  <2>2. QED
    BY <1>7, <2>1 DEF Larger
<1>9. TokenAt(m.credits, m.refilledAt) = token
  BY <1>4
<1> HIDE DEF token, until
<1>10. QED
  BY <1>4, <1>5, <1>8, <1>9 DEF Armed, NoTimer, m

\* What is added until TokenAt makes a whole token.
LEMMA TokenComes ==
    ASSUME NEW c \in Nat, NEW from \in Nat, NEW t \in Nat, t >= from,
           t >= TokenAt(c, from)
    PROVE  c + (t - from) * PerMinute >= Minute
<1>1. Minute \in Nat /\ PerMinute \in Nat /\ PerMinute >= 1
  BY LimiterAssumption
<1> DEFINE d == t - from
<1>2. d \in Nat /\ d * PerMinute \in Nat
  BY <1>1
<1>3. CASE c >= Minute
  <2> DEFINE more == d * PerMinute
  <2>1. more \in Nat
    BY <1>2
  <2> HIDE DEF more
  <2>2. c + more >= Minute
    BY <1>1, <1>3, <2>1
  <2>3. QED
    BY <2>2 DEF more
<1>4. CASE c < Minute
  <2> DEFINE x == Minute - c + PerMinute - 1
  <2> DEFINE k == x \div PerMinute
  <2>1. x \in Nat
    BY <1>1, <1>4
  <2>2. from + k <= t
    BY <1>1, <1>4 DEF TokenAt
  <2>3. k \in Nat /\ x < (k + 1) * PerMinute
    <3> HIDE DEF x
    <3>1. QED
      BY <1>1, <2>1
  <2> HIDE DEF k
  <2>4. k <= d
    BY <2>2, <2>3
  <2> HIDE DEF d
  <2>5. k * PerMinute <= d * PerMinute
    BY <1>1, <1>2, <2>3, <2>4
  <2>6. (k + 1) * PerMinute = k * PerMinute + PerMinute
    BY <1>1, <2>3
  <2> DEFINE kp == k * PerMinute
  <2> DEFINE more == d * PerMinute
  <2>7. kp \in Nat /\ more \in Nat /\ kp <= more /\ x < kp + PerMinute
    BY <1>1, <1>2, <2>3, <2>5, <2>6
  <2> HIDE DEF kp, more
  <2>8. c + more >= Minute
    BY <1>1, <1>4, <2>7
  <2>9. QED
    BY <2>8 DEF more, d
<1>5. QED
  BY <1>1, <1>3, <1>4

\* The timer's instant is one at which pump() grants somebody.
LEMMA TimerGrants ==
    ASSUME NEW l \in Limiters(Requests), Armed(l), l.timer # NoTimer,
           NEW t \in Nat, t >= l.refilledAt, t >= l.timer
    PROVE  Grantable(l, Refilled(l, t), t) >= 1
<1>1. /\ Minute \in Nat /\ Minute >= 1 /\ Burst \in Nat /\ Burst >= 1
      /\ MaxInFlight \in Nat /\ PerMinute \in Nat
  BY LimiterAssumption
<1>2. /\ l.credits \in Nat /\ l.refilledAt \in Nat /\ l.holdUntil \in Nat
      /\ l.timer \in Nat
      /\ Len(l.queue) \in Nat /\ l.queue \in Seq(Requests)
      /\ l.inFlight \in Nat
  BY <1>1 DEF Limiters
<1>3. l.inFlight < MaxInFlight /\ Len(l.queue) >= 1 /\ t >= l.holdUntil
  BY <1>1, <1>2, EmptySeq DEF Armed
<1>4. t >= TokenAt(l.credits, l.refilledAt)
  <2>1. TokenAt(l.credits, l.refilledAt) \in Nat
    BY <1>2, TokenAtType
  <2>2. l.timer >= TokenAt(l.credits, l.refilledAt)
    BY DEF Armed
  <2>3. QED
    BY <1>2, <2>1, <2>2
<1>5. l.credits + (t - l.refilledAt) * PerMinute >= Minute
  BY <1>2, <1>4, TokenComes
<1>6. Burst * Minute >= Minute
  BY <1>1
<1>7. Refilled(l, t) \in Nat /\ Refilled(l, t) >= Minute
  <2> DEFINE all == l.credits + (t - l.refilledAt) * PerMinute
  <2> DEFINE full == Burst * Minute
  <2>1. all \in Int /\ full \in Nat /\ all >= Minute /\ full >= Minute
    BY <1>1, <1>2, <1>5, <1>6
  <2>2. Refilled(l, t) = Lesser(full, all)
    BY DEF Refilled
  <2> HIDE DEF all, full
  <2>3. QED
    BY <1>1, <2>1, <2>2 DEF Lesser
<1>8. Refilled(l, t) \div Minute \in Nat /\ Refilled(l, t) \div Minute >= 1
  <2> DEFINE c == Refilled(l, t)
  <2>1. c \in Nat /\ c >= Minute
    BY <1>7
  <2> HIDE DEF c
  <2>2. c \div Minute \in Nat /\ c \div Minute >= 1
    BY <1>1, <2>1
  <2>3. QED
    BY <2>2 DEF c
<1>9. QED
  BY <1>1, <1>2, <1>3, <1>8 DEF Grantable, Lesser

\* Whoever pump() takes from the queue is not held any more.
LEMMA PumpServesInTime ==
    ASSUME NEW l \in Limiters(Requests), NEW t \in Nat, t >= l.refilledAt,
           Waiting(Pump(l, t)) # Waiting(l)
    PROVE  t >= l.holdUntil
<1> SUFFICES ASSUME t < l.holdUntil PROVE FALSE
  BY DEF Limiters
<1>1. Pump(l, t).queue = SubSeq(l.queue, 0 + 1, Len(l.queue))
  BY DEF Pump, Granted, Grantable, Limiters
<1>2. Pump(l, t).queue = l.queue
  BY <1>1 DEF Limiters
<1>3. QED
  BY <1>2 DEF Waiting

\* pump() adds nobody.
LEMMA PumpShrinks ==
    ASSUME NEW l \in Limiters(Requests), NEW t \in Nat, t >= l.refilledAt
    PROVE  Waiting(Pump(l, t)) \subseteq Waiting(l)
<1> DEFINE c == Refilled(l, t)
<1> DEFINE n == Grantable(l, c, t)
<1> DEFINE m == Pump(l, t)
<1>1. c \in Nat
  BY RefilledType, LimiterAssumption
<1>2. n \in 0 .. Len(l.queue)
  <2> HIDE DEF c
  <2>1. QED
    BY <1>1, GrantableType
<1>3. m.queue = SubSeq(l.queue, n + 1, Len(l.queue))
  BY DEF Pump, Granted, Limiters
<1> HIDE DEF c, n, m
<1>4. l.queue \in Seq(Requests) /\ Len(l.queue) \in Nat /\ DOMAIN l.queue = 1 .. Len(l.queue)
  BY DEF Limiters
<1>5. \A i \in DOMAIN m.queue : i + n \in DOMAIN l.queue /\ m.queue[i] = l.queue[i + n]
  BY <1>2, <1>3, <1>4
<1>6. QED
  BY <1>5 DEF Waiting, m

LEMMA TimedInit == Init => Timed
<1> SUFFICES ASSUME Init PROVE Timed
  OBVIOUS
<1>1. Armed(limiter) /\ breaker.pausedUntil <= limiter.holdUntil /\ aborted = {}
  BY DEF Init, NewLimiter, NewBreaker, Armed, NoTimer
<1>2. QED
  BY <1>1, BalancedInit DEF Timed

\* The bucket and the hold of l are those of the limiter m, or later.
Fills(l, m) ==
    /\ l.credits = m.credits
    /\ l.refilledAt = m.refilledAt
    /\ l.holdUntil >= m.holdUntil

Served == {r \in Requests : pc[r] # "granted" /\ pc'[r] = "granted"}

\* Slots are handed out by one pump() and by nothing else.
OnePump ==
    \/ UNCHANGED limiter /\ Served = {}
    \/ /\ now' = now
       /\ \E l \in Limiters(Requests) :
            /\ Fills(l, limiter)
            /\ NoTwice(l.queue)
            /\ limiter' = Pump(l, now)
            /\ Served \subseteq Waiting(l) \ Waiting(limiter')

\* What a step may not do with the slots, but for the timer.
InTime ==
    /\ Timed'
    /\ OnePump
    /\ PauseHonoured
    /\ OpeningEmptiesQueue
    /\ CancelledNeverSent

\* Steps that leave the limiter and the pause alone and grant nobody.
LEMMA InTimeElsewhere ==
    ASSUME Timed, Balanced', UNCHANGED limiter,
           breaker'.pausedUntil = breaker.pausedUntil,
           breaker'.current = "open" => breaker.current = "open",
           \A r \in Requests : pc'[r] = "granted" => pc[r] = "granted",
           \A r \in Requests : pc'[r] = "sent" => pc[r] \in {"granted", "sent"},
           \A r \in aborted' : pc'[r] # "queued"
    PROVE  InTime
<1>1. aborted' \cap Queued' = {}
  BY DEF Queued
<1>2. Timed'
  BY <1>1 DEF Timed
<1>3. aborted \subseteq Requests
  BY DEF Timed, Balanced, TypeOK
<1>4. OnePump
  BY DEF OnePump, Served
<1>5. QED
  BY <1>2, <1>3, <1>4
  DEF InTime, PauseHonoured, OpeningEmptiesQueue, CancelledNeverSent

\* Steps that pump a limiter l in which no cancelled request waits.
LEMMA InTimePump ==
    ASSUME Timed, Balanced', now' = now,
           NEW l \in Limiters(Requests), Fills(l, limiter), NoTwice(l.queue),
           limiter' = Pump(l, now),
           breaker'.pausedUntil <= l.holdUntil,
           breaker'.current = "open" => breaker.current = "open" \/ limiter'.queue = <<>>,
           \A r \in Requests : pc[r] # "granted" /\ pc'[r] = "granted" =>
              r \in Waiting(l) \ Waiting(limiter') /\ r \notin aborted,
           \A r \in Requests : pc'[r] = "sent" => pc[r] = "sent",
           \A r \in aborted' : pc'[r] # "queued"
    PROVE  InTime
<1>1. now \in Nat /\ now >= l.refilledAt /\ l.holdUntil \in Nat
  BY DEF Timed, Balanced, TypeOK, Limiters, Fills
<1>2. Armed(limiter') /\ limiter'.holdUntil = l.holdUntil
  BY <1>1, PumpArms
<1>3. aborted' \cap Queued' = {}
  BY DEF Queued
<1>4. Timed'
  BY <1>2, <1>3 DEF Timed, Armed
<1>5. breaker'.pausedUntil \in Nat
  BY DEF Balanced, TypeOK, Breakers
<1>6. ASSUME NEW r \in Requests, pc[r] # "granted", pc'[r] = "granted"
      PROVE  now >= breaker'.pausedUntil
  <2>1. Waiting(Pump(l, now)) # Waiting(l)
    BY <1>6
  <2>2. now >= l.holdUntil
    BY <1>1, <2>1, PumpServesInTime
  <2>3. QED
    BY <1>1, <1>5, <2>2
<1>7. aborted \subseteq Requests
  BY DEF Timed, Balanced, TypeOK
<1>8. OnePump
  BY DEF OnePump, Served
<1>9. QED
  BY <1>4, <1>6, <1>7, <1>8
  DEF InTime, PauseHonoured, OpeningEmptiesQueue, CancelledNeverSent

\* A look, an admission and a probe given up leave the pause as it is.
LEMMA LookKeepsPause ==
    ASSUME NEW b \in Breakers, NEW t, NEW p
    PROVE  /\ Looked(b, t).pausedUntil = b.pausedUntil
           /\ Looked(b, t).current = "open" => b.current = "open"
           /\ Admitted(b).pausedUntil = b.pausedUntil
           /\ Admitted(b).current = b.current
           /\ Abandon(b, p).pausedUntil = b.pausedUntil
           /\ Abandon(b, p).current = b.current
  BY DEF Looked, Admitted, Abandon, Breakers

LEMMA InTimeAdmit ==
    ASSUME Timed, NEW r \in Requests, Start(r) \/ Wake(r)
    PROVE  InTime
<1> DEFINE b == Looked(breaker, now)
<1>1. Balanced'
  BY BalancedAdmit DEF Timed
<1>2. Admit(r) /\ UNCHANGED <<now, limiter, aborted>> /\ pc[r] \in {"new", "sleeping"}
  BY DEF Start, Wake
<1>3. b \in Breakers /\ breaker \in Breakers
  BY LookedType DEF Timed, Balanced, TypeOK
<1>4. b.pausedUntil = breaker.pausedUntil /\ (b.current = "open" => breaker.current = "open")
  BY <1>3, LookKeepsPause
<1>5. Admitted(b).pausedUntil = b.pausedUntil /\ Admitted(b).current = b.current
  BY <1>3, LookKeepsPause
<1>6. breaker' \in {breaker, b, Admitted(b)}
  BY <1>2 DEF Admit
<1> HIDE DEF b
<1>7. /\ breaker'.pausedUntil = breaker.pausedUntil
      /\ breaker'.current = "open" => breaker.current = "open"
  BY <1>4, <1>5, <1>6
<1>8. PICK place \in {"unsent", "sleeping", "admitted"} : Goto(r, place)
  BY <1>2, AdmitEffect DEF Timed, Balanced
<1>9. pc \in [Requests -> Places] /\ aborted \subseteq Requests
  BY DEF Timed, Balanced, TypeOK
<1>10. /\ \A x \in Requests : pc'[x] \in {"granted", "sent", "queued"} => pc'[x] = pc[x]
  BY <1>8, <1>9 DEF Goto
<1>11. \A x \in aborted' : pc'[x] # "queued"
  BY <1>2, <1>9, <1>10 DEF Timed, Queued
<1>12. QED
  BY <1>1, <1>2, <1>7, <1>10, <1>11, InTimeElsewhere

LEMMA InTimeEnqueue ==
    ASSUME Timed, NEW r \in Requests, Enqueue(r)
    PROVE  InTime
<1>1. Balanced'
  BY BalancedEnqueue DEF Timed
<1>2. pc \in [Requests -> Places] /\ aborted \subseteq Requests /\ pc[r] = "admitted"
  BY DEF Timed, Balanced, TypeOK, Enqueue
<1>3. CASE r \in aborted
  <2>1. Goto(r, "rejected") /\ UNCHANGED <<now, limiter, breaker, aborted>>
    BY <1>3 DEF Enqueue
  <2>2. \A x \in Requests : pc'[x] \in {"granted", "sent", "queued"} => pc'[x] = pc[x]
    BY <1>2, <2>1 DEF Goto
  <2>3. \A x \in aborted' : pc'[x] # "queued"
    BY <1>2, <2>1, <2>2 DEF Timed, Queued
  <2>4. QED
    BY <1>1, <2>1, <2>2, <2>3, InTimeElsewhere
<1>4. CASE r \notin aborted
  <2> DEFINE l == [limiter EXCEPT !.queue = Append(@, r)]
  <2>1. limiter' = Pump(l, now) /\ UNCHANGED <<now, breaker, aborted>>
    BY <1>4 DEF Enqueue, Acquire
  <2>2. \A i \in DOMAIN limiter.queue : limiter.queue[i] # r
    BY <1>2 DEF Timed, Balanced, Waiting, Queued
  <2>3. /\ l \in Limiters(Requests)
        /\ l.refilledAt <= now
        /\ Fills(l, limiter) /\ NoTwice(l.queue)
        /\ l.holdUntil = limiter.holdUntil
        /\ Waiting(l) = Waiting(limiter) \cup {r}
    <3> DEFINE a == Append(limiter.queue, r)
    <3>1. limiter.queue \in Seq(Requests) /\ limiter \in Limiters(Requests)
      BY DEF Timed, Balanced, TypeOK, Limiters
    <3>2. a \in Seq(Requests) /\ NoTwice(a) /\ {a[i] : i \in DOMAIN a} = Waiting(limiter) \cup {r}
      BY <2>2, <3>1, JoinQueue DEF Timed, Balanced, Waiting
    <3>3. l = [limiter EXCEPT !.queue = a]
      BY <3>1 DEF Limiters
    <3> HIDE DEF a, l
    <3>4. l \in Limiters(Requests) /\ l.queue = a /\ l.holdUntil = limiter.holdUntil
      BY <3>1, <3>2, <3>3 DEF Limiters
    <3>5. l.refilledAt <= now /\ Fills(l, limiter)
      BY <3>1, <3>3 DEF Timed, Balanced, Limiters, Fills
    <3>6. QED
      BY <3>2, <3>4, <3>5 DEF Waiting
  <2> HIDE DEF l
  <2>4. pc' = [x \in Requests |->
                 IF x \in Waiting(limiter') THEN "queued"
                 ELSE IF x = r \/ x \in Waiting(limiter) THEN "granted"
                 ELSE pc[x]]
    BY <1>4 DEF Enqueue
  <2>5. Waiting(limiter) = Queued /\ aborted \cap Queued = {}
    BY DEF Timed, Balanced
  <2>6. Waiting(limiter') \subseteq Waiting(l)
    BY <2>1, <2>3, PumpShrinks DEF Timed, Balanced, TypeOK, Limiters
  <2>7. \A x \in Requests : pc[x] # "granted" /\ pc'[x] = "granted" =>
              x \in Waiting(l) \ Waiting(limiter') /\ x \notin aborted
    BY <1>4, <2>3, <2>4, <2>5
  <2>8. \A x \in aborted' : pc'[x] # "queued"
    BY <1>2, <1>4, <2>1, <2>3, <2>4, <2>5, <2>6 DEF Queued
  <2>9. /\ \A x \in Requests : pc'[x] = "sent" => pc[x] = "sent"
        /\ breaker'.pausedUntil <= l.holdUntil
        /\ breaker'.current = "open" => breaker.current = "open"
    BY <2>1, <2>3, <2>4 DEF Timed
  <2>10. QED
    BY <1>1, <2>1, <2>3, <2>7, <2>8, <2>9, InTimePump
<1>5. QED
  BY <1>3, <1>4

LEMMA InTimeAbort ==
    ASSUME Timed, NEW r \in Requests, Abort(r)
    PROVE  InTime
<1>1. Balanced'
  BY BalancedAbort DEF Timed
<1>2. /\ pc \in [Requests -> Places] /\ aborted \subseteq Requests
      /\ Waiting(limiter) = Queued /\ aborted \cap Queued = {}
  BY DEF Timed, Balanced, TypeOK
<1>3. UNCHANGED <<now, breaker>> /\ aborted' = aborted \cup {r}
  BY DEF Abort
<1>4. CASE pc[r] # "queued"
  <2>1. UNCHANGED limiter /\ (UNCHANGED pc \/ Goto(r, "unsent"))
    BY <1>4 DEF Abort
  <2>2. \A x \in Requests : pc'[x] \in {"granted", "sent", "queued"} => pc'[x] = pc[x]
    BY <1>2, <2>1 DEF Goto
  <2>3. \A x \in aborted' : pc'[x] # "queued"
    BY <1>2, <1>3, <1>4, <2>2 DEF Queued
  <2>4. QED
    BY <1>1, <1>3, <2>1, <2>2, <2>3, InTimeElsewhere
<1>5. CASE pc[r] = "queued"
  <2> DEFINE l == [limiter EXCEPT !.queue = Without(@, r)]
  <2>1. limiter' = Pump(l, now)
    BY <1>5 DEF Abort, Withdraw
  <2>2. pc' = [Resume(limiter, limiter', "granted") EXCEPT ![r] = "rejected"]
    BY <1>5 DEF Abort
  <2>3. /\ l \in Limiters(Requests)
        /\ l.refilledAt <= now
        /\ Fills(l, limiter) /\ NoTwice(l.queue)
        /\ l.holdUntil = limiter.holdUntil
        /\ Waiting(l) = Waiting(limiter) \ {r}
    <3> DEFINE w == Without(limiter.queue, r)
    <3>1. limiter.queue \in Seq(Requests) /\ limiter \in Limiters(Requests)
      BY DEF Timed, Balanced, TypeOK, Limiters
    <3>2. \E i \in DOMAIN limiter.queue : limiter.queue[i] = r
      BY <1>2, <1>5 DEF Waiting, Queued
    <3>3. w \in Seq(Requests) /\ NoTwice(w) /\ {w[i] : i \in DOMAIN w} = Waiting(limiter) \ {r}
      BY <3>1, <3>2, LeaveQueue DEF Timed, Balanced, Waiting
    <3>4. l = [limiter EXCEPT !.queue = w]
      BY <3>1 DEF Limiters
    <3> HIDE DEF w, l
    <3>5. l \in Limiters(Requests) /\ l.queue = w /\ l.holdUntil = limiter.holdUntil
      BY <3>1, <3>3, <3>4 DEF Limiters
    <3>6. l.refilledAt <= now /\ Fills(l, limiter)
      BY <3>1, <3>4 DEF Timed, Balanced, Limiters, Fills
    <3>7. QED
      BY <3>3, <3>5, <3>6 DEF Waiting
  <2> HIDE DEF l
  <2>4. Waiting(limiter') \subseteq Waiting(l)
    BY <2>1, <2>3, PumpShrinks DEF Timed, Balanced, TypeOK, Limiters
  <2>5. \A x \in Requests :
           pc'[x] = IF x = r THEN "rejected"
                    ELSE IF x \in Waiting(limiter) /\ x \notin Waiting(limiter')
                      THEN "granted" ELSE pc[x]
    BY <2>2 DEF Resume
  <2>6. \A x \in Requests : pc[x] # "granted" /\ pc'[x] = "granted" =>
           x \in Waiting(l) \ Waiting(limiter') /\ x \notin aborted
    BY <1>2, <2>3, <2>5
  <2>7. \A x \in aborted' : pc'[x] # "queued"
    BY <1>2, <1>3, <2>5 DEF Queued
  <2>8. /\ \A x \in Requests : pc'[x] = "sent" => pc[x] = "sent"
        /\ breaker'.pausedUntil <= l.holdUntil
        /\ breaker'.current = "open" => breaker.current = "open"
    BY <1>3, <2>3, <2>5 DEF Timed
  <2>9. QED
    BY <1>1, <1>3, <2>1, <2>3, <2>6, <2>7, <2>8, InTimePump
<1>6. QED
  BY <1>4, <1>5

LEMMA InTimeTimer ==
    ASSUME Timed, TimerFires
    PROVE  InTime
<1>1. Balanced'
  BY BalancedTimer DEF Timed
<1>2. /\ UNCHANGED <<now, breaker, aborted>>
      /\ limiter' = Pump(limiter, now)
      /\ pc' = Resume(limiter, limiter', "granted")
  BY DEF TimerFires
<1>3. /\ limiter \in Limiters(Requests) /\ limiter.refilledAt <= now
      /\ Waiting(limiter) = Queued /\ aborted \cap Queued = {}
      /\ aborted \subseteq Requests
  BY DEF Timed, Balanced, TypeOK
<1>4. \A x \in Requests :
         pc'[x] = IF x \in Waiting(limiter) /\ x \notin Waiting(limiter')
                    THEN "granted" ELSE pc[x]
  BY <1>2 DEF Resume
<1>5. \A x \in Requests : pc[x] # "granted" /\ pc'[x] = "granted" =>
         x \in Waiting(limiter) \ Waiting(limiter') /\ x \notin aborted
  BY <1>3, <1>4
<1>6. /\ \A x \in aborted' : pc'[x] # "queued"
      /\ \A x \in Requests : pc'[x] = "sent" => pc[x] = "sent"
      /\ breaker'.pausedUntil <= limiter.holdUntil
      /\ breaker'.current = "open" => breaker.current = "open"
  BY <1>2, <1>3, <1>4 DEF Queued, Timed
<1>7. Fills(limiter, limiter) /\ NoTwice(limiter.queue)
  BY <1>3 DEF Fills, Limiters, Timed, Balanced
<1>8. QED
  BY <1>1, <1>2, <1>3, <1>5, <1>6, <1>7, InTimePump

\* The pause an answer leaves behind is the pause there was, none when it
\* opens the breaker, or one that flowsAgainAt tells the limiter of.
LEMMA LearnedPause ==
    ASSUME NEW b \in Breakers, NEW t \in Nat, NEW r \in Requests, NEW p,
           NEW hint \in Nat \cup {NoHint}
    PROVE  LET s == Success(b, p)
               q == Pushback(b, t, r, p, hint)
           IN  /\ s.pausedUntil = b.pausedUntil
               /\ s.current = "open" => b.current = "open"
               /\ \/ q.pausedUntil = b.pausedUntil
                  \/ q.current = "open" /\ q.pausedUntil = 0
                  \/ q.current = "closed"
<1> DEFINE h == Clamped(hint)
<1> DEFINE s == Looked(b, t)
<1> DEFINE q == Pushback(b, t, r, p, hint)
<1>1. s \in Breakers /\ s.pausedUntil = b.pausedUntil
  BY LookedType, LookKeepsPause
<1>2. h \in Nat \cup {NoHint}
  BY ClampedType
<1> HIDE DEF h, s
<1>3. CASE p
  BY <1>3 DEF Pushback, ProbePushback, Open, Success, Breakers
<1>4. CASE ~p
  <2>1. CASE s.current # "closed"
    <3>1. q = StalePushback(s, t, h)
      BY <1>4, <2>1 DEF Pushback, h, s
    <3>2. q.pausedUntil = s.pausedUntil
      BY <1>1, <3>1 DEF StalePushback, Breakers
    <3>3. QED
      BY <1>1, <1>4, <3>2 DEF Success, Breakers
  <2>2. CASE s.current = "closed"
    <3>1. q = CountedPushback(s, t, r, h)
      BY <1>4, <2>2 DEF Pushback, h, s
    <3>2. \/ q.current = "open" /\ q.pausedUntil = 0
          \/ q.current = "closed"
      BY <1>1, <2>2, <3>1 DEF CountedPushback, Open, Breakers
    <3>3. QED
      BY <1>4, <3>2 DEF Success, Breakers
  <2>3. QED
    BY <2>1, <2>2
<1>5. QED
  BY <1>3, <1>4

LEMMA InTimeSettle ==
    ASSUME Timed, NEW r \in Requests, pc[r] = "sent", Balanced',
           NEW learned \in Breakers, Settle(r, learned),
           \/ learned.pausedUntil = breaker.pausedUntil
           \/ learned.current = "open" /\ learned.pausedUntil = 0
           \/ learned.current = "closed"
    PROVE  InTime
<1> DEFINE b == Looked(learned, now)
<1>1. /\ b \in Breakers /\ now \in Nat
      /\ b.pausedUntil = learned.pausedUntil
      /\ b.current = "open" => learned.current = "open"
      /\ learned.current = "closed" => b.current = "closed"
  BY LookedType, LookKeepsPause DEF Timed, Balanced, TypeOK, Looked, Breakers
<1>2. /\ limiter \in Limiters(Requests) /\ limiter.refilledAt <= now
      /\ limiter.holdUntil \in Nat /\ limiter.inFlight \in Nat
      /\ Waiting(limiter) = Queued /\ aborted \cap Queued = {}
      /\ aborted \subseteq Requests /\ breaker.pausedUntil \in Nat
      /\ breaker.pausedUntil <= limiter.holdUntil
  <2>1. limiter \in Limiters(Requests) /\ breaker \in Breakers
    BY DEF Timed, Balanced, TypeOK
  <2>2. /\ limiter.holdUntil \in Nat /\ limiter.inFlight \in Nat
        /\ breaker.pausedUntil \in Nat
    BY <2>1, LimiterAssumption DEF Limiters, Breakers
  <2>3. QED
    BY <2>1, <2>2 DEF Timed, Balanced, TypeOK
<1>3. breaker' = b /\ UNCHANGED <<now, aborted>>
  BY DEF Settle
<1>4. limiter.inFlight - 1 \in 0 .. MaxInFlight
  <2>1. r \in InFlight
    BY DEF InFlight
  <2>2. limiter.inFlight # 0
    BY <2>1, FS_EmptySet DEF Timed, Balanced
  <2>3. limiter.inFlight \in 0 .. MaxInFlight
    BY <1>2 DEF Limiters
  <2>4. QED
    BY <1>2, <2>2, <2>3, LimiterAssumption
<1> HIDE DEF b
<1>5. ASSUME NEW place \in {"rejected", "granted"},
             pc' = [Resume(limiter, limiter', place) EXCEPT ![r] = "answered"]
      PROVE  /\ \A x \in Requests : pc[x] # "granted" /\ pc'[x] = "granted" =>
                   /\ place = "granted"
                   /\ x \in Waiting(limiter) \ Waiting(limiter')
                   /\ x \notin aborted
             /\ \A x \in Requests : pc'[x] = "sent" => pc[x] = "sent"
             /\ \A x \in aborted' : pc'[x] # "queued"
  <2>1. \A x \in Requests :
           pc'[x] = IF x = r THEN "answered"
                    ELSE IF x \in Waiting(limiter) /\ x \notin Waiting(limiter')
                      THEN place ELSE pc[x]
    BY <1>5 DEF Resume
  <2>2. QED
    BY <1>2, <1>3, <2>1 DEF Queued
<1>6. CASE b.current = "open"
  <2> DEFINE l == [limiter EXCEPT !.queue = <<>>, !.inFlight = @ - 1]
  <2>1. /\ limiter' = Pump(l, now)
        /\ pc' = [Resume(limiter, limiter', "rejected") EXCEPT ![r] = "answered"]
    BY <1>6 DEF Settle, FlushAndRelease, b
  <2>2. /\ l \in Limiters(Requests) /\ Fills(l, limiter)
        /\ l.holdUntil = limiter.holdUntil /\ l.queue = <<>>
    <3>1. l \in Limiters(Requests) /\ l.queue = <<>>
      BY <1>2, <1>4, EmptySeq DEF Limiters
    <3>2. l.holdUntil = limiter.holdUntil /\ Fills(l, limiter)
      BY <1>2 DEF Limiters, Fills
    <3>3. QED
      BY <3>1, <3>2
  <2> HIDE DEF l
  <2>3. l.refilledAt <= now /\ NoTwice(l.queue)
    BY <1>2, <2>2 DEF Fills, NoTwice
  <2>4. Waiting(limiter') = {}
    <3>1. Waiting(l) = {}
      BY <2>2 DEF Waiting
    <3>2. QED
      BY <1>1, <2>1, <2>2, <2>3, <3>1, PumpShrinks DEF Limiters
  <2>5. limiter'.queue = <<>>
    <3>1. limiter'.queue \in Seq(Requests)
      BY DEF Balanced, TypeOK, Limiters
    <3>2. DOMAIN limiter'.queue = {}
      BY <2>4 DEF Waiting
    <3>3. DOMAIN limiter'.queue = 1 .. Len(limiter'.queue) /\ Len(limiter'.queue) \in Nat
      BY <3>1
    <3>4. Len(limiter'.queue) = 0
      <4> DEFINE n == Len(limiter'.queue)
      <4>1. n \in Nat /\ 1 .. n = {}
        BY <3>2, <3>3
      <4> HIDE DEF n
      <4>2. n # 0 => 1 \in 1 .. n
        BY <4>1
      <4>3. QED
        BY <4>1, <4>2 DEF n
    <3>5. QED
      BY <3>1, <3>4, EmptySeq
  <2>6. breaker'.pausedUntil <= l.holdUntil
    BY <1>1, <1>2, <1>3, <1>6, <2>2
  <2>7. QED
    BY <1>3, <1>5, <2>1, <2>2, <2>3, <2>5, <2>6, InTimePump
<1>7. CASE b.current # "open"
  <2> DEFINE until == FlowsAgainAt(b, now)
  <2> DEFINE l == [limiter EXCEPT !.holdUntil = Larger(@, until), !.inFlight = @ - 1]
  <2>1. /\ limiter' = Pump(l, now)
        /\ pc' = [Resume(limiter, limiter', "granted") EXCEPT ![r] = "answered"]
    BY <1>7 DEF Settle, HoldAndRelease, b
  <2>2. until \in Nat /\ (b.current = "closed" => until >= b.pausedUntil)
    BY <1>1 DEF FlowsAgainAt, Breakers
  <2> HIDE DEF until
  <2>3. /\ Larger(limiter.holdUntil, until) \in Nat
        /\ Larger(limiter.holdUntil, until) >= limiter.holdUntil
        /\ Larger(limiter.holdUntil, until) >= until
    BY <1>2, <2>2 DEF Larger
  <2>4. /\ l \in Limiters(Requests) /\ Fills(l, limiter) /\ NoTwice(l.queue)
        /\ l.holdUntil = Larger(limiter.holdUntil, until)
        /\ Waiting(l) = Waiting(limiter)
    BY <1>2, <1>4, <2>3 DEF Limiters, Waiting, Fills, Timed, Balanced
  <2> HIDE DEF l
  <2>5. b.pausedUntil <= l.holdUntil
    <3>1. b.pausedUntil \in Nat
      BY <1>1 DEF Breakers
    <3>2. CASE learned.pausedUntil = breaker.pausedUntil
      BY <1>1, <1>2, <2>3, <2>4, <3>1, <3>2
    <3>3. CASE learned.current = "open" /\ learned.pausedUntil = 0
      BY <1>1, <1>2, <2>3, <2>4, <3>1, <3>3
    <3>4. CASE learned.current = "closed"
      BY <1>1, <2>2, <2>3, <2>4, <3>1, <3>4
    <3>5. QED
      BY <3>2, <3>3, <3>4
  <2>6. QED
    BY <1>3, <1>5, <1>7, <2>1, <2>4, <2>5, InTimePump
<1>8. QED
  BY <1>6, <1>7

LEMMA InTimeStep == Timed /\ [Next]_vars => InTime
<1> SUFFICES ASSUME Timed, [Next]_vars PROVE InTime
  OBVIOUS
<1>0. Balanced' /\ breaker \in Breakers /\ aborted \cap Queued = {}
      /\ aborted \subseteq Requests /\ pc \in [Requests -> Places] /\ now \in Nat
  BY BalancedStep DEF Timed, Balanced, TypeOK
<1>1. ASSUME NEW r \in Requests, RequestStep(r)
      PROVE  InTime
  <2>1. CASE Start(r) \/ Wake(r)
    BY <2>1, InTimeAdmit
  <2>2. CASE Enqueue(r)
    BY <2>2, InTimeEnqueue
  <2>3. CASE Reject(r)
    <3>1. /\ breaker'.pausedUntil = breaker.pausedUntil
          /\ breaker'.current = breaker.current
      BY <1>0, <2>3, LookKeepsPause DEF Reject
    <3>2. QED
      BY <1>0, <2>3, <3>1, InTimeElsewhere DEF Reject, Goto, Queued
  <2>4. CASE Send(r)
    BY <1>0, <2>4, InTimeElsewhere DEF Send, Goto, Queued
  <2>5. CASE AnswerWell(r)
    <3>1. Success(breaker, r \in probes) \in Breakers
      BY <1>0, SuccessType
    <3>2. Success(breaker, r \in probes).pausedUntil = breaker.pausedUntil
      BY <1>0, LearnedPause DEF NoHint
    <3>3. QED
      BY <1>0, <2>5, <3>1, <3>2, InTimeSettle DEF AnswerWell
  <2>6. ASSUME NEW hint \in Hints \cup {NoHint}, AnswerPushback(r, hint)
        PROVE  InTime
    <3> DEFINE q == Pushback(breaker, now, r, r \in probes, hint)
    <3>1. hint \in Nat \cup {NoHint}
      BY BudgetAssumption
    <3>2. q \in Breakers
      BY <1>0, <3>1, PushbackType
    <3>3. \/ q.pausedUntil = breaker.pausedUntil
          \/ q.current = "open" /\ q.pausedUntil = 0
          \/ q.current = "closed"
      BY <1>0, <3>1, LearnedPause
    <3>4. pc[r] = "sent" /\ Settle(r, q)
      BY <2>6 DEF AnswerPushback
    <3> HIDE DEF q
    <3>5. QED
      BY <1>0, <3>2, <3>3, <3>4, InTimeSettle
  <2>7. CASE Abort(r)
    BY <2>7, InTimeAbort
  <2>8. QED
    BY <1>1, <2>1, <2>2, <2>3, <2>4, <2>5, <2>6, <2>7 DEF RequestStep, Answer
<1>2. CASE TimerFires
  BY <1>2, InTimeTimer
<1>3. CASE Snapshot
  <2>1. /\ breaker'.pausedUntil = breaker.pausedUntil
        /\ breaker'.current = "open" => breaker.current = "open"
    BY <1>0, <1>3, LookKeepsPause DEF Snapshot
  <2>2. QED
    BY <1>0, <1>3, <2>1, InTimeElsewhere DEF Snapshot, Queued
<1>4. CASE Tick
  BY <1>0, <1>4, InTimeElsewhere DEF Tick, Queued
<1>5. CASE UNCHANGED vars
  BY <1>0, <1>5, InTimeElsewhere DEF vars, Queued
<1>6. QED
  BY <1>1, <1>2, <1>3, <1>4, <1>5 DEF Next

LEMMA AlwaysTimed == Spec => []Timed
<1>1. Timed /\ [Next]_vars => Timed'
  BY InTimeStep DEF InTime
<1>2. QED
  BY <1>1, TimedInit, PTL DEF Spec

\* No lost wake-up: somebody waits in front of a free slot only while a timer
\* is armed (limiter.ts, pump and arm).
THEOREM WaitersAreTimed == Spec => []NoLostWakeup
<1>1. Timed => NoLostWakeup
  BY DEF Timed, Armed, NoLostWakeup
<1>2. QED
  BY <1>1, AlwaysTimed, PTL

LEMMA TimerNotInVain ==
    ASSUME Timed
    PROVE  TimerNeverFiresInVain
<1> SUFFICES ASSUME TimerFires PROVE Waiting(limiter') # Waiting(limiter)
  BY DEF TimerNeverFiresInVain
<1> DEFINE m == Pump(limiter, now)
<1> DEFINE n == Grantable(limiter, Refilled(limiter, now), now)
<1> DEFINE served == Waiting(limiter) \ Waiting(m)
<1>1. /\ limiter \in Limiters(Requests) /\ now \in Nat /\ now >= limiter.refilledAt
      /\ NoTwice(limiter.queue) /\ limiter.inFlight \in Nat
  BY LimiterAssumption DEF Timed, Balanced, TypeOK, Limiters
<1>2. limiter' = m /\ limiter.timer # NoTimer /\ now >= limiter.timer
  BY DEF TimerFires
<1>3. n >= 1
  BY <1>1, <1>2, TimerGrants DEF Timed
<1>4. m.inFlight = limiter.inFlight + n
  BY <1>1 DEF Pump, Granted, Limiters
<1>5. IsFiniteSet(served) /\ m.inFlight = limiter.inFlight + Cardinality(served)
  BY <1>1, PumpEffect
<1>6. n \in Nat
  <2>1. Refilled(limiter, now) \in Nat
    BY <1>1, RefilledType, LimiterAssumption
  <2>2. QED
    BY <1>1, <2>1, GrantableType DEF Limiters
<1> HIDE DEF m, n
<1>7. Cardinality(served) # 0
  BY <1>1, <1>3, <1>4, <1>5, <1>6, FS_CardinalityType
<1>8. served # {}
  BY <1>7, FS_EmptySet
<1>9. QED
  BY <1>2, <1>8

\* A slot is handed out only when it may be: the timer never fires for
\* nothing, nobody is granted in a pause or once cancelled, and an opening
\* breaker leaves nobody queued (limiter.ts, budget.ts).
THEOREM SlotsAreHandedOutInTime == Spec => SlotsGoOutInTime
<1>1. Timed /\ [Next]_vars =>
         [TimerNeverFiresInVain /\ PauseHonoured /\ OpeningEmptiesQueue
            /\ CancelledNeverSent]_vars
  BY InTimeStep, TimerNotInVain DEF InTime
<1>2. QED
  BY <1>1, AlwaysTimed, PTL DEF Spec, SlotsGoOutInTime

(***************************************************************************)
(* The rate.  Rated is inductive: whatever was granted since some instant, *)
(* together with what is in the bucket, is paid for by a full bucket and   *)
(* the time since.                                                         *)
(***************************************************************************)
Rated ==
    /\ Timed
    /\ grantedAt \in [Requests -> Nat \cup {NotYet}]
    /\ \A r \in Requests : grantedAt[r] <= now
    /\ IsFiniteSet(GrantedBetween(0, now))
    /\ RateBound
    /\ \A from \in 0 .. now :
          Minute * Cardinality(GrantedBetween(from, now)) + Refilled(limiter, now)
             <= Minute * Burst + PerMinute * (now - from)

\* Whoever is served has paid a token.
LEMMA ServedPay ==
    ASSUME Timed, Timed', InTime, now' = now
    PROVE  /\ IsFiniteSet(Served)
           /\ Minute * Cardinality(Served) + Refilled(limiter', now)
                 <= Refilled(limiter, now)
<1>1. limiter \in Limiters(Requests) /\ limiter.refilledAt <= now /\ now \in Nat
  BY DEF Timed, Balanced, TypeOK
<1>2. Refilled(limiter, now) \in Nat
  BY <1>1, RefilledType, LimiterAssumption DEF Limiters
<1>3. CASE UNCHANGED limiter /\ Served = {}
  <2>1. IsFiniteSet(Served) /\ Cardinality(Served) = 0
    BY <1>3, FS_EmptySet
  <2>2. Minute * 0 = 0
    BY LimiterAssumption
  <2>3. QED
    BY <1>2, <1>3, <2>1, <2>2
<1>4. ASSUME NEW l \in Limiters(Requests), Fills(l, limiter), NoTwice(l.queue),
             limiter' = Pump(l, now),
             Served \subseteq Waiting(l) \ Waiting(limiter')
      PROVE  /\ IsFiniteSet(Served)
             /\ Minute * Cardinality(Served) + Refilled(limiter', now)
                   <= Refilled(limiter, now)
  <2> DEFINE c == Refilled(l, now)
  <2> DEFINE n == Grantable(l, c, now)
  <2> DEFINE m == Pump(l, now)
  <2> DEFINE all == Waiting(l) \ Waiting(m)
  <2>1. c = Refilled(limiter, now) /\ l.refilledAt <= now
    BY <1>1, <1>4 DEF Refilled, Fills
  <2>2. c \in 0 .. Burst * Minute /\ c \in Nat
    BY <1>1, <1>2, <2>1, RefilledType DEF Limiters
  <2>3. n \in Nat /\ n * Minute \in Nat /\ n * Minute <= c
    <3>1. Len(l.queue) \in Nat
      BY DEF Limiters
    <3> HIDE DEF c
    <3>2. n \in 0 .. Len(l.queue) /\ n * Minute \in Nat /\ n * Minute <= c
      BY <1>1, <2>2, GrantableType
    <3>3. QED
      BY <3>1, <3>2
  <2>4. /\ m.credits = c - n * Minute /\ m.refilledAt = now
        /\ m.inFlight = l.inFlight + n
    BY DEF Pump, Granted, Limiters
  <2>5. IsFiniteSet(all) /\ m.inFlight = l.inFlight + Cardinality(all)
    BY <1>1, <1>4, <2>1, PumpEffect
  <2>6. l.inFlight \in Nat
    BY LimiterAssumption DEF Limiters
  <2>7. Refilled(m, now) <= m.credits
    <3>1. (now - now) * PerMinute = 0
      BY <1>1, LimiterAssumption
    <3> DEFINE paid == n * Minute
    <3> DEFINE full == Burst * Minute
    <3>2. paid \in Nat /\ paid <= c /\ c \in 0 .. full /\ full \in Nat
      BY <2>2, <2>3, LimiterAssumption
    <3>3. m.credits = c - paid
      BY <2>4
    <3>4. Refilled(m, now) = Lesser(full, m.credits + (now - now) * PerMinute)
      BY <2>4 DEF Refilled
    <3> HIDE DEF c, m, paid, full
    <3>5. m.credits \in Int
      BY <2>2, <3>2, <3>3
    <3>6. Refilled(m, now) = Lesser(full, m.credits)
      BY <3>1, <3>4, <3>5
    <3>7. QED
      BY <3>2, <3>5, <3>6 DEF Lesser
  <2> HIDE DEF c, m, n
  <2>8. Cardinality(all) = n
    BY <2>3, <2>4, <2>5, <2>6, FS_CardinalityType
  <2> HIDE DEF all
  <2>9. /\ IsFiniteSet(Served) /\ Cardinality(Served) \in Nat
        /\ Cardinality(Served) <= n
    BY <1>4, <2>5, <2>8, FS_Subset, FS_CardinalityType DEF all, m
  <2>10. Minute * Cardinality(Served) <= n * Minute
    BY <2>3, <2>9, LimiterAssumption
  <2>11. Refilled(limiter', now) <= c - n * Minute
    BY <1>4, <2>4, <2>7 DEF m
  <2>12. Refilled(limiter', now) \in Nat
    <3>1. limiter' \in Limiters(Requests) /\ limiter'.refilledAt <= now
      BY <1>1 DEF Timed, Balanced, TypeOK
    <3>2. QED
      BY <1>1, <3>1, RefilledType, LimiterAssumption DEF Limiters
  <2>13. Minute * Cardinality(Served) \in Nat
    BY <2>9, LimiterAssumption
  <2> DEFINE paid == n * Minute
  <2> DEFINE due == Minute * Cardinality(Served)
  <2> DEFINE left == Refilled(limiter', now)
  <2>14. due \in Nat /\ paid \in Nat /\ left \in Nat /\ due <= paid /\ left <= c - paid
    BY <2>3, <2>10, <2>11, <2>12, <2>13
  <2> HIDE DEF due, paid, left
  <2>15. due + left <= c
    BY <2>2, <2>14
  <2>16. QED
    BY <2>1, <2>9, <2>15 DEF due, left
<1>5. QED
  BY <1>3, <1>4 DEF InTime, OnePump

\* GrantedBetween, of the grants before or after a step.
Within(at, from, until) ==
    {r \in Requests : at[r] # NotYet /\ at[r] \in from .. until}

LEMMA FullBucket ==
    /\ Minute * Burst \in Nat
    /\ Burst * Minute = Minute * Burst
  BY LimiterAssumption

\* Time that passes fills the bucket at the rate and no faster.
LEMMA TimeFills ==
    ASSUME NEW l \in Limiters(Requests), NEW t \in Nat, t >= l.refilledAt
    PROVE  /\ Refilled(l, t) \in 0 .. Minute * Burst
           /\ Refilled(l, t + 1) \in 0 .. Minute * Burst
           /\ Refilled(l, t + 1) <= Refilled(l, t) + PerMinute
<1>1. l.refilledAt \in Nat /\ PerMinute \in Nat
  BY LimiterAssumption DEF Limiters
<1>2. /\ Refilled(l, t) \in 0 .. Minute * Burst
      /\ Refilled(l, t + 1) \in 0 .. Minute * Burst
  BY <1>1, RefilledType, FullBucket
<1> DEFINE d == t - l.refilledAt
<1> DEFINE less == d * PerMinute
<1> DEFINE more == (d + 1) * PerMinute
<1>3. less \in Nat /\ more = less + PerMinute
  BY <1>1
<1>4. /\ Refilled(l, t) = Lesser(Burst * Minute, l.credits + less)
      /\ Refilled(l, t + 1) = Lesser(Burst * Minute, l.credits + more)
  <2>1. (t + 1) - l.refilledAt = d + 1
    BY <1>1
  <2> HIDE DEF d
  <2>2. Refilled(l, t + 1) = Lesser(Burst * Minute, l.credits + more)
    BY <2>1 DEF Refilled
  <2>3. QED
    BY <2>2 DEF Refilled, d
<1> HIDE DEF less, more
<1>5. l.credits \in Nat /\ Burst * Minute \in Nat
  BY FullBucket DEF Limiters
<1> DEFINE full == Burst * Minute
<1>6. Lesser(full, l.credits + more) <= Lesser(full, l.credits + less) + PerMinute
  <2>1. full \in Nat
    BY <1>5
  <2> HIDE DEF full
  <2>2. QED
    BY <1>1, <1>3, <1>5, <2>1 DEF Lesser
<1>7. QED
  BY <1>2, <1>4, <1>6

\* The grants of a stretch of time are finitely many, of a shorter one fewer.
LEMMA GrantsAreCounted ==
    ASSUME Rated, NEW from \in 0 .. now, NEW until \in 0 .. now
    PROVE  /\ IsFiniteSet(GrantedBetween(from, until))
           /\ Cardinality(GrantedBetween(from, until)) \in Nat
<1>1. GrantedBetween(from, until) \subseteq GrantedBetween(0, now)
  BY DEF GrantedBetween, Rated, Timed, Balanced, TypeOK
<1>2. QED
  BY <1>1, FS_Subset, FS_CardinalityType DEF Rated

LEMMA RatedInit == TraceInit => Rated
<1> SUFFICES ASSUME TraceInit PROVE Rated
  OBVIOUS
<1>1. Timed /\ now = 0
  BY TimedInit DEF TraceInit, Init
<1>2. /\ grantedAt \in [Requests -> Nat \cup {NotYet}]
      /\ \A r \in Requests : grantedAt[r] <= now
      /\ \A from, until : GrantedBetween(from, until) = {}
  BY <1>1 DEF TraceInit, NotYet, GrantedBetween
<1>3. IsFiniteSet({}) /\ Cardinality({}) = 0
  BY FS_EmptySet
<1>4. Refilled(limiter, now) \in 0 .. Minute * Burst
  BY <1>1, TimeFills DEF Timed, Balanced, TypeOK
<1>5. ASSUME NEW d \in Nat
      PROVE  PerMinute * d \in Nat /\ Minute * 0 = 0
  BY LimiterAssumption
<1>6. RateBound
  <2> SUFFICES ASSUME NEW from \in 0 .. now, NEW until \in 0 .. now, from <= until
               PROVE  Minute * Cardinality(GrantedBetween(from, until))
                         <= Minute * Burst + PerMinute * (until - from)
    BY DEF RateBound
  <2>1. from = 0 /\ until = 0 /\ PerMinute * (until - from) \in Nat
    BY <1>1, <1>5
  <2>2. Minute * Cardinality(GrantedBetween(from, until)) = 0
    BY <1>2, <1>3, <1>5
  <2>3. QED
    BY <2>1, <2>2, FullBucket
<1>7. ASSUME NEW from \in 0 .. now
      PROVE  Minute * Cardinality(GrantedBetween(from, now)) + Refilled(limiter, now)
                <= Minute * Burst + PerMinute * (now - from)
  <2>1. now - from = 0 /\ PerMinute * (now - from) = 0
    <3>1. from = 0
      BY <1>1
    <3>2. PerMinute * 0 = 0
      BY LimiterAssumption
    <3>3. QED
      BY <1>1, <3>1, <3>2
  <2>2. Minute * Cardinality(GrantedBetween(from, now)) = 0
    BY <1>2, <1>3, <1>5
  <2> DEFINE full == Minute * Burst
  <2>3. full \in Nat /\ Refilled(limiter, now) \in 0 .. full
    BY <1>4, FullBucket
  <2> HIDE DEF full
  <2>4. 0 + Refilled(limiter, now) <= full + 0
    BY <2>3
  <2>5. QED
    BY <2>1, <2>2, <2>4 DEF full
<1>8. QED
  BY <1>1, <1>2, <1>3, <1>6, <1>7 DEF Rated

\* Time passes: nobody is granted.
LEMMA RatedTick ==
    ASSUME Rated, Tick, UNCHANGED grantedAt, Timed'
    PROVE  Rated'
<1>1. /\ now \in Nat /\ now' = now + 1 /\ limiter' = limiter
      /\ limiter \in Limiters(Requests) /\ limiter.refilledAt <= now
  BY DEF Rated, Timed, Balanced, TypeOK, Tick
<1>2. ASSUME NEW from \in 0 .. now'
      PROVE  /\ Within(grantedAt', from, now')
                   = IF from <= now THEN Within(grantedAt, from, now) ELSE {}
             /\ \A until \in 0 .. now :
                   Within(grantedAt', from, until) = Within(grantedAt, from, until)
  <2>1. /\ grantedAt' = grantedAt
        /\ \A r \in Requests : grantedAt[r] \in Nat \cup {NotYet} /\ grantedAt[r] <= now
    BY DEF Rated
  <2>2. \A r \in Requests : grantedAt[r] # NotYet =>
           (grantedAt[r] \in from .. now' <=> grantedAt[r] \in from .. now)
    BY <1>1, <2>1
  <2>3. from > now => \A r \in Requests : grantedAt[r] \notin from .. now'
    BY <1>1, <2>1, <2>2
  <2>4. \A r \in Requests : grantedAt'[r] = grantedAt[r]
    BY <2>1
  <2>5. Within(grantedAt', from, now')
           = IF from <= now THEN Within(grantedAt, from, now) ELSE {}
    BY <1>1, <2>2, <2>3, <2>4 DEF Within
  <2>6. QED
    BY <2>4, <2>5 DEF Within
<1> DEFINE full == Minute * Burst
<1>3. /\ full \in Nat
      /\ Refilled(limiter, now) \in 0 .. full
      /\ Refilled(limiter', now') \in 0 .. full
      /\ Refilled(limiter', now') <= Refilled(limiter, now) + PerMinute
  BY <1>1, TimeFills, FullBucket
<1>4. ASSUME NEW from \in 0 .. now'
      PROVE  Minute * Cardinality(Within(grantedAt', from, now')) + Refilled(limiter', now')
                <= full + PerMinute * (now' - from)
  <2>1. CASE from <= now
    <3> DEFINE due == Minute * Cardinality(Within(grantedAt, from, now))
    <3> DEFINE rate == PerMinute * (now - from)
    <3>1. due + Refilled(limiter, now) <= full + rate
      BY <1>1, <2>1 DEF Rated, Within, GrantedBetween
    <3>2. from \in 0 .. now
      BY <1>1, <2>1
    <3>3. due \in Nat /\ rate \in Nat
      BY <1>1, <3>2, GrantsAreCounted, LimiterAssumption DEF Within, GrantedBetween
    <3>4. PerMinute * (now' - from) = rate + PerMinute
      BY <1>1, <3>2, LimiterAssumption
    <3>5. Within(grantedAt', from, now') = Within(grantedAt, from, now)
      BY <1>2, <2>1
    <3> HIDE DEF full, due, rate
    <3>6. due + Refilled(limiter', now') <= full + (rate + PerMinute)
      BY <1>3, <3>1, <3>3, LimiterAssumption
    <3>7. QED
      BY <3>4, <3>5, <3>6 DEF due
  <2>2. CASE from > now
    <3>1. Within(grantedAt', from, now') = {} /\ now' - from = 0
      BY <1>1, <1>2, <2>2
    <3>2. Minute * Cardinality({}) = 0 /\ PerMinute * 0 = 0
      BY FS_EmptySet, LimiterAssumption
    <3> HIDE DEF full
    <3>3. 0 + Refilled(limiter', now') <= full + 0
      BY <1>3
    <3>4. QED
      BY <3>1, <3>2, <3>3
  <2>3. QED
    BY <1>1, <2>1, <2>2
<1>5. ASSUME NEW from \in 0 .. now', NEW until \in 0 .. now', from <= until
      PROVE  Minute * Cardinality(Within(grantedAt', from, until))
                <= full + PerMinute * (until - from)
  <2>1. CASE until = now'
    <3> DEFINE due == Minute * Cardinality(Within(grantedAt', from, now'))
    <3> DEFINE rate == PerMinute * (now' - from)
    <3>1. due + Refilled(limiter', now') <= full + rate
      BY <1>4
    <3>2. rate \in Nat /\ due \in Nat
      <4>1. Within(grantedAt', from, now') \in {{}, Within(grantedAt, from, now)}
        BY <1>2
      <4>2. from <= now => Cardinality(Within(grantedAt, from, now)) \in Nat
        BY <1>1, GrantsAreCounted DEF Within, GrantedBetween
      <4>3. Cardinality(Within(grantedAt', from, now')) \in Nat
        BY <1>2, <4>2, FS_EmptySet
      <4>4. now' - from \in Nat
        BY <1>1
      <4>5. QED
        BY <4>3, <4>4, LimiterAssumption
    <3> HIDE DEF full, due, rate
    <3>3. due <= full + rate
      BY <1>3, <3>1, <3>2
    <3>4. QED
      BY <2>1, <3>3 DEF due, rate
  <2>2. CASE until # now'
    <3>1. until \in 0 .. now /\ from \in 0 .. now
      BY <1>1, <1>5, <2>2
    <3>2. QED
      <4>1. Within(grantedAt', from, until) = GrantedBetween(from, until)
        BY <1>2, <3>1 DEF Within, GrantedBetween
      <4>2. QED
        BY <1>5, <3>1, <4>1 DEF Rated, RateBound
  <2>3. QED
    BY <2>1, <2>2
<1>6. IsFiniteSet(Within(grantedAt', 0, now'))
  BY <1>1, <1>2 DEF Rated, Within, GrantedBetween
<1>7. /\ grantedAt' \in [Requests -> Nat \cup {NotYet}]
      /\ \A r \in Requests : grantedAt'[r] <= now'
  BY <1>1 DEF Rated, NotYet
<1>8. RateBound'
  BY <1>5 DEF RateBound, Within, GrantedBetween
<1>9. \A from \in 0 .. now' :
         Minute * Cardinality(GrantedBetween(from, now)') + Refilled(limiter', now')
            <= Minute * Burst + PerMinute * (now' - from)
  BY <1>4 DEF Within, GrantedBetween
<1>10. QED
  BY <1>6, <1>7, <1>8, <1>9 DEF Rated, Within, GrantedBetween

\* A step at one instant grants at most what the bucket pays for.
LEMMA RatedStep ==
    ASSUME Rated, InTime, now' = now, Record
    PROVE  Rated'
<1>1. /\ now \in Nat /\ Timed /\ Timed'
      /\ limiter \in Limiters(Requests) /\ limiter.refilledAt <= now
      /\ limiter' \in Limiters(Requests) /\ limiter'.refilledAt <= now
  BY DEF Rated, Timed, Balanced, TypeOK, InTime
<1>2. /\ IsFiniteSet(Served)
      /\ Minute * Cardinality(Served) + Refilled(limiter', now) <= Refilled(limiter, now)
  BY <1>1, ServedPay
<1>3. /\ \A r \in Requests :
            grantedAt'[r] = IF r \in Served THEN now ELSE grantedAt[r]
      /\ grantedAt' \in [Requests -> Nat \cup {NotYet}]
      /\ \A r \in Requests : grantedAt'[r] <= now
  BY <1>1 DEF Record, Rated, Served
<1>4. ASSUME NEW from \in 0 .. now, NEW until \in 0 .. now
      PROVE  /\ Within(grantedAt', from, until)
                   \subseteq GrantedBetween(from, until) \cup Served
             /\ until < now => Within(grantedAt', from, until)
                                  \subseteq GrantedBetween(from, until)
  BY <1>1, <1>3 DEF Within, GrantedBetween
<1>5. /\ Refilled(limiter, now) \in Nat
      /\ Refilled(limiter', now) \in Nat
      /\ Minute * Burst \in Nat
  <2>1. /\ Refilled(limiter, now) \in 0 .. Minute * Burst
        /\ Refilled(limiter', now) \in 0 .. Minute * Burst
    BY <1>1, TimeFills
  <2>2. QED
    BY <2>1, FullBucket
<1>6. ASSUME NEW from \in 0 .. now
      PROVE  /\ IsFiniteSet(Within(grantedAt', from, now))
             /\ Cardinality(Within(grantedAt', from, now)) \in Nat
             /\ Minute * Cardinality(Within(grantedAt', from, now)) + Refilled(limiter', now)
                   <= Minute * Burst + PerMinute * (now - from)
  <2> DEFINE old == GrantedBetween(from, now)
  <2> DEFINE new == Within(grantedAt', from, now)
  <2>1. IsFiniteSet(old) /\ Cardinality(old) \in Nat
    BY <1>1, GrantsAreCounted
  <2>2. /\ IsFiniteSet(old \cup Served)
        /\ Cardinality(old \cup Served) <= Cardinality(old) + Cardinality(Served)
        /\ Cardinality(Served) \in Nat
    <3>1. /\ IsFiniteSet(old \cup Served)
          /\ Cardinality(old \cup Served)
               = Cardinality(old) + Cardinality(Served) - Cardinality(old \cap Served)
      BY <1>2, <2>1, FS_Union
    <3>2. IsFiniteSet(old \cap Served)
      BY <2>1, FS_Subset
    <3>3. Cardinality(old \cap Served) \in Nat /\ Cardinality(Served) \in Nat
      BY <1>2, <3>2, FS_CardinalityType
    <3>4. QED
      BY <2>1, <3>1, <3>3
  <2>3. new \in SUBSET (old \cup Served)
    BY <1>1, <1>4
  <2> HIDE DEF old, new
  <2>4. /\ IsFiniteSet(new) /\ Cardinality(new) \in Nat
        /\ Cardinality(new) <= Cardinality(old \cup Served)
    BY <2>2, <2>3, FS_Subset, FS_CardinalityType
  <2>5. Cardinality(old \cup Served) \in Nat
    BY <2>2, FS_CardinalityType
  <2> DEFINE n == Cardinality(new)
  <2> DEFINE o == Cardinality(old)
  <2> DEFINE s == Cardinality(Served)
  <2>6. n \in Nat /\ o \in Nat /\ s \in Nat /\ n <= o + s
    BY <2>1, <2>2, <2>4, <2>5
  <2> HIDE DEF n, o, s
  <2>7. /\ Minute * n <= Minute * o + Minute * s
        /\ Minute * n \in Nat /\ Minute * o \in Nat /\ Minute * s \in Nat
    <3>1. Minute * (o + s) = Minute * o + Minute * s
      BY <2>6, LimiterAssumption
    <3>2. Minute * n <= Minute * (o + s)
      BY <2>6, LimiterAssumption
    <3>3. QED
      BY <2>6, <3>1, <3>2, LimiterAssumption
  <2>8. Minute * o + Refilled(limiter, now) <= Minute * Burst + PerMinute * (now - from)
    BY DEF Rated, old, o
  <2>9. Minute * s + Refilled(limiter', now) <= Refilled(limiter, now)
    BY <1>2 DEF s
  <2>10. Minute * Burst + PerMinute * (now - from) \in Nat
    BY <1>1, <1>5, LimiterAssumption
  <2>11. Minute * n + Refilled(limiter', now) <= Minute * Burst + PerMinute * (now - from)
    <3> DEFINE mn == Minute * n
    <3> DEFINE mo == Minute * o
    <3> DEFINE ms == Minute * s
    <3> DEFINE due == Minute * Burst + PerMinute * (now - from)
    <3>1. /\ mn \in Nat /\ mo \in Nat /\ ms \in Nat /\ due \in Nat
          /\ mn <= mo + ms
          /\ mo + Refilled(limiter, now) <= due
          /\ ms + Refilled(limiter', now) <= Refilled(limiter, now)
      BY <2>7, <2>8, <2>9, <2>10
    <3> HIDE DEF mn, mo, ms, due
    <3>2. mn + Refilled(limiter', now) <= due
      BY <1>5, <3>1
    <3>3. QED
      BY <3>2 DEF mn, due
  <2>12. QED
    BY <2>4, <2>11 DEF n, new
<1>7. ASSUME NEW from \in 0 .. now, NEW until \in 0 .. now, from <= until
      PROVE  Minute * Cardinality(Within(grantedAt', from, until))
                <= Minute * Burst + PerMinute * (until - from)
  <2> DEFINE due == Minute * Burst + PerMinute * (until - from)
  <2>1. CASE until = now
    <3> DEFINE mn == Minute * Cardinality(Within(grantedAt', from, until))
    <3>1. mn + Refilled(limiter', now) <= due /\ mn \in Nat
      BY <1>6, <2>1, LimiterAssumption
    <3>2. due \in Nat
      BY <1>1, <1>5, <2>1, LimiterAssumption
    <3> HIDE DEF mn, due
    <3>3. mn <= due
      BY <1>5, <3>1, <3>2
    <3>4. QED
      BY <3>3 DEF mn, due
  <2>2. CASE until # now
    <3> DEFINE old == GrantedBetween(from, until)
    <3> DEFINE new == Within(grantedAt', from, until)
    <3>1. IsFiniteSet(old) /\ Cardinality(old) \in Nat
      BY GrantsAreCounted
    <3>2. new \in SUBSET old
      BY <1>1, <1>4, <2>2
    <3>3. Minute * Cardinality(old) <= due
      BY <1>7 DEF Rated, RateBound
    <3> HIDE DEF old, new
    <3>4. Cardinality(new) \in Nat /\ Cardinality(new) <= Cardinality(old)
      BY <3>1, <3>2, FS_Subset, FS_CardinalityType
    <3>5. Minute * Cardinality(new) <= Minute * Cardinality(old)
      BY <3>1, <3>4, LimiterAssumption
    <3>6. /\ Minute * Cardinality(new) \in Nat /\ Minute * Cardinality(old) \in Nat
          /\ due \in Nat
      <4>1. until - from \in Nat
        BY <1>1, <1>7
      <4>2. QED
        BY <1>5, <3>1, <3>4, <4>1, LimiterAssumption
    <3> HIDE DEF due
    <3>7. Minute * Cardinality(new) <= due
      BY <3>3, <3>5, <3>6
    <3>8. QED
      BY <3>7 DEF new, due
  <2>3. QED
    BY <2>1, <2>2
<1>8. RateBound'
  BY <1>7 DEF RateBound, Within, GrantedBetween
<1>9. IsFiniteSet(GrantedBetween(0, now)')
  BY <1>1, <1>6 DEF Within, GrantedBetween
<1>10. \A from \in 0 .. now :
          Minute * Cardinality(GrantedBetween(from, now)') + Refilled(limiter', now)
             <= Minute * Burst + PerMinute * (now - from)
  BY <1>6 DEF Within, GrantedBetween
<1>11. QED
  BY <1>1, <1>3, <1>8, <1>9, <1>10 DEF Rated, GrantedBetween

\* A step of the history is a step of the budget.
LEMMA TraceIsBudget ==
    ASSUME [TraceNext]_traceVars
    PROVE  [Next]_vars
  BY DEF TraceNext, traceVars, Next, vars, RequestStep, Answer

LEMMA RatedNext == Rated /\ [TraceNext]_traceVars => Rated'
<1> SUFFICES ASSUME Rated, [TraceNext]_traceVars PROVE Rated'
  OBVIOUS
<1>1. Timed /\ [Next]_vars
  BY TraceIsBudget DEF Rated
<1>2. InTime
  BY <1>1, InTimeStep
<1>3. CASE Tick /\ Record
  <2>1. Served = {}
    BY <1>3 DEF Tick, Served
  <2>2. grantedAt' = grantedAt
    BY <1>3, <2>1 DEF Record, Rated, Served
  <2>3. QED
    BY <1>2, <1>3, <2>2, RatedTick DEF InTime
<1>4. CASE TraceNext /\ ~Tick
  <2>1. Record /\ now' = now
    <3>1. ASSUME NEW r \in Requests, NEW learned, Settle(r, learned)
          PROVE  now' = now
      BY <3>1 DEF Settle
    <3>2. QED
      BY <1>4, <3>1
      DEF TraceNext, Start, Wake, Enqueue, Reject, Send, AnswerWell, AnswerPushback,
          Abort, TimerFires, Snapshot
  <2>2. QED
    BY <1>2, <2>1, RatedStep
<1>5. CASE UNCHANGED traceVars
  <2>1. Record /\ now' = now
    BY <1>5 DEF traceVars, Record, Rated
  <2>2. QED
    BY <1>2, <2>1, RatedStep
<1>6. QED
  BY <1>3, <1>4, <1>5 DEF TraceNext

\* In no stretch of time are more requests let go than a full bucket and the
\* rate pay for, whatever burst of callers, answers and cancellations there is
\* (limiter.ts, refill and pump).
THEOREM RateIsBounded == TraceSpec => []RateBound
<1>1. Rated => RateBound
  BY DEF Rated
<1>2. QED
  BY <1>1, RatedInit, RatedNext, PTL DEF TraceSpec

(*************************************************************************)
(* Retry-After.  The limiter's hold remembers it when the breaker, which *)
(* forgets a pause when it opens, does not.                              *)
(*************************************************************************)
Remembered == Timed /\ pauseUntil \in Nat /\ pauseUntil <= limiter.holdUntil

LEMMA HoldOnlyGrows ==
    ASSUME Timed, InTime
    PROVE  /\ limiter.holdUntil \in Nat /\ limiter'.holdUntil \in Nat
           /\ limiter'.holdUntil >= limiter.holdUntil
           /\ Served # {} => now >= limiter'.holdUntil
<1>1. /\ limiter \in Limiters(Requests) /\ limiter' \in Limiters(Requests)
      /\ now \in Nat /\ limiter.refilledAt <= now
  BY DEF Timed, Balanced, TypeOK, InTime
<1>2. limiter.holdUntil \in Nat /\ limiter'.holdUntil \in Nat
  BY <1>1 DEF Limiters
<1>3. ASSUME NEW l \in Limiters(Requests), Fills(l, limiter), NoTwice(l.queue),
             limiter' = Pump(l, now),
             Served \subseteq Waiting(l) \ Waiting(limiter')
      PROVE  /\ limiter'.holdUntil >= limiter.holdUntil
             /\ Served # {} => now >= limiter'.holdUntil
  <2>1. l.refilledAt <= now /\ l.holdUntil >= limiter.holdUntil
    BY <1>1, <1>3 DEF Fills
  <2>2. limiter'.holdUntil = l.holdUntil
    BY <1>1, <1>3, <2>1, PumpArms DEF Limiters
  <2>3. Served # {} => Waiting(Pump(l, now)) # Waiting(l)
    BY <1>3
  <2>4. QED
    BY <1>1, <2>1, <2>2, <2>3, PumpServesInTime DEF Limiters
<1>4. QED
  BY <1>2, <1>3 DEF InTime, OnePump

\* The breaker pauses at least as long as the portal asked, if it stays closed.
LEMMA HintIsPause ==
    ASSUME NEW b \in Breakers, NEW t \in Nat, NEW r \in Requests, NEW p,
           NEW hint \in Nat,
           Looked(Pushback(b, t, r, p, hint), t).current = "closed"
    PROVE  Looked(Pushback(b, t, r, p, hint), t).pausedUntil >= t + Clamped(hint)
<1> DEFINE h == Clamped(hint)
<1> DEFINE s == Looked(b, t)
<1> DEFINE q == Pushback(b, t, r, p, hint)
<1>1. s \in Breakers
  BY LookedType
<1>2. h \in Nat /\ h # NoHint
  BY BreakerAssumption DEF Clamped, Least, Greatest, NoHint
<1>3. q \in Breakers
  BY PushbackType
<1>4. q.current = "closed" /\ Looked(q, t).pausedUntil = q.pausedUntil
  BY <1>3 DEF Looked, Breakers
<1> HIDE DEF h, s
<1>5. q = CountedPushback(s, t, r, h)
  <2>1. CASE p
    BY <1>4, <2>1 DEF Pushback, ProbePushback, Open, Breakers
  <2>2. CASE ~p /\ s.current # "closed"
    <3>1. q = StalePushback(s, t, h)
      BY <2>2 DEF Pushback, h, s
    <3>2. q.current = s.current
      BY <1>1, <3>1 DEF StalePushback, Breakers
    <3>3. QED
      BY <1>4, <2>2, <3>2
  <2>3. CASE ~p /\ s.current = "closed"
    BY <2>3 DEF Pushback, h, s
  <2>4. QED
    BY <2>1, <2>2, <2>3
<1> HIDE DEF q
<1>6. q.pausedUntil = Greatest(s.pausedUntil, t + h)
  BY <1>1, <1>2, <1>4, <1>5 DEF CountedPushback, Open, Breakers
<1>7. q.pausedUntil >= t + h
  BY <1>1, <1>2, <1>6 DEF Greatest, Breakers
<1>8. QED
  BY <1>4, <1>7 DEF h, q

LEMMA RememberedInit == TraceInit => Remembered
  BY TimedInit DEF TraceInit, Remembered, Init, NewLimiter

LEMMA RememberedNext ==
    Remembered /\ [TraceNext]_traceVars => Remembered' /\ RetryAfterHonoured
<1> SUFFICES ASSUME Remembered, [TraceNext]_traceVars
             PROVE  Remembered' /\ RetryAfterHonoured
  OBVIOUS
<1>1. InTime /\ Timed
  BY TraceIsBudget, InTimeStep DEF Remembered
<1>2. /\ limiter.holdUntil \in Nat /\ limiter'.holdUntil \in Nat
      /\ limiter'.holdUntil >= limiter.holdUntil
      /\ Served # {} => now >= limiter'.holdUntil
      /\ now \in Nat
  BY <1>1, HoldOnlyGrows DEF Timed, Balanced, TypeOK
<1>3. RetryAfterHonoured
  <2>1. \A r \in Requests : grantedAt'[r] # grantedAt[r] => r \in Served
    BY DEF TraceNext, traceVars, Record, Served
  <2>2. QED
    BY <1>2, <2>1 DEF RetryAfterHonoured, Remembered
<1>4. CASE UNCHANGED pauseUntil
  BY <1>1, <1>2, <1>3, <1>4 DEF Remembered, InTime
<1>5. ASSUME NEW r \in Requests, NEW hint \in Hints \cup {NoHint},
             AnswerPushback(r, hint), Note(hint)
      PROVE  Remembered'
  <2> DEFINE until == IF hint = NoHint \/ breaker'.current # "closed" THEN 0
                      ELSE now + Clamped(hint)
  <2>1. pauseUntil' = Greatest(pauseUntil, until)
    BY <1>5 DEF Note
  <2>2. until \in Nat /\ until <= limiter'.holdUntil
    <3>1. CASE hint = NoHint \/ breaker'.current # "closed"
      BY <1>2, <3>1
    <3>2. CASE hint # NoHint /\ breaker'.current = "closed"
      <4>1. hint \in Nat /\ breaker \in Breakers
        BY <1>1, <3>2, BudgetAssumption DEF Timed, Balanced, TypeOK
      <4>2. breaker' = Looked(Pushback(breaker, now, r, r \in probes, hint), now)
        BY <1>5 DEF AnswerPushback, Settle
      <4>3. breaker'.pausedUntil >= now + Clamped(hint)
        BY <1>2, <3>2, <4>1, <4>2, HintIsPause
      <4>4. breaker'.pausedUntil <= limiter'.holdUntil /\ breaker'.pausedUntil \in Nat
        BY <1>1 DEF InTime, Timed, Balanced, TypeOK, Breakers
      <4>5. Clamped(hint) \in Nat
        BY <4>1, BreakerAssumption DEF Clamped, Least, Greatest, NoHint
      <4>6. QED
        BY <1>2, <3>2, <4>3, <4>4, <4>5
    <3>3. QED
      BY <3>1, <3>2
  <2> HIDE DEF until
  <2>3. pauseUntil \in Nat /\ pauseUntil <= limiter'.holdUntil
    BY <1>2 DEF Remembered
  <2>4. pauseUntil' \in Nat /\ pauseUntil' <= limiter'.holdUntil
    BY <2>1, <2>2, <2>3 DEF Greatest
  <2>5. QED
    BY <1>1, <2>4 DEF Remembered, InTime
<1>6. CASE UNCHANGED traceVars
  BY <1>4, <1>6 DEF traceVars
<1>7. CASE TraceNext
  BY <1>3, <1>4, <1>5, <1>7 DEF TraceNext
<1>8. QED
  BY <1>3, <1>6, <1>7

\* Once the portal has asked to be left alone nothing is let go before that
\* time, also after the breaker has opened, forgotten its pause and closed
\* again (breaker.ts, limiter.ts hold).
THEOREM RetryAfterBinds == TraceSpec => [][RetryAfterHonoured]_traceVars
  BY RememberedInit, RememberedNext, PTL DEF TraceSpec

=============================================================================
