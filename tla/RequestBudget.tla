--------------------------- MODULE RequestBudget ---------------------------
(**************************************************************************)
(* PortalBudget (core/budget/budget.ts): every request a process sends to *)
(* the school portal passes run(), which is Start (the breaker), Enqueue  *)
(* (the limiter), Send and Answer (settle).  JavaScript runs one callback *)
(* at a time, so an action is the code between two awaits; whatever else  *)
(* is ready may run in between.                                           *)
(**************************************************************************)
EXTENDS Breaker, Limiter

CONSTANTS
    Writes,       \* requests that change data at the portal
    Background,   \* requests of keepalive
    Hints,        \* the Retry-After values the portal may answer with
    MaxTime       \* bound: the clock idles up to here and no request starts later

ASSUME BudgetAssumption ==
    /\ Writes \subseteq Requests
    /\ Background \subseteq Requests \ Writes
    /\ Hints \subseteq Nat
    /\ MaxTime \in Nat

VARIABLES
    now,       \* the injected clock
    breaker,
    limiter,
    pc,        \* where each request is in run()
    probes,    \* requests whose local variable "probe" is true
    wakeAt,    \* the timer of a request that waits out a pause (0: none)
    aborted    \* requests whose caller has cancelled

vars == <<now, breaker, limiter, pc, probes, wakeAt, aborted>>

Kind(r) == CASE r \in Writes -> "write"
             [] r \in Background -> "background"
             [] OTHER -> "read"

Places == {"new", "sleeping", "admitted", "queued", "granted", "sent",
           "rejected", "answered", "unsent"}

\* A request ends with the portal's answer, or unsent.
Finished == {"answered", "unsent"}

TypeOK ==
    /\ now \in Nat
    /\ breaker \in Breakers
    /\ limiter \in Limiters(Requests)
    /\ pc \in [Requests -> Places]
    /\ probes \subseteq Requests
    /\ wakeAt \in [Requests -> Nat]
    /\ aborted \subseteq Requests

Init ==
    /\ now = 0
    /\ breaker = NewBreaker
    /\ limiter = NewLimiter
    /\ pc = [r \in Requests |-> "new"]
    /\ probes = {}
    /\ wakeAt = [r \in Requests |-> 0]
    /\ aborted = {}

Goto(r, place) == pc' = [pc EXCEPT ![r] = place]

\* The waiters a call to the limiter granted resume in "granted"; those a
\* flush failed resume in "rejected".
Resume(before, after, place) ==
    [r \in Requests |->
        IF r \in Waiting(before) /\ r \notin Waiting(after)
          THEN place ELSE pc[r]]

-----------------------------------------------------------------------------
(* One request. *)

\* One turn of the loop in admit().
Admit(r) ==
    LET b == Looked(breaker, now)
    IN  \/ /\ r \in aborted
           /\ Goto(r, "unsent")
           /\ wakeAt' = [wakeAt EXCEPT ![r] = 0]
           /\ UNCHANGED <<breaker, probes>>
        \/ /\ r \notin aborted
           /\ Refuses(b, now, Kind(r))
           /\ Goto(r, "unsent")
           /\ breaker' = b
           /\ wakeAt' = [wakeAt EXCEPT ![r] = 0]
           /\ UNCHANGED probes
        \/ /\ r \notin aborted
           /\ MakesWait(b, now, Kind(r))
           /\ Goto(r, "sleeping")
           /\ breaker' = b
           /\ wakeAt' = [wakeAt EXCEPT ![r] = b.pausedUntil]
           /\ UNCHANGED probes
        \/ /\ r \notin aborted
           /\ LetsGo(b, now, Kind(r))
           /\ Goto(r, "admitted")
           /\ breaker' = Admitted(b)
           /\ probes' = IF b.current = "half_open" THEN probes \cup {r}
                                                   ELSE probes
           /\ wakeAt' = [wakeAt EXCEPT ![r] = 0]

Start(r) ==
    /\ pc[r] = "new"
    /\ now <= MaxTime
    /\ Admit(r)
    /\ UNCHANGED <<now, limiter, aborted>>

Wake(r) ==
    /\ pc[r] = "sleeping"
    /\ now >= wakeAt[r]
    /\ Admit(r)
    /\ UNCHANGED <<now, limiter, aborted>>

\* acquire(): the await of admit() is over.
Enqueue(r) ==
    /\ pc[r] = "admitted"
    /\ IF r \in aborted
         THEN /\ Goto(r, "rejected")
              /\ UNCHANGED limiter
         ELSE /\ limiter' = Acquire(limiter, now, r)
              /\ pc' = [q \in Requests |->
                          IF q \in Waiting(limiter') THEN "queued"
                          ELSE IF q = r \/ q \in Waiting(limiter) THEN "granted"
                          ELSE pc[q]]
    /\ UNCHANGED <<now, breaker, probes, wakeAt, aborted>>

\* acquire() rejected: cancelled while queued, or flushed.
Reject(r) ==
    /\ pc[r] = "rejected"
    /\ breaker' = Abandon(breaker, r \in probes)
    /\ probes' = probes \ {r}
    /\ Goto(r, "unsent")
    /\ UNCHANGED <<now, limiter, wakeAt, aborted>>

Send(r) ==
    /\ pc[r] = "granted"
    /\ Goto(r, "sent")
    /\ UNCHANGED <<now, breaker, limiter, probes, wakeAt, aborted>>

\* settle(): what the answer taught the breaker, told to the queue.
Settle(r, learned) ==
    LET b == Looked(learned, now)
    IN  /\ breaker' = b
        /\ probes' = probes \ {r}
        /\ \/ /\ b.current = "open"
              /\ limiter' = FlushAndRelease(limiter, now)
              /\ pc' = [Resume(limiter, limiter', "rejected")
                          EXCEPT ![r] = "answered"]
           \/ /\ b.current # "open"
              /\ limiter' = HoldAndRelease(limiter, now, FlowsAgainAt(b, now))
              /\ pc' = [Resume(limiter, limiter', "granted")
                          EXCEPT ![r] = "answered"]
        /\ UNCHANGED <<now, wakeAt, aborted>>

\* The portal answered something that is not push-back.
AnswerWell(r) ==
    /\ pc[r] = "sent"
    /\ Settle(r, Success(breaker, r \in probes))

\* A 429 or a 5xx with or without Retry-After, or a network failure.
AnswerPushback(r, hint) ==
    /\ pc[r] = "sent"
    /\ Settle(r, Pushback(breaker, now, r, r \in probes, hint))

\* The caller cancels.  The listener of a request that waits runs at once; any
\* other place looks at the signal later, and from "granted" on nobody does.
Abort(r) ==
    /\ pc[r] \in {"new", "sleeping", "admitted", "queued"}
    /\ r \notin aborted
    /\ aborted' = aborted \cup {r}
    /\ CASE pc[r] = "sleeping" ->
              /\ Goto(r, "unsent")
              /\ wakeAt' = [wakeAt EXCEPT ![r] = 0]
              /\ UNCHANGED limiter
         [] pc[r] = "queued" ->
              /\ limiter' = Withdraw(limiter, now, r)
              /\ pc' = [Resume(limiter, limiter', "granted")
                          EXCEPT ![r] = "rejected"]
              /\ UNCHANGED wakeAt
         [] OTHER -> UNCHANGED <<pc, limiter, wakeAt>>
    /\ UNCHANGED <<now, breaker, probes>>

-----------------------------------------------------------------------------
(* The process around the requests. *)

TimerFires ==
    /\ limiter.timer # NoTimer
    /\ now >= limiter.timer
    /\ limiter' = Pump(limiter, now)
    /\ pc' = Resume(limiter, limiter', "granted")
    /\ UNCHANGED <<now, breaker, probes, wakeAt, aborted>>

\* snapshot(): a status report or keepalive's gate looks at the breaker.
Snapshot ==
    /\ breaker' = Looked(breaker, now)
    /\ breaker' # breaker
    /\ UNCHANGED <<now, limiter, pc, probes, wakeAt, aborted>>

Deadlines == {wakeAt[r] : r \in {q \in Requests : pc[q] = "sleeping"}}
                \cup ({limiter.timer} \ {NoTimer})

\* Timers may be late up to MaxTime; after it the clock moves only for a
\* timer that is still to come.
Tick ==
    /\ \/ now < MaxTime
       \/ Deadlines # {} /\ \A d \in Deadlines : d > now
    /\ now' = now + 1
    /\ UNCHANGED <<breaker, limiter, pc, probes, wakeAt, aborted>>

Answer(r) ==
    AnswerWell(r) \/ \E hint \in Hints \cup {NoHint} : AnswerPushback(r, hint)

RequestStep(r) ==
    \/ Start(r) \/ Wake(r) \/ Enqueue(r) \/ Reject(r) \/ Send(r)
    \/ Answer(r) \/ Abort(r)

Next ==
    \/ \E r \in Requests : RequestStep(r)
    \/ TimerFires
    \/ Snapshot
    \/ Tick

Spec == Init /\ [][Next]_vars

\* The event loop keeps running what is ready, timers fire, time passes, and
\* the portal (or the transport's timeout) answers what was sent.  A request
\* takes finitely many steps, so fairness to all of them together is enough.
Progress ==
    \E r \in Requests :
        Wake(r) \/ Enqueue(r) \/ Reject(r) \/ Send(r) \/ Answer(r)

Fairness == WF_vars(Progress) /\ WF_vars(TimerFires) /\ WF_vars(Tick)

FairSpec == Spec /\ Fairness

-----------------------------------------------------------------------------
(* What the budget promises. *)

InFlight == {r \in Requests : pc[r] \in {"granted", "sent"}}

\* While the breaker is half open at most one request is under way as the
\* probe, it is a user's read, and the breaker's flag says so: a flag left
\* behind by a probe that was cancelled would lock the portal out for good.
OneProbe ==
    /\ breaker.probing <=> probes # {}
    /\ probes # {} => breaker.current = "half_open"
    /\ \A r, q \in probes : r = q
    /\ \A r \in probes : /\ Kind(r) = "read"
                         /\ pc[r] \in Places \ ({"new", "sleeping"} \cup Finished)

\* The limiter's books agree with the requests: every slot belongs to one
\* request that may be at the portal, every place in the queue to one that
\* waits, so no path through run() leaks or returns a slot twice.
SlotsAccounted ==
    /\ limiter.inFlight = Cardinality(InFlight)
    /\ Waiting(limiter) = {r \in Requests : pc[r] = "queued"}
    /\ Len(limiter.queue) = Cardinality(Waiting(limiter))

\* No lost wake-up: while a slot is free and somebody waits, a timer is armed
\* that does not outlast what blocks the queue, and every time it fires
\* somebody is granted.
NoLostWakeup ==
    limiter.queue # <<>> /\ limiter.inFlight < MaxInFlight
        => limiter.timer # NoTimer

TimerNeverFiresInVain == TimerFires => Waiting(limiter') # Waiting(limiter)

\* The breaker's pause reaches the limiter before anything else runs: nothing
\* gets a slot while the breaker pauses after push-back.
PauseHonoured ==
    \A r \in Requests :
        pc[r] # "granted" /\ pc'[r] = "granted" => now >= breaker'.pausedUntil

\* When the breaker opens nothing is left queued, and a breaker that is closed
\* again starts from its first cool-down.
OpeningEmptiesQueue ==
    breaker.current # "open" /\ breaker'.current = "open" => limiter'.queue = <<>>

ClosedMeansFreshCoolDown ==
    breaker.current = "closed" => breaker.coolDownMs = CoolDown

\* A request cancelled before it was granted is never sent.
CancelledNeverSent ==
    \A r \in aborted :
        pc[r] \notin {"granted", "sent"} => pc'[r] \notin {"granted", "sent"}

\* A slot is handed out only when it may be: no timer fires for nothing, none
\* is granted in a pause or to a cancelled request, none waits at an open gate
\* (limiter.ts, budget.ts).
SlotsGoOutInTime ==
    [][TimerNeverFiresInVain /\ PauseHonoured /\ OpeningEmptiesQueue
         /\ CancelledNeverSent]_vars

\* Every request that was started ends, with an answer or unsent, whatever
\* the portal answers and whoever cancels.
UnderWay(r) == pc[r] \notin {"new"} \cup Finished

\* The budget implements its abstract promise.
FateOf(place) ==
    CASE place \in {"new", "sent"} \cup Finished -> place
      [] OTHER -> "waiting"

Gate == INSTANCE PortalGate WITH
            MayProbe <- Requests \ (Writes \cup Background),
            gate <- breaker.current,
            prober <- probes,
            fate <- [r \in Requests |-> FateOf(pc[r])]

\* Only an answer opens or closes the gate, behind an open one at most one
\* user's read is under way as the probe, and a request is sent once or not
\* at all: PortalGate, implemented by the breaker, the limiter and run().
ImplementsGate == Gate!Spec
=============================================================================
