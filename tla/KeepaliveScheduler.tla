------------------------ MODULE KeepaliveScheduler ------------------------
(***************************************************************************)
(* The keepalive of a long-lived process: KeepaliveScheduler               *)
(* (core/keepalive/scheduler.ts) with the tasks and the session events of  *)
(* createKeepalive() (core/wiring.ts).                                     *)
(*                                                                         *)
(* A job is a pending timer and then the run it starts.  A slot remembers  *)
(* the handle of the timer it set last.  `stale' stands for the comparison *)
(* of generations: a job is stale once its slot was halted after the job   *)
(* was armed.  Time is counted in multiples of the shortest delay.         *)
(***************************************************************************)
EXTENDS Integers, FiniteSets

CONSTANTS
    Tasks,        \* configured tasks: "app", "web"
    Jobs,         \* bound: timers and runs alive at once
    NoJob,        \* no handle
    Interval,     \* the pause between two runs of each task
    FirstDelay,   \* the pause before its first run
    MaxBackoff,   \* the longest pause after failures
    Wanted,       \* pauses a renewal may ask for: until the lead time of the
                  \* access token begins, which may be past
    PortalPauses, \* how long push-back may last
    MaxFailures,  \* bound: transient failures in a row
    MaxEvents     \* bound: logins, web logins and logouts

ASSUME KeepaliveAssumption ==
    /\ Tasks \subseteq {"app", "web"}
    /\ IsFiniteSet(Jobs) /\ NoJob \notin Jobs
    /\ Interval \in [Tasks -> Nat \ {0}]
    /\ FirstDelay \in Nat \ {0}
    /\ MaxBackoff \in Nat \ {0}
    /\ Wanted \subseteq Int
    /\ PortalPauses \subseteq Nat
    /\ MaxFailures \in Nat
    \* the prover knows no exponentiation
    /\ \A n \in 1 .. MaxFailures : 2 ^ n \in Nat \ {0}
    /\ MaxEvents \in Nat

VARIABLES
    slot,     \* per task: its state, timer handle and failures in a row
    job,      \* per job: what it is and to which task it belongs
    quiet,    \* it is a quiet hour
    pushing,  \* the budget says the portal is pushing back
    pause,    \* how long that is to last; at 0 it waits for a user's request
    since,    \* per task: time since its last run started, up to MinDelay
    events    \* events so far

vars == <<slot, job, quiet, pushing, pause, since, events>>

MinDelay == 1   \* MIN_DELAY_MS is the unit of time

Larger(a, b) == IF a >= b THEN a ELSE b
Smaller(a, b) == IF a <= b THEN a ELSE b

Free == [at |-> "free", task |-> "none", wait |-> 0, stale |-> FALSE]

TypeOK ==
    /\ slot \in [Tasks -> [state: {"scheduled", "stopped"},
                           handle: Jobs \cup {NoJob}, failures: Nat]]
    /\ job \in [Jobs -> [at: {"free", "armed", "running"},
                         task: Tasks \cup {"none"}, wait: Nat, stale: BOOLEAN]]
    /\ quiet \in BOOLEAN
    /\ pushing \in BOOLEAN
    /\ pause \in Nat
    /\ since \in [Tasks -> 0 .. MinDelay]
    /\ events \in Nat

-----------------------------------------------------------------------------
(* Timers. *)

\* Wrong: a task may ask for a run at once.
DelayUnbounded(wanted) ==
    {wanted - early : early \in 0 .. Larger(0, wanted) \div 10}

\* arm() runs up to a tenth early, and never sooner than the shortest delay.
Delay(wanted) ==
    {Larger(MinDelay, wanted - early) : early \in 0 .. Larger(0, wanted) \div 10}

Armed(t, wait) == [at |-> "armed", task |-> t, wait |-> wait, stale |-> FALSE]

\* Wrong: the timer stays.
HaltedKeepingTimer(halting) ==
    [j \in Jobs |-> IF job[j].task \in halting THEN [job[j] EXCEPT !.stale = TRUE]
                                               ELSE job[j]]

\* What halt() leaves of the jobs: it clears the timer in the handle and makes
\* runs under way stale.
Halted(halting) ==
    [j \in Jobs |->
        IF job[j].task \notin halting THEN job[j]
        ELSE IF slot[job[j].task].handle = j THEN Free
        ELSE [job[j] EXCEPT !.stale = TRUE]]

Stopped(s) == [s EXCEPT !.state = "stopped", !.handle = NoJob]

\* resume()
Resume(t) ==
    \E j \in Jobs, wait \in Delay(FirstDelay) :
        /\ Halted({t})[j].at = "free"
        /\ job' = [Halted({t}) EXCEPT ![j] = Armed(t, wait)]
        /\ slot' = [slot EXCEPT ![t] =
                      [state |-> "scheduled", handle |-> j, failures |-> 0]]

\* The job arms the next one, which takes its place here.
Rearm(j, wanted, failures) ==
    LET t == job[j].task IN
    \E wait \in Delay(wanted) :
        /\ job' = [job EXCEPT ![j] = Armed(t, wait)]
        /\ slot' = [slot EXCEPT ![t].handle = j, ![t].failures = failures]

-----------------------------------------------------------------------------
(* The host starts the scheduler; session events resume and stop it. *)

Init ==
    /\ \E first \in [Tasks -> Jobs] :
         /\ \A t, u \in Tasks : first[t] = first[u] => t = u
         /\ slot = [t \in Tasks |->
                      [state |-> "scheduled", handle |-> first[t], failures |-> 0]]
         /\ \E wait \in [Tasks -> Delay(FirstDelay)] :
              job = [j \in Jobs |->
                       IF \E t \in Tasks : first[t] = j
                       THEN LET t == CHOOSE t \in Tasks : first[t] = j
                            IN  Armed(t, wait[t])
                       ELSE Free]
    /\ quiet = FALSE
    /\ pushing = FALSE
    /\ pause = 0
    /\ since = [t \in Tasks |-> MinDelay]
    /\ events = 0

Event ==
    /\ events < MaxEvents
    /\ events' = events + 1
    /\ UNCHANGED <<quiet, pushing, pause, since>>

Login == "app" \in Tasks /\ Event /\ Resume("app")

WebLogin == "web" \in Tasks /\ Event /\ Resume("web")

Logout ==
    /\ Event
    /\ job' = Halted(Tasks)
    /\ slot' = [t \in Tasks |-> Stopped(slot[t])]

-----------------------------------------------------------------------------
(* fire() *)

Due(j) == job[j].at = "armed" /\ job[j].wait <= 0

\* No request at night.
SkipQuiet(j) ==
    /\ Due(j)
    /\ quiet
    /\ Rearm(j, Interval[job[j].task], slot[job[j].task].failures)
    /\ UNCHANGED <<quiet, pushing, pause, since, events>>

\* Wrong: a skipped run is the last one.
SkipPausedForGood(j) ==
    /\ Due(j)
    /\ ~quiet /\ pushing
    /\ slot' = [slot EXCEPT ![job[j].task].handle = NoJob]
    /\ job' = [job EXCEPT ![j] = Free]
    /\ UNCHANGED <<quiet, pushing, pause, since, events>>

\* None while the portal is pushing back.
SkipPaused(j) ==
    /\ Due(j)
    /\ ~quiet /\ pushing
    /\ Rearm(j, Larger(Interval[job[j].task], pause), slot[job[j].task].failures)
    /\ UNCHANGED <<quiet, pushing, pause, since, events>>

StartRun(j) ==
    /\ Due(j)
    /\ ~quiet /\ ~pushing
    /\ job' = [job EXCEPT ![j].at = "running"]
    /\ slot' = [slot EXCEPT ![job[j].task].handle = NoJob]
    /\ since' = [since EXCEPT ![job[j].task] = 0]
    /\ UNCHANGED <<quiet, pushing, pause, events>>

\* The slot was stopped or restarted while the task was running: no timer.
Discard(j) == job' = [job EXCEPT ![j] = Free]

\* The failures in a row end, also those of a run that took the place of a
\* stale one.
RunSucceeds(j) ==
    /\ job[j].at = "running"
    /\ LET t == job[j].task IN
       IF job[j].stale
         THEN Discard(j) /\ slot' = [slot EXCEPT ![t].failures = 0]
         ELSE \E wanted \in Wanted \cup {Interval[t]} :
                /\ t = "web" => wanted = Interval[t]
                /\ Rearm(j, wanted, 0)
    /\ UNCHANGED <<quiet, pushing, pause, since, events>>

\* Wrong: the pause does not grow from the task's own interval.
RunFailsBackingOffFromMin(j) ==
    /\ job[j].at = "running"
    /\ LET t == job[j].task
           failures == slot[t].failures + 1
       IN  IF job[j].stale
             THEN Discard(j) /\ UNCHANGED slot
             ELSE /\ failures <= MaxFailures
                  /\ Rearm(j, Smaller(MaxBackoff, MinDelay * 2 ^ failures), failures)
    /\ UNCHANGED <<quiet, pushing, pause, since, events>>

RunFailsTransiently(j) ==
    /\ job[j].at = "running"
    /\ LET t == job[j].task
           failures == slot[t].failures + 1
       IN  IF job[j].stale
             THEN Discard(j) /\ UNCHANGED slot
             ELSE /\ failures <= MaxFailures
                  /\ Rearm(j, Smaller(MaxBackoff, Interval[t] * 2 ^ failures), failures)
    /\ UNCHANGED <<quiet, pushing, pause, since, events>>

\* The session is gone, or a bug: only an event starts the task again.
RunFailsForGood(j) ==
    /\ job[j].at = "running"
    /\ Discard(j)
    /\ slot' = IF job[j].stale THEN slot
               ELSE [slot EXCEPT ![job[j].task] = Stopped(@)]
    /\ UNCHANGED <<quiet, pushing, pause, since, events>>

-----------------------------------------------------------------------------
(* The clock, the time of day and the budget. *)

Tick ==
    /\ pause > 0 \/ \E j \in Jobs : job[j].wait > 0
    /\ job' = [j \in Jobs |-> [job[j] EXCEPT !.wait = Larger(0, @ - 1)]]
    /\ pause' = Larger(0, pause - 1)
    /\ since' = [t \in Tasks |-> Smaller(MinDelay, since[t] + 1)]
    /\ UNCHANGED <<slot, quiet, pushing, events>>

DayAndNight ==
    /\ quiet' = ~quiet
    /\ UNCHANGED <<slot, job, pushing, pause, since, events>>

Pushback ==
    /\ ~pushing /\ pushing' = TRUE
    /\ pause' \in PortalPauses
    /\ UNCHANGED <<slot, job, quiet, since, events>>

\* The pause is over, and if the breaker was open, a user's request closed it.
Recovered ==
    /\ pushing /\ pause = 0
    /\ pushing' = FALSE
    /\ UNCHANGED <<slot, job, quiet, pause, since, events>>

Fire(j) == SkipQuiet(j) \/ SkipPaused(j) \/ StartRun(j)

RunEnds(j) == RunSucceeds(j) \/ RunFailsTransiently(j) \/ RunFailsForGood(j)

Next ==
    \/ \E j \in Jobs : Fire(j) \/ RunEnds(j)
    \/ Login \/ WebLogin \/ Logout
    \/ Tick \/ DayAndNight \/ Pushback \/ Recovered

Spec == Init /\ [][Next]_vars

\* Time passes, due timers fire and every request is answered or times out.
Fairness ==
    /\ WF_vars(Tick)
    /\ \A j \in Jobs : WF_vars(Fire(j)) /\ WF_vars(RunEnds(j))

FairSpec == Spec /\ Fairness

-----------------------------------------------------------------------------
(* Properties. *)

\* A scheduled task has exactly one life: the timer its slot can clear, or the
\* run that will arm the next one.  A stopped task has none.  Without the
\* first a task silently dies or doubles, without the second a logout would
\* not end it.
OneLife ==
    \A t \in Tasks :
        LET lives == {j \in Jobs : job[j].task = t /\ ~job[j].stale}
            timers == {j \in Jobs : job[j].task = t /\ job[j].at = "armed"}
        IN  /\ timers \subseteq {slot[t].handle}
            /\ IF slot[t].state = "stopped" THEN lives = {}
               ELSE \E j \in Jobs :
                      lives = {j} /\ (job[j].at = "armed" => slot[t].handle = j)

\* Two runs of a task never start within the shortest delay, whatever the runs
\* ask for, fail with, and however often the user logs in and out.
Spaced ==
    [][\A j \in Jobs : job[j].at = "armed" /\ job'[j].at = "running"
         => since[job[j].task] = MinDelay]_vars

\* A transient failure makes the task slower, not faster: the next pause is no
\* shorter than the ordinary one, jitter aside.
BacksOff ==
    [][\A t \in Tasks : slot'[t].failures > slot[t].failures
         => 10 * job'[slot'[t].handle].wait >= 9 * Interval[t]]_vars

\* When the nights and the push-back are over, a scheduled task runs, unless
\* it is stopped.
KeepsAlive ==
    <>[](~quiet /\ ~pushing) =>
        \A t \in Tasks :
            slot[t].state = "scheduled" ~>
                \/ \E j \in Jobs : job[j].task = t /\ job[j].at = "running"
                \/ slot[t].state = "stopped"

=============================================================================
