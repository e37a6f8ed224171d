-------------------------- MODULE KeepaliveProofs --------------------------
(*************************************************************************)
(* Proofs about KeepaliveScheduler, for every choice of tasks, intervals *)
(* and back-off.                                                         *)
(*************************************************************************)
EXTENDS KeepaliveScheduler, TLAPS

SlotRecords ==
    [state: {"scheduled", "stopped"}, handle: Jobs \cup {NoJob}, failures: Nat]
JobRecords ==
    [at: {"free", "armed", "running"}, task: Tasks \cup {"none"}, wait: Nat,
     stale: BOOLEAN]

\* The handle and the timer know each other; a free job is nobody's.
Handles ==
    /\ \A j \in Jobs : job[j].at = "free" => job[j].task = "none"
    /\ \A j \in Jobs : job[j].at # "free" => job[j].task \in Tasks
    /\ \A j \in Jobs : job[j].at = "armed" =>
         ~job[j].stale /\ slot[job[j].task].handle = j
    /\ \A t \in Tasks : slot[t].handle # NoJob =>
         job[slot[t].handle].at = "armed" /\ job[slot[t].handle].task = t

Live(t, j) == job[j].task = t /\ ~job[j].stale

Lives ==
    /\ \A t \in Tasks : slot[t].state = "stopped" => \A j \in Jobs : ~Live(t, j)
    /\ \A t \in Tasks : slot[t].state = "scheduled" => \E j \in Jobs : Live(t, j)
    /\ \A t \in Tasks : \A i, j \in Jobs : Live(t, i) /\ Live(t, j) => i = j

\* A pending timer has its shortest delay still to run, or the last run of the
\* task is that long ago.
Spacing ==
    \A j \in Jobs : job[j].at = "armed" =>
        job[j].wait >= MinDelay \/ since[job[j].task] = MinDelay

Kept == TypeOK /\ Handles /\ Lives /\ Spacing

LEMMA NoneIsNoTask == "none" \notin Tasks
  BY KeepaliveAssumption

LEMMA DelayBounds ==
    ASSUME NEW wanted \in Int, NEW wait \in Delay(wanted)
    PROVE  wait \in Nat /\ wait >= MinDelay
  BY DEF Delay, Larger, MinDelay

LEMMA ArmedRecord ==
    ASSUME NEW t \in Tasks, NEW wait \in Nat
    PROVE  /\ Armed(t, wait) \in JobRecords
           /\ Armed(t, wait).at = "armed" /\ Armed(t, wait).task = t
           /\ Armed(t, wait).wait = wait /\ ~Armed(t, wait).stale
  BY DEF Armed, JobRecords

-----------------------------------------------------------------------------
(* A live job arms the next timer. *)

LEMMA RearmKeeps ==
    ASSUME Kept, NEW j \in Jobs, job[j].at # "free", ~job[j].stale,
           NEW wanted \in Int, NEW failures \in Nat,
           Rearm(j, wanted, failures),
           UNCHANGED <<quiet, pushing, pause, since, events>>
    PROVE  Kept'
  <1> USE DEF Kept
  <1> DEFINE t == job[j].task
  <1>1. t \in Tasks /\ job \in [Jobs -> JobRecords] /\ slot \in [Tasks -> SlotRecords]
    BY DEF Handles, TypeOK, JobRecords, SlotRecords
  <1>2. PICK wait \in Delay(wanted) :
          /\ job' = [job EXCEPT ![j] = Armed(t, wait)]
          /\ slot' = [slot EXCEPT ![t].handle = j, ![t].failures = failures]
    BY DEF Rearm
  <1>3. wait \in Nat /\ wait >= MinDelay
    BY DelayBounds
  <1>4. /\ job' \in [Jobs -> JobRecords]
        /\ job'[j].at = "armed" /\ job'[j].task = t /\ job'[j].wait = wait
        /\ ~job'[j].stale
        /\ \A i \in Jobs : i # j => job'[i] = job[i]
    BY <1>1, <1>2, <1>3, ArmedRecord
  <1>5. /\ slot' \in [Tasks -> SlotRecords]
        /\ slot'[t].handle = j
        /\ \A u \in Tasks : slot'[u].state = slot[u].state
        /\ \A u \in Tasks : u # t => slot'[u] = slot[u]
    <2> DEFINE s == [slot[t] EXCEPT !.handle = j, !.failures = failures]
    <2>1. s \in SlotRecords /\ s.handle = j /\ s.state = slot[t].state
      BY <1>1 DEF SlotRecords
    <2>2. slot' = [slot EXCEPT ![t] = s]
      BY <1>1, <1>2
    <2> HIDE DEF s, t
    <2> QED
      BY <1>1, <2>1, <2>2
  <1> HIDE DEF t
  <1>6. Live(t, j)
    BY DEF Live, t
  <1>7. \A u \in Tasks, i \in Jobs : Live(u, i)' = Live(u, i)
    BY <1>4, <1>6 DEF Live, t
  <1>8. Lives'
    BY <1>5, <1>7 DEF Lives
  <1>9. Handles'
    <2>1. ASSUME NEW i \in Jobs, job'[i].at = "armed"
          PROVE  ~job'[i].stale /\ slot'[job'[i].task].handle = i
      <3>1. CASE i = j
        BY <1>4, <1>5, <3>1
      <3>2. CASE i # j
        <4>1. job'[i] = job[i] /\ job[i].at = "armed" /\ job[i].task \in Tasks
          BY <1>4, <2>1, <3>2 DEF Handles
        <4>2. job[i].task # t
          BY <1>1, <1>6, <3>2, <4>1 DEF Handles, Lives, Live
        <4> QED
          BY <1>5, <4>1, <4>2 DEF Handles
      <3> QED
        BY <3>1, <3>2
    <2>2. ASSUME NEW u \in Tasks, slot'[u].handle # NoJob
          PROVE  job'[slot'[u].handle].at = "armed" /\ job'[slot'[u].handle].task = u
      <3>1. CASE u = t
        BY <1>4, <1>5, <3>1
      <3>2. CASE u # t
        <4>1. /\ slot'[u].handle = slot[u].handle
              /\ slot[u].handle \in Jobs
              /\ job[slot[u].handle].at = "armed" /\ job[slot[u].handle].task = u
          BY <1>1, <1>5, <2>2, <3>2 DEF Handles, SlotRecords
        <4>2. slot[u].handle # j
          BY <3>2, <4>1 DEF t
        <4> QED
          BY <1>4, <4>1, <4>2
      <3> QED
        BY <3>1, <3>2
    <2>3. \A i \in Jobs : /\ job'[i].at = "free" => job'[i].task = "none"
                          /\ job'[i].at # "free" => job'[i].task \in Tasks
      BY <1>1, <1>4 DEF Handles
    <2> QED
      BY <2>1, <2>2, <2>3 DEF Handles
  <1>10. Spacing'
    BY <1>3, <1>4 DEF Spacing
  <1>11. TypeOK'
    BY <1>4, <1>5 DEF TypeOK, JobRecords, SlotRecords
  <1> QED
    BY <1>8, <1>9, <1>10, <1>11

-----------------------------------------------------------------------------
(* Halting leaves only stale runs. *)

LEMMA FreeRecord ==
    Free \in JobRecords /\ Free.at = "free" /\ Free.task = "none"
  BY DEF Free, JobRecords

LEMMA HaltedFacts ==
    ASSUME Kept, NEW halting \in SUBSET Tasks
    PROVE  /\ Halted(halting) \in [Jobs -> JobRecords]
           /\ \A i \in Jobs :
                job[i].task \notin halting => Halted(halting)[i] = job[i]
           /\ \A i \in Jobs : job[i].task \in halting =>
                \/ Halted(halting)[i] = Free
                \/ /\ Halted(halting)[i].at = "running"
                   /\ job[i].at = "running"
                   /\ Halted(halting)[i].task = job[i].task
                   /\ Halted(halting)[i].stale
  <1> USE DEF Kept
  <1>1. job \in [Jobs -> JobRecords]
    BY DEF TypeOK, JobRecords
  <1>2. \A i \in Jobs :
          /\ [job[i] EXCEPT !.stale = TRUE] \in JobRecords
          /\ [job[i] EXCEPT !.stale = TRUE].at = job[i].at
          /\ [job[i] EXCEPT !.stale = TRUE].task = job[i].task
          /\ [job[i] EXCEPT !.stale = TRUE].stale
    BY <1>1 DEF JobRecords
  <1>3. ASSUME NEW i \in Jobs, job[i].task \in halting,
               slot[job[i].task].handle # i
        PROVE  job[i].at = "running"
    BY <1>1, <1>3, NoneIsNoTask DEF Handles, JobRecords
  <1> QED
    BY <1>1, <1>2, <1>3, FreeRecord DEF Halted

LEMMA LogoutKeeps ==
    ASSUME Kept, Logout
    PROVE  Kept'
  <1> USE DEF Kept
  <1>1. /\ job' = Halted(Tasks)
        /\ slot' = [t \in Tasks |-> Stopped(slot[t])]
        /\ UNCHANGED <<quiet, pushing, pause, since>> /\ events' \in Nat
    BY DEF Logout, Event, TypeOK
  <1>2. \A t \in Tasks : /\ slot'[t] \in SlotRecords
                         /\ slot'[t].state = "stopped" /\ slot'[t].handle = NoJob
    BY <1>1 DEF Stopped, TypeOK, SlotRecords
  <1>3. job' \in [Jobs -> JobRecords]
    BY <1>1, HaltedFacts
  <1>4. \A i \in Jobs : \/ job'[i].at = "free" /\ job'[i].task = "none"
                        \/ /\ job'[i].at = "running" /\ job'[i].stale
                           /\ job'[i].task \in Tasks
    BY <1>1, HaltedFacts, FreeRecord DEF Handles
  <1>5. Handles'
    BY <1>2, <1>4 DEF Handles
  <1>6. Lives'
    BY <1>2, <1>4, NoneIsNoTask DEF Lives, Live
  <1>7. Spacing'
    BY <1>4 DEF Spacing
  <1>8. TypeOK'
    BY <1>1, <1>2, <1>3 DEF TypeOK, SlotRecords, JobRecords
  <1> QED
    BY <1>5, <1>6, <1>7, <1>8

LEMMA ResumeKeeps ==
    ASSUME Kept, NEW t \in Tasks, Event, Resume(t)
    PROVE  Kept'
  <1> USE DEF Kept
  <1> DEFINE H == Halted({t})
  <1>1. PICK j \in Jobs, wait \in Delay(FirstDelay) :
          /\ H[j].at = "free"
          /\ job' = [H EXCEPT ![j] = Armed(t, wait)]
          /\ slot' = [slot EXCEPT ![t] =
                        [state |-> "scheduled", handle |-> j, failures |-> 0]]
    BY DEF Resume
  <1>2. /\ H \in [Jobs -> JobRecords]
        /\ \A i \in Jobs : job[i].task # t => H[i] = job[i]
        /\ \A i \in Jobs : job[i].task = t =>
             \/ H[i] = Free
             \/ H[i].at = "running" /\ H[i].task = t /\ H[i].stale
    BY HaltedFacts
  <1> HIDE DEF H
  <1>3. wait \in Nat /\ wait >= MinDelay
    BY DelayBounds, KeepaliveAssumption
  <1>4. /\ job' \in [Jobs -> JobRecords]
        /\ job'[j].at = "armed" /\ job'[j].task = t /\ job'[j].wait = wait
        /\ ~job'[j].stale
        /\ \A i \in Jobs : i # j => job'[i] = H[i]
    BY <1>1, <1>2, <1>3, ArmedRecord
  <1>5. /\ slot' \in [Tasks -> SlotRecords]
        /\ slot'[t].handle = j /\ slot'[t].state = "scheduled"
        /\ \A u \in Tasks : u # t => slot'[u] = slot[u]
    BY <1>1 DEF TypeOK, SlotRecords
  <1>6. job[j].task = t \/ job[j].at = "free"
    BY <1>1, <1>2
  <1>7. \A i \in Jobs : i # j =>
          \/ job'[i] = job[i] /\ job[i].task # t
          \/ job[i].task = t /\ job'[i].at = "free" /\ job'[i].task = "none"
          \/ /\ job[i].task = t /\ job'[i].at = "running" /\ job'[i].task = t
             /\ job'[i].stale
    BY <1>2, <1>4, FreeRecord
  <1>8. \A i \in Jobs : Live(t, i)' <=> i = j
    BY <1>4, <1>7, NoneIsNoTask DEF Live
  <1>9. \A u \in Tasks \ {t} : \A i \in Jobs : Live(u, i)' = Live(u, i)
    <2>1. \A u \in Tasks \ {t} : ~Live(u, j) /\ ~Live(u, j)'
      BY <1>4, <1>6, NoneIsNoTask DEF Live, Handles
    <2> QED
      BY <1>7, <2>1, NoneIsNoTask DEF Live
  <1>10. Lives'
    BY <1>5, <1>8, <1>9 DEF Lives
  <1>11. Handles'
    <2>1. ASSUME NEW i \in Jobs, job'[i].at = "armed"
          PROVE  ~job'[i].stale /\ slot'[job'[i].task].handle = i
      BY <1>4, <1>5, <1>7, <2>1 DEF Handles
    <2>2. ASSUME NEW u \in Tasks, slot'[u].handle # NoJob
          PROVE  job'[slot'[u].handle].at = "armed" /\ job'[slot'[u].handle].task = u
      <3>1. CASE u = t
        BY <1>4, <1>5, <3>1
      <3>2. CASE u # t
        <4>1. /\ slot'[u].handle = slot[u].handle /\ slot[u].handle \in Jobs
              /\ job[slot[u].handle].at = "armed" /\ job[slot[u].handle].task = u
          BY <1>5, <2>2, <3>2 DEF Handles, TypeOK
        <4>2. slot[u].handle # j
          BY <1>6, <3>2, <4>1
        <4> QED
          BY <1>4, <1>7, <3>2, <4>1, <4>2
      <3> QED
        BY <3>1, <3>2
    <2>3. \A i \in Jobs : /\ job'[i].at = "free" => job'[i].task = "none"
                          /\ job'[i].at # "free" => job'[i].task \in Tasks
      BY <1>4, <1>7 DEF Handles
    <2> QED
      BY <2>1, <2>2, <2>3 DEF Handles
  <1>12. Spacing'
    BY <1>3, <1>4, <1>7 DEF Spacing, Event
  <1>13. TypeOK'
    BY <1>4, <1>5 DEF TypeOK, JobRecords, SlotRecords, Event
  <1> QED
    BY <1>10, <1>11, <1>12, <1>13

-----------------------------------------------------------------------------
(* fire() and what follows a run. *)

LEMMA SkipKeeps ==
    ASSUME Kept, NEW j \in Jobs, SkipQuiet(j) \/ SkipPaused(j)
    PROVE  Kept'
  <1> DEFINE t == job[j].task
  <1>1. /\ job[j].at # "free" /\ ~job[j].stale /\ t \in Tasks
        /\ UNCHANGED <<quiet, pushing, pause, since, events>>
    BY DEF SkipQuiet, SkipPaused, Due, Kept, Handles
  <1>2. /\ slot[t].failures \in Nat
        /\ Interval[t] \in Int /\ Larger(Interval[t], pause) \in Int
    <2> HIDE DEF t
    <2>1. slot[t].failures \in Nat /\ pause \in Nat
      BY <1>1 DEF Kept, TypeOK
    <2>2. Interval[t] \in Nat
      BY <1>1, KeepaliveAssumption
    <2> QED
      BY <2>1, <2>2 DEF Larger
  <1>3. \/ Rearm(j, Interval[t], slot[t].failures)
        \/ Rearm(j, Larger(Interval[t], pause), slot[t].failures)
    BY DEF SkipQuiet, SkipPaused
  <1> QED
    BY <1>1, <1>2, <1>3, RearmKeeps

\* The timer becomes a run: the only timer of its task, so no other one can
\* be due too soon.
LEMMA StartKeeps ==
    ASSUME Kept, NEW j \in Jobs, StartRun(j)
    PROVE  Kept'
  <1> USE DEF Kept
  <1> DEFINE t == job[j].task
  <1>1. /\ job[j].at = "armed" /\ t \in Tasks /\ ~job[j].stale
        /\ slot[t].handle = j
    BY DEF StartRun, Due, Handles
  <1>2. /\ job' \in [Jobs -> JobRecords]
        /\ job'[j].at = "running" /\ job'[j].task = t /\ ~job'[j].stale
        /\ \A i \in Jobs : i # j => job'[i] = job[i]
    <2> DEFINE r == [job[j] EXCEPT !.at = "running"]
    <2>1. /\ r \in JobRecords /\ r.at = "running" /\ r.task = t
          /\ r.stale = job[j].stale
      BY DEF TypeOK, JobRecords
    <2>2. job' = [job EXCEPT ![j] = r]
      BY DEF StartRun, TypeOK
    <2> HIDE DEF r, t
    <2> QED
      BY <1>1, <2>1, <2>2 DEF TypeOK, JobRecords
  <1>3. /\ slot' \in [Tasks -> SlotRecords] /\ slot'[t].handle = NoJob
        /\ \A u \in Tasks : slot'[u].state = slot[u].state
        /\ \A u \in Tasks : u # t => slot'[u] = slot[u]
    <2> DEFINE s == [slot[t] EXCEPT !.handle = NoJob]
    <2>1. s \in SlotRecords /\ s.handle = NoJob /\ s.state = slot[t].state
      BY <1>1 DEF TypeOK, SlotRecords
    <2>2. slot' = [slot EXCEPT ![t] = s]
      BY <1>1 DEF StartRun, TypeOK
    <2> HIDE DEF s, t
    <2> QED
      BY <1>1, <2>1, <2>2 DEF TypeOK, SlotRecords
  <1>4. /\ since' \in [Tasks -> 0 .. MinDelay]
        /\ \A u \in Tasks : u # t => since'[u] = since[u]
    BY <1>1 DEF StartRun, TypeOK, MinDelay
  <1> HIDE DEF t
  <1>5. \A u \in Tasks, i \in Jobs : Live(u, i)' = Live(u, i)
    BY <1>1, <1>2 DEF Live, t
  <1>6. Lives'
    BY <1>3, <1>5 DEF Lives
  <1>7. \A i \in Jobs : job'[i].at = "armed" =>
          i # j /\ job'[i] = job[i] /\ job[i].task # t
    BY <1>1, <1>2 DEF Handles
  <1>8. Handles'
    <2>1. \A u \in Tasks : slot'[u].handle # NoJob =>
            u # t /\ slot'[u] = slot[u] /\ slot[u].handle # j
      BY <1>1, <1>3 DEF Handles, t
    <2>2. \A u \in Tasks : slot'[u].handle # NoJob => slot[u].handle \in Jobs
      BY <2>1 DEF TypeOK
    <2>3. \A u \in Tasks : slot'[u].handle # NoJob =>
            job'[slot'[u].handle].at = "armed" /\ job'[slot'[u].handle].task = u
      BY <1>2, <2>1, <2>2 DEF Handles
    <2>4. \A i \in Jobs : job'[i].at = "armed" =>
            ~job'[i].stale /\ slot'[job'[i].task].handle = i
      BY <1>3, <1>7 DEF Handles
    <2> QED
      BY <1>1, <1>2, <2>3, <2>4 DEF Handles
  <1>9. Spacing'
    BY <1>4, <1>7 DEF Spacing, Handles
  <1>10. TypeOK'
    BY <1>2, <1>3, <1>4 DEF StartRun, TypeOK, JobRecords, SlotRecords
  <1> QED
    BY <1>6, <1>8, <1>9, <1>10

\* A run that ends without a next one, and leaves its slot's state and handle.
LEMMA StaleEndKeeps ==
    ASSUME Kept, NEW j \in Jobs, job[j].at = "running", job[j].stale,
           Discard(j), UNCHANGED <<quiet, pushing, pause, since, events>>,
           slot' \in [Tasks -> SlotRecords],
           \A u \in Tasks : /\ slot'[u].state = slot[u].state
                            /\ slot'[u].handle = slot[u].handle
    PROVE  Kept'
  <1> USE DEF Kept
  <1>1. /\ job' \in [Jobs -> JobRecords]
        /\ job'[j].at = "free" /\ job'[j].task = "none"
        /\ \A i \in Jobs : i # j => job'[i] = job[i]
    BY FreeRecord DEF Discard, TypeOK, JobRecords
  <1>2. \A u \in Tasks, i \in Jobs : Live(u, i)' = Live(u, i)
    BY <1>1, NoneIsNoTask DEF Live
  <1>3. Lives'
    BY <1>2 DEF Lives
  <1>4. \A u \in Tasks : slot[u].handle # NoJob =>
          slot[u].handle \in Jobs /\ slot[u].handle # j
    BY DEF Handles, TypeOK
  <1>5. Handles'
    BY <1>1, <1>4 DEF Handles
  <1>6. Spacing'
    BY <1>1 DEF Spacing
  <1>7. TypeOK'
    BY <1>1 DEF TypeOK, JobRecords, SlotRecords
  <1> QED
    BY <1>3, <1>5, <1>6, <1>7

\* The session is gone: the task stops.
LEMMA LastEndKeeps ==
    ASSUME Kept, NEW j \in Jobs, RunFailsForGood(j), ~job[j].stale
    PROVE  Kept'
  <1> USE DEF Kept
  <1> DEFINE t == job[j].task
  <1>1. t \in Tasks /\ job[j].at = "running"
    BY DEF RunFailsForGood, Handles
  <1>2. /\ job' \in [Jobs -> JobRecords]
        /\ job'[j].at = "free" /\ job'[j].task = "none"
        /\ \A i \in Jobs : i # j => job'[i] = job[i]
    BY FreeRecord DEF RunFailsForGood, Discard, TypeOK, JobRecords
  <1>3. /\ slot' \in [Tasks -> SlotRecords]
        /\ slot'[t].handle = NoJob /\ slot'[t].state = "stopped"
        /\ \A u \in Tasks : u # t => slot'[u] = slot[u]
    <2> DEFINE s == Stopped(slot[t])
    <2>1. s \in SlotRecords /\ s.handle = NoJob /\ s.state = "stopped"
      BY <1>1 DEF Stopped, TypeOK, SlotRecords
    <2>2. slot' = [slot EXCEPT ![t] = s]
      BY <1>1 DEF RunFailsForGood, TypeOK
    <2> HIDE DEF s, t
    <2> QED
      BY <1>1, <2>1, <2>2 DEF TypeOK, SlotRecords
  <1>4. Live(t, j)
    BY DEF RunFailsForGood, Live
  <1> HIDE DEF t
  <1>5. \A u \in Tasks, i \in Jobs : u = t => ~Live(u, i)'
    BY <1>1, <1>2, <1>4, NoneIsNoTask DEF Lives, Live
  <1>6. \A u \in Tasks, i \in Jobs : u # t => Live(u, i)' = Live(u, i)
    BY <1>2, <1>4, NoneIsNoTask DEF Live
  <1>7. Lives'
    BY <1>3, <1>5, <1>6 DEF Lives
  <1>8. \A i \in Jobs : job'[i].at = "armed" =>
          i # j /\ job'[i] = job[i] /\ job[i].task # t
    BY <1>1, <1>2, <1>4 DEF Handles, Lives, Live
  <1>9. \A u \in Tasks : slot'[u].handle # NoJob =>
          /\ u # t /\ slot'[u] = slot[u]
          /\ slot[u].handle \in Jobs /\ slot[u].handle # j
    BY <1>1, <1>3 DEF Handles, TypeOK
  <1>10. Handles'
    BY <1>2, <1>3, <1>8, <1>9 DEF Handles
  <1>11. Spacing'
    BY <1>8 DEF Spacing, RunFailsForGood
  <1>12. TypeOK'
    BY <1>2, <1>3 DEF TypeOK, JobRecords, SlotRecords, RunFailsForGood
  <1> QED
    BY <1>7, <1>10, <1>11, <1>12

LEMMA RunEndKeeps ==
    ASSUME Kept, NEW j \in Jobs, RunEnds(j)
    PROVE  Kept'
  <1> DEFINE t == job[j].task
  <1>1. job[j].at = "running" /\ t \in Tasks
    BY DEF RunEnds, RunSucceeds, RunFailsTransiently, RunFailsForGood, Kept, Handles
  <1>2. slot \in [Tasks -> SlotRecords] /\ Interval[t] \in Nat
    BY <1>1, KeepaliveAssumption DEF Kept, TypeOK, SlotRecords
  <1>3. CASE RunSucceeds(j) /\ job[j].stale
    <2> DEFINE s == [slot[t] EXCEPT !.failures = 0]
    <2>1. /\ s \in SlotRecords /\ s.handle = slot[t].handle
          /\ s.state = slot[t].state
      BY <1>1, <1>2 DEF SlotRecords
    <2>2. slot' = [slot EXCEPT ![t] = s]
      BY <1>1, <1>2, <1>3 DEF RunSucceeds
    <2> HIDE DEF s
    <2>3. /\ slot' \in [Tasks -> SlotRecords]
          /\ \A u \in Tasks : /\ slot'[u].state = slot[u].state
                              /\ slot'[u].handle = slot[u].handle
      <3> HIDE DEF t
      <3> QED
        BY <1>1, <1>2, <2>1, <2>2
    <2> QED
      BY <1>1, <1>3, <2>3, StaleEndKeeps DEF RunSucceeds
  <1>4. CASE RunSucceeds(j) /\ ~job[j].stale
    <2>1. PICK wanted \in Wanted \cup {Interval[t]} : Rearm(j, wanted, 0)
      BY <1>4 DEF RunSucceeds
    <2>2. wanted \in Int
      BY <1>2, KeepaliveAssumption
    <2> QED
      BY <1>1, <1>4, <2>1, <2>2, RearmKeeps DEF RunSucceeds
  <1>5. CASE RunFailsTransiently(j) /\ job[j].stale
    BY <1>1, <1>2, <1>5, StaleEndKeeps DEF RunFailsTransiently
  <1>6. CASE RunFailsTransiently(j) /\ ~job[j].stale
    <2> DEFINE failures == slot[t].failures + 1
    <2>1. failures \in 1 .. MaxFailures
      <3>1. slot[t].failures \in Nat
        BY <1>1, <1>2 DEF SlotRecords
      <3>2. failures <= MaxFailures
        BY <1>6 DEF RunFailsTransiently
      <3> QED
        BY <3>1, <3>2, KeepaliveAssumption
    <2>2. Rearm(j, Smaller(MaxBackoff, Interval[t] * 2 ^ failures), failures)
      BY <1>6 DEF RunFailsTransiently
    <2> HIDE DEF failures
    <2>3. 2 ^ failures \in Nat /\ MaxBackoff \in Nat
      BY <2>1, KeepaliveAssumption
    <2>4. Smaller(MaxBackoff, Interval[t] * 2 ^ failures) \in Int
      <3> DEFINE power == 2 ^ failures
      <3> HIDE DEF power, t
      <3>1. power \in Nat
        BY <2>3 DEF power
      <3>2. Interval[t] * power \in Int
        BY <1>2, <3>1
      <3>3. Smaller(MaxBackoff, Interval[t] * power) \in Int
        BY <2>3, <3>2 DEF Smaller
      <3> QED
        BY <3>3 DEF power
    <2>5. failures \in Nat
      BY <2>1
    <2> QED
      BY <1>1, <1>6, <2>2, <2>4, <2>5, RearmKeeps DEF RunFailsTransiently
  <1>7. CASE RunFailsForGood(j) /\ job[j].stale
    BY <1>1, <1>2, <1>7, StaleEndKeeps DEF RunFailsForGood
  <1>8. CASE RunFailsForGood(j) /\ ~job[j].stale
    BY <1>8, LastEndKeeps
  <1> QED
    BY <1>3, <1>4, <1>5, <1>6, <1>7, <1>8 DEF RunEnds

LEMMA TickKeeps ==
    ASSUME Kept, Tick
    PROVE  Kept'
  <1> USE DEF Kept
  <1>1. \A i \in Jobs :
          /\ job'[i] \in JobRecords
          /\ job'[i].at = job[i].at /\ job'[i].task = job[i].task
          /\ job'[i].stale = job[i].stale
    <2>1. ASSUME NEW i \in Jobs
          PROVE  Larger(0, job[i].wait - 1) \in Nat /\ job[i] \in JobRecords
      BY DEF TypeOK, JobRecords, Larger
    <2> QED
      BY <2>1 DEF Tick, JobRecords
  <1>2. since' = [t \in Tasks |-> MinDelay]
    BY DEF Tick, TypeOK, Smaller, MinDelay
  <1>3. job' \in [Jobs -> JobRecords]
    BY <1>1 DEF Tick
  <1>4. pause' \in Nat /\ since' \in [Tasks -> 0 .. MinDelay]
    BY <1>2 DEF Tick, TypeOK, Larger, MinDelay
  <1>5. TypeOK'
    BY <1>3, <1>4 DEF Tick, TypeOK, JobRecords
  <1>6. slot' = slot
    BY DEF Tick
  <1>7. \A u \in Tasks, i \in Jobs : Live(u, i)' = Live(u, i)
    BY <1>1 DEF Live
  <1>8. Lives'
    BY <1>6, <1>7 DEF Lives
  <1>9. Handles'
    BY <1>1, <1>6 DEF Handles, TypeOK
  <1>10. Spacing'
    BY <1>1, <1>2 DEF Spacing, Handles
  <1> QED
    BY <1>5, <1>8, <1>9, <1>10

LEMMA NextKeeps ==
    ASSUME Kept, [Next]_vars
    PROVE  Kept'
  <1>1. ASSUME NEW j \in Jobs, Fire(j) \/ RunEnds(j) PROVE Kept'
    BY <1>1, SkipKeeps, StartKeeps, RunEndKeeps DEF Fire
  <1>2. CASE Login \/ WebLogin \/ Logout
    BY <1>2, ResumeKeeps, LogoutKeeps, KeepaliveAssumption DEF Login, WebLogin
  <1>3. CASE Tick
    BY <1>3, TickKeeps
  <1>4. CASE DayAndNight \/ Pushback \/ Recovered \/ UNCHANGED vars
    <2>1. /\ slot' = slot /\ job' = job /\ since' = since /\ events' = events
          /\ quiet' \in BOOLEAN /\ pushing' \in BOOLEAN /\ pause' \in Nat
      BY <1>4, KeepaliveAssumption DEF DayAndNight, Pushback, Recovered, vars, Kept, TypeOK
    <2> QED
      BY <2>1 DEF Kept, TypeOK, Handles, Lives, Live, Spacing
  <1> QED
    BY <1>1, <1>2, <1>3, <1>4 DEF Next

LEMMA KeptInit == Init => Kept
  <1> SUFFICES ASSUME Init PROVE Kept
    OBVIOUS
  <1>1. PICK first \in [Tasks -> Jobs], wait \in [Tasks -> Delay(FirstDelay)] :
          /\ \A t, u \in Tasks : first[t] = first[u] => t = u
          /\ slot = [t \in Tasks |->
                       [state |-> "scheduled", handle |-> first[t], failures |-> 0]]
          /\ job = [j \in Jobs |->
                      IF \E t \in Tasks : first[t] = j
                      THEN LET t == CHOOSE t \in Tasks : first[t] = j
                           IN  Armed(t, wait[t])
                      ELSE Free]
    BY DEF Init
  <1>2. \A t \in Tasks : wait[t] \in Nat /\ wait[t] >= MinDelay
    BY DelayBounds, KeepaliveAssumption
  <1>3. \A t \in Tasks :
          /\ job[first[t]] \in JobRecords
          /\ job[first[t]].at = "armed" /\ job[first[t]].task = t
          /\ job[first[t]].wait >= MinDelay /\ ~job[first[t]].stale
    <2>1. ASSUME NEW t \in Tasks PROVE job[first[t]] = Armed(t, wait[t])
      BY <1>1
    <2> QED
      BY <1>2, <2>1, ArmedRecord
  <1>4. \A j \in Jobs : (\A t \in Tasks : first[t] # j) => job[j] = Free
    BY <1>1
  <1>5. \A j \in Jobs : job[j] = Free \/ \E t \in Tasks : j = first[t]
    BY <1>4
  <1>6. \A j \in Jobs : job[j] \in JobRecords
    BY <1>3, <1>5, FreeRecord
  <1>7. TypeOK
    <2>1. job \in [Jobs -> JobRecords]
      BY <1>1, <1>6
    <2>2. \A t \in Tasks : slot[t] \in SlotRecords
      BY <1>1 DEF SlotRecords
    <2>3. slot \in [Tasks -> SlotRecords]
      BY <1>1, <2>2
    <2>4. since \in [Tasks -> 0 .. MinDelay]
      BY DEF Init, MinDelay
    <2> QED
      BY <2>1, <2>3, <2>4 DEF Init, TypeOK, JobRecords, SlotRecords
  <1>11. \A t \in Tasks :
          /\ slot[t].state = "scheduled" /\ slot[t].handle = first[t]
          /\ first[t] \in Jobs
    BY <1>1
  <1>8. Handles
    BY <1>11, <1>3, <1>5, FreeRecord DEF Handles
  <1>9. Lives
    <2>1. \A t \in Tasks : \A j \in Jobs : Live(t, j) <=> j = first[t]
      BY <1>11, <1>3, <1>5, FreeRecord, NoneIsNoTask DEF Live
    <2> QED
      BY <1>11, <2>1 DEF Lives
  <1>10. Spacing
    BY <1>3, <1>5, FreeRecord DEF Spacing
  <1> QED
    BY <1>7, <1>8, <1>9, <1>10 DEF Kept

\* The inductive invariant holds throughout.
THEOREM AlwaysKept == Spec => []Kept
  BY KeptInit, NextKeeps, PTL DEF Spec

\* Every reachable state is well typed.
THEOREM KeepaliveTypeCorrect == Spec => []TypeOK
  <1>1. Kept => TypeOK
    BY DEF Kept
  <1> QED
    BY <1>1, AlwaysKept, PTL

\* A scheduled task has one timer or one run that will arm the next, a stopped
\* task none, whatever logins and logouts come while runs are under way.
THEOREM TasksHaveOneLife == Spec => []OneLife
  <1>1. Kept => OneLife
    <2> SUFFICES ASSUME Kept, NEW t \in Tasks
                 PROVE  LET lives == {j \in Jobs : job[j].task = t /\ ~job[j].stale}
                            timers == {j \in Jobs : job[j].task = t /\ job[j].at = "armed"}
                        IN  /\ timers \subseteq {slot[t].handle}
                            /\ IF slot[t].state = "stopped" THEN lives = {}
                               ELSE \E j \in Jobs :
                                      lives = {j} /\ (job[j].at = "armed" => slot[t].handle = j)
      BY DEF OneLife
    <2> USE DEF Kept
    <2>1. \A j \in Jobs : job[j].at = "armed" /\ job[j].task = t => slot[t].handle = j
      BY DEF Handles
    <2>2. CASE slot[t].state = "stopped"
      BY <2>1, <2>2 DEF Lives, Live
    <2>3. CASE slot[t].state # "stopped"
      <3>1. slot[t].state = "scheduled"
        BY <2>3 DEF TypeOK
      <3>2. PICK j \in Jobs : Live(t, j)
        BY <3>1 DEF Lives
      <3>3. {i \in Jobs : job[i].task = t /\ ~job[i].stale} = {j}
        BY <3>2 DEF Lives, Live
      <3> QED
        BY <2>1, <2>3, <3>2, <3>3 DEF Live
    <2> QED
      BY <2>2, <2>3
  <1> QED
    BY <1>1, AlwaysKept, PTL

\* Runs of a task are at least the shortest delay apart.
THEOREM RunsAreSpaced == Spec => Spaced
  <1>1. Kept /\ [Next]_vars =>
          [\A j \in Jobs : job[j].at = "armed" /\ job'[j].at = "running"
             => since[job[j].task] = MinDelay]_vars
    <2> SUFFICES ASSUME Kept, Next, NEW j \in Jobs,
                        job[j].at = "armed", job'[j].at = "running"
                 PROVE  since[job[j].task] = MinDelay
      OBVIOUS
    <2>1. StartRun(j)
      <3>1. ASSUME Tick \/ DayAndNight \/ Pushback \/ Recovered PROVE FALSE
        BY <3>1 DEF Tick, DayAndNight, Pushback, Recovered, Kept, TypeOK
      <3>2. ASSUME NEW t \in Tasks, Resume(t) PROVE FALSE
        <4>1. PICK i \in Jobs, wait \in Delay(FirstDelay) :
                job' = [Halted({t}) EXCEPT ![i] = Armed(t, wait)]
          BY <3>2 DEF Resume
        <4>2. Halted({t})[j].at # "running"
          BY HaltedFacts, FreeRecord
        <4>3. Halted({t}) \in [Jobs -> JobRecords]
          BY HaltedFacts
        <4> QED
          BY <4>1, <4>2, <4>3 DEF Armed
      <3>3. ~Logout
        <4>1. Halted(Tasks)[j].at # "running"
          BY HaltedFacts, FreeRecord
        <4> QED
          BY <4>1 DEF Logout
      <3>4. ASSUME NEW i \in Jobs, ~StartRun(j), Fire(i) \/ RunEnds(i) PROVE FALSE
        <4>1. job \in [Jobs -> JobRecords]
          BY DEF Kept, TypeOK, JobRecords
        <4>2. ASSUME NEW wanted, NEW failures, Rearm(i, wanted, failures)
              PROVE  FALSE
          BY <4>1, <4>2 DEF Rearm, Armed
        <4>3. ~Discard(i)
          BY <4>1, FreeRecord DEF Discard
        <4>4. CASE StartRun(i)
          BY <3>4, <4>1, <4>4 DEF StartRun
        <4>5. CASE ~StartRun(i)
          BY <3>4, <4>2, <4>3, <4>5
             DEF Fire, RunEnds, SkipQuiet, SkipPaused, RunSucceeds,
                 RunFailsTransiently, RunFailsForGood
        <4> QED
          BY <4>4, <4>5
      <3> QED
        BY <3>1, <3>2, <3>3, <3>4, KeepaliveAssumption DEF Next, Login, WebLogin
    <2>2. job[j].wait <= 0
      BY <2>1 DEF StartRun, Due
    <2> QED
      BY <2>2 DEF Kept, Spacing, MinDelay, TypeOK
  <1> QED
    BY <1>1, AlwaysKept, PTL DEF Spec, Spaced

-----------------------------------------------------------------------------
(* After a failure. *)

\* Arming early takes a tenth off at most.
LEMMA DelayIsLong ==
    ASSUME NEW wanted \in Nat, NEW wait \in Delay(wanted)
    PROVE  wait \in Nat /\ 10 * wait >= 9 * wanted
  BY DEF Delay, Larger, MinDelay

LEMMA TimesIsMore ==
    ASSUME NEW a \in Nat, NEW p \in Nat \ {0}
    PROVE  a * p \in Nat /\ a * p >= a
  <1>1. PICK q \in Nat : p = q + 1
    <2>1. p - 1 \in Nat /\ p = (p - 1) + 1
      OBVIOUS
    <2> QED BY <2>1
  <1>2. a * q \in Nat /\ a * p = a * q + a
    BY <1>1
  <1> QED BY <1>2

\* The longest pause is no shorter than what a task waits anyhow.
LEMMA FailureIsLong ==
    ASSUME NEW t \in Tasks, Interval[t] <= MaxBackoff, NEW n \in 1 .. MaxFailures
    PROVE  LET pause0 == Smaller(MaxBackoff, Interval[t] * 2 ^ n)
           IN  pause0 \in Nat /\ pause0 >= Interval[t]
  <1>1. /\ Interval[t] \in Nat /\ MaxBackoff \in Nat
        /\ 2 ^ n \in Nat \ {0}
    BY KeepaliveAssumption
  <1> DEFINE p == 2 ^ n
  <1>2. p \in Nat \ {0}
    BY <1>1
  <1> HIDE DEF p
  <1>3. Interval[t] * p \in Nat /\ Interval[t] * p >= Interval[t]
    BY <1>1, <1>2, TimesIsMore
  <1>4. LET pause0 == Smaller(MaxBackoff, Interval[t] * p)
        IN  pause0 \in Nat /\ pause0 >= Interval[t]
    BY <1>1, <1>3 DEF Smaller
  <1> QED BY <1>4 DEF p

\* Failures are counted by a run that fails, and by nothing else.
LEMMA OnlyFailuresCount ==
    ASSUME Kept, Next, NEW t \in Tasks, slot'[t].failures > slot[t].failures
    PROVE  \E j \in Jobs : /\ RunFailsTransiently(j) /\ ~job[j].stale
                           /\ job[j].task = t
  <1> USE DEF Kept
  <1>1. /\ slot \in [Tasks -> SlotRecords] /\ job \in [Jobs -> JobRecords]
        /\ slot[t].failures \in Nat
    BY DEF TypeOK, SlotRecords, JobRecords
  <1>2. slot' # slot
    BY <1>1
  <1>3. ASSUME NEW u \in Tasks, Resume(u) PROVE FALSE
    <2>1. slot'[t].failures = 0 \/ slot'[t] = slot[t]
      BY <1>1, <1>3 DEF Resume
    <2> QED BY <1>1, <2>1
  <1> DEFINE halted == Stopped(slot[t])
  <1>0. halted.failures = slot[t].failures
    <2>1. slot[t] \in SlotRecords
      BY <1>1
    <2> QED BY <2>1 DEF Stopped, SlotRecords
  <1>4. ~Logout
    <2>1. Logout => slot'[t] = halted
      BY DEF Logout
    <2> QED BY <1>1, <1>0, <2>1
  <1>5. ASSUME NEW j \in Jobs, Fire(j) \/ RunEnds(j)
        PROVE  RunFailsTransiently(j) /\ ~job[j].stale /\ job[j].task = t
    <2>1. job[j].at # "free" /\ job[j].task \in Tasks
      BY <1>1, <1>5 DEF Fire, RunEnds, SkipQuiet, SkipPaused, StartRun, Due, RunSucceeds,
         RunFailsTransiently, RunFailsForGood, Handles
    <2>2. ASSUME NEW wanted, NEW failures, Rearm(j, wanted, failures)
          PROVE  t = job[j].task /\ failures > slot[t].failures
      BY <1>1, <2>1, <2>2 DEF Rearm, SlotRecords
    <2>3. ~SkipQuiet(j) /\ ~SkipPaused(j)
      BY <1>1, <2>1, <2>2 DEF SkipQuiet, SkipPaused
    <2>4. ~StartRun(j)
      BY <1>1, <2>1 DEF StartRun, SlotRecords
    <2>5. ~RunSucceeds(j)
      BY <1>1, <2>1, <2>2 DEF RunSucceeds, SlotRecords
    <2>6. ~RunFailsForGood(j)
      <3>1. RunFailsForGood(j) => slot'[t] \in {slot[t], halted}
        BY <1>1, <2>1 DEF RunFailsForGood
      <3> QED BY <1>1, <1>0, <3>1
    <2>7. RunFailsTransiently(j)
      BY <1>5, <2>3, <2>4, <2>5, <2>6 DEF Fire, RunEnds
    <2>8. ~job[j].stale
      BY <1>2, <2>7 DEF RunFailsTransiently
    <2> QED BY <2>2, <2>7, <2>8 DEF RunFailsTransiently
  <1>6. ~(Tick \/ DayAndNight \/ Pushback \/ Recovered)
    BY <1>2 DEF Tick, DayAndNight, Pushback, Recovered
  <1> QED
    BY <1>3, <1>4, <1>5, <1>6, KeepaliveAssumption DEF Next, Login, WebLogin

\* A transient failure never brings the next run forward, jitter aside, as
\* long as no task's own interval is beyond the longest pause.
THEOREM FailuresSlowDown ==
    ASSUME \A t \in Tasks : Interval[t] <= MaxBackoff
    PROVE  Spec => BacksOff
  <1>1. ASSUME Kept, Next, NEW t \in Tasks, slot'[t].failures > slot[t].failures
        PROVE  10 * job'[slot'[t].handle].wait >= 9 * Interval[t]
    <2>1. PICK j \in Jobs : RunFailsTransiently(j) /\ ~job[j].stale /\ job[j].task = t
      BY <1>1, OnlyFailuresCount
    <2> DEFINE n == slot[t].failures + 1
    <2> DEFINE wanted == Smaller(MaxBackoff, Interval[t] * 2 ^ n)
    <2>2. /\ slot \in [Tasks -> SlotRecords] /\ job \in [Jobs -> JobRecords]
          /\ n \in 1 .. MaxFailures
      BY <1>1, <2>1, KeepaliveAssumption
         DEF Kept, TypeOK, SlotRecords, JobRecords, RunFailsTransiently
    <2>3. wanted \in Nat /\ wanted >= Interval[t] /\ Interval[t] \in Nat
      BY <1>1, <2>2, FailureIsLong, KeepaliveAssumption
    <2>4. Rearm(j, wanted, n)
      BY <2>1 DEF RunFailsTransiently
    <2> HIDE DEF wanted, n
    <2>5. PICK wait \in Delay(wanted) :
            /\ job' = [job EXCEPT ![j] = Armed(t, wait)]
            /\ slot' = [slot EXCEPT ![t].handle = j, ![t].failures = n]
      BY <2>1, <2>4 DEF Rearm
    <2>6. wait \in Nat /\ 10 * wait >= 9 * wanted
      BY <2>3, DelayIsLong
    <2>7. slot'[t].handle = j /\ job'[j].wait = wait
      BY <2>2, <2>5 DEF Armed, SlotRecords
    <2> QED
      BY <2>3, <2>6, <2>7
  <1>2. Kept /\ [Next]_vars =>
          [\A t \in Tasks : slot'[t].failures > slot[t].failures
             => 10 * job'[slot'[t].handle].wait >= 9 * Interval[t]]_vars
    BY <1>1
  <1>3. Spec => []Kept
    BY AlwaysKept
  <1> QED
    BY <1>2, <1>3, PTL DEF Spec, BacksOff

=============================================================================
