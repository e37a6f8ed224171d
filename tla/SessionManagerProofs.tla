----------------------- MODULE SessionManagerProofs -----------------------
(*************************************************************************)
(* Proofs about SessionManager, for every set of callers and objects and *)
(* any number of token pairs.                                            *)
(*************************************************************************)
EXTENDS SessionManager, SequenceTheorems, TLAPS

-----------------------------------------------------------------------------
(* The lock: only the call at its head has a request of a restore or a   *)
(* renewal under way; whoever has one holds a session object.            *)

Working == {"refresh", "answered", "establish", "verify"}
Holding == Working \cup {"exchange"}

TaskRecords ==
    [kind: Kinds, at: Stages, obj: Objects \cup {NoObject},
     token: Tokens \cup {Blank}, loaded: Tokens \cup {Blank, None},
     retried: BOOLEAN]

LockOK ==
    /\ lock \in Seq(Callers)
    /\ task \in [Callers -> TaskRecords]
    /\ \A c \in Callers : task[c].at \in Working => Runs(c)
    /\ \A c \in Callers : task[c].at \in Holding => task[c].obj \in Objects

\* What happens to the queue when a call joins and when the head leaves.
LEMMA Joined ==
    ASSUME NEW q \in Seq(Callers), NEW c \in Callers
    PROVE  /\ Append(q, c) \in Seq(Callers)
           /\ Append(q, c) # <<>>
           /\ q # <<>> => Head(Append(q, c)) = Head(q)
  <1>1. /\ Append(q, c) \in Seq(Callers)
        /\ Len(Append(q, c)) = Len(q) + 1
        /\ \A i \in 1 .. Len(q) : Append(q, c)[i] = q[i]
    BY AppendProperties
  <1>2. Append(q, c) # <<>>
    <2>1. Len(q) \in Nat
      BY LenProperties
    <2>2. Len(Append(q, c)) # 0
      BY <1>1, <2>1
    <2>3. Len(<<>>) = 0
      OBVIOUS
    <2> QED
      BY <2>2, <2>3, Zenon
  <1>3. ASSUME q # <<>> PROVE Head(Append(q, c)) = Head(q)
    <2>1. 1 \in 1 .. Len(q)
      BY <1>3
    <2>2. Head(Append(q, c)) = Append(q, c)[1] /\ Head(q) = q[1]
      BY <1>1, <1>2, <1>3
    <2> QED
      BY <1>1, <2>1, <2>2
  <1> QED
    BY <1>1, <1>2, <1>3

LEMMA Left ==
    ASSUME NEW q \in Seq(Callers), q # <<>>
    PROVE  Tail(q) \in Seq(Callers)
  OBVIOUS

LEMMA IdleIsTask == Idle \in TaskRecords
  BY DEF Idle, TaskRecords, Kinds, Stages, None, Blank

LEMMA QueueKeepsLock ==
    ASSUME LockOK, NEW c \in Callers, NEW kind \in Kinds,
           task[c].at = "idle", Queue(c, kind)
    PROVE  LockOK'
  <1> DEFINE w == [Idle EXCEPT !.kind = kind, !.at = "waiting"]
  <1>1. w \in TaskRecords /\ w.at = "waiting"
    BY DEF Idle, TaskRecords, Stages, None, Blank
  <1>2. task' = [task EXCEPT ![c] = w] /\ lock' = Append(lock, c)
    BY DEF Queue
  <1> HIDE DEF w
  <1>3. lock' \in Seq(Callers) /\ task' \in [Callers -> TaskRecords]
    BY <1>1, <1>2, Joined DEF LockOK
  <1>4. ASSUME NEW d \in Callers, task'[d].at \in Working PROVE Runs(d)'
    <2>1. d # c
      BY <1>1, <1>2, <1>4 DEF LockOK, Working
    <2>2. task[d].at \in Working
      BY <1>2, <1>4, <2>1 DEF LockOK
    <2> QED
      BY <1>2, <2>2, Joined DEF LockOK, Runs
  <1>5. ASSUME NEW d \in Callers, task'[d].at \in Holding
        PROVE  task'[d].obj \in Objects
    BY <1>1, <1>2, <1>5 DEF LockOK, Holding, Working
  <1> QED
    BY <1>3, <1>4, <1>5 DEF LockOK

\* The head leaves, with whatever it becomes, if that is no longer working.
LEMMA LeavingKeepsLock ==
    ASSUME LockOK, NEW c \in Callers, Runs(c),
           NEW t \in TaskRecords, t.at \notin Working,
           t.at \in Holding => t.obj \in Objects,
           task' = [task EXCEPT ![c] = t], lock' = Tail(lock)
    PROVE  LockOK'
  <1>1. lock' \in Seq(Callers) /\ task' \in [Callers -> TaskRecords]
    BY Left DEF LockOK, Runs
  <1>2. ASSUME NEW d \in Callers PROVE task'[d].at \notin Working
    <2>1. CASE d = c
      BY <2>1 DEF LockOK
    <2>2. CASE d # c
      BY <2>2 DEF LockOK, Runs
    <2> QED
      BY <2>1, <2>2
  <1>3. ASSUME NEW d \in Callers, task'[d].at \in Holding
        PROVE  task'[d].obj \in Objects
    BY <1>3 DEF LockOK
  <1> QED
    BY <1>1, <1>2, <1>3 DEF LockOK

LEMMA SettleKeepsLock ==
    ASSUME LockOK, NEW c \in Callers, Runs(c), Settle(c)
    PROVE  LockOK'
  BY IdleIsTask, LeavingKeepsLock DEF Settle, Idle, Working, Holding

\* A call goes on: the head from one request to the next, another outside
\* the lock.
LEMMA MoveKeepsLock ==
    ASSUME LockOK, NEW c \in Callers,
           NEW t \in TaskRecords, t.at \in Working => Runs(c),
           t.at \in Holding => t.obj \in Objects,
           task' = [task EXCEPT ![c] = t], lock' = lock
    PROVE  LockOK'
  BY DEF LockOK, Runs

-----------------------------------------------------------------------------
(* Types. *)

DataOK ==
    /\ saved \in Tokens \cup {Blank, None}
    /\ issued \in 0 .. MaxTokens
    /\ spent \subseteq Tokens
    /\ expired \subseteq Tokens
    /\ forgotten \subseteq Tokens
    /\ object \in Objects \cup {NoObject}
    /\ cell \in [Objects -> [tok: Tokens \cup {Blank}, cookies: BOOLEAN]]
    /\ established \in BOOLEAN
    /\ signIn \in [at: {"none", "user", "establish"},
                   obj: Objects \cup {NoObject}]
    /\ signIn.at # "none" => signIn.obj \in Objects

Typed == DataOK /\ LockOK

LEMMA NextPair ==
    ASSUME DataOK, issued < MaxTokens
    PROVE  issued + 1 \in Tokens /\ issued + 1 \in 0 .. MaxTokens
  BY SessionAssumption DEF DataOK, Tokens

LEMMA TypedInit == Init => Typed
  <1> SUFFICES ASSUME Init PROVE Typed
    OBVIOUS
  <1>1. DataOK
    <2>1. 1 \in Tokens /\ {0, 1} \subseteq 0 .. MaxTokens
      BY SessionAssumption DEF Tokens
    <2>2. saved \in Tokens \cup {Blank, None} /\ issued \in 0 .. MaxTokens
      BY <2>1 DEF Init
    <2>3. cell \in [Objects -> [tok: Tokens \cup {Blank}, cookies: BOOLEAN]]
      BY DEF Init, EmptyCell
    <2>4. /\ signIn \in [at: {"none", "user", "establish"},
                          obj: Objects \cup {NoObject}]
          /\ signIn.at = "none"
      BY DEF Init, NoSignIn
    <2> QED
      BY <2>2, <2>3, <2>4 DEF Init, DataOK
  <1>2. LockOK
    <2>1. <<>> \in Seq(Callers)
      OBVIOUS
    <2>2. \A c \in Callers : task[c] = Idle
      BY DEF Init
    <2> QED
      BY <2>1, <2>2, IdleIsTask DEF Init, LockOK, Idle, Working, Holding
  <1> QED
    BY <1>1, <1>2 DEF Typed

\* A call that now has a live session leaves the lock.
LEMMA RestoredKeepsLock ==
    ASSUME Typed, NEW c \in Callers, Runs(c), Restored(c)
    PROVE  LockOK'
  <1>1. CASE task[c].kind = "focus"
    <2>1. PICK o \in Objects :
            task' = [task EXCEPT ![c] = [Idle EXCEPT !.kind = "focus",
                                           !.at = "exchange", !.obj = o]]
      BY <1>1 DEF Restored
    <2>2. lock' = Tail(lock)
      BY <1>1 DEF Restored
    <2> DEFINE t == [Idle EXCEPT !.kind = "focus", !.at = "exchange", !.obj = o]
    <2>3. t \in TaskRecords /\ t.at \notin Working /\ t.obj \in Objects
      BY DEF Idle, TaskRecords, Kinds, Stages, Working, None, Blank
    <2>4. task' = [task EXCEPT ![c] = t]
      BY <2>1
    <2> HIDE DEF t
    <2> QED
      BY <2>2, <2>3, <2>4, LeavingKeepsLock DEF Typed
  <1>2. CASE task[c].kind # "focus"
    BY <1>2, SettleKeepsLock DEF Restored, Typed
  <1> QED
    BY <1>1, <1>2

LEMMA CallKeepsLock ==
    ASSUME Typed, NEW c \in Callers, Call(c)
    PROVE  LockOK'
  <1>1. {"restore", "renew", "focus"} \subseteq Kinds
    BY DEF Kinds
  <1>2. CASE FocusChild(c)
    <2>1. PICK o \in Objects :
            task' = [task EXCEPT ![c] = [Idle EXCEPT !.kind = "focus",
                                           !.at = "exchange", !.obj = o]]
      BY <1>2 DEF FocusChild
    <2> DEFINE t == [Idle EXCEPT !.kind = "focus", !.at = "exchange", !.obj = o]
    <2>2. t \in TaskRecords /\ t.at \notin Working /\ t.obj \in Objects
      BY DEF Idle, TaskRecords, Kinds, Stages, Working, None, Blank
    <2>3. task' = [task EXCEPT ![c] = t] /\ lock' = lock
      BY <1>2, <2>1 DEF FocusChild
    <2> HIDE DEF t
    <2> QED
      BY <2>2, <2>3, MoveKeepsLock DEF Typed
  <1>3. CASE ~FocusChild(c)
    BY <1>1, <1>3, QueueKeepsLock
       DEF Call, Ensure, Reauthenticate, Renew, FocusChildUnrestored, Typed
  <1> QED
    BY <1>2, <1>3

LEMMA AdoptKeepsLock ==
    ASSUME Typed, NEW c \in Callers, Runs(c), saved \in Tokens,
           NEW next \in {"refresh", "establish"}, AdoptSaved(c, next),
           lock' = lock
    PROVE  LockOK'
  <1>1. PICK o \in Objects :
          task' = [task EXCEPT ![c] =
                    [@ EXCEPT !.obj = o, !.loaded = saved, !.at = next,
                              !.token = IF next = "refresh" THEN saved ELSE Blank]]
    BY DEF AdoptSaved
  <1> DEFINE t == [task[c] EXCEPT !.obj = o, !.loaded = saved, !.at = next,
                     !.token = IF next = "refresh" THEN saved ELSE Blank]
  <1>2. task' = [task EXCEPT ![c] = t]
    BY <1>1
  <1>3. t \in TaskRecords /\ t.obj \in Objects
    BY DEF Typed, LockOK, TaskRecords, Stages
  <1> HIDE DEF t
  <1> QED
    BY <1>2, <1>3, MoveKeepsLock DEF Typed

LEMMA StepKeepsLock ==
    ASSUME Typed, NEW c \in Callers, Step(c)
    PROVE  LockOK'
  <1> USE DEF Typed
  <1>0. /\ task[c] \in TaskRecords
        /\ task[c].at \in Working => Runs(c) /\ task[c].obj \in Objects
    BY DEF LockOK, Holding
  <1>1. CASE AlreadyRestored(c) \/ VerifiedAlive(c)
    BY <1>0, <1>1, RestoredKeepsLock DEF AlreadyRestored, VerifiedAlive, Working
  <1>2. CASE \/ NothingSaved(c) \/ NoTokensSaved(c) \/ RenewedAlready(c)
             \/ RefreshRejected(c) \/ FailTransiently(c)
             \/ EstablishedForNothing(c) \/ EstablishRejected(c)
             \/ ExchangeUnavailable(c) \/ VerifiedDead(c) \/ VerifyFails(c)
    <2>1. Settle(c) /\ Runs(c)
      BY <1>0, <1>2
         DEF NothingSaved, NoTokensSaved, RenewedAlready, RefreshRejected,
             FailTransiently, EstablishedForNothing, Establish,
             EstablishRejected, ExchangeUnavailable, Rejected, VerifiedDead,
             VerifyFails, Working
    <2> QED
      BY <2>1, SettleKeepsLock
  <1>3. CASE BeginRestore(c)
    BY <1>3, AdoptKeepsLock DEF BeginRestore
  <1>4. CASE BeginRenewal(c)
    BY <1>4, AdoptKeepsLock DEF BeginRenewal
  <1>5. CASE PortalRefreshes(c)
    <2> DEFINE t == [task[c] EXCEPT !.at = "answered", !.token = issued + 1]
    <2>1. t \in TaskRecords /\ t.obj \in Objects
      BY <1>0, <1>5, NextPair DEF PortalRefreshes, TaskRecords, Stages, Working
    <2>2. task' = [task EXCEPT ![c] = t] /\ lock' = lock
      BY <1>5 DEF PortalRefreshes, LockOK
    <2>3. Runs(c)
      BY <1>0, <1>5 DEF PortalRefreshes, Working
    <2> HIDE DEF t
    <2> QED
      BY <2>1, <2>2, <2>3, MoveKeepsLock
  <1>6. CASE RefreshAnswered(c)
    <2>1. Runs(c)
      BY <1>0, <1>6 DEF RefreshAnswered, Working
    <2>2. CASE task[c].kind = "renew"
      BY <1>6, <2>1, <2>2, SettleKeepsLock DEF RefreshAnswered
    <2>3. CASE task[c].kind # "renew"
      <3> DEFINE t == [task[c] EXCEPT !.at = "establish", !.token = Blank]
      <3>1. t \in TaskRecords /\ t.obj \in Objects
        BY <1>0, <1>6 DEF RefreshAnswered, TaskRecords, Stages, Working
      <3>2. task' = [task EXCEPT ![c] = t] /\ lock' = lock
        BY <1>6, <2>3 DEF RefreshAnswered, LockOK
      <3> HIDE DEF t
      <3> QED
        BY <2>1, <3>1, <3>2, MoveKeepsLock
    <2> QED
      BY <2>2, <2>3
  <1>7. CASE Established(c)
    <2> DEFINE t == [task[c] EXCEPT !.at = "verify"]
    <2>1. t \in TaskRecords /\ t.obj \in Objects
      BY <1>0, <1>7 DEF Established, Establish, TaskRecords, Stages, Working
    <2>2. task' = [task EXCEPT ![c] = t] /\ lock' = lock
      BY <1>7 DEF Established, LockOK
    <2>3. Runs(c)
      BY <1>0, <1>7 DEF Established, Establish, Working
    <2> HIDE DEF t
    <2> QED
      BY <2>1, <2>2, <2>3, MoveKeepsLock
  <1>8. CASE EstablishRejectedOnce(c)
    <2> DEFINE k == cell[task[c].obj].tok
               t == [task[c] EXCEPT !.at = "refresh", !.retried = TRUE,
                                    !.token = k]
    <2>1. k \in Tokens \cup {Blank}
      BY <1>0, <1>8 DEF DataOK, EstablishRejectedOnce, Working
    <2> HIDE DEF k
    <2>2. t \in TaskRecords /\ t.obj \in Objects
      BY <1>0, <1>8, <2>1
         DEF EstablishRejectedOnce, TaskRecords, Stages, Working
    <2>3. task' = [task EXCEPT ![c] = t] /\ lock' = lock
      BY <1>8 DEF EstablishRejectedOnce, LockOK, k
    <2>4. Runs(c)
      BY <1>0, <1>8 DEF EstablishRejectedOnce, Working
    <2> HIDE DEF t
    <2> QED
      BY <2>2, <2>3, <2>4, MoveKeepsLock
  <1>9. CASE FocusDone(c) \/ FocusFails(c)
    BY <1>9, IdleIsTask, MoveKeepsLock
       DEF FocusDone, FocusFails, Idle, Working, Holding
  <1> QED
    BY <1>1, <1>2, <1>3, <1>4, <1>5, <1>6, <1>7, <1>8, <1>9 DEF Step

LEMMA RestartKeepsLock ==
    ASSUME Restart PROVE LockOK'
  <1>1. lock' = <<>> /\ \A c \in Callers : task'[c] = Idle
    BY DEF Restart
  <1>2. task' \in [Callers -> TaskRecords] /\ lock' \in Seq(Callers)
    BY <1>1, IdleIsTask DEF Restart
  <1> QED
    BY <1>1, <1>2 DEF LockOK, Idle, Working, Holding

LEMMA NextKeepsLock ==
    ASSUME Typed, [Next]_vars
    PROVE  LockOK'
  <1>1. ASSUME NEW c \in Callers, Call(c) \/ Step(c) PROVE LockOK'
    BY <1>1, CallKeepsLock, StepKeepsLock
  <1>2. CASE Login \/ Logout \/ Expire \/ UNCHANGED vars
    <2>1. lock' = lock /\ task' = task
      BY <1>2 DEF Login, LoginStart, LoginToken, LoginDone, LoginFails,
                  Logout, Expire, vars
    <2> QED
      BY <2>1 DEF Typed, LockOK, Runs
  <1>3. CASE Restart
    BY <1>3, RestartKeepsLock
  <1> QED
    BY <1>1, <1>2, <1>3 DEF Next

\* What a step may do to the object and the cells.
LEMMA ObjectTaken ==
    ASSUME DataOK, NEW o \in Objects, NEW tok \in Tokens \cup {Blank},
           object' = o,
           \/ cell' = [cell EXCEPT ![o] = Cell(o)]
           \/ cell' = [cell EXCEPT ![o] = [Cell(o) EXCEPT !.tok = tok]]
    PROVE  /\ object' \in Objects \cup {NoObject}
           /\ cell' \in [Objects -> [tok: Tokens \cup {Blank}, cookies: BOOLEAN]]
  <1>1. Cell(o) \in [tok: Tokens \cup {Blank}, cookies: BOOLEAN]
    BY DEF DataOK, Cell, EmptyCell
  <1> QED
    BY <1>1 DEF DataOK

LEMMA SerializedType ==
    ASSUME NEW c \in [Objects -> [tok: Tokens \cup {Blank}, cookies: BOOLEAN]],
           object \in Objects \cup {NoObject}
    PROVE  Serialized(c) \in Tokens \cup {Blank}
  BY DEF Serialized

\* The cookies of an object are set.
LEMMA CookiesSet ==
    ASSUME DataOK, NEW o,
           cell' = [cell EXCEPT ![o].cookies = TRUE]
    PROVE  cell' \in [Objects -> [tok: Tokens \cup {Blank}, cookies: BOOLEAN]]
  <1> DEFINE r == [cell[o] EXCEPT !.cookies = TRUE]
  <1>1. o \in Objects => r \in [tok: Tokens \cup {Blank}, cookies: BOOLEAN]
    BY DEF DataOK
  <1>2. cell' = [cell EXCEPT ![o] = r]
    OBVIOUS
  <1> HIDE DEF r
  <1> QED
    BY <1>1, <1>2 DEF DataOK

LEMMA CallKeepsData ==
    ASSUME Typed, NEW c \in Callers, Call(c)
    PROVE  DataOK'
  <1> USE DEF Typed
  <1>1. CASE FocusChild(c)
    <2>1. PICK o \in Objects :
            object' = o /\ cell' = [cell EXCEPT ![o] = Cell(o)]
      BY <1>1 DEF FocusChild
    <2>2. /\ object' \in Objects \cup {NoObject}
          /\ cell' \in [Objects -> [tok: Tokens \cup {Blank}, cookies: BOOLEAN]]
      BY <2>1, ObjectTaken
    <2> QED
      BY <1>1, <2>2 DEF FocusChild, DataOK, portal
  <1>2. CASE ~FocusChild(c)
    BY <1>2 DEF Call, Ensure, Reauthenticate, Renew, FocusChildUnrestored,
                DataOK, portal
  <1> QED
    BY <1>1, <1>2

LEMMA StepKeepsData ==
    ASSUME Typed, NEW c \in Callers, Step(c)
    PROVE  DataOK'
  <1> DEFINE Cells == [Objects -> [tok: Tokens \cup {Blank}, cookies: BOOLEAN]]
  <1> USE DEF Typed
  <1>0. /\ task[c] \in TaskRecords
        /\ task[c].at \in Working => task[c].obj \in Objects
    BY DEF LockOK, Holding
  <1>1. CASE AlreadyRestored(c) \/ VerifiedAlive(c)
    <2>1. \/ object' = object /\ cell' = cell
          \/ \E o \in Objects :
               object' = o /\ cell' = [cell EXCEPT ![o] = Cell(o)]
      BY <1>1 DEF AlreadyRestored, VerifiedAlive, Restored
    <2>2. object' \in Objects \cup {NoObject} /\ cell' \in Cells
      BY <2>1, ObjectTaken DEF DataOK
    <2> QED
      BY <1>1, <2>2
         DEF AlreadyRestored, VerifiedAlive, Restored, DataOK, portal
  <1>2. CASE BeginRestore(c) \/ BeginRenewal(c) \/ RenewedAlready(c)
    <2>1. saved \in Tokens
      BY <1>2 DEF BeginRestore, BeginRenewal, RenewedAlready
    <2>2. \E o \in Objects :
            /\ object' = o
            /\ cell' = [cell EXCEPT ![o] = [Cell(o) EXCEPT !.tok = saved]]
      BY <1>2 DEF BeginRestore, BeginRenewal, RenewedAlready, AdoptSaved
    <2>3. object' \in Objects \cup {NoObject} /\ cell' \in Cells
      BY <2>1, <2>2, ObjectTaken
    <2> QED
      BY <1>2, <2>3 DEF BeginRestore, BeginRenewal, RenewedAlready, DataOK, portal
  <1>3. CASE NothingSaved(c) \/ VerifyFails(c) \/ FocusFails(c)
             \/ EstablishRejectedOnce(c)
    BY <1>3 DEF NothingSaved, VerifyFails, FocusFails, EstablishRejectedOnce,
                DataOK, portal
  <1>4. CASE NoTokensSaved(c) \/ VerifiedDead(c) \/ FailTransiently(c)
             \/ RefreshRejected(c) \/ EstablishRejected(c)
             \/ ExchangeUnavailable(c)
    BY <1>4 DEF NoTokensSaved, VerifiedDead, FailTransiently, RefreshRejected,
                EstablishRejected, ExchangeUnavailable, Rejected, Lose, Reset,
                DataOK, portal
  <1>5. CASE PortalRefreshes(c)
    BY <1>5, NextPair DEF PortalRefreshes, DataOK
  <1>6. CASE RefreshAnswered(c)
    <2>1. cell' \in Cells
      BY <1>0, <1>6 DEF RefreshAnswered, DataOK, TaskRecords, Working
    <2>2. saved' \in Tokens \cup {Blank, None}
      BY <1>6, <2>1, SerializedType DEF RefreshAnswered, DataOK
    <2> QED
      BY <1>6, <2>1, <2>2 DEF RefreshAnswered, DataOK, portal
  <1>7. CASE Established(c) \/ FocusDone(c)
    <2>1. cell' \in Cells
      BY <1>7, CookiesSet DEF Established, Establish, FocusDone
    <2>2. saved' \in Tokens \cup {Blank, None}
      BY <1>7, <2>1, SerializedType DEF Established, FocusDone, DataOK
    <2> QED
      BY <1>7, <2>1, <2>2 DEF Established, FocusDone, DataOK, portal
  <1>8. CASE EstablishedForNothing(c)
    BY <1>8 DEF EstablishedForNothing, Establish, Lose, Reset, DataOK, portal
  <1> QED
    BY <1>1, <1>2, <1>3, <1>4, <1>5, <1>6, <1>7, <1>8 DEF Step

LEMMA LoginKeepsData ==
    ASSUME Typed, Login
    PROVE  DataOK'
  <1> DEFINE Cells == [Objects -> [tok: Tokens \cup {Blank}, cookies: BOOLEAN]]
  <1> USE DEF Typed
  <1>1. CASE LoginStart
    <2>1. PICK o \in Objects :
            /\ object' = o
            /\ cell' = [cell EXCEPT ![o] = EmptyCell]
            /\ signIn' = [at |-> "user", obj |-> o]
      BY <1>1 DEF LoginStart
    <2>2. cell' \in Cells
      BY <2>1 DEF EmptyCell, DataOK
    <2>3. /\ signIn' \in [at: {"none", "user", "establish"},
                           obj: Objects \cup {NoObject}]
          /\ signIn'.obj \in Objects
      BY <2>1
    <2> QED
      BY <1>1, <2>1, <2>2, <2>3 DEF LoginStart, DataOK, portal
  <1>2. CASE LoginToken
    <2>1. issued + 1 \in Tokens /\ issued' \in 0 .. MaxTokens
      BY <1>2, NextPair DEF LoginToken
    <2>2. cell' \in Cells
      BY <1>2, <2>1 DEF LoginToken, DataOK
    <2>3. /\ signIn' \in [at: {"none", "user", "establish"},
                           obj: Objects \cup {NoObject}]
          /\ signIn'.obj \in Objects
      BY <1>2 DEF LoginToken, DataOK
    <2> QED
      BY <1>2, <2>1, <2>2, <2>3 DEF LoginToken, DataOK
  <1>3. CASE LoginDone \/ LoginFails
    <2>1. cell' \in Cells
      BY <1>3, CookiesSet DEF LoginDone, LoginFails, DataOK
    <2>2. saved' \in Tokens \cup {Blank}
      BY <1>3, <2>1, SerializedType DEF LoginDone, LoginFails, DataOK
    <2>3. /\ signIn' \in [at: {"none", "user", "establish"},
                           obj: Objects \cup {NoObject}]
          /\ signIn'.at = "none"
      BY <1>3 DEF LoginDone, LoginFails, NoSignIn
    <2> QED
      BY <1>3, <2>1, <2>2, <2>3 DEF LoginDone, LoginFails, DataOK, portal
  <1> QED
    BY <1>1, <1>2, <1>3 DEF Login

LEMMA NextKeepsData ==
    ASSUME Typed, [Next]_vars
    PROVE  DataOK'
  <1>1. ASSUME NEW c \in Callers, Call(c) \/ Step(c) PROVE DataOK'
    BY <1>1, CallKeepsData, StepKeepsData
  <1>2. CASE Login
    BY <1>2, LoginKeepsData
  <1>3. CASE Logout
    <2>1. 1 .. issued \subseteq Tokens
      BY SessionAssumption DEF Typed, DataOK, Tokens
    <2> QED
      BY <1>3, <2>1 DEF Logout, Reset, Typed, DataOK
  <1>4. CASE Expire
    BY <1>4 DEF Expire, Typed, DataOK
  <1>5. CASE Restart
    BY <1>5 DEF Restart, Typed, DataOK, EmptyCell, NoSignIn, portal
  <1>6. CASE UNCHANGED vars
    BY <1>6 DEF vars, portal, Typed, DataOK
  <1> QED
    BY <1>1, <1>2, <1>3, <1>4, <1>5, <1>6 DEF Next

\* The types and the lock's order hold throughout.
THEOREM AlwaysTyped == Spec => []Typed
  <1>1. Typed /\ [Next]_vars => Typed'
    BY NextKeepsLock, NextKeepsData DEF Typed
  <1> QED
    BY <1>1, TypedInit, PTL DEF Spec

\* Every reachable state is well typed.
THEOREM SessionTypeCorrect == Spec => []TypeOK
  <1>1. Typed => TypeOK
    BY DEF Typed, DataOK, LockOK, TaskRecords, TypeOK
  <1> QED
    BY <1>1, AlwaysTyped, PTL

-----------------------------------------------------------------------------
(* What a step may do to the cells, and to the call it belongs to. *)

ObjectKept == object' \in {object, NoObject}
CellsKept == ObjectKept /\ cell' = cell
CellTaken(o) == GetSession(o) /\ object' = o
                /\ cell' = [cell EXCEPT ![o] = Cell(o)]
CellAdopts(o) == GetSession(o) /\ object' = o
                 /\ cell' = [cell EXCEPT ![o] = [Cell(o) EXCEPT !.tok = saved]]
CellRotated(c) ==
    ObjectKept /\ cell' = [cell EXCEPT ![task[c].obj].tok = task[c].token]
CellCookies(c) ==
    ObjectKept /\ cell' = [cell EXCEPT ![task[c].obj].cookies = TRUE]

LEMMA CellEffect ==
    ASSUME NEW c \in Callers, Step(c)
    PROVE  \/ CellsKept
           \/ \E o \in Objects : CellTaken(o)
           \/ \E o \in Objects : CellAdopts(o)
           \/ CellRotated(c) /\ task[c].at = "answered"
           \/ CellCookies(c)
  BY DEF Step, AlreadyRestored, NothingSaved, NoTokensSaved,
         BeginRestore, BeginRenewal, RenewedAlready, PortalRefreshes,
         RefreshAnswered, RefreshRejected, FailTransiently, Established,
         Establish, EstablishedForNothing, EstablishRejectedOnce,
         EstablishRejected, ExchangeUnavailable, VerifiedAlive,
         VerifiedDead, VerifyFails, FocusDone, FocusFails, Restored,
         AdoptSaved, Rejected, Lose, Reset,
         ObjectKept, CellsKept, CellTaken, CellAdopts, CellRotated, CellCookies

LEMMA CellPairs ==
    ASSUME Typed, NEW c \in Callers, Step(c), NEW o \in Objects
    PROVE  cell'[o].tok \in {cell[o].tok, Blank, saved, task[c].token}
  <1> USE DEF Typed
  <1>1. CASE CellsKept
    BY <1>1 DEF CellsKept
  <1>2. ASSUME NEW p \in Objects, CellTaken(p)
        PROVE  cell'[o].tok \in {cell[o].tok, Blank}
    <2>1. cell'[p] \in {cell[p], EmptyCell} /\ (o # p => cell'[o] = cell[o])
      BY <1>2 DEF CellTaken, Cell, DataOK
    <2> QED
      BY <2>1 DEF EmptyCell
  <1>3. ASSUME NEW p \in Objects, CellAdopts(p)
        PROVE  cell'[o].tok \in {cell[o].tok, saved}
    <2>1. /\ cell'[p] = [Cell(p) EXCEPT !.tok = saved]
          /\ o # p => cell'[o] = cell[o]
      BY <1>3 DEF CellAdopts, DataOK
    <2>2. Cell(p) \in [tok: Tokens \cup {Blank}, cookies: BOOLEAN]
      BY DEF Cell, EmptyCell, DataOK
    <2> QED
      BY <2>1, <2>2
  <1>4. CASE CellRotated(c)
    BY <1>4 DEF CellRotated, DataOK
  <1>5. CASE CellCookies(c)
    BY <1>5 DEF CellCookies, DataOK
  <1> QED
    BY <1>1, <1>2, <1>3, <1>4, <1>5, CellEffect

TaskSettles(c) == task' = [task EXCEPT ![c] = Idle]
TaskFocuses(c) ==
    \E o \in Objects :
        /\ GetSession(o) /\ object' = o
        /\ cell' = [cell EXCEPT ![o] = Cell(o)]
        /\ task' = [task EXCEPT ![c] = [Idle EXCEPT !.kind = "focus",
                                          !.at = "exchange", !.obj = o]]
TaskAdopts(c) ==
    \E o \in Objects : \E next \in {"refresh", "establish"} :
        /\ saved \in Tokens
        /\ GetSession(o) /\ object' = o
        /\ cell' = [cell EXCEPT ![o] = [Cell(o) EXCEPT !.tok = saved]]
        /\ task' = [task EXCEPT ![c] =
                      [@ EXCEPT !.obj = o, !.loaded = saved, !.at = next,
                                !.token = IF next = "refresh" THEN saved ELSE Blank]]

LEMMA TaskEffect ==
    ASSUME NEW c \in Callers, Step(c)
    PROVE  \/ TaskSettles(c)
           \/ TaskFocuses(c)
           \/ TaskAdopts(c)
           \/ PortalRefreshes(c)
           \/ RefreshAnswered(c) /\ task[c].kind # "renew"
           \/ Established(c)
           \/ EstablishRejectedOnce(c)
  BY DEF Step, AlreadyRestored, NothingSaved, NoTokensSaved,
         BeginRestore, BeginRenewal, RenewedAlready,
         RefreshAnswered, RefreshRejected, FailTransiently,
         EstablishedForNothing,
         EstablishRejected, ExchangeUnavailable, VerifiedAlive,
         VerifiedDead, VerifyFails, FocusDone, FocusFails, Restored,
         AdoptSaved, Settle, Rejected, TaskSettles, TaskFocuses, TaskAdopts

LEMMA AdoptedCall ==
    ASSUME Typed, NEW c \in Callers, TaskAdopts(c)
    PROVE  \E t \in TaskRecords :
             /\ t.token \in {saved, Blank}
             /\ t.obj = object'
             /\ t.at \in {"refresh", "establish"}
             /\ t.at = "refresh" => t.token = saved
             /\ t.kind = task[c].kind
             /\ t.loaded = saved
             /\ task' = [task EXCEPT ![c] = t]
  <1>1. task[c] \in TaskRecords
    BY DEF Typed, LockOK
  <1>2. PICK o \in Objects, next \in {"refresh", "establish"} :
          /\ saved \in Tokens /\ object' = o
          /\ task' = [task EXCEPT ![c] =
                        [@ EXCEPT !.obj = o, !.loaded = saved, !.at = next,
                                  !.token = IF next = "refresh" THEN saved ELSE Blank]]
    BY DEF TaskAdopts
  <1> DEFINE t == [task[c] EXCEPT !.obj = o, !.loaded = saved, !.at = next,
                     !.token = IF next = "refresh" THEN saved ELSE Blank]
  <1>3. task' = [task EXCEPT ![c] = t]
    BY <1>2
  <1>4. /\ t \in TaskRecords
        /\ t.token \in {saved, Blank}
        /\ t.obj = object'
        /\ t.at = next
        /\ t.at = "refresh" => t.token = saved
        /\ t.kind = task[c].kind
        /\ t.loaded = saved
    BY <1>1, <1>2 DEF TaskRecords, Stages
  <1> HIDE DEF t
  <1> QED
    BY <1>3, <1>4

LEMMA OthersKept ==
    ASSUME Typed, NEW c \in Callers, Step(c), NEW d \in Callers, d # c
    PROVE  task'[d] = task[d]
  BY TaskEffect
     DEF TaskSettles, TaskFocuses, TaskAdopts, PortalRefreshes, RefreshAnswered,
         Established, EstablishRejectedOnce, Typed, LockOK

-----------------------------------------------------------------------------
(* Nothing refers to a pair the portal has not issued yet. *)

Known ==
    /\ forgotten \subseteq 1 .. issued
    /\ saved <= issued
    /\ \A o \in Objects : cell[o].tok <= issued
    /\ \A c \in Callers : task[c].token <= issued

LEMMA Numbers ==
    ASSUME DataOK
    PROVE  /\ issued \in Nat /\ issued \in Int /\ saved \in Int
           /\ 0 <= issued
           /\ \A o \in Objects : cell[o].tok \in Int
  BY SessionAssumption DEF DataOK, Tokens, Blank, None

LEMMA KnownInit == Init => Known
  BY DEF Init, EmptyCell, Idle, Blank, None, Known

LEMMA SerializedKnown ==
    ASSUME DataOK, NEW c, \A o \in Objects : c[o].tok <= issued
    PROVE  Serialized(c) <= issued
  BY Numbers DEF Serialized, DataOK, Blank

LEMMA CallKeepsKnown ==
    ASSUME Typed, Known, NEW c \in Callers, Call(c)
    PROVE  Known'
  <1>1. forgotten' = forgotten /\ saved' = saved /\ issued' = issued
    BY DEF Call, Ensure, Reauthenticate, Renew, FocusChild,
           FocusChildUnrestored, portal
  <1>2. \A d \in Callers : task'[d].token \in {task[d].token, Blank}
    BY DEF Call, Ensure, Reauthenticate, Renew, FocusChild,
           FocusChildUnrestored, Queue, Idle, Typed, LockOK
  <1>3. \A o \in Objects : cell'[o].tok \in {cell[o].tok, Blank}
    <2>1. cell' = cell \/ \E p \in Objects : cell' = [cell EXCEPT ![p] = Cell(p)]
      BY DEF Call, Ensure, Reauthenticate, Renew, FocusChild,
             FocusChildUnrestored
    <2>2. \A o \in Objects : cell'[o] \in {cell[o], EmptyCell}
      BY <2>1 DEF Cell, Typed, DataOK
    <2> QED
      BY <2>2 DEF EmptyCell
  <1> QED
    BY <1>1, <1>2, <1>3, Numbers DEF Known, Typed, Blank

LEMMA StepKeepsKnown ==
    ASSUME Typed, Known, NEW c \in Callers, Step(c)
    PROVE  Known'
  <1> USE DEF Typed
  <1>0. /\ task[c] \in TaskRecords
        /\ task[c].at \in Working => task[c].obj \in Objects
    BY DEF LockOK, Holding
  <1>1. CASE PortalRefreshes(c)
    <2>1. issued' = issued + 1
      BY <1>1 DEF PortalRefreshes
    <2>2. forgotten' \subseteq 1 .. issued'
      BY <1>1, <2>1, Numbers DEF PortalRefreshes, Known
    <2>3. \A d \in Callers : task'[d].token \in {task[d].token, issued + 1}
      BY <1>1 DEF PortalRefreshes, LockOK
    <2>4. \A d \in Callers : task[d].token \in Int
      BY SessionAssumption DEF LockOK, TaskRecords, Tokens, Blank
    <2>5. \A d \in Callers : task'[d].token <= issued'
      BY <2>1, <2>3, <2>4, Numbers DEF Known
    <2>6. saved' = saved /\ cell' = cell
      BY <1>1 DEF PortalRefreshes
    <2> QED
      BY <2>1, <2>2, <2>5, <2>6, Numbers DEF Known
  <1>2. CASE ~PortalRefreshes(c)
    <2>1. issued' = issued /\ forgotten' = forgotten
      BY <1>2 DEF Step, AlreadyRestored, NothingSaved, NoTokensSaved,
                  BeginRestore, BeginRenewal, RenewedAlready, RefreshAnswered,
                  RefreshRejected, FailTransiently, Established,
                  EstablishedForNothing, EstablishRejectedOnce,
                  EstablishRejected, ExchangeUnavailable, VerifiedAlive,
                  VerifiedDead, VerifyFails, FocusDone, FocusFails, portal
    <2>2. \A o \in Objects :
            cell'[o].tok \in {cell[o].tok, Blank, saved, task[c].token}
      BY CellPairs
    <2>3. \A o \in Objects : cell'[o].tok <= issued
      BY <1>0, <2>2, Numbers DEF Known, Blank
    <2>4. saved' <= issued
      <3>1. saved' \in {saved, None, Serialized(cell')}
        BY <1>2
           DEF Step, AlreadyRestored, NothingSaved, NoTokensSaved,
               BeginRestore, BeginRenewal, RenewedAlready, RefreshAnswered,
               RefreshRejected, FailTransiently, Established, Establish,
               EstablishedForNothing, EstablishRejectedOnce,
               EstablishRejected, ExchangeUnavailable, VerifiedAlive,
               VerifiedDead, VerifyFails, FocusDone, FocusFails,
               Rejected, Lose
      <3>2. Serialized(cell') <= issued
        BY <2>3, SerializedKnown
      <3> QED
        BY <3>1, <3>2, Numbers DEF Known, None
    <2>5. \A d \in Callers : task'[d].token <= issued
      <3> SUFFICES task'[c].token <= issued
        BY OthersKept DEF Known
      <3>1. task[c].token <= issued /\ saved <= issued /\ Blank <= issued
        BY Numbers DEF Known, Blank
      <3>2. CASE TaskSettles(c) \/ TaskFocuses(c)
        <4>1. task'[c].token = Blank
          <5>1. CASE TaskSettles(c)
            BY <5>1 DEF TaskSettles, LockOK, Idle
          <5>2. CASE TaskFocuses(c)
            <6>1. PICK o \in Objects :
                    task' = [task EXCEPT ![c] = [Idle EXCEPT !.kind = "focus",
                                                   !.at = "exchange", !.obj = o]]
              BY <5>2 DEF TaskFocuses
            <6> QED
              BY <6>1 DEF LockOK, Idle
          <5> QED
            BY <3>2, <5>1, <5>2
        <4> QED
          BY <3>1, <4>1
      <3>3. CASE TaskAdopts(c)
        <4>1. PICK t \in TaskRecords :
                t.token \in {saved, Blank} /\ task' = [task EXCEPT ![c] = t]
          BY <1>0, <3>3, AdoptedCall
        <4> QED
          BY <3>1, <4>1 DEF LockOK
      <3>4. CASE (RefreshAnswered(c) /\ task[c].kind # "renew") \/ Established(c)
        BY <1>0, <3>1, <3>4
           DEF RefreshAnswered, Established, TaskRecords, LockOK
      <3>5. CASE EstablishRejectedOnce(c)
        <4>1. cell[task[c].obj].tok <= issued
          BY <1>0, <3>5 DEF EstablishRejectedOnce, Working, Known
        <4> QED
          BY <1>0, <3>5, <4>1 DEF EstablishRejectedOnce, TaskRecords, LockOK
      <3> QED
        BY <1>2, <3>2, <3>3, <3>4, <3>5, TaskEffect
    <2> QED
      BY <2>1, <2>3, <2>4, <2>5 DEF Known
  <1> QED
    BY <1>1, <1>2

LEMMA LoginKeepsKnown ==
    ASSUME Typed, Known, Login
    PROVE  Known'
  <1> USE DEF Typed
  <1>1. CASE LoginStart
    <2>1. \A o \in Objects : cell'[o].tok \in {cell[o].tok, Blank}
      <3>1. PICK p \in Objects : cell' = [cell EXCEPT ![p] = EmptyCell]
        BY <1>1 DEF LoginStart
      <3>2. \A o \in Objects : cell'[o] \in {cell[o], EmptyCell}
        BY <3>1 DEF DataOK
      <3> QED
        BY <3>2 DEF EmptyCell
    <2> QED
      BY <1>1, <2>1, Numbers DEF LoginStart, Known, portal, Blank
  <1>2. CASE LoginToken
    <2>1. /\ issued' = issued + 1 /\ saved' = saved
          /\ forgotten' = forgotten /\ task' = task
      BY <1>2 DEF LoginToken
    <2>2. \A o \in Objects : cell'[o].tok \in {cell[o].tok, issued + 1}
      BY <1>2 DEF LoginToken, DataOK
    <2>3. \A d \in Callers : task[d].token \in Int
      BY SessionAssumption DEF LockOK, TaskRecords, Tokens, Blank
    <2> QED
      BY <2>1, <2>2, <2>3, Numbers DEF Known
  <1>3. CASE LoginDone \/ LoginFails
    <2>1. \A o \in Objects : cell'[o].tok = cell[o].tok
      BY <1>3 DEF LoginDone, LoginFails, DataOK
    <2>2. saved' = Serialized(cell')
      BY <1>3 DEF LoginDone, LoginFails
    <2>3. saved' <= issued
      BY <2>1, <2>2, SerializedKnown DEF Known
    <2> QED
      BY <1>3, <2>1, <2>3 DEF LoginDone, LoginFails, Known, portal
  <1> QED
    BY <1>1, <1>2, <1>3 DEF Login

LEMMA NextKeepsKnown ==
    ASSUME Typed, Known, [Next]_vars
    PROVE  Known'
  <1>1. ASSUME NEW c \in Callers, Call(c) \/ Step(c) PROVE Known'
    BY <1>1, CallKeepsKnown, StepKeepsKnown
  <1>2. CASE Login
    BY <1>2, LoginKeepsKnown
  <1>3. CASE Logout
    BY <1>3, Numbers DEF Logout, Typed, Known, None
  <1>4. CASE Expire
    BY <1>4 DEF Expire, Known
  <1>5. CASE Restart
    BY <1>5, Numbers DEF Restart, Typed, Known, EmptyCell, Idle, Blank, portal
  <1>6. CASE UNCHANGED vars
    BY <1>6 DEF vars, portal, Known
  <1> QED
    BY <1>1, <1>2, <1>3, <1>4, <1>5, <1>6 DEF Next

-----------------------------------------------------------------------------
(* A logout is final: nothing that can still reach the manager's own object *)
(* belongs to a login it ended.  The object is new after every reset, and a *)
(* call keeps only the object it took before.                               *)

Forgetting ==
    /\ saved \notin forgotten
    /\ object \in Objects => cell[object].tok \notin forgotten
    /\ \A c \in Callers :
         /\ task[c].at \in {"refresh", "answered"}
         /\ task[c].obj = object
         => task[c].token \notin forgotten

Remembered == Typed /\ Known /\ Forgetting

\* A new object is nobody else's.
LEMMA TakenIsFresh ==
    ASSUME Typed, NEW o \in Objects, GetSession(o), NEW d \in Callers,
           task[d].obj = o
    PROVE  object = o
  BY DEF GetSession, Held, Typed, DataOK

LEMMA BlankUnforgotten ==
    ASSUME Known PROVE Blank \notin forgotten /\ None \notin forgotten
  BY DEF Known, Blank, None

LEMMA SerializedUnforgotten ==
    ASSUME Typed, Known, NEW c,
           object \in Objects => c[object].tok \notin forgotten
    PROVE  Serialized(c) \notin forgotten
  BY BlankUnforgotten DEF Serialized, Typed, DataOK

LEMMA CallKeepsForgetting ==
    ASSUME Remembered, NEW c \in Callers, Call(c)
    PROVE  Forgetting'
  <1> USE DEF Remembered
  <1>1. saved' = saved /\ forgotten' = forgotten
    BY DEF Call, Ensure, Reauthenticate, Renew, FocusChild,
           FocusChildUnrestored, portal
  <1>2. \A d \in Callers : task'[d].at \in {"refresh", "answered"} => task'[d] = task[d]
    BY DEF Call, Ensure, Reauthenticate, Renew, FocusChild,
           FocusChildUnrestored, Queue, Idle, Typed, LockOK
  <1>3. CASE FocusChild(c)
    <2>1. PICK o \in Objects :
            /\ GetSession(o) /\ object' = o
            /\ cell' = [cell EXCEPT ![o] = Cell(o)]
      BY <1>3 DEF FocusChild
    <2>2. cell'[o].tok \notin forgotten
      BY <2>1, BlankUnforgotten
         DEF Cell, EmptyCell, Typed, DataOK, Forgetting
    <2>3. ASSUME NEW d \in Callers, task'[d].at \in {"refresh", "answered"},
                 task'[d].obj = object'
          PROVE  task'[d].token \notin forgotten
      <3>1. task'[d] = task[d] /\ object = o
        BY <1>2, <2>1, <2>3, TakenIsFresh
      <3> QED
        BY <2>1, <2>3, <3>1 DEF Forgetting
    <2> QED
      BY <1>1, <2>1, <2>2, <2>3 DEF Forgetting
  <1>4. CASE ~FocusChild(c)
    <2>1. object' = object /\ cell' = cell
      BY <1>4 DEF Call, Ensure, Reauthenticate, Renew, FocusChildUnrestored
    <2> QED
      BY <1>1, <1>2, <2>1 DEF Forgetting
  <1> QED
    BY <1>3, <1>4

\* The three ways in which a step writes the manager's own object.
LEMMA StepKeepsCell ==
    ASSUME Remembered, NEW c \in Callers, Step(c), ~PortalRefreshes(c),
           object' \in Objects
    PROVE  cell'[object'].tok \notin forgotten
  <1> USE DEF Remembered
  <1>1. ASSUME NEW o \in Objects, CellTaken(o)
        PROVE  cell'[object'].tok \notin forgotten
    BY <1>1, BlankUnforgotten
       DEF CellTaken, GetSession, Cell, EmptyCell, Typed, DataOK, Forgetting
  <1>2. ASSUME NEW o \in Objects, CellAdopts(o)
        PROVE  cell'[object'].tok \notin forgotten
    <2>1. Cell(o) \in [tok: Tokens \cup {Blank}, cookies: BOOLEAN]
      BY DEF Typed, DataOK, Cell, EmptyCell
    <2>2. cell'[o] = [Cell(o) EXCEPT !.tok = saved] /\ object' = o
      BY <1>2 DEF CellAdopts, Typed, DataOK
    <2> QED
      BY <2>1, <2>2 DEF Forgetting
  <1>3. CASE \/ CellsKept \/ CellCookies(c)
             \/ CellRotated(c) /\ task[c].at = "answered"
    <2>1. object' = object
      BY <1>3, SessionAssumption
      DEF CellsKept, CellRotated, CellCookies, ObjectKept, Typed,
                  DataOK
    <2>2. CASE CellsKept
      BY <2>1, <2>2 DEF CellsKept, Forgetting
    <2>3. CASE CellCookies(c)
      BY <2>1, <2>3 DEF CellCookies, Forgetting, Typed, DataOK
    <2>4. CASE CellRotated(c) /\ task[c].at = "answered"
      BY <2>1, <2>4 DEF CellRotated, Forgetting, Typed, DataOK
    <2> QED
      BY <1>3, <2>2, <2>3, <2>4
  <1> QED
    BY <1>1, <1>2, <1>3, CellEffect

\* What a step may write to the store.
LEMMA StoreEffect ==
    ASSUME NEW c \in Callers, Step(c)
    PROVE  /\ saved' \in {saved, None, Serialized(cell')}
           /\ saved' \notin {saved, None} => object' = object
           /\ ~PortalRefreshes(c) => forgotten' = forgotten /\ issued' = issued
  BY DEF Step, AlreadyRestored, NothingSaved, NoTokensSaved,
         BeginRestore, BeginRenewal, RenewedAlready, PortalRefreshes,
         RefreshAnswered, RefreshRejected, FailTransiently, Established,
         Establish, EstablishedForNothing, EstablishRejectedOnce,
         EstablishRejected, ExchangeUnavailable, VerifiedAlive,
         VerifiedDead, VerifyFails, FocusDone, FocusFails,
         Rejected, Lose, portal

LEMMA StepKeepsStore ==
    ASSUME Remembered, NEW c \in Callers, Step(c), ~PortalRefreshes(c)
    PROVE  saved' \notin forgotten
  <1> USE DEF Remembered
  <1>1. CASE saved' \in {saved, None}
    BY <1>1, BlankUnforgotten DEF Forgetting
  <1>2. CASE saved' \notin {saved, None}
    <2>1. saved' = Serialized(cell') /\ object' = object
      BY <1>2, StoreEffect
    <2>2. object \in Objects => cell'[object].tok \notin forgotten
      BY <2>1, StepKeepsCell
    <2> QED
      BY <2>1, <2>2, SerializedUnforgotten
  <1> QED
    BY <1>1, <1>2

LEMMA StepKeepsForgetting ==
    ASSUME Remembered, NEW c \in Callers, Step(c)
    PROVE  Forgetting'
  <1> USE DEF Remembered
  <1>0. task[c] \in TaskRecords
    BY DEF Typed, LockOK
  <1>1. CASE PortalRefreshes(c)
    <2>1. /\ issued + 1 \notin forgotten
          /\ saved # issued + 1
          /\ \A o \in Objects : cell[o].tok # issued + 1
          /\ \A d \in Callers : task[d].token # issued + 1
      <3>1. \A d \in Callers : task[d].token \in Int
        BY SessionAssumption DEF Typed, LockOK, TaskRecords, Tokens, Blank
      <3> QED
        BY <3>1, Numbers DEF Known, Typed
    <2>2. /\ forgotten' = IF task[c].token \in forgotten
                            THEN forgotten \cup {issued + 1} ELSE forgotten
          /\ saved' = saved /\ object' = object /\ cell' = cell
      BY <1>1 DEF PortalRefreshes
    <2>3. saved' \notin forgotten' /\ (object \in Objects => cell[object].tok \notin forgotten')
      BY <2>1, <2>2 DEF Forgetting
    <2>4. ASSUME NEW d \in Callers, task'[d].at \in {"refresh", "answered"},
                 task'[d].obj = object
          PROVE  task'[d].token \notin forgotten'
      <3>1. CASE d = c
        <4>1. task'[d].token = issued + 1 /\ task'[d].obj = task[c].obj
          BY <1>0, <1>1, <3>1 DEF PortalRefreshes, TaskRecords, Typed, LockOK
        <4>2. task[c].token \notin forgotten
          BY <1>1, <2>4, <3>1, <4>1 DEF PortalRefreshes, Forgetting
        <4> QED
          BY <2>1, <2>2, <4>1, <4>2
      <3>2. CASE d # c
        BY <2>1, <2>2, <2>4, <3>2, OthersKept DEF Forgetting
      <3> QED
        BY <3>1, <3>2
    <2> QED
      BY <2>2, <2>3, <2>4 DEF Forgetting
  <1>2. CASE ~PortalRefreshes(c)
    <2>1. forgotten' = forgotten /\ saved' \notin forgotten
      BY <1>2, StoreEffect, StepKeepsStore
    <2>2. object' \in Objects => cell'[object'].tok \notin forgotten
      BY <1>2, StepKeepsCell
    <2>3. ASSUME NEW d \in Callers, d # c,
                 task'[d].at \in {"refresh", "answered"}, task'[d].obj = object'
          PROVE  task'[d].token \notin forgotten
      <3>1. task'[d] = task[d]
        BY <2>3, OthersKept
      <3>2. task[d].obj \in Objects
        BY <2>3, <3>1 DEF Typed, LockOK, Holding, Working
      <3>3. object = object'
        <4>1. CASE \E o \in Objects : CellTaken(o) \/ CellAdopts(o)
          BY <2>3, <3>1, <4>1, TakenIsFresh DEF CellTaken, CellAdopts
        <4>2. CASE object' \in {object, NoObject}
          BY <2>3, <3>1, <3>2, <4>2, SessionAssumption
        <4> QED
          BY <4>1, <4>2, CellEffect DEF CellsKept, CellRotated, CellCookies, ObjectKept
      <3> QED
        BY <2>3, <3>1, <3>3 DEF Forgetting
    <2>4. ASSUME task'[c].at \in {"refresh", "answered"}, task'[c].obj = object'
          PROVE  task'[c].token \notin forgotten
      <3>1. CASE TaskSettles(c)
        BY <2>4, <3>1 DEF TaskSettles, Idle, Typed, LockOK
      <3>2. CASE TaskFocuses(c)
        <4>1. PICK o \in Objects :
                task' = [task EXCEPT ![c] = [Idle EXCEPT !.kind = "focus",
                                               !.at = "exchange", !.obj = o]]
          BY <3>2 DEF TaskFocuses
        <4> QED
          BY <2>4, <4>1 DEF Idle, Typed, LockOK
      <3>3. CASE TaskAdopts(c)
        <4>1. PICK t \in TaskRecords :
                t.token \in {saved, Blank} /\ task' = [task EXCEPT ![c] = t]
          BY <3>3, AdoptedCall
        <4> QED
          BY <4>1, BlankUnforgotten DEF Typed, LockOK, Forgetting
      <3>4. CASE (RefreshAnswered(c) /\ task[c].kind # "renew") \/ Established(c)
        BY <1>0, <2>4, <3>4
           DEF RefreshAnswered, Established, TaskRecords, Typed, LockOK
      <3>5. CASE EstablishRejectedOnce(c)
        <4> DEFINE k == cell[task[c].obj].tok
        <4> HIDE DEF k
        <4>1. object' = object
          BY <3>5 DEF EstablishRejectedOnce
        <4>2. task'[c].obj = task[c].obj /\ task'[c].token = k
          BY <1>0, <3>5 DEF EstablishRejectedOnce, TaskRecords, Typed, LockOK, k
        <4>3. task[c].obj \in Objects
          BY <3>5 DEF EstablishRejectedOnce, Typed, LockOK, Holding, Working
        <4> QED
          BY <2>4, <4>1, <4>2, <4>3 DEF Forgetting, k
      <3> QED
        BY <1>2, <3>1, <3>2, <3>3, <3>4, <3>5, TaskEffect
    <2> QED
      BY <2>1, <2>2, <2>3, <2>4 DEF Forgetting
  <1> QED
    BY <1>1, <1>2

LEMMA LoginKeepsForgetting ==
    ASSUME Remembered, Login
    PROVE  Forgetting'
  <1> USE DEF Remembered
  <1>1. CASE LoginStart
    <2>1. PICK o \in Objects \ (Held \cup {object}) :
            object' = o /\ cell' = [cell EXCEPT ![o] = EmptyCell]
      BY <1>1 DEF LoginStart
    <2>2. cell'[o].tok \notin forgotten
      BY <2>1, BlankUnforgotten DEF EmptyCell, Typed, DataOK
    <2>3. \A d \in Callers : task[d].obj # o
      BY <2>1 DEF Held
    <2> QED
      BY <1>1, <2>1, <2>2, <2>3 DEF LoginStart, Forgetting, portal
  <1>2. CASE LoginToken
    <2>1. issued + 1 \notin forgotten
      BY Numbers DEF Known, Typed
    <2>2. \A o \in Objects : cell'[o].tok \in {cell[o].tok, issued + 1}
      BY <1>2 DEF LoginToken, Typed, DataOK
    <2> QED
      BY <1>2, <2>1, <2>2 DEF LoginToken, Forgetting
  <1>3. CASE LoginDone \/ LoginFails
    <2>1. \A o \in Objects : cell'[o].tok = cell[o].tok
      BY <1>3 DEF LoginDone, LoginFails, Typed, DataOK
    <2>2. saved' = Serialized(cell')
      BY <1>3 DEF LoginDone, LoginFails
    <2>3. saved' \notin forgotten
      BY <2>1, <2>2, SerializedUnforgotten DEF Forgetting
    <2> QED
      BY <1>3, <2>1, <2>3 DEF LoginDone, LoginFails, Forgetting, portal
  <1> QED
    BY <1>1, <1>2, <1>3 DEF Login

LEMMA NextKeepsForgetting ==
    ASSUME Remembered, [Next]_vars
    PROVE  Forgetting'
  <1> USE DEF Remembered
  <1>1. ASSUME NEW c \in Callers, Call(c) \/ Step(c) PROVE Forgetting'
    BY <1>1, CallKeepsForgetting, StepKeepsForgetting
  <1>2. CASE Login
    BY <1>2, LoginKeepsForgetting
  <1>3. CASE Logout
    <2>1. saved' \notin forgotten'
      BY <1>3 DEF Logout, None
    <2>2. object' = NoObject /\ task' = task
      BY <1>3 DEF Logout, Reset
    <2>3. \A d \in Callers :
            task[d].at \in {"refresh", "answered"} => task[d].obj # NoObject
      BY SessionAssumption DEF Typed, LockOK, Holding, Working
    <2> QED
      BY <2>1, <2>2, <2>3, SessionAssumption DEF Forgetting
  <1>4. CASE Expire
    BY <1>4 DEF Expire, Forgetting
  <1>5. CASE Restart
    <2>1. \A d \in Callers : task'[d].at = "idle"
      BY <1>5 DEF Restart, Idle
    <2> QED
      BY <1>5, <2>1, SessionAssumption DEF Restart, portal, Forgetting
  <1>6. CASE UNCHANGED vars
    BY <1>6 DEF vars, portal, Forgetting
  <1> QED
    BY <1>1, <1>2, <1>3, <1>4, <1>5, <1>6 DEF Next

\* After a logout no pair of a login it ended is ever saved again, whatever
\* restore, renewal, child switch or login was under way when it came.
THEOREM LogoutIsFinal == Spec => []LogoutForgets
  <1>1. Init => Remembered
    <2>1. Init => Forgetting
      BY SessionAssumption DEF Init, Forgetting
    <2> QED
      BY <2>1, TypedInit, KnownInit DEF Remembered
  <1>2. Remembered /\ [Next]_vars => Remembered'
    BY NextKeepsLock, NextKeepsData, NextKeepsKnown, NextKeepsForgetting
       DEF Typed, Remembered
  <1>3. Remembered => LogoutForgets
    BY DEF Remembered, Forgetting, LogoutForgets
  <1> QED
    BY <1>1, <1>2, <1>3, PTL DEF Spec

-----------------------------------------------------------------------------
(* Restores and renewals, when nobody logs in or out or switches child, the *)
(* portal ends no session and loses no answer, but requests may fail and    *)
(* the process may be stopped between any two of them.                      *)

Undisturbed == Calls \subseteq {"restore", "renew"} /\ Faults \subseteq {"crash"}

TaskFresh(t) ==
    /\ t.kind # "focus" /\ t.at # "exchange"
    /\ t.at \in Working => t.obj = object
    /\ t.at \in {"refresh", "establish", "verify"} =>
         saved \in Tokens \ spent /\ cell[object].tok = saved
    /\ t.at = "refresh" => t.token = saved
    /\ t.at = "answered" => t.token \in Tokens \ spent /\ saved \in Tokens

Fresh ==
    /\ saved # Blank
    /\ spent \subseteq 1 .. issued
    /\ signIn.at = "none"
    /\ \A c \in Callers : TaskFresh(task[c])
    /\ saved \in spent => \E c \in Callers : task[c].at = "answered"

Kept == Typed /\ Known /\ Fresh

LEMMA FreshInit == Init => Fresh
  BY DEF Init, Fresh, TaskFresh, Idle, NoSignIn, Working, Blank, None

\* The call at the head is alone with the portal.
LEMMA Alone ==
    ASSUME Typed, NEW c \in Callers, Runs(c), NEW d \in Callers, d # c
    PROVE  task[d].at \notin Working
  BY DEF Typed, LockOK, Runs

LEMMA HeadSavedUnspent ==
    ASSUME Kept, NEW c \in Callers, Runs(c), task[c].at # "answered"
    PROVE  saved \notin spent
  BY Alone DEF Kept, Fresh, Working

LEMMA HeadKeepsFresh ==
    ASSUME Kept, NEW c \in Callers, Runs(c), NEW t, TaskFresh(t)',
           task' = [task EXCEPT ![c] = t], saved' # Blank,
           spent' \subseteq 1 .. issued', signIn' = signIn,
           saved' \in spent' => t.at = "answered"
    PROVE  Fresh'
  <1>1. task'[c] = t /\ \A d \in Callers : d # c => task'[d] = task[d]
    BY DEF Kept, Typed, LockOK
  <1>2. ASSUME NEW d \in Callers, d # c PROVE TaskFresh(task[d])'
    <2>1. task[d].at \notin Working
      BY <1>2, Alone DEF Kept
    <2> QED
      BY <1>1, <1>2, <2>1 DEF Kept, Fresh, TaskFresh, Working
  <1>3. \A d \in Callers : TaskFresh(task[d])'
    <2>1. TaskFresh(task[c])'
      BY <1>1 DEF TaskFresh
    <2> QED
      BY <1>2, <2>1
  <1> QED
    BY <1>1, <1>3 DEF Kept, Fresh

\* A call settles and leaves nothing spent behind.
LEMMA SettleKeepsFresh ==
    ASSUME Kept, NEW c \in Callers, Runs(c), Settle(c),
           saved' # Blank, saved' \notin spent,
           spent' = spent, issued' = issued, signIn' = signIn
    PROVE  Fresh'
  <1>1. TaskFresh(Idle)'
    BY DEF TaskFresh, Idle, Working
  <1>2. task' = [task EXCEPT ![c] = Idle]
    BY DEF Settle
  <1> HIDE DEF Idle
  <1> QED
    BY <1>1, <1>2, HeadKeepsFresh DEF Kept, Fresh

LEMMA AdoptKeepsFresh ==
    ASSUME Kept, NEW c \in Callers, BeginRestore(c) \/ BeginRenewal(c)
    PROVE  Fresh'
  <1> USE DEF Kept
  <1>1. /\ Runs(c) /\ task[c].at = "waiting" /\ saved \in Tokens
        /\ TaskAdopts(c)
        /\ saved' = saved /\ spent' = spent /\ issued' = issued
        /\ signIn' = signIn
    BY DEF BeginRestore, BeginRenewal, AdoptSaved, TaskAdopts, portal
  <1>2. saved \notin spent
    BY <1>1, HeadSavedUnspent
  <1>3. object' \in Objects /\ cell'[object'].tok = saved
    <2>1. PICK o \in Objects :
            /\ object' = o
            /\ cell' = [cell EXCEPT ![o] = [Cell(o) EXCEPT !.tok = saved]]
      BY <1>1 DEF TaskAdopts
    <2>2. Cell(o) \in [tok: Tokens \cup {Blank}, cookies: BOOLEAN]
      BY DEF Cell, EmptyCell, Typed, DataOK
    <2> QED
      BY <2>1, <2>2 DEF Typed, DataOK
  <1>4. PICK t \in TaskRecords :
          /\ t.obj = object'
          /\ t.at \in {"refresh", "establish"}
          /\ t.at = "refresh" => t.token = saved
          /\ t.kind = task[c].kind
          /\ task' = [task EXCEPT ![c] = t]
    BY <1>1, AdoptedCall
  <1>5. TaskFresh(t)'
    BY <1>1, <1>2, <1>3, <1>4 DEF TaskFresh, Fresh
  <1> QED
    BY <1>1, <1>2, <1>4, <1>5, HeadKeepsFresh DEF Fresh

LEMMA RefreshKeepsFresh ==
    ASSUME Kept, NEW c \in Callers, PortalRefreshes(c)
    PROVE  Fresh'
  <1> USE DEF Kept
  <1>1. /\ task[c] \in TaskRecords /\ task[c].at = "refresh" /\ Runs(c)
        /\ TaskFresh(task[c])
    BY DEF PortalRefreshes, Typed, LockOK, Fresh, Working
  <1>2. /\ saved' = saved /\ spent' = spent \cup {saved} /\ signIn' = signIn
        /\ issued' = issued + 1 /\ object' = object
    BY <1>1 DEF PortalRefreshes, TaskFresh
  <1>3. PICK t : /\ t.at = "answered" /\ t.token = issued + 1
                 /\ t.kind = task[c].kind /\ t.obj = task[c].obj
                 /\ task' = [task EXCEPT ![c] = t]
    <2> DEFINE w == [task[c] EXCEPT !.at = "answered", !.token = issued + 1]
    <2>1. task' = [task EXCEPT ![c] = w]
      BY DEF PortalRefreshes, Typed, LockOK
    <2>2. /\ w.at = "answered" /\ w.token = issued + 1
          /\ w.kind = task[c].kind /\ w.obj = task[c].obj
      BY <1>1 DEF TaskRecords
    <2> HIDE DEF w
    <2> QED
      BY <2>1, <2>2
  <1>4. saved \in Tokens /\ saved \in 1 .. issued
    BY <1>1, Numbers DEF TaskFresh, Tokens, Known, Typed
  <1>5. issued + 1 \in Tokens
    BY NextPair DEF PortalRefreshes, Typed
  <1>6. spent' \subseteq 1 .. issued' /\ issued + 1 \notin spent'
    BY <1>2, <1>4, Numbers DEF Fresh, Typed
  <1>7. TaskFresh(t)'
    BY <1>1, <1>2, <1>3, <1>4, <1>5, <1>6 DEF TaskFresh, Working
  <1>8. saved' # Blank
    BY <1>2 DEF Fresh
  <1> QED
    BY <1>1, <1>2, <1>3, <1>6, <1>7, <1>8, HeadKeepsFresh

\* The rotated pair is on disk when the call goes on.
LEMMA AnswerSaved ==
    ASSUME Kept, NEW c \in Callers, RefreshAnswered(c)
    PROVE  /\ saved' = task[c].token /\ saved' \in Tokens \ spent
           /\ object' = object /\ cell'[object].tok = saved'
           /\ Runs(c)
  <1> USE DEF Kept
  <1>1. task[c].at = "answered" /\ TaskFresh(task[c])
    BY DEF RefreshAnswered, Fresh
  <1>2. task[c].obj = object /\ object \in Objects /\ Runs(c)
    BY <1>1 DEF TaskFresh, Typed, LockOK, Holding, Working
  <1>3. object # NoObject /\ saved # None
    BY <1>1, <1>2, SessionAssumption DEF TaskFresh, Tokens, None
  <1>4. cell'[object].tok = task[c].token
    BY <1>2 DEF RefreshAnswered, Typed, DataOK
  <1>5. saved' = cell'[object].tok /\ object' = object
    BY <1>3 DEF RefreshAnswered, Serialized
  <1> QED
    BY <1>1, <1>2, <1>4, <1>5 DEF TaskFresh

LEMMA AnswerKeepsFresh ==
    ASSUME Kept, NEW c \in Callers, RefreshAnswered(c)
    PROVE  Fresh'
  <1> USE DEF Kept
  <1>0. saved' \in Tokens \ spent
    BY AnswerSaved
  <1>1. /\ saved' \in Tokens \ spent /\ saved' # Blank
        /\ spent' = spent /\ issued' = issued /\ signIn' = signIn
        /\ spent' \subseteq 1 .. issued'
    BY <1>0, SessionAssumption DEF RefreshAnswered, portal, Tokens, Blank, Fresh
  <1>2. CASE task[c].kind = "renew"
    BY <1>1, <1>2, AnswerSaved, SettleKeepsFresh DEF RefreshAnswered
  <1>3. CASE task[c].kind # "renew"
    <2>1. PICK t : /\ t.at = "establish" /\ t.kind = task[c].kind
                   /\ t.obj = task[c].obj
                   /\ task' = [task EXCEPT ![c] = t]
      <3> DEFINE w == [task[c] EXCEPT !.at = "establish", !.token = Blank]
      <3>1. task' = [task EXCEPT ![c] = w]
        BY <1>3 DEF RefreshAnswered, Typed, LockOK
      <3>2. /\ w.at = "establish" /\ w.kind = task[c].kind
            /\ w.obj = task[c].obj
        BY DEF Typed, LockOK, TaskRecords
      <3> HIDE DEF w
      <3> QED
        BY <3>1, <3>2
    <2>2. task[c].obj = object /\ task[c].kind # "focus"
      BY DEF RefreshAnswered, Fresh, TaskFresh, Working
    <2>3. TaskFresh(t)'
      BY <1>1, <2>1, <2>2, AnswerSaved DEF TaskFresh
    <2> QED
      BY <1>1, <2>1, <2>3, AnswerSaved, HeadKeepsFresh
  <1> QED
    BY <1>2, <1>3

\* What a restore finds when the cookie exchange has succeeded.
LEMMA EstablishedSaved ==
    ASSUME Kept, NEW c \in Callers, Establish(c)
    PROVE  /\ task[c].obj = object /\ object \in Objects /\ Runs(c)
           /\ saved \in Tokens \ spent
           /\ cell'[object].tok = saved /\ cell'[object].cookies
           /\ Serialized(cell') = saved
  <1> USE DEF Kept
  <1>1. task[c].at = "establish" /\ TaskFresh(task[c])
    BY DEF Establish, Fresh
  <1>2. /\ task[c].obj = object /\ object \in Objects /\ Runs(c)
        /\ saved \in Tokens \ spent /\ cell[object].tok = saved
    BY <1>1 DEF TaskFresh, Typed, LockOK, Holding, Working
  <1>3. cell'[object].tok = saved /\ cell'[object].cookies
    <2> DEFINE r == [cell[object] EXCEPT !.cookies = TRUE]
    <2>1. cell'[object] = r
      BY <1>2 DEF Establish, Typed, DataOK
    <2>2. r.tok = saved /\ r.cookies
      BY <1>2 DEF Typed, DataOK
    <2> QED
      BY <2>1, <2>2, Zenon
  <1> QED
    BY <1>2, <1>3, SessionAssumption DEF Serialized

LEMMA EstablishKeepsFresh ==
    ASSUME Kept, NEW c \in Callers, Established(c)
    PROVE  Fresh'
  <1> USE DEF Kept
  <1>1. /\ Runs(c) /\ saved' = saved /\ saved' \in Tokens \ spent
        /\ spent' = spent /\ issued' = issued /\ signIn' = signIn
        /\ object' = object /\ cell'[object].tok = saved
        /\ task[c].obj = object /\ task[c].kind # "focus"
    BY EstablishedSaved DEF Established, Establish, portal, Fresh, TaskFresh
  <1>2. saved' # Blank /\ spent' \subseteq 1 .. issued'
    BY <1>1 DEF Fresh
  <1>3. PICK t : /\ t.at = "verify" /\ t.kind = task[c].kind
                 /\ t.obj = task[c].obj
                 /\ task' = [task EXCEPT ![c] = t]
    <2> DEFINE w == [task[c] EXCEPT !.at = "verify"]
    <2>1. task' = [task EXCEPT ![c] = w]
      BY DEF Established, Typed, LockOK
    <2>2. w.at = "verify" /\ w.kind = task[c].kind /\ w.obj = task[c].obj
      BY DEF Typed, LockOK, TaskRecords
    <2> HIDE DEF w
    <2> QED
      BY <2>1, <2>2
  <1>4. TaskFresh(t)'
    BY <1>1, <1>3 DEF TaskFresh
  <1> QED
    BY <1>1, <1>2, <1>3, <1>4, HeadKeepsFresh

LEMMA RetryKeepsFresh ==
    ASSUME Kept, NEW c \in Callers, EstablishRejectedOnce(c)
    PROVE  Fresh'
  <1> USE DEF Kept
  <1>1. task[c].at = "establish" /\ TaskFresh(task[c])
    BY DEF EstablishRejectedOnce, Fresh
  <1>2. /\ Runs(c) /\ saved \in Tokens \ spent
        /\ task[c].obj = object /\ cell[object].tok = saved
    BY <1>1 DEF TaskFresh, Typed, LockOK, Working
  <1>3. /\ saved' = saved /\ spent' = spent /\ issued' = issued
        /\ signIn' = signIn /\ object' = object /\ cell' = cell
    BY DEF EstablishRejectedOnce, portal
  <1>4. PICK t : /\ t.at = "refresh" /\ t.token = saved
                 /\ t.kind = task[c].kind /\ t.obj = task[c].obj
                 /\ task' = [task EXCEPT ![c] = t]
    <2> DEFINE k == cell[task[c].obj].tok
               w == [task[c] EXCEPT !.at = "refresh", !.retried = TRUE,
                                    !.token = k]
    <2>1. task' = [task EXCEPT ![c] = w]
      BY DEF EstablishRejectedOnce, Typed, LockOK
    <2>2. k = saved
      BY <1>2
    <2> HIDE DEF k
    <2>3. /\ w.at = "refresh" /\ w.token = saved
          /\ w.kind = task[c].kind /\ w.obj = task[c].obj
      BY <2>2 DEF Typed, LockOK, TaskRecords
    <2> HIDE DEF w
    <2> QED
      BY <2>1, <2>3
  <1>5. TaskFresh(t)'
    BY <1>1, <1>2, <1>3, <1>4 DEF TaskFresh
  <1>6. saved' # Blank /\ spent' \subseteq 1 .. issued' /\ saved' \notin spent'
    BY <1>2, <1>3 DEF Fresh
  <1> QED
    BY <1>2, <1>3, <1>4, <1>5, <1>6, HeadKeepsFresh

\* The calls that end without a failure the portal or a login causes.
LEMMA EndKeepsFresh ==
    ASSUME Undisturbed, Kept, NEW c \in Callers,
           \/ AlreadyRestored(c) \/ NothingSaved(c) \/ RenewedAlready(c)
           \/ FailTransiently(c) \/ VerifiedAlive(c) \/ VerifyFails(c)
    PROVE  Fresh' /\ saved' = saved
  <1> USE DEF Kept
  <1>1. task[c].kind # "focus" /\ Runs(c) /\ task[c].at # "answered"
    BY DEF AlreadyRestored, NothingSaved, RenewedAlready, FailTransiently,
           VerifiedAlive, VerifyFails, Undisturbed, Typed, LockOK, Working,
           Fresh, TaskFresh
  <1>2. /\ Settle(c) /\ saved' = saved /\ spent' = spent /\ issued' = issued
        /\ signIn' = signIn
    BY <1>1 DEF AlreadyRestored, NothingSaved, RenewedAlready, FailTransiently,
                VerifiedAlive, VerifyFails, Restored, portal
  <1>3. saved' # Blank /\ saved' \notin spent
    BY <1>1, <1>2, HeadSavedUnspent DEF Fresh
  <1> QED
    BY <1>1, <1>2, <1>3, SettleKeepsFresh

\* The steps that would lose the session are out of reach.
LEMMA Unreachable ==
    ASSUME Undisturbed, Kept, NEW c \in Callers
    PROVE  ~ \/ NoTokensSaved(c) \/ RefreshRejected(c)
             \/ EstablishedForNothing(c) \/ EstablishRejected(c)
             \/ ExchangeUnavailable(c) \/ VerifiedDead(c)
             \/ FocusDone(c) \/ FocusFails(c)
  <1> USE DEF Kept
  <1>1. ~(EstablishRejected(c) \/ ExchangeUnavailable(c) \/ VerifiedDead(c))
    BY DEF EstablishRejected, ExchangeUnavailable, VerifiedDead, Undisturbed
  <1>2. ~(NoTokensSaved(c) \/ FocusDone(c) \/ FocusFails(c))
    BY DEF NoTokensSaved, FocusDone, FocusFails, Fresh, TaskFresh
  <1>3. ~RefreshRejected(c)
    BY DEF RefreshRejected, Undisturbed, Fresh, TaskFresh
  <1>4. ~EstablishedForNothing(c)
    BY EstablishedSaved, SessionAssumption DEF EstablishedForNothing
  <1> QED
    BY <1>1, <1>2, <1>3, <1>4

LEMMA StepKeepsFresh ==
    ASSUME Undisturbed, Kept, NEW c \in Callers, Step(c)
    PROVE  Fresh'
  BY Unreachable, AdoptKeepsFresh, RefreshKeepsFresh, AnswerKeepsFresh,
     EstablishKeepsFresh, RetryKeepsFresh, EndKeepsFresh DEF Step

LEMMA CallKeepsFresh ==
    ASSUME Undisturbed, Kept, NEW c \in Callers, Call(c)
    PROVE  Fresh'
  <1> USE DEF Kept
  <1>1. ~FocusChild(c) /\ ~FocusChildUnrestored(c)
    BY DEF FocusChild, FocusChildUnrestored, Undisturbed
  <1>2. PICK kind \in {"restore", "renew"} : task[c].at = "idle" /\ Queue(c, kind)
    BY <1>1 DEF Call, Ensure, Reauthenticate, Renew
  <1>3. /\ saved' = saved /\ spent' = spent /\ issued' = issued
        /\ signIn' = signIn /\ object' = object /\ cell' = cell
    BY <1>1 DEF Call, Ensure, Reauthenticate, Renew, portal
  <1>4. \A d \in Callers :
          \/ task'[d] = task[d]
          \/ d = c /\ task'[d].kind = kind /\ task'[d].at = "waiting"
    BY <1>2 DEF Queue, Idle, Typed, LockOK
  <1>5. \A d \in Callers : TaskFresh(task[d])'
    BY <1>3, <1>4 DEF Fresh, TaskFresh, Working
  <1>6. saved' \in spent' => \E d \in Callers : task'[d].at = "answered"
    <2>1. \A d \in Callers : task[d].at = "answered" => task'[d] = task[d]
      BY <1>2, <1>4
    <2> QED
      BY <1>3, <2>1 DEF Fresh
  <1> QED
    BY <1>3, <1>5, <1>6 DEF Fresh

LEMMA NextKeepsFresh ==
    ASSUME Undisturbed, Kept, [Next]_vars
    PROVE  Fresh'
  <1> USE DEF Kept
  <1>1. ASSUME NEW c \in Callers, Call(c) \/ Step(c) PROVE Fresh'
    BY <1>1, CallKeepsFresh, StepKeepsFresh
  <1>2. ~Login /\ ~Logout
    BY DEF Login, LoginStart, LoginToken, LoginDone, LoginFails, Logout,
           Undisturbed, Fresh
  <1>3. CASE Expire
    BY <1>3 DEF Expire, Fresh, TaskFresh
  <1>4. CASE Restart
    <2>1. saved \notin spent
      BY <1>4 DEF Restart, Undisturbed, Fresh
    <2>2. \A d \in Callers : TaskFresh(task[d])'
      BY <1>4 DEF Restart, TaskFresh, Idle, Working
    <2> QED
      BY <1>4, <2>1, <2>2 DEF Restart, NoSignIn, portal, Fresh
  <1>5. CASE UNCHANGED vars
    BY <1>5 DEF vars, portal, Fresh, TaskFresh
  <1> QED
    BY <1>1, <1>2, <1>3, <1>4, <1>5 DEF Next

LEMMA AlwaysKept ==
    ASSUME Undisturbed
    PROVE  Spec => []Kept
  <1>1. Init => Kept
    BY TypedInit, KnownInit, FreshInit DEF Kept
  <1>2. Kept /\ [Next]_vars => Kept'
    BY NextKeepsLock, NextKeepsData, NextKeepsKnown, NextKeepsFresh
       DEF Typed, Kept
  <1> QED
    BY <1>1, <1>2, PTL DEF Spec

\* However many calls restore and renew, no refresh token goes to the portal
\* twice.
THEOREM SpentIsNeverPresented ==
    ASSUME Undisturbed
    PROVE  Spec => []NeverPresentsSpent
  <1>1. Kept => NeverPresentsSpent
    BY DEF Kept, Fresh, TaskFresh, NeverPresentsSpent
  <1> QED
    BY <1>1, AlwaysKept, PTL

\* What is on disk is what the portal accepts, but for the moment in which
\* the rotated pair is on its way.
THEOREM RotationAlwaysSaved ==
    ASSUME Undisturbed
    PROVE  Spec => []RotationIsSaved
  <1>1. Kept => RotationIsSaved
    BY DEF Kept, Fresh, TaskFresh, Working, RotationIsSaved
  <1> QED
    BY <1>1, AlwaysKept, PTL

\* A saved session stays saved.
LEMMA StaysSaved ==
    ASSUME Undisturbed, Kept, [Next]_vars, saved \in Tokens
    PROVE  saved' \in Tokens
  <1> USE DEF Kept
  <1>1. ASSUME NEW c \in Callers, Step(c) PROVE saved' \in Tokens
    <2>1. CASE RefreshAnswered(c)
      BY <2>1, AnswerSaved
    <2>2. CASE Established(c)
      BY <2>2, EstablishedSaved DEF Established
    <2>3. CASE BeginRestore(c) \/ BeginRenewal(c) \/ PortalRefreshes(c)
               \/ EstablishRejectedOnce(c)
      BY <2>3 DEF BeginRestore, BeginRenewal, PortalRefreshes,
                  EstablishRejectedOnce
    <2> QED
      BY <1>1, <2>1, <2>2, <2>3, Unreachable, EndKeepsFresh DEF Step
  <1>2. ASSUME NEW c \in Callers, Call(c) PROVE saved' \in Tokens
    BY <1>2 DEF Call, Ensure, Reauthenticate, Renew, FocusChild,
                FocusChildUnrestored
  <1>3. ~Login /\ ~Logout
    BY DEF Login, LoginStart, LoginToken, LoginDone, LoginFails, Logout,
           Undisturbed, Fresh
  <1>4. CASE Expire \/ Restart \/ UNCHANGED vars
    BY <1>4 DEF Expire, Restart, vars
  <1> QED
    BY <1>1, <1>2, <1>3, <1>4 DEF Next

\* Restores, renewals, transient failures and restarts never cost the user a
\* login.
THEOREM SavedSessionSurvives ==
    ASSUME Undisturbed
    PROVE  Spec => SessionSurvives
  <1>1. Kept /\ [Next]_vars => [(saved \in Tokens) => (saved' \in Tokens)]_vars
    BY StaysSaved
  <1> QED
    BY <1>1, AlwaysKept, PTL DEF Spec, SessionSurvives

=============================================================================
