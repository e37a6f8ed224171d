-------------------------- MODULE SharedStateProofs --------------------------
(***************************************************************************)
(* What several processes of one state directory leave each other, step by *)
(* step, for every number of them and with every fault: the file of saved  *)
(* sessions with its key (AccountFiles), the logins with the callback port *)
(* and the marker they share (LoginFlow), the history of sessions that     *)
(* were used and lost (SessionHistory) and the web login beside the saved  *)
(* session (WebSession), the last three taken by name.                     *)
(***************************************************************************)
EXTENDS AccountFiles, Sequences, FiniteSetTheorems, SequenceTheorems, TLAPS

CONSTANTS MaxLogins, Timeout, Ttl, None
VARIABLES login, server, marker, tabs, spent, exchanged, count, dead, reused, unsaved

Login == INSTANCE LoginFlow

CONSTANTS
    Owners, Configured, MaxTime, MaxSpans, MaxEvents, MaxLosses, MaxCrashes,
    Damaged, Later
VARIABLES account, sealed, plain, now, spans, step, work, overtaken, crashes, events

History == INSTANCE SessionHistory WITH
    Accounts <- Owners, pc <- step, moved <- overtaken

CONSTANTS MaxWebLogins, MaxPolls, NoSession
VARIABLES running, webs, storedWeb, window, polls, keptCookies, reported, ended, forgotten

Web == INSTANCE WebSession WITH
    MaxLogins <- MaxWebLogins, up <- running, web <- webs, store <- storedWeb,
    kept <- keptCookies, told <- reported

-----------------------------------------------------------------------------
(* The saved sessions.                                                       *)

\* Every process knows its account and is of this build or the next one.
Fit ==
  /\ DOMAIN AccountOf = Procs
  /\ Current \in Nat /\ Current >= 2
  /\ Build \in [Procs -> Current .. (Current + 1)]
  /\ Keys # {} /\ {"none", "empty"} \cap Keys = {}
  /\ 1 \in Numbers
  /\ MaxFaults \in Nat

\* A document whose sessions come out in the one shape.
Sealed == {Missing, Garbage} \cup {f \in Files : readVersioned(f) \in OneShape}

Labels == {"idle", "readKey", "fillRead", "open", "decide", "writeKey", "fillWrite", "seal",
           "temp", "fill", "rename", "remove", "sync"}

Shape ==
  /\ closed \in BOOLEAN /\ torn \in BOOLEAN
  /\ file \in Sealed /\ risk \subseteq Sealed
  /\ key \in Keys \cup {"none", "empty"}
  /\ tmp \in [Procs -> Sealed] /\ bytes \in [Procs -> Sealed]
  /\ doc \in [Procs -> OneShape]
  /\ pc \in [Procs -> Labels]
  /\ op \in [Procs -> {"load", "save", "clear"}]
  /\ moved \subseteq Procs /\ faults \in 0 .. MaxFaults

Filling(p) == pc[p] \in {"fillRead", "fillWrite"}

\* The first key is made by one process, in a directory of this machine.
OneKey ==
  /\ \A p \in Procs : Filling(p) => key = "empty"
  /\ \A p, q \in Procs : Filling(p) /\ Filling(q) => p = q
  /\ closed => key \in Keys /\ \A p \in Procs : ~Filling(p)
     /\ pc[p] \notin {"readKey", "writeKey"}

\* What a process has sealed is a document, and the file it left is that.
Sealing(p) ==
  /\ pc[p] \in {"temp", "fill", "rename"} =>
       /\ IsDoc(bytes[p])
       /\ p \notin moved => bytes[p] = Keyed(Build[p], key, doc[p]) /\ key \in Keys
  /\ pc[p] = "rename" => tmp[p] = bytes[p]

\* Nobody replaced the file: what the process read of it is what is in it.
Reading(p) ==
  /\ pc[p] \in {"idle", "readKey", "fillRead", "open"} => doc[p] = Nothing
  /\ p \notin moved /\ pc[p] \in Labels \ {"idle", "temp", "fill", "rename", "sync"} =>
       bytes[p] = file
  /\ p \notin moved /\ pc[p] \in Labels \ {"idle", "readKey", "fillRead", "open", "sync"} =>
       /\ ~(Readable(file) /\ Version(file) > Build[p])
       /\ closed => (file = Missing \/ Readable(file))
       /\ \A a \in Accounts \ {AccountOf[p]} : doc[p][a] = Entries(file)[a]
       /\ pc[p] = "remove" =>
            \A a \in Accounts \ {AccountOf[p]} : Entries(file)[a] = NoEntry

Sound ==
  /\ Shape /\ OneKey /\ AnsweredWritesLast
  /\ \A p \in Procs : Sealing(p) /\ Reading(p)

-----------------------------------------------------------------------------
(* The documents.                                                            *)

LEMMA NothingIs ==
    ASSUME Fit
    PROVE  /\ Nothing \in OneShape /\ \A a \in Accounts : Nothing[a] = NoEntry
           /\ \A p \in Procs : AccountOf[p] \in Accounts
  BY DEF Nothing, OneShape, NoEntry, Accounts, Range, Fit

\* A file that says which version and key it is of is not one of the two others.
LEMMA KeyedIsDoc == ASSUME NEW v, NEW k, NEW e PROVE IsDoc(Keyed(v, k, e))
  <1>1. "key" \in DOMAIN Keyed(v, k, e)
    BY DEF Keyed
  <1>2. "key" \notin DOMAIN Missing /\ "key" \notin DOMAIN Garbage
    BY DEF Missing, Garbage
  <1> QED BY <1>1, <1>2 DEF IsDoc

LEMMA KeyedIs ==
    ASSUME Fit, NEW v \in Current .. (Current + 1), NEW k \in Keys, NEW e \in OneShape
    PROVE  LET f == Keyed(v, k, e)
           IN  f \in Sealed /\ IsDoc(f) /\ f.key = k /\ f.v = v /\ readVersioned(f) = e
  <1> DEFINE f == Keyed(v, k, e)
  <1>1. f.key = k /\ f.v = v /\ f.entries = e
    BY DEF Keyed
  <1>2. v \in Nat /\ v # 0 /\ v # 1
    BY DEF Fit
  <1>3. readVersioned(f) = e
    BY <1>1, <1>2 DEF readVersioned
  <1>4. e \in [Accounts -> Session \cup {NoEntry}]
    BY DEF OneShape
  <1>5. f \in Files
    BY <1>4 DEF Files, Keyed
  <1> QED BY <1>1, <1>3, <1>5, KeyedIsDoc DEF Sealed

LEMMA DocIs ==
    ASSUME Fit, NEW f \in Sealed, IsDoc(f)
    PROVE  f.key \in Keys /\ f.v \in Nat /\ readVersioned(f) \in OneShape
  <1>1. f \in Files /\ readVersioned(f) \in OneShape
    BY DEF Sealed, IsDoc
  <1>2. f.key \in Keys /\ f.v \in Nat
    <2>1. CASE f \in [v: 0..1, key: Keys, account: Accounts, session: Session]
      BY <2>1
    <2>2. CASE f \in [v: Current..(Current + 1), key: Keys,
                      entries: [Accounts -> Session \cup {NoEntry}]]
      BY <2>2 DEF Fit
    <2> QED BY <1>1, <2>1, <2>2 DEF Files, IsDoc
  <1> QED BY <1>1, <1>2

LEMMA PlainIs ==
    Missing \in Sealed /\ Garbage \in Sealed /\ ~IsDoc(Missing) /\ ~IsDoc(Garbage)
  BY DEF Sealed, IsDoc

\* What an earlier build left comes out in the one shape.
LEMMA LeftIsSealed == ASSUME Fit, Left PROVE file \in Sealed
  <1>1. FirstKey \in Keys
    BY DEF FirstKey, Fit
  <1>2. CASE file \in {Missing, Garbage}
    BY <1>2, PlainIs 
  <1>3. ASSUME NEW v \in 0 .. 1, NEW a \in Accounts,
               file = Single(v, FirstKey, a,
                 [n |-> 1, shape |-> IF v = 0 THEN "flat" ELSE "folded"])
        PROVE  file \in Sealed
    <2> DEFINE s == [n |-> 1, shape |-> IF v = 0 THEN "flat" ELSE "folded"]
               one == [n |-> 1, shape |-> "folded"]
    <2>1. s \in Session /\ s.n = 1 /\ one \in Session /\ one.shape = "folded"
          /\ (v = 0 => [s EXCEPT !.shape = "folded"] = one) /\ (v = 1 => s = one)
      BY DEF Fit, Session, Shapes
    <2>2. file.v = v /\ file.key = FirstKey /\ file.account = a /\ file.session = s
      BY <1>3 DEF Single
    <2>3. file \in Files
      <3>1. file \in [v: 0..1, key: Keys, account: Accounts, session: Session]
        BY <1>1, <1>3, <2>1 DEF Single
      <3> QED BY <3>1 DEF Files
    <2>4. readVersioned(file) = [Nothing EXCEPT ![a] = one]
      <3>1. CASE v = 0
        BY <3>1, <2>1, <2>2 DEF readVersioned, keySessionByAccount, migratePersisted
      <3>2. CASE v = 1
        BY <3>2, <2>1, <2>2 DEF readVersioned, keySessionByAccount
      <3> QED BY <3>1, <3>2
    <2> HIDE DEF s, one
    <2>5. [Nothing EXCEPT ![a] = one] \in OneShape
      BY <2>1, NothingIs DEF OneShape
    <2> QED BY <2>2, <2>3, <2>4, <2>5 DEF Sealed
  <1>4. ASSUME NEW v \in Current .. (Current + 1), NEW a \in Accounts,
               file = Keyed(v, FirstKey, [Nothing EXCEPT ![a] =
                 [n |-> 1, shape |-> "folded"]])
        PROVE  file \in Sealed
    <2> DEFINE one == [n |-> 1, shape |-> "folded"]
    <2>1. one \in Session /\ one.shape = "folded"
      BY DEF Fit, Session, Shapes
    <2> HIDE DEF one
    <2>2. [Nothing EXCEPT ![a] = one] \in OneShape
      BY <2>1, NothingIs DEF OneShape
    <2> QED BY <1>1, <1>4, <2>2, KeyedIs DEF one
  <1> QED BY <1>2, <1>3, <1>4 DEF Left

LEMMA SoundAtFirst == ASSUME Fit, Init PROVE Sound
  <1>1. FirstKey \in Keys
    BY DEF FirstKey, Fit
  <1>2. key \in Keys \cup {"none", "empty"} /\ (closed => key \in Keys)
    BY <1>1 DEF Init
  <1>3. file \in Sealed
    BY LeftIsSealed DEF Init
  <1>4. Shape
    <2>1. /\ tmp \in [Procs -> Sealed] /\ bytes \in [Procs -> Sealed]
             /\ doc \in [Procs -> OneShape]
      BY PlainIs, NothingIs DEF Init
    <2>2. pc \in [Procs -> Labels] /\ op \in [Procs -> {"load", "save", "clear"}]
      BY DEF Init, Labels
    <2>3. closed \in BOOLEAN /\ torn \in BOOLEAN /\ risk \subseteq Sealed
          /\ moved \subseteq Procs
      BY <1>3 DEF Init
    <2>4. faults \in 0 .. MaxFaults
      BY DEF Init, Fit
    <2> QED BY <1>2, <1>3, <2>1, <2>2, <2>3, <2>4 DEF Shape
  <1>5. OneKey /\ AnsweredWritesLast
    BY <1>2 DEF Init, OneKey, Filling, AnsweredWritesLast
  <1>6. \A p \in Procs : Sealing(p) /\ Reading(p)
    BY DEF Init, Sealing, Reading
  <1> QED BY <1>4, <1>5, <1>6 DEF Sound

-----------------------------------------------------------------------------
(* A step of one process, and what the others see of it.                     *)

\* The file stays, and a key that comes does not open it.
Still(p) ==
  /\ closed' = closed /\ file' = file
  /\ \A q \in Procs : q # p =>
       /\ pc'[q] = pc[q] /\ doc'[q] = doc[q] /\ bytes'[q] = bytes[q] /\ tmp'[q] = tmp[q]
       /\ q \in moved' <=> q \in moved
  /\ key' = key \/ (key \notin Keys /\ ~Readable(file)')

LEMMA ReadsTheSame ==
    ASSUME Fit, Sound, file' = file, key' = key \/ (key \notin Keys /\ ~Readable(file)')
    PROVE  (Readable(file)' <=> Readable(file)) /\ Entries(file)' = Entries(file)
  <1>1. CASE key' = key
    BY <1>1 DEF Readable, Entries
  <1>2. CASE key \notin Keys /\ ~Readable(file)'
    <2>1. ~Readable(file)
      BY <1>2, DocIs DEF Readable, Sound, Shape
    <2> QED BY <1>2, <2>1 DEF Entries
  <1> QED BY <1>1, <1>2

LEMMA OthersKeep ==
    ASSUME Fit, Sound, NEW p \in Procs, Still(p), NEW q \in Procs, q # p
    PROVE  Sealing(q)' /\ Reading(q)'
  <1>1. /\ pc'[q] = pc[q] /\ doc'[q] = doc[q] /\ bytes'[q] = bytes[q] /\ tmp'[q] = tmp[q]
        /\ (q \in moved' <=> q \in moved) /\ file' = file /\ closed' = closed
    BY DEF Still
  <1>2. (Readable(file)' <=> Readable(file)) /\ Entries(file)' = Entries(file)
    BY ReadsTheSame DEF Still
  <1>3. Sealing(q)'
    <2>1. CASE pc[q] \in {"temp", "fill", "rename"} /\ q \notin moved
      <3>1. key \in Keys
        BY <2>1 DEF Sound, Sealing
      <3>2. key' = key
        BY <3>1 DEF Still
      <3> QED BY <1>1, <3>2 DEF Sound, Sealing, IsDoc
    <2>2. CASE ~(pc[q] \in {"temp", "fill", "rename"} /\ q \notin moved)
      BY <1>1, <2>2 DEF Sound, Sealing, IsDoc
    <2> QED BY <2>1, <2>2
  <1>4. Reading(q)'
    BY <1>1, <1>2 DEF Sound, Reading, Nothing
  <1> QED BY <1>3, <1>4

\* The process that a replaced file overtook, or that had nothing in hand.
LEMMA OvertakenKeeps ==
    ASSUME Sound, NEW q \in Procs,
           pc'[q] = pc[q], doc'[q] = doc[q], bytes'[q] = bytes[q], tmp'[q] = tmp[q],
           pc[q] # "idle" => q \in moved'
    PROVE  Sealing(q)' /\ Reading(q)'
  <1>1. Sealing(q) /\ Reading(q)
    BY DEF Sound
  <1>2. Sealing(q)'
    BY <1>1 DEF Sealing, IsDoc, Missing, Garbage
  <1>3. Reading(q)'
    BY <1>1 DEF Reading, Nothing
  <1> QED BY <1>2, <1>3

\* A step of p that the others do not see.
LEMMA OneStep ==
    ASSUME Fit, Sound, NEW p \in Procs, Still(p),
           Shape', OneKey', AnsweredWritesLast', Sealing(p)', Reading(p)'
    PROVE  Sound'
  <1>1. \A q \in Procs : (Sealing(q) /\ Reading(q))'
    BY OthersKeep
  <1> QED BY <1>1 DEF Sound

\* A step of p that replaces the file.
LEMMA OneReplaces ==
    ASSUME Fit, Sound, NEW p \in Procs,
           \A q \in Procs : q # p =>
             /\ pc'[q] = pc[q] /\ doc'[q] = doc[q] /\ bytes'[q] = bytes[q]
                /\ tmp'[q] = tmp[q]
             /\ pc[q] # "idle" => q \in moved',
           Shape', OneKey', AnsweredWritesLast', Sealing(p)', Reading(p)'
    PROVE  Sound'
  <1>1. \A q \in Procs : (Sealing(q) /\ Reading(q))'
    BY OvertakenKeeps
  <1> QED BY <1>1 DEF Sound

\* The operation ends, however it ends.
LEMMA EndKeeps ==
    ASSUME Fit, Sound, NEW p \in Procs, End(p), UNCHANGED <<closed, file, key, tmp>>,
           (risk \subseteq Sealed)', (torn \in BOOLEAN)', (faults \in 0 .. MaxFaults)',
           AnsweredWritesLast'
    PROVE  Sound'
  <1> USE DEF End, Goto
  <1>1. Shape'
    <2>1. /\ (closed \in BOOLEAN /\ file \in Sealed /\ tmp \in [Procs -> Sealed])'
          /\ (key \in Keys \cup {"none", "empty"} /\ moved \subseteq Procs)'
      BY DEF Sound, Shape
    <2>2. pc' \in [Procs -> Labels] /\ op' \in [Procs -> {"load", "save", "clear"}]
      BY DEF Sound, Shape, Labels
    <2>3. doc' \in [Procs -> OneShape] /\ bytes' \in [Procs -> Sealed]
      BY PlainIs, NothingIs DEF Sound, Shape
    <2> QED BY <2>1, <2>2, <2>3 DEF Shape
  <1>2. OneKey'
    BY DEF Sound, Shape, OneKey, Filling
  <1>3. Still(p)
    BY DEF Still, Sound, Shape
  <1>4. Sealing(p)' /\ Reading(p)'
    BY DEF Sealing, Reading, Sound, Shape, Nothing
  <1> QED BY <1>1, <1>2, <1>3, <1>4, OneStep

-----------------------------------------------------------------------------
(* The steps.                                                                *)

LEMMA ReadBytesKeeps == ASSUME Fit, Sound, NEW p \in Procs, ReadBytes(p) PROVE Sound'
  <1> USE DEF ReadBytes, Goto
  <1>1. pc'[p] \in {"open", "decide", "readKey"} /\ doc'[p] = Nothing /\ bytes'[p] = file
        /\ (closed => pc'[p] = "open") /\ (pc'[p] = "decide" => file = Missing)
    BY DEF Sound, Shape, Reading
  <1>2. Shape'
    <2>1. pc' \in [Procs -> Labels]
      BY <1>1 DEF Sound, Shape, Labels
    <2>2. op' \in [Procs -> {"load", "save", "clear"}] /\ bytes' \in [Procs -> Sealed]
      BY DEF Sound, Shape
    <2> QED BY <2>1, <2>2 DEF Sound, Shape
  <1>3. OneKey'
    BY <1>1 DEF Sound, Shape, OneKey, Filling
  <1>4. AnsweredWritesLast'
    BY DEF Sound, Shape, AnsweredWritesLast
  <1>5. Still(p)
    BY DEF Still, Sound, Shape
  <1>6. Sealing(p)'
    BY <1>1 DEF Sealing
  <1>7. Reading(p)'
    <2>1. file = Missing => ~Readable(file)' /\ Entries(file)' = Nothing
      BY PlainIs DEF Readable, Entries
    <2>2. Nothing' = Nothing
      BY DEF Nothing
    <2> QED BY <1>1, <2>1, <2>2, NothingIs DEF Reading, Labels
  <1> QED BY <1>2, <1>3, <1>4, <1>5, <1>6, <1>7, OneStep

LEMMA KeyCreatedKeeps ==
    ASSUME Fit, Sound, NEW p \in Procs,
           \/ KeyCreated(p, "readKey", "fillRead", "open")
           \/ KeyCreated(p, "writeKey", "fillWrite", "seal")
    PROVE  Sound'
  <1> USE DEF KeyCreated, Goto
  <1>0. ~closed
    BY DEF Sound, OneKey
  <1>1. /\ \/ pc[p] = "readKey" /\ pc'[p] \in {"fillRead", "open"}
           \/ pc[p] = "writeKey" /\ pc'[p] \in {"fillWrite", "seal"}
        /\ doc' = doc /\ bytes' = bytes /\ tmp' = tmp /\ moved' = moved /\ file' = file
           /\ closed' = closed
        /\ key' = key \/ (key = "none" /\ key' = "empty")
        /\ (Filling(p)' => key = "none" /\ key' = "empty")
        /\ \A q \in Procs : q # p => pc'[q] = pc[q]
    BY DEF Sound, Shape, Filling
  <1>2. key' = key \/ (key \notin Keys /\ ~Readable(file)')
    BY <1>1, DocIs DEF Fit, Readable, Sound, Shape
  <1>3. Shape'
    <2>1. pc' \in [Procs -> Labels] /\ key' \in Keys \cup {"none", "empty"}
      BY DEF Sound, Shape, Labels
    <2> QED BY <2>1 DEF Sound, Shape
  <1>4. OneKey'
    <2>1. ASSUME NEW q \in Procs, NEW r \in Procs, Filling(q)', Filling(r)'
          PROVE  q = r /\ key' = "empty"
      <3>1. CASE Filling(p)'
        <4>1. \A t \in Procs : t # p => ~Filling(t)
          BY <1>1, <3>1 DEF Sound, OneKey
        <4> QED BY <1>1, <2>1, <3>1, <4>1 DEF Filling
      <3>2. CASE ~Filling(p)'
        <4>1. q # p /\ r # p /\ Filling(q) /\ Filling(r)
          BY <1>1, <2>1, <3>2 DEF Filling
        <4> QED BY <1>1, <4>1 DEF Sound, OneKey
      <3> QED BY <3>1, <3>2
    <2> QED BY <1>0, <1>1, <2>1 DEF OneKey
  <1>5. AnsweredWritesLast'
    BY <1>0, <1>1 DEF AnsweredWritesLast
  <1>6. Still(p)
    BY <1>1, <1>2 DEF Still
  <1>7. Sealing(p)'
    BY <1>1 DEF Sealing
  <1>8. Reading(p)'
    BY <1>1, <1>2, ReadsTheSame DEF Sound, Reading, Nothing, Labels
  <1> QED BY <1>3, <1>4, <1>5, <1>6, <1>7, <1>8, OneStep

LEMMA KeyFilledKeeps ==
    ASSUME Fit, Sound, NEW p \in Procs,
           KeyFilled(p, "fillRead", "open") \/ KeyFilled(p, "fillWrite", "seal")
    PROVE  Sound'
  <1> USE DEF KeyFilled, Goto
  <1>0. Filling(p) /\ ~closed /\ key = "empty"
    BY DEF Sound, OneKey, Filling
  <1>1. /\ \/ pc[p] = "fillRead" /\ pc'[p] = "open"
           \/ pc[p] = "fillWrite" /\ pc'[p] = "seal"
        /\ doc' = doc /\ bytes' = bytes /\ tmp' = tmp /\ moved' = moved /\ file' = file
           /\ closed' = closed
        /\ key' \in Keys /\ ~Readable(file)'
        /\ \A q \in Procs : q # p => pc'[q] = pc[q]
    BY DEF Sound, Shape, Readable, IsDoc, Missing, Garbage
  <1>2. key \notin Keys
    BY <1>0 DEF Fit
  <1>3. Shape'
    <2>1. pc' \in [Procs -> Labels] /\ key' \in Keys \cup {"none", "empty"}
      BY DEF Sound, Shape, Labels
    <2> QED BY <2>1 DEF Sound, Shape
  <1>4. OneKey'
    <2>1. \A q \in Procs : ~Filling(q)'
      BY <1>0, <1>1 DEF Sound, OneKey, Filling
    <2> QED BY <1>0, <1>1, <2>1 DEF OneKey
  <1>5. AnsweredWritesLast'
    BY <1>0, <1>1 DEF AnsweredWritesLast
  <1>6. Still(p)
    BY <1>1, <1>2 DEF Still
  <1>7. Sealing(p)'
    BY <1>1 DEF Sealing
  <1>8. Reading(p)'
    BY <1>1, <1>2, ReadsTheSame DEF Sound, Reading, Nothing, Labels
  <1> QED BY <1>3, <1>4, <1>5, <1>6, <1>7, <1>8, OneStep

LEMMA OpenKeeps == ASSUME Fit, Sound, NEW p \in Procs, Open(p) PROVE Sound'
  <1> DEFINE throws == Newer(p) \/ (closed /\ ~Opens(p) /\ bytes[p] # Missing)
             read == IF Opens(p) THEN readVersioned(bytes[p]) ELSE Nothing
  <1>1. pc[p] = "open" /\ UNCHANGED <<closed, file, key, tmp, risk, torn, faults>>
    BY DEF Open
  <1>2. AnsweredWritesLast'
    <2>1. \A q \in Procs : pc[q] = "sync" => pc'[q] = "sync"
      BY <1>1 DEF Open, End, Goto, Sound, Shape
    <2> QED BY <1>1, <2>1 DEF Sound, AnsweredWritesLast
  <1>3. CASE throws
    <2>1. End(p)
      BY <1>3 DEF Open
    <2>2. (risk \subseteq Sealed)' /\ (torn \in BOOLEAN)' /\ (faults \in 0 .. MaxFaults)'
      BY <1>1 DEF Sound, Shape
    <2> QED BY <1>1, <1>2, <2>1, <2>2, EndKeeps
  <1>4. CASE ~throws
    <2> HIDE DEF read
    <2>1. doc' = [doc EXCEPT ![p] = read] /\ pc' = [pc EXCEPT ![p] = "decide"]
          /\ UNCHANGED <<op, bytes, moved>>
      BY <1>4 DEF Open, Goto, read
    <2>2. read \in OneShape
      BY DocIs, NothingIs DEF read, Opens, Sound, Shape
    <2>3. Shape'
      <3>1. pc' \in [Procs -> Labels] /\ doc' \in [Procs -> OneShape]
        BY <2>1, <2>2 DEF Sound, Shape, Labels
      <3> QED BY <1>1, <2>1, <3>1 DEF Sound, Shape
    <2>4. OneKey'
      BY <1>1, <2>1 DEF Sound, Shape, OneKey, Filling
    <2>5. Still(p)
      BY <1>1, <2>1 DEF Still, Sound, Shape
    <2>6. pc'[p] = "decide" /\ doc'[p] = read
      BY <2>1 DEF Sound, Shape
    <2>7. Sealing(p)'
      BY <2>6 DEF Sealing
    <2>8. ASSUME p \notin moved
          PROVE  /\ bytes[p] = file /\ (Opens(p) <=> Readable(file)) /\ read = Entries(file)
                 /\ ~(Readable(file) /\ Version(file) > Build[p])
                 /\ closed => (file = Missing \/ Readable(file))
      <3>1. bytes[p] = file
        BY <1>1, <2>8 DEF Sound, Reading, Labels
      <3>2. Opens(p) <=> Readable(file)
        BY <3>1 DEF Opens, Readable
      <3> QED BY <1>4, <3>1, <3>2 DEF read, Entries, Newer
    <2>9. Reading(p)'
      <3>1. Readable(file)' <=> Readable(file)
        BY <1>1 DEF Readable
      <3>2. Entries(file)' = Entries(file) /\ Version(file)' = Version(file)
        BY <1>1, ReadsTheSame DEF Version
      <3> QED BY <1>1, <2>1, <2>6, <2>8, <3>1, <3>2 DEF Reading, Labels
    <2> QED BY <1>2, <2>3, <2>4, <2>5, <2>7, <2>9, OneStep
  <1> QED BY <1>3, <1>4

\* A step from "decide" that goes on with the file: to "remove", or to write.
LEMMA DecideKeeps ==
    ASSUME Fit, Sound, NEW p \in Procs, pc[p] = "decide",
           NEW l \in {"writeKey", "seal", "remove"},
           NEW e \in OneShape,
           pc' = [pc EXCEPT ![p] = l], doc' = [doc EXCEPT ![p] = e],
           \A a \in Accounts \ {AccountOf[p]} : e[a] = doc[p][a],
           closed => l # "writeKey",
           p \notin moved /\ l = "remove" =>
             \A a \in Accounts \ {AccountOf[p]} : Entries(file)[a] = NoEntry,
           UNCHANGED <<closed, file, key, tmp, op, bytes, moved, risk, torn, faults>>
    PROVE  Sound'
  <1>1. Shape'
    <2>1. pc' \in [Procs -> Labels] /\ doc' \in [Procs -> OneShape]
      BY DEF Sound, Shape, Labels
    <2> QED BY <2>1 DEF Sound, Shape
  <1>2. OneKey'
    BY DEF Sound, Shape, OneKey, Filling
  <1>3. AnsweredWritesLast'
    BY DEF Sound, Shape, AnsweredWritesLast
  <1>4. Still(p)
    BY DEF Still, Sound, Shape
  <1>5. pc'[p] = l /\ doc'[p] = e
    BY DEF Sound, Shape
  <1>6. Sealing(p)'
    BY <1>5 DEF Sealing
  <1>7. Reading(p)'
    <2>1. Readable(file)' <=> Readable(file)
      BY DEF Readable
    <2>2. Entries(file)' = Entries(file)
      BY ReadsTheSame
    <2>3. Reading(p)
      BY DEF Sound
    <2> QED BY <1>5, <2>1, <2>2, <2>3 DEF Reading, Labels
  <1> QED BY <1>1, <1>2, <1>3, <1>4, <1>6, <1>7, OneStep

LEMMA SaveKeeps == ASSUME Fit, Sound, NEW p \in Procs, Save(p) PROVE Sound'
  <1>1. PICK n \in Numbers :
          doc' = [doc EXCEPT ![p] = withAccount(@, AccountOf[p],
            [n |-> n, shape |-> "folded"])]
    BY DEF Save
  <1> DEFINE s == [n |-> n, shape |-> "folded"]
             e == [doc[p] EXCEPT ![AccountOf[p]] = s]
  <1>2. s \in Session /\ s.shape = "folded"
    BY DEF Session, Shapes
  <1>3. doc' = [doc EXCEPT ![p] = e]
    BY <1>1 DEF withAccount, Sound, Shape
  <1> HIDE DEF s
  <1>4. e \in OneShape
    BY <1>2, NothingIs DEF OneShape, Sound, Shape
  <1>5. \A a \in Accounts \ {AccountOf[p]} : e[a] = doc[p][a]
    BY DEF OneShape, Sound, Shape
  <1> HIDE DEF e
  <1> DEFINE l == IF closed THEN "seal" ELSE "writeKey"
  <1>6. l \in {"writeKey", "seal", "remove"} /\ l # "remove" /\ (closed => l # "writeKey")
    OBVIOUS
  <1>7. pc[p] = "decide" /\ pc' = [pc EXCEPT ![p] = l]
        /\ UNCHANGED <<closed, file, key, tmp, op, bytes, moved, risk, torn, faults>>
    BY DEF Save, Goto
  <1> HIDE DEF l
  <1> QED BY <1>3, <1>4, <1>5, <1>6, <1>7, DecideKeeps

LEMMA ClearKeeps == ASSUME Fit, Sound, NEW p \in Procs, Clear(p) PROVE Sound'
  <1> DEFINE ends == ~Unread(p) /\ doc[p][AccountOf[p]] = NoEntry
             e == withoutAccount(doc[p], AccountOf[p])
             gone == Unread(p) \/ e = Nothing
             l == IF gone THEN "remove" ELSE IF closed THEN "seal" ELSE "writeKey"
  <1>1. pc[p] = "decide" /\ UNCHANGED <<closed, file, key, tmp, risk, torn, faults>>
    BY DEF Clear
  <1>2. CASE ends
    <2>1. End(p)
      BY <1>2 DEF Clear
    <2>2. (risk \subseteq Sealed)' /\ (torn \in BOOLEAN)' /\ (faults \in 0 .. MaxFaults)'
      BY <1>1 DEF Sound, Shape
    <2>3. AnsweredWritesLast'
      BY <1>1, <2>1 DEF End, Goto, Sound, Shape, AnsweredWritesLast
    <2> QED BY <1>1, <2>1, <2>2, <2>3, EndKeeps
  <1>3. CASE ~ends
    <2>1. doc' = [doc EXCEPT ![p] = e] /\ pc' = [pc EXCEPT ![p] = l]
          /\ UNCHANGED <<op, bytes, moved>>
      BY <1>3, Zenon DEF Clear, Goto
    <2>2. e \in OneShape /\ \A a \in Accounts \ {AccountOf[p]} : e[a] = doc[p][a]
      <3>1. NoEntry.shape = "folded"
        BY DEF NoEntry
      <3>2. e = [doc[p] EXCEPT ![AccountOf[p]] = NoEntry]
        BY DEF withoutAccount
      <3> HIDE DEF e
      <3> QED BY <3>1, <3>2, NothingIs DEF OneShape, Sound, Shape
    <2> HIDE DEF e
    <2>3. ASSUME p \notin moved, gone, NEW a \in Accounts \ {AccountOf[p]}
          PROVE  Entries(file)[a] = NoEntry
      <3>1. bytes[p] = file /\ doc[p][a] = Entries(file)[a]
        BY <1>1, <2>3 DEF Sound, Reading, Labels
      <3>2. CASE Unread(p)
        BY <3>1, <3>2, NothingIs DEF Unread, Opens, Entries, Readable
      <3>3. CASE e = Nothing
        BY <2>2, <3>1, <3>3, NothingIs
      <3> QED BY <2>3, <3>2, <3>3
    <2> HIDE DEF gone
    <2>4. l \in {"writeKey", "seal", "remove"} /\ (l = "remove" => gone)
          /\ (closed => l # "writeKey")
      OBVIOUS
    <2> HIDE DEF l
    <2> QED BY <1>1, <2>1, <2>2, <2>3, <2>4, DecideKeeps
  <1> QED BY <1>2, <1>3

LEMMA LoadedKeeps == ASSUME Fit, Sound, NEW p \in Procs, Loaded(p) PROVE Sound'
  <1>1. End(p) /\ UNCHANGED <<closed, file, key, tmp, risk, torn, faults>>
        /\ pc[p] = "decide"
    BY DEF Loaded
  <1>2. (risk \subseteq Sealed)' /\ (torn \in BOOLEAN)' /\ (faults \in 0 .. MaxFaults)'
    BY <1>1 DEF Sound, Shape
  <1>3. AnsweredWritesLast'
    BY <1>1 DEF End, Goto, Sound, Shape, AnsweredWritesLast
  <1> QED BY <1>1, <1>2, <1>3, EndKeeps

\* From "seal" to "rename" only p's own bytes and its temporary file change.
LEMMA WritingKeeps ==
    ASSUME Fit, Sound, NEW p \in Procs, pc[p] \in {"seal", "temp", "fill"},
           NEW l \in {"temp", "fill", "rename"}, pc' = [pc EXCEPT ![p] = l],
           NEW b \in Sealed, NEW t \in Sealed,
           bytes' = [bytes EXCEPT ![p] = b], tmp' = [tmp EXCEPT ![p] = t],
           IsDoc(b),
           p \notin moved => b = Keyed(Build[p], key, doc[p]) /\ key \in Keys,
           l = "rename" => t = b,
           UNCHANGED <<closed, file, key, op, doc, moved, risk, torn, faults>>
    PROVE  Sound'
  <1>1. Shape'
    <2>1. /\ pc' \in [Procs -> Labels] /\ bytes' \in [Procs -> Sealed]
          /\ tmp' \in [Procs -> Sealed]
      BY DEF Sound, Shape, Labels
    <2> QED BY <2>1 DEF Sound, Shape
  <1>2. OneKey'
    BY DEF Sound, Shape, OneKey, Filling
  <1>3. AnsweredWritesLast'
    BY DEF Sound, Shape, AnsweredWritesLast
  <1>4. Still(p)
    BY DEF Still, Sound, Shape
  <1>5. pc'[p] = l /\ bytes'[p] = b /\ tmp'[p] = t
    BY DEF Sound, Shape
  <1>6. Sealing(p)'
    BY <1>5 DEF Sealing, IsDoc, Missing, Garbage
  <1>7. Reading(p)'
    <2>1. (Readable(file)' <=> Readable(file)) /\ Entries(file)' = Entries(file)
      BY ReadsTheSame
    <2>2. Reading(p)
      BY DEF Sound
    <2> QED BY <1>5, <2>1, <2>2 DEF Reading, Labels
  <1> QED BY <1>1, <1>2, <1>3, <1>4, <1>6, <1>7, OneStep

LEMMA SealKeeps == ASSUME Fit, Sound, NEW p \in Procs, Seal(p) PROVE Sound'
  <1>1. pc[p] = "seal" /\ UNCHANGED <<closed, file, key, tmp, risk, torn, faults>>
    BY DEF Seal
  <1>2. CASE key \notin Keys
    <2>1. End(p)
      BY <1>2 DEF Seal
    <2>2. (risk \subseteq Sealed)' /\ (torn \in BOOLEAN)' /\ (faults \in 0 .. MaxFaults)'
      BY <1>1 DEF Sound, Shape
    <2>3. AnsweredWritesLast'
      BY <1>1, <2>1 DEF End, Goto, Sound, Shape, AnsweredWritesLast
    <2> QED BY <1>1, <2>1, <2>2, <2>3, EndKeeps
  <1>3. CASE key \in Keys
    <2> DEFINE b == Keyed(Build[p], key, doc[p])
    <2>1. bytes' = [bytes EXCEPT ![p] = b] /\ pc' = [pc EXCEPT ![p] = "temp"]
          /\ UNCHANGED <<op, doc, moved>>
      BY <1>3 DEF Seal, Goto
    <2>2. Build[p] \in Current .. (Current + 1) /\ doc[p] \in OneShape
      BY DEF Fit, Sound, Shape
    <2>3. b \in Sealed /\ IsDoc(b)
      BY <1>3, <2>2, KeyedIs
    <2> HIDE DEF b
    <2>4. tmp' = [tmp EXCEPT ![p] = tmp[p]] /\ tmp[p] \in Sealed
      BY <1>1 DEF Sound, Shape
    <2> QED BY <1>1, <1>3, <2>1, <2>3, <2>4, WritingKeeps DEF b
  <1> QED BY <1>2, <1>3

LEMMA TempKeeps == ASSUME Fit, Sound, NEW p \in Procs, Temp(p) \/ Fill(p) PROVE Sound'
  <1> DEFINE t == IF pc[p] = "temp" THEN Garbage ELSE bytes[p]
             l == IF pc[p] = "temp" THEN "fill" ELSE "rename"
  <1>1. pc[p] \in {"temp", "fill"} /\ pc' = [pc EXCEPT ![p] = l]
        /\ tmp' = [tmp EXCEPT ![p] = t]
        /\ UNCHANGED <<closed, file, key, op, doc, bytes, moved, risk, torn, faults>>
    BY DEF Temp, Fill, Goto
  <1>2. bytes' = [bytes EXCEPT ![p] = bytes[p]] /\ bytes[p] \in Sealed
    BY <1>1 DEF Sound, Shape
  <1>3. IsDoc(bytes[p])
        /\ (p \notin moved => bytes[p] = Keyed(Build[p], key, doc[p]) /\ key \in Keys)
    BY <1>1 DEF Sound, Sealing
  <1>4. t \in Sealed /\ l \in {"temp", "fill", "rename"} /\ (l = "rename" => t = bytes[p])
    BY <1>2, PlainIs
  <1> HIDE DEF t, l
  <1> QED BY <1>1, <1>2, <1>3, <1>4, WritingKeeps

LEMMA RenameKeeps == ASSUME Fit, Sound, NEW p \in Procs, Rename(p) PROVE Sound'
  <1> USE DEF Rename, Replaced, Goto
  <1>1. tmp[p] \in Sealed
    BY DEF Sound, Shape
  <1>2. Shape'
    <2>1. pc' \in [Procs -> Labels] /\ tmp' \in [Procs -> Sealed]
      BY PlainIs DEF Sound, Shape, Labels
    <2>2. file' \in Sealed /\ (risk \subseteq Sealed)' /\ moved' \subseteq Procs
      BY <1>1 DEF Sound, Shape
    <2> QED BY <2>1, <2>2 DEF Sound, Shape
  <1>3. OneKey'
    BY DEF Sound, Shape, OneKey, Filling
  <1>4. pc'[p] = "sync"
    BY DEF Sound, Shape
  <1>5. AnsweredWritesLast'
    BY <1>4 DEF AnsweredWritesLast
  <1>6. Sealing(p)' /\ Reading(p)'
    BY <1>4 DEF Sealing, Reading
  <1>7. \A q \in Procs : q # p =>
          /\ pc'[q] = pc[q] /\ doc'[q] = doc[q] /\ bytes'[q] = bytes[q] /\ tmp'[q] = tmp[q]
          /\ pc[q] # "idle" => q \in moved'
    BY DEF Sound, Shape
  <1> QED BY <1>2, <1>3, <1>5, <1>6, <1>7, OneReplaces

LEMMA RemoveKeeps == ASSUME Fit, Sound, NEW p \in Procs, Remove(p) PROVE Sound'
  <1>1. pc[p] = "remove" /\ UNCHANGED <<closed, key, tmp, torn, faults>>
    BY DEF Remove
  <1>2. CASE file = Missing
    <2>1. End(p) /\ UNCHANGED <<file, risk>>
      BY <1>2 DEF Remove
    <2>2. (risk \subseteq Sealed)' /\ (torn \in BOOLEAN)' /\ (faults \in 0 .. MaxFaults)'
      BY <1>1, <2>1 DEF Sound, Shape
    <2>3. AnsweredWritesLast'
      BY <1>1, <2>1 DEF End, Goto, Sound, Shape, AnsweredWritesLast
    <2> QED BY <1>1, <2>1, <2>2, <2>3, EndKeeps
  <1>3. CASE file # Missing
    <2>1. /\ file' = Missing /\ moved' = (moved \cup {q \in Procs : pc[q] # "idle"}) \ {p}
          /\ risk' = (IF closed THEN risk \cup {Missing} ELSE {})
          /\ pc' = [pc EXCEPT ![p] = "sync"] /\ UNCHANGED <<op, doc, bytes>>
      BY <1>3 DEF Remove, Replaced, Goto
    <2>2. Shape'
      <3>1. pc' \in [Procs -> Labels]
        BY <2>1 DEF Sound, Shape, Labels
      <3>2. file' \in Sealed /\ (risk \subseteq Sealed)' /\ moved' \subseteq Procs
        BY <2>1, PlainIs DEF Sound, Shape
      <3> QED BY <1>1, <2>1, <3>1, <3>2 DEF Sound, Shape
    <2>3. OneKey'
      BY <1>1, <2>1 DEF Sound, Shape, OneKey, Filling
    <2>4. pc'[p] = "sync"
      BY <2>1 DEF Sound, Shape
    <2>5. AnsweredWritesLast'
      BY <2>4 DEF AnsweredWritesLast
    <2>6. Sealing(p)' /\ Reading(p)'
      BY <2>4 DEF Sealing, Reading
    <2>7. \A q \in Procs : q # p =>
            /\ pc'[q] = pc[q] /\ doc'[q] = doc[q] /\ bytes'[q] = bytes[q]
               /\ tmp'[q] = tmp[q]
            /\ pc[q] # "idle" => q \in moved'
      BY <1>1, <2>1 DEF Sound, Shape
    <2> QED BY <2>2, <2>3, <2>5, <2>6, <2>7, OneReplaces
  <1> QED BY <1>2, <1>3

LEMMA SyncKeeps == ASSUME Fit, Sound, NEW p \in Procs, Sync(p) PROVE Sound'
  <1>1. End(p) /\ UNCHANGED <<closed, file, key, tmp, faults>>
    BY DEF Sync
  <1>2. /\ closed => risk' = {file} /\ torn' = FALSE
        /\ ~closed => UNCHANGED <<risk, torn>>
    BY DEF Sync
  <1>3. (risk \subseteq Sealed)' /\ (torn \in BOOLEAN)' /\ (faults \in 0 .. MaxFaults)'
    BY <1>1, <1>2 DEF Sound, Shape
  <1>4. AnsweredWritesLast'
    BY <1>1, <1>2 DEF AnsweredWritesLast
  <1> QED BY <1>1, <1>3, <1>4, EndKeeps

LEMMA CrashKeeps == ASSUME Fit, Sound, NEW p \in Procs, Crash(p) PROVE Sound'
  <1>1. End(p) /\ torn' = (torn \/ pc[p] = "sync")
        /\ UNCHANGED <<closed, file, key, tmp, risk>>
    BY DEF Crash
  <1>2. (risk \subseteq Sealed)' /\ (torn \in BOOLEAN)'
    BY <1>1 DEF Sound, Shape
  <1>3. (faults \in 0 .. MaxFaults)'
    BY DEF Crash, Fault, Sound, Shape, Fit
  <1>4. AnsweredWritesLast'
    <2>1. \A q \in Procs : pc[q] = "sync" => q = p \/ pc'[q] = "sync"
      BY <1>1 DEF End, Goto, Sound, Shape
    <2>2. CASE torn \/ pc[p] = "sync"
      BY <1>1, <2>2 DEF AnsweredWritesLast
    <2>3. CASE ~(torn \/ pc[p] = "sync")
      BY <1>1, <2>1, <2>3 DEF Sound, AnsweredWritesLast
    <2> QED BY <2>2, <2>3
  <1> QED BY <1>1, <1>2, <1>3, <1>4, EndKeeps

LEMMA PowerLossKeeps == ASSUME Fit, Sound, PowerLoss PROVE Sound'
  <1> USE DEF PowerLoss
  <1>1. file' \in Sealed /\ (risk \subseteq Sealed)' /\ (closed => risk' = {file'})
    BY PlainIs DEF Sound, Shape
  <1>2. \A p \in Procs : pc'[p] = "idle" /\ doc'[p] = Nothing
    OBVIOUS
  <1>3. Shape'
    <2>1. /\ tmp' \in [Procs -> Sealed] /\ bytes' \in [Procs -> Sealed]
          /\ doc' \in [Procs -> OneShape]
      BY PlainIs, NothingIs
    <2>2. pc' \in [Procs -> Labels] /\ op' \in [Procs -> {"load", "save", "clear"}]
      BY DEF Labels
    <2>3. (faults \in 0 .. MaxFaults)'
      BY DEF Fault, Sound, Shape, Fit
    <2>4. closed' \in BOOLEAN /\ torn' \in BOOLEAN /\ moved' \subseteq Procs
          /\ key' \in Keys \cup {"none", "empty"}
      BY DEF Sound, Shape
    <2> QED BY <1>1, <2>1, <2>2, <2>3, <2>4 DEF Shape
  <1>4. OneKey' /\ AnsweredWritesLast'
    BY <1>1, <1>2 DEF Sound, OneKey, Filling, AnsweredWritesLast
  <1>5. \A p \in Procs : (Sealing(p) /\ Reading(p))'
    BY <1>2 DEF Sealing, Reading, Nothing
  <1> QED BY <1>3, <1>4, <1>5 DEF Sound

\* The file is damaged, or the key removed: whoever is not idle is overtaken.
LEMMA DamageKeeps == ASSUME Fit, Sound, Damage \/ KeyLost PROVE Sound'
  <1> USE DEF Damage, KeyLost
  <1>1. UNCHANGED <<closed, tmp, pc, op, doc, bytes, torn>>
        /\ moved' = {q \in Procs : pc[q] # "idle"}
    OBVIOUS
  <1>2. Shape'
    <2>1. file' \in Sealed /\ (risk \subseteq Sealed)'
          /\ key' \in Keys \cup {"none", "empty"}
      BY PlainIs DEF Sound, Shape
    <2>2. (faults \in 0 .. MaxFaults)'
      BY DEF Fault, Sound, Shape, Fit
    <2> QED BY <1>1, <2>1, <2>2 DEF Sound, Shape
  <1>3. OneKey'
    <2>1. KeyLost => \A p \in Procs : ~Filling(p)
      BY DEF Sound, OneKey, Fit
    <2>2. KeyLost => ~closed
      OBVIOUS
    <2>3. Damage => key' = key
      OBVIOUS
    <2>4. \A p \in Procs : Filling(p)' <=> Filling(p)
      BY <1>1 DEF Filling
    <2> QED BY <1>1, <2>1, <2>2, <2>3, <2>4 DEF Sound, OneKey
  <1>4. AnsweredWritesLast'
    BY <1>1 DEF Sound, AnsweredWritesLast
  <1>5. \A q \in Procs : (Sealing(q) /\ Reading(q))'
    BY <1>1, OvertakenKeeps
  <1> QED BY <1>2, <1>3, <1>4, <1>5 DEF Sound

LEMMA NextKeeps == ASSUME Fit, Sound, [Next]_vars PROVE Sound'
  <1>1. ASSUME NEW p \in Procs, Step(p) PROVE Sound'
    BY <1>1, ReadBytesKeeps, OpenKeeps, SaveKeeps, ClearKeeps, KeyCreatedKeeps,
       KeyFilledKeeps, SealKeeps, TempKeeps, RenameKeeps, RemoveKeeps, SyncKeeps,
       LoadedKeeps DEF Step
  <1>2. CASE UNCHANGED vars
    <2>1. Shape' /\ OneKey' /\ AnsweredWritesLast'
      BY <1>2 DEF vars, Sound, Shape, OneKey, Filling, AnsweredWritesLast
    <2>2. \A p \in Procs : (Sealing(p) /\ Reading(p))'
      <3>1. ASSUME NEW p \in Procs PROVE Sealing(p)' /\ Reading(p)'
        <4>1. Sealing(p) /\ Reading(p)
          BY DEF Sound
        <4>2. Sealing(p)'
          BY <1>2, <4>1 DEF vars, Sealing, IsDoc
        <4>3. (Readable(file)' <=> Readable(file)) /\ Entries(file)' = Entries(file)
          BY <1>2, ReadsTheSame DEF vars
        <4>4. Reading(p)'
          BY <1>2, <4>1, <4>3 DEF vars, Reading, Nothing
        <4> QED BY <4>2, <4>4
      <3> QED BY <3>1
    <2> QED BY <2>1, <2>2 DEF Sound
  <1> QED BY <1>1, <1>2, CrashKeeps, PowerLossKeeps, DamageKeeps DEF Next

-----------------------------------------------------------------------------
(* What a step may do.                                                       *)

\* Who puts a file in place has read the one it replaces, and nobody came between.
LEMMA PutsHow ==
    ASSUME Fit, Sound, [Next]_vars, NEW p \in Procs, Puts(p), p \notin moved
    PROVE  /\ closed' = closed /\ key' = key
           /\ \/ pc[p] = "rename" /\ file' = Keyed(Build[p], key, doc[p]) /\ key \in Keys
              \/ pc[p] = "remove" /\ file' = Missing
  <1>1. pc[p] \in {"rename", "remove"} /\ pc'[p] = "sync"
    BY DEF Puts
  <1>2. ASSUME NEW q \in Procs, q # p, Step(q) \/ Crash(q) PROVE FALSE
    <2>1. pc'[p] = pc[p]
      BY <1>2 DEF Step, Crash, ReadBytes, Open, Loaded, Save, Clear, KeyCreated, KeyFilled,
         Seal, Temp, Fill, Rename, Remove, Sync, End, Goto, Sound, Shape
    <2> QED BY <1>1, <2>1
  <1>3. ASSUME Step(p) \/ Crash(p) PROVE Rename(p) \/ Remove(p)
    BY <1>1, <1>3 DEF Step, Crash, ReadBytes, Open, Loaded, Save, Clear, KeyCreated,
       KeyFilled, Seal, Temp, Fill, Sync, End, Goto, Sound, Shape
  <1>4. ~UNCHANGED vars /\ ~PowerLoss /\ ~Damage /\ ~KeyLost
    BY <1>1 DEF vars, PowerLoss, Damage, KeyLost
  <1>5. Rename(p) \/ Remove(p)
    BY <1>2, <1>3, <1>4 DEF Next
  <1>6. CASE Rename(p)
    <2>1. tmp[p] = bytes[p] /\ bytes[p] = Keyed(Build[p], key, doc[p]) /\ key \in Keys
      BY <1>6 DEF Rename, Sound, Sealing
    <2> QED BY <1>6, <2>1 DEF Rename, Replaced
  <1>7. CASE Remove(p)
    <2>1. file # Missing
      BY <1>1, <1>7 DEF Remove, End, Goto, Sound, Shape
    <2> QED BY <1>7, <2>1 DEF Remove, Replaced
  <1> QED BY <1>5, <1>6, <1>7

LEMMA PutsWhat ==
    ASSUME Fit, Sound, [Next]_vars, NEW p \in Procs, Puts(p), p \notin moved
    PROVE  /\ \A a \in Accounts \ {AccountOf[p]} : (Entries(file)[a])' = Entries(file)[a]
           /\ ~(Readable(file) /\ Version(file) > Build[p])
           /\ closed => (file = Missing \/ Readable(file))
           /\ (file = Missing \/ Readable(file))'
  <1>1. /\ ~(Readable(file) /\ Version(file) > Build[p])
        /\ closed => (file = Missing \/ Readable(file))
        /\ \A a \in Accounts \ {AccountOf[p]} : doc[p][a] = Entries(file)[a]
        /\ pc[p] = "remove" =>
             \A a \in Accounts \ {AccountOf[p]} : Entries(file)[a] = NoEntry
    <2>1. pc[p] \in {"rename", "remove"} /\ Reading(p)
      BY DEF Puts, Sound
    <2>2. CASE pc[p] = "remove"
      BY <2>1, <2>2 DEF Reading, Labels
    <2>3. CASE pc[p] = "rename"
      BY <2>1, <2>3 DEF Reading, Labels
    <2> QED BY <2>1, <2>2, <2>3
  <1>2. CASE pc[p] = "rename" /\ file' = Keyed(Build[p], key, doc[p]) /\ key \in Keys
    <2>1. Build[p] \in Current .. (Current + 1) /\ doc[p] \in OneShape
      BY DEF Fit, Sound, Shape
    <2>2. key' = key
      BY PutsHow
    <2>3. IsDoc(file)' /\ file'.key = key /\ readVersioned(file)' = doc[p]
      BY <1>2, <2>1, KeyedIs DEF IsDoc, readVersioned
    <2>4. Readable(file)' /\ Entries(file)' = doc[p]
      BY <2>2, <2>3 DEF Readable, Entries
    <2> QED BY <1>1, <2>4
  <1>3. CASE pc[p] = "remove" /\ file' = Missing
    <2>1. Entries(file)' = Nothing
      BY <1>3, PlainIs DEF Entries, Readable
    <2> QED BY <1>1, <1>3, <2>1, NothingIs DEF Missing, NoEntry
  <1> QED BY <1>2, <1>3, PutsHow

\* What is renamed over the file is a document, whoever was overtaken.
LEMMA HalfAFile == ASSUME Fit, Sound, [Next]_vars PROVE NeverHalfAFile
  <1> SUFFICES ASSUME file' = Garbage, file # Garbage
               PROVE  Damage \/ (PowerLoss /\ (closed => Garbage \in risk))
    BY DEF NeverHalfAFile
  <1>1. ASSUME NEW p \in Procs, Rename(p) PROVE FALSE
    <2>1. IsDoc(tmp[p])
      BY <1>1 DEF Rename, Sound, Sealing
    <2> QED BY <1>1, <2>1 DEF Rename, Replaced, IsDoc
  <1>2. ASSUME NEW p \in Procs, Remove(p) PROVE FALSE
    <2>1. Missing # Garbage
      BY DEF Missing, Garbage
    <2> QED BY <1>2, <2>1 DEF Remove, Replaced
  <1>3. ASSUME NEW p \in Procs, Step(p) \/ Crash(p) PROVE FALSE
    BY <1>1, <1>2, <1>3 DEF Step, Crash, ReadBytes, Open, Loaded, Save, Clear, KeyCreated,
       KeyFilled, Seal, Temp, Fill, Sync
  <1>4. ~UNCHANGED vars /\ ~KeyLost
    BY DEF vars, KeyLost
  <1>5. PowerLoss => (closed => Garbage \in risk)
    BY DEF PowerLoss
  <1> QED BY <1>3, <1>4, <1>5 DEF Next

-----------------------------------------------------------------------------
(* The theorems.                                                             *)

\* The invariant the others rest on.
LEMMA AlwaysSound == ASSUME Fit PROVE Spec => []Sound
  <1>1. Init => Sound
    BY SoundAtFirst
  <1>2. Sound /\ [Next]_vars => Sound'
    BY NextKeeps
  <1> QED BY <1>1, <1>2, PTL DEF Spec

\* A save or a clear of one account keeps what every other account has saved,
\* unless the file was replaced after the process read it (store.ts:113-118).
THEOREM OthersAreKept == ASSUME Fit PROVE Spec => [][KeepsTheOthers]_vars
  <1>1. Sound /\ [Next]_vars => [KeepsTheOthers]_vars
    BY PutsWhat DEF KeepsTheOthers
  <1>2. Spec => []Sound
    BY AlwaysSound
  <1> QED BY <1>1, <1>2, PTL DEF Spec

\* A newer build's file stays, and the connector's whatever cannot be read
\* (versioned.ts:31, storage.ts:38).
THEOREM UnreadFilesStay == ASSUME Fit PROVE Spec => [][UnreadStays]_vars
  <1>1. Sound /\ [Next]_vars => [UnreadStays]_vars
    BY PutsWhat DEF UnreadStays
  <1>2. Spec => []Sound
    BY AlwaysSound
  <1> QED BY <1>1, <1>2, PTL DEF Spec

\* What a process puts in place opens with the key that is in the directory,
\* also while several make the first key (private-files.ts:70-83).
THEOREM WrittenFilesOpen == ASSUME Fit PROVE Spec => [][OpensAfterwards]_vars
  <1>1. Sound /\ [Next]_vars => [OpensAfterwards]_vars
    BY PutsWhat DEF OpensAfterwards
  <1>2. Spec => []Sound
    BY AlwaysSound
  <1> QED BY <1>1, <1>2, PTL DEF Spec

\* Only damage and a power loss leave half a file, and for the connector a
\* power loss at most brings back a damaged one (private-files.ts:5-8).
THEOREM FilesAreWhole == ASSUME Fit PROVE Spec => [][NeverHalfAFile]_vars
  <1>1. Sound /\ [Next]_vars => [NeverHalfAFile]_vars
    BY HalfAFile
  <1>2. Spec => []Sound
    BY AlwaysSound
  <1> QED BY <1>1, <1>2, PTL DEF Spec

\* What the connector's write has answered survives a power loss.
THEOREM AnsweredWritesSurvive == ASSUME Fit PROVE Spec => []AnsweredWritesLast
  <1>1. Sound => AnsweredWritesLast
    BY DEF Sound
  <1>2. Spec => []Sound
    BY AlwaysSound
  <1> QED BY <1>1, <1>2, PTL

-----------------------------------------------------------------------------
(* The logins.                                                               *)

\* Numbers for the bounds.
Bounded == MaxLogins \in Nat /\ Timeout \in Nat /\ Ttl \in Nat

Listeners     == [Login!Logins -> {"none", "up", "lingering"}]
LoginRecords  == [at : Login!Places, id : Nat, code : Nat, age : Nat]
MarkerRecords == [state : {"running", "failed"}, pid : Procs, age : Nat, url : Nat]

\* A login under way has a number, and what it is about to exchange is its own code.
Numbered ==
  /\ login \in [Procs -> LoginRecords]
  /\ server \in Listeners
  /\ marker # None => marker \in MarkerRecords
  /\ count \in 0 .. MaxLogins
  /\ \A p \in Procs : /\ login[p].at # "none" => login[p].id \in Login!Logins
                      /\ login[p].at = "coded" => login[p].code = login[p].id

Kept ==
  /\ Numbered
  /\ Login!ExchangesItsOwn /\ Login!PortIsReturned /\ Login!MarkerTellsOfALogin

LEMMA KeptAtFirst == ASSUME Bounded, Login!Init PROVE Kept
  <1>1. Login!Idle \in LoginRecords /\ Login!Idle.at = "none"
    BY DEF Login!Idle, LoginRecords, Login!Places
  <1>2. Numbered
    BY <1>1 DEF Login!Init, Numbered, Listeners, Bounded
  <1>3. Login!ExchangesItsOwn /\ Login!PortIsReturned /\ Login!MarkerTellsOfALogin
    BY DEF Login!Init, Login!ExchangesItsOwn, Login!PortIsReturned,
       Login!MarkerTellsOfALogin
  <1> QED BY <1>2, <1>3 DEF Kept

\* A step that changes one process's login, and the markers it may leave.
LEMMA OneLogin ==
    ASSUME Bounded, Kept, NEW p \in Procs, NEW r \in LoginRecords,
           login' = [login EXCEPT ![p] = r],
           r.at # "none" => r.id \in Login!Logins, r.at = "coded" => r.code = r.id,
           server' \in Listeners,
           \A i \in Login!Logins : server'[i] = "up" =>
             \/ server[i] = "up"
                /\ ~(p \in Login!Living /\ login[p].at = "waiting" /\ login[p].id = i)
             \/ server[i] = "up" /\ r.at = "waiting" /\ r.id = i /\ p \in Login!Living'
             \/ r.at = "waiting" /\ r.id = i /\ p \in Login!Living',
           \A q \in Procs : q # p /\ q \in Login!Living => q \in Login!Living',
           marker' # None => marker' \in MarkerRecords,
           marker' # None /\ marker'.state = "running" =>
             \/ marker # None /\ marker.state = "running" /\ marker'.pid = marker.pid
             \/ marker'.pid = p /\ r.at # "none" /\ p \in Login!Living',
           p \notin Login!Living' => p \in dead',
           r.at = "none" => login[p].at = "none" \/ p \in (dead \cup unsaved)'
                              \/ ~(marker' # None /\ marker'.state = "running"),
           dead \subseteq dead', unsaved \subseteq unsaved',
           Login!ExchangesItsOwn', count' \in 0 .. MaxLogins
    PROVE  Kept'
  <1>1. login'[p] = r /\ \A q \in Procs : q # p => login'[q] = login[q]
    BY DEF Kept, Numbered, Listeners
  <1>2. Numbered'
    <2>1. login' \in [Procs -> LoginRecords]
      BY DEF Kept, Numbered, Listeners
    <2>2. \A q \in Procs : /\ login'[q].at # "none" => login'[q].id \in Login!Logins
                           /\ login'[q].at = "coded" => login'[q].code = login'[q].id
      BY <1>1 DEF Kept, Numbered, Listeners
    <2> QED BY <2>1, <2>2 DEF Numbered, Listeners
  <1>3. Login!PortIsReturned'
    <2> SUFFICES ASSUME NEW i \in Login!Logins, server'[i] = "up"
                 PROVE  \E q \in Login!Living' : login'[q].at = "waiting"
                        /\ login'[q].id = i
      BY DEF Login!PortIsReturned
    <2>1. CASE r.at = "waiting" /\ r.id = i /\ p \in Login!Living'
      BY <1>1, <2>1
    <2>2. CASE server[i] = "up"
          /\ ~(p \in Login!Living /\ login[p].at = "waiting" /\ login[p].id = i)
      <3>1. PICK q \in Login!Living : login[q].at = "waiting" /\ login[q].id = i
        BY <2>2 DEF Kept, Login!PortIsReturned
      <3>2. q \in Procs /\ q # p
        BY <2>2, <3>1 DEF Login!Living
      <3> QED BY <1>1, <3>1, <3>2
    <2> QED BY <2>1, <2>2
  <1>4. Login!MarkerTellsOfALogin'
    <2> SUFFICES ASSUME marker' # None, marker'.state = "running"
                 PROVE  \/ \E q \in Login!Living' : login'[q].at # "none" /\ marker'.pid = q
                        \/ marker'.pid \in (dead \cup unsaved)'
      BY DEF Login!MarkerTellsOfALogin
    <2>1. CASE marker'.pid = p /\ r.at # "none" /\ p \in Login!Living'
      BY <1>1, <2>1
    <2>2. CASE marker # None /\ marker.state = "running" /\ marker'.pid = marker.pid
      <3>1. CASE marker.pid \in dead \cup unsaved
        BY <2>2, <3>1
      <3>2. CASE \E q \in Login!Living : login[q].at # "none" /\ marker.pid = q
        <4>1. PICK q \in Login!Living : login[q].at # "none" /\ marker.pid = q
          BY <3>2
        <4>2. CASE q = p
          BY <1>1, <2>2, <4>1, <4>2 DEF Login!Living
        <4>3. CASE q # p
          BY <1>1, <2>2, <4>1, <4>3 DEF Login!Living
        <4> QED BY <4>2, <4>3
      <3> QED BY <2>2, <3>1, <3>2 DEF Kept, Login!MarkerTellsOfALogin
    <2> QED BY <2>1, <2>2
  <1> QED BY <1>2, <1>3, <1>4 DEF Kept

LEMMA RecordsAre ==
    /\ Login!Idle \in LoginRecords /\ Login!Idle.at = "none"
    /\ \A r \in LoginRecords, l \in Login!Places :
         /\ [r EXCEPT !.at = l] \in LoginRecords
         /\ [r EXCEPT !.at = l].at = l /\ [r EXCEPT !.at = l].id = r.id
    /\ \A i \in Nat : LET r == [Login!Idle EXCEPT !.at = "checked", !.id = i]
                      IN  r \in LoginRecords /\ r.at = "checked" /\ r.id = i
  BY DEF LoginRecords, Login!Places, Login!Idle

LEMMA MarkersAre ==
    ASSUME Bounded, Kept
    PROVE  /\ \A p \in Procs : Login!pendingLogin(p) \in {None, marker}
           /\ \A st \in {"running", "failed"}, p \in Procs :
                LET m == Login!Marker(st, p, IF st = "running" \/ marker = None THEN 0
                                                                ELSE marker.age, 0)
                IN  m \in MarkerRecords /\ m.state = st /\ m.pid = p
           /\ \A u \in Nat, m \in MarkerRecords :
                LET n == [m EXCEPT !.url = u]
                IN  n \in MarkerRecords /\ n.state = m.state /\ n.pid = m.pid
  <1>1. marker # None => marker.age \in Nat
    BY DEF Kept, Numbered, MarkerRecords
  <1> QED BY <1>1 DEF Login!pendingLogin, Login!Marker, MarkerRecords

\* A login that failed: PortBusy, TimedOut, a rejected callback or exchange.
LEMMA FailedKeeps ==
    ASSUME Bounded, Kept, NEW p \in Procs, Login!Failed(p), dead' = dead, count' = count,
           server' \in Listeners,
           \A i \in Login!Logins : server'[i] = "up" =>
             server[i] = "up" /\ ~(login[p].at = "waiting" /\ login[p].id = i),
           Login!ExchangesItsOwn'
    PROVE  Kept'
  <1>1. login' = [login EXCEPT ![p] = Login!Idle] /\ unsaved' = unsaved
        /\ marker' = Login!Marker("failed", p, IF marker = None THEN 0 ELSE marker.age, 0)
    BY DEF Login!Failed
  <1>2. marker' \in MarkerRecords /\ marker'.state = "failed"
    BY <1>1, MarkersAre
  <1>3. Login!Living' = Login!Living /\ (p \notin Login!Living => p \in dead)
        /\ count' \in 0 .. MaxLogins
    BY DEF Login!Living, Kept, Numbered
  <1>4. Login!Idle \in LoginRecords /\ Login!Idle.at = "none"
    BY RecordsAre
  <1> HIDE DEF Login!Idle
  <1>5. marker' # None => marker' \in MarkerRecords /\ marker'.state # "running"
    BY <1>2
  <1>6. (\A q \in Procs : q # p /\ q \in Login!Living => q \in Login!Living')
        /\ (p \notin Login!Living' => p \in dead') /\ dead \subseteq dead'
           /\ unsaved \subseteq unsaved'
    BY <1>1, <1>3
  <1> QED BY <1>1, <1>3, <1>4, <1>5, <1>6, OneLogin

LEMMA ChecksKeeps == ASSUME Bounded, Kept, NEW p \in Procs, Login!Checks(p) PROVE Kept'
  <1> DEFINE r == [Login!Idle EXCEPT !.at = "checked", !.id = count + 1]
  <1>1. /\ p \in Login!Living /\ count < MaxLogins /\ count' = count + 1
        /\ login' = [login EXCEPT ![p] = r] /\ marker' = Login!pendingLogin(p)
        /\ UNCHANGED <<server, exchanged, dead, unsaved>>
    BY DEF Login!Checks
  <1>2. count \in 0 .. MaxLogins
    BY DEF Kept, Numbered, Listeners
  <1>3. count' \in 0 .. MaxLogins /\ count + 1 \in Login!Logins /\ count + 1 \in Nat
    BY <1>1, <1>2 DEF Bounded, Login!Logins
  <1>4. r \in LoginRecords /\ r.at = "checked" /\ r.id \in Login!Logins
    BY <1>3, RecordsAre
  <1> HIDE DEF r
  <1>5. marker' \in {None, marker} /\ (marker' # None => marker' \in MarkerRecords)
    BY <1>1, MarkersAre DEF Kept, Numbered, Listeners
  <1>6. Login!Living' = Login!Living /\ Login!ExchangesItsOwn' /\ server' \in Listeners
        /\ login[p].at = "none"
    BY <1>1 DEF Login!Living, Login!Checks, Kept, Numbered, Listeners, Login!ExchangesItsOwn
  <1>7. \A i \in Login!Logins : server'[i] = "up" =>
          server[i] = "up"
            /\ ~(p \in Login!Living /\ login[p].at = "waiting" /\ login[p].id = i)
    BY <1>1, <1>6
  <1>8. marker' # None /\ marker'.state = "running" =>
          marker # None /\ marker.state = "running" /\ marker'.pid = marker.pid
    BY <1>5
  <1> QED BY <1>1, <1>3, <1>4, <1>5, <1>6, <1>7, <1>8, OneLogin

LEMMA WritesKeeps == ASSUME Bounded, Kept, NEW p \in Procs, Login!Writes(p) PROVE Kept'
  <1> DEFINE r == [login[p] EXCEPT !.at = "starting"]
  <1>1. /\ p \in Login!Living /\ login[p].at = "checked"
           /\ marker' = Login!Marker("running", p, 0, 0)
        /\ login' = [login EXCEPT ![p] = r]
        /\ UNCHANGED <<server, exchanged, count, dead, unsaved>>
    BY DEF Login!Writes, Kept, Numbered, Listeners
  <1>2. r \in LoginRecords /\ r.at = "starting" /\ r.id \in Login!Logins
    <2>1. login[p] \in LoginRecords /\ login[p].id \in Login!Logins
      BY <1>1 DEF Kept, Numbered, Listeners
    <2> QED BY <2>1 DEF LoginRecords, Login!Places
  <1> HIDE DEF r
  <1>3. marker' \in MarkerRecords /\ marker'.state = "running" /\ marker'.pid = p
    BY <1>1, MarkersAre
  <1>4. Login!Living' = Login!Living /\ Login!ExchangesItsOwn' /\ server' \in Listeners
        /\ count' \in 0 .. MaxLogins
    BY <1>1 DEF Login!Living, Kept, Numbered, Listeners, Login!ExchangesItsOwn
  <1> QED BY <1>1, <1>2, <1>3, <1>4, OneLogin

LEMMA ListensKeeps == ASSUME Bounded, Kept, NEW p \in Procs, Login!Listens(p) PROVE Kept'
  <1> DEFINE r == [login[p] EXCEPT !.at = "waiting"]
  <1>1. /\ p \in Login!Living /\ login[p].at = "starting"
        /\ marker' = IF marker # None /\ marker.state = "running"
                     THEN [marker EXCEPT !.url = login[p].id] ELSE marker
        /\ server' = [server EXCEPT ![login[p].id] = "up"]
        /\ login' = [login EXCEPT ![p] = r]
        /\ UNCHANGED <<exchanged, count, dead, unsaved>>
    BY DEF Login!Listens, Kept, Numbered, Listeners
  <1>2. r \in LoginRecords /\ r.at = "waiting" /\ r.id = login[p].id
        /\ r.id \in Login!Logins
    BY <1>1, RecordsAre DEF Kept, Numbered, Listeners, Login!Places
  <1> HIDE DEF r
  <1>3. login[p].id \in Nat
    BY <1>2 DEF Login!Logins
  <1>4. /\ marker' # None => marker' \in MarkerRecords
        /\ marker' # None /\ marker'.state = "running" =>
             marker # None /\ marker.state = "running" /\ marker'.pid = marker.pid
    <2>1. CASE marker # None /\ marker.state = "running"
      BY <1>1, <1>3, <2>1, MarkersAre DEF Kept, Numbered, Listeners
    <2>2. CASE ~(marker # None /\ marker.state = "running")
      BY <1>1, <2>2 DEF Kept, Numbered, Listeners
    <2> QED BY <2>1, <2>2
  <1>5. /\ server' \in Listeners
        /\ \A i \in Login!Logins : server'[i] = "up" => server[i] = "up" \/ i = r.id
    BY <1>1, <1>2 DEF Kept, Numbered, Listeners
  <1>6. Login!Living' = Login!Living /\ Login!ExchangesItsOwn' /\ count' \in 0 .. MaxLogins
    BY <1>1 DEF Login!Living, Kept, Numbered, Listeners, Login!ExchangesItsOwn
  <1> QED BY <1>1, <1>2, <1>4, <1>5, <1>6, OneLogin

LEMMA PortBusyKeeps == ASSUME Bounded, Kept, NEW p \in Procs, Login!PortBusy(p) PROVE Kept'
  BY FailedKeeps DEF Login!PortBusy, Kept, Numbered, Listeners, Login!ExchangesItsOwn

LEMMA TimedOutKeeps == ASSUME Bounded, Kept, NEW p \in Procs, Login!TimedOut(p) PROVE Kept'
  <1>1. /\ Login!Failed(p) /\ dead' = dead /\ count' = count /\ exchanged' = exchanged
        /\ server' = [server EXCEPT ![login[p].id] = "none"]
    BY DEF Login!TimedOut, Login!CloseServer
  <1>2. /\ server' \in Listeners
        /\ \A i \in Login!Logins : server'[i] = "up" => server[i] = "up" /\ login[p].id # i
    BY <1>1 DEF Kept, Numbered, Listeners
  <1>3. Login!ExchangesItsOwn'
    BY <1>1 DEF Kept, Login!ExchangesItsOwn
  <1> QED BY <1>1, <1>2, <1>3, FailedKeeps

LEMMA CallbackKeeps ==
    ASSUME Bounded, Kept, NEW i \in Login!Logins, NEW with, Login!Callback(i, with)
    PROVE  Kept'
  <1>1. PICK p \in Procs :
          /\ Login!Waiting(p) /\ server[login[p].id] = "up"
          /\ server' = [server EXCEPT ![login[p].id] = "lingering"]
          /\ IF with = "code" /\ Login!RightState(i, login[p].id)
             THEN /\ login' = [login EXCEPT ![p].at = "coded", ![p].code = i, ![p].age = 0]
                  /\ UNCHANGED <<marker, unsaved>>
             ELSE Login!Failed(p)
    BY DEF Login!Callback
  <1>2. UNCHANGED <<exchanged, count, dead>> /\ p \in Login!Living
        /\ login[p].at = "waiting"
    BY <1>1 DEF Login!Callback, Login!Waiting
  <1>3. /\ server' \in Listeners
        /\ \A j \in Login!Logins : server'[j] = "up" => server[j] = "up" /\ login[p].id # j
    BY <1>1 DEF Kept, Numbered, Listeners
  <1>4. Login!ExchangesItsOwn' /\ Login!Living' = Login!Living /\ count' \in 0 .. MaxLogins
    BY <1>2 DEF Kept, Numbered, Listeners, Login!ExchangesItsOwn, Login!Living
  <1>5. CASE with = "code" /\ Login!RightState(i, login[p].id)
    <2> DEFINE r == [login[p] EXCEPT !.at = "coded", !.code = i, !.age = 0]
    <2>1. i = login[p].id /\ i \in Nat
      BY <1>5 DEF Login!RightState, Login!Logins
    <2>2. login' = [login EXCEPT ![p] = r] /\ UNCHANGED <<marker, unsaved>>
      BY <1>1, <1>5 DEF Kept, Numbered, Listeners
    <2>3. r \in LoginRecords /\ r.at = "coded" /\ r.id = i /\ r.code = i
      <3>1. login[p] \in LoginRecords
        BY DEF Kept, Numbered, Listeners
      <3> QED BY <2>1, <3>1 DEF LoginRecords, Login!Places
    <2> HIDE DEF r
    <2>4. marker' # None => marker' \in MarkerRecords
      BY <2>2 DEF Kept, Numbered, Listeners
    <2>5. \A j \in Login!Logins : server'[j] = "up" =>
            server[j] = "up"
              /\ ~(p \in Login!Living /\ login[p].at = "waiting" /\ login[p].id = j)
      BY <1>3
    <2>6. p \in Login!Living'
          /\ (\A q \in Procs : q # p /\ q \in Login!Living => q \in Login!Living')
          /\ dead \subseteq dead' /\ unsaved \subseteq unsaved'
      BY <1>2, <1>4, <2>2
    <2>7. marker' # None /\ marker'.state = "running" =>
            marker # None /\ marker.state = "running" /\ marker'.pid = marker.pid
      BY <2>2
    <2>8. r.at # "none" /\ r.id \in Login!Logins /\ r.code = r.id /\ server' \in Listeners
      BY <1>3, <2>1, <2>3
    <2> HIDE DEF Listeners
    <2> QED BY <1>4, <2>2, <2>3, <2>4, <2>5, <2>6, <2>7, <2>8, OneLogin
  <1>6. CASE ~(with = "code" /\ Login!RightState(i, login[p].id))
    BY <1>1, <1>2, <1>3, <1>4, <1>6, FailedKeeps
  <1> QED BY <1>5, <1>6

LEMMA ExchangeKeeps == ASSUME Bounded, Kept, NEW p \in Procs, Login!Exchange(p) PROVE Kept'
  <1>1. /\ p \in Login!Living /\ login[p].at = "coded"
        /\ exchanged' = exchanged \cup {<<login[p].id, login[p].code>>}
        /\ Login!LoggedIn(p) \/ Login!Failed(p) \/ Login!Unsaved(p)
        /\ UNCHANGED <<server, count, dead>>
    BY DEF Login!Exchange
  <1>2. Login!ExchangesItsOwn'
    <2>1. login[p].code = login[p].id
      BY <1>1 DEF Kept, Numbered, Listeners
    <2> QED BY <1>1, <2>1 DEF Kept, Login!ExchangesItsOwn
  <1>3. /\ server' \in Listeners /\ count' \in 0 .. MaxLogins
        /\ Login!Living' = Login!Living
    BY <1>1 DEF Kept, Numbered, Listeners, Login!Living
  <1>4. CASE Login!Failed(p)
    BY <1>1, <1>2, <1>3, <1>4, FailedKeeps
  <1>5. CASE Login!LoggedIn(p) \/ Login!Unsaved(p)
    <2>1. /\ login' = [login EXCEPT ![p] = Login!Idle]
          /\ marker' = None \/ (marker' = marker /\ p \in unsaved')
          /\ unsaved \subseteq unsaved'
      BY <1>5 DEF Login!LoggedIn, Login!Unsaved
    <2>2. marker' # None => marker' \in MarkerRecords
      BY <2>1 DEF Kept, Numbered, Listeners
    <2>3. p \in Login!Living'
          /\ (\A q \in Procs : q # p /\ q \in Login!Living => q \in Login!Living')
          /\ dead \subseteq dead'
      BY <1>1, <1>3
    <2>4. \A i \in Login!Logins : server'[i] = "up" =>
            server[i] = "up"
              /\ ~(p \in Login!Living /\ login[p].at = "waiting" /\ login[p].id = i)
      BY <1>1
    <2>5. marker' # None /\ marker'.state = "running" =>
            marker # None /\ marker.state = "running" /\ marker'.pid = marker.pid
      BY <2>1
    <2>6. p \in (dead \cup unsaved)' \/ ~(marker' # None /\ marker'.state = "running")
      BY <2>1
    <2>7. Login!Idle \in LoginRecords /\ Login!Idle.at = "none"
      BY RecordsAre
    <2> HIDE DEF Login!Idle
    <2> QED BY <1>2, <1>3, <2>1, <2>2, <2>3, <2>4, <2>5, <2>6, <2>7, OneLogin
  <1> QED BY <1>1, <1>4, <1>5

LEMMA DeathKeeps == ASSUME Bounded, Kept, NEW p \in Procs, Login!Crash(p) PROVE Kept'
  <1>1. /\ p \in Login!Living /\ dead' = dead \cup {p}
           /\ login' = [login EXCEPT ![p] = Login!Idle]
        /\ server' = [i \in Login!Logins |-> IF i = login[p].id THEN "none" ELSE server[i]]
        /\ UNCHANGED <<marker, exchanged, count, unsaved>>
    BY DEF Login!Crash
  <1>2. /\ server' \in Listeners
        /\ \A i \in Login!Logins : server'[i] = "up" => server[i] = "up" /\ login[p].id # i
    BY <1>1 DEF Kept, Numbered, Listeners
  <1>3. /\ \A q \in Procs : q # p /\ q \in Login!Living => q \in Login!Living'
        /\ p \in dead' /\ dead \subseteq dead'
    BY <1>1 DEF Login!Living
  <1>4. Login!ExchangesItsOwn' /\ count' \in 0 .. MaxLogins
        /\ (marker' # None => marker' \in MarkerRecords)
    BY <1>1 DEF Kept, Numbered, Listeners, Login!ExchangesItsOwn
  <1> QED BY <1>1, <1>2, <1>3, <1>4, RecordsAre, OneLogin

\* The listener that has answered goes, or a stale marker does.
LEMMA QuietKeeps ==
    ASSUME Bounded, Kept,
           (\E i \in Login!Logins : Login!Closes(i)) \/ (\E p \in Procs : Login!Polls(p))
    PROVE  Kept'
  <1>1. UNCHANGED <<login, exchanged, count, dead, unsaved>>
    BY DEF Login!Closes, Login!Polls
  <1>2. marker' \in {None, marker}
    BY MarkersAre DEF Login!Closes, Login!Polls
  <1>3. /\ server' \in Listeners
        /\ \A i \in Login!Logins : server'[i] = "up" => server[i] = "up"
    BY DEF Login!Closes, Login!Polls, Kept, Numbered, Listeners
  <1>4. Numbered' /\ Login!ExchangesItsOwn'
    BY <1>1, <1>2, <1>3 DEF Kept, Numbered, Listeners, Login!ExchangesItsOwn
  <1>5. Login!PortIsReturned'
    BY <1>1, <1>3 DEF Kept, Login!PortIsReturned, Login!Living
  <1>6. Login!MarkerTellsOfALogin'
    BY <1>1, <1>2 DEF Kept, Login!MarkerTellsOfALogin, Login!Living
  <1> QED BY <1>4, <1>5, <1>6 DEF Kept

LEMMA TickKeeps == ASSUME Bounded, Kept, Login!Tick PROVE Kept'
  <1>1. /\ marker' = IF marker = None \/ Login!Stale THEN marker
                     ELSE [marker EXCEPT !.age = @ + 1]
        /\ login' = [p \in Procs |-> IF Login!Waiting(p) THEN [login[p] EXCEPT !.age = @ + 1]
                                                   ELSE login[p]]
        /\ UNCHANGED <<server, exchanged, count, dead, unsaved>>
    BY DEF Login!Tick
  <1>2. ASSUME NEW p \in Procs
        PROVE  /\ login'[p] \in LoginRecords /\ login'[p].at = login[p].at
               /\ login'[p].id = login[p].id /\ login'[p].code = login[p].code
    <2>1. login[p] \in LoginRecords
      BY DEF Kept, Numbered, Listeners
    <2>2. CASE Login!Waiting(p)
      <3>1. login'[p] = [login[p] EXCEPT !.age = @ + 1]
        BY <1>1, <2>2
      <3> QED BY <2>1, <3>1 DEF LoginRecords
    <2>3. CASE ~Login!Waiting(p)
      BY <1>1, <2>1, <2>3
    <2> QED BY <2>2, <2>3
  <1>3. /\ marker' # None => marker' \in MarkerRecords
        /\ marker' # None /\ marker'.state = "running" =>
             marker # None /\ marker.state = "running" /\ marker'.pid = marker.pid
    <2>1. CASE marker = None \/ Login!Stale
      BY <1>1, <2>1 DEF Kept, Numbered, Listeners
    <2>2. CASE ~(marker = None \/ Login!Stale)
      BY <1>1, <2>2 DEF Kept, Numbered, Listeners, MarkerRecords
    <2> QED BY <2>1, <2>2
  <1>4. login' \in [Procs -> LoginRecords]
    BY <1>1, <1>2
  <1>5. Numbered' /\ Login!ExchangesItsOwn'
    BY <1>1, <1>2, <1>3, <1>4 DEF Kept, Numbered, Listeners, Login!ExchangesItsOwn
  <1>6. Login!PortIsReturned'
    BY <1>1, <1>2 DEF Kept, Login!PortIsReturned, Login!Living
  <1>7. Login!MarkerTellsOfALogin'
    BY <1>1, <1>2, <1>3 DEF Kept, Login!MarkerTellsOfALogin, Login!Living
  <1> QED BY <1>5, <1>6, <1>7 DEF Kept

LEMMA LoginStepsKeep == ASSUME Bounded, Kept, [Login!Next]_Login!vars PROVE Kept'
  <1>1. CASE UNCHANGED Login!vars
    BY <1>1 DEF Login!vars, Kept, Numbered, Listeners, Login!ExchangesItsOwn,
       Login!PortIsReturned, Login!MarkerTellsOfALogin, Login!Living
  <1>2. CASE Login!Next
    BY <1>2, ChecksKeeps, WritesKeeps, ListensKeeps, PortBusyKeeps, TimedOutKeeps,
       ExchangeKeeps, DeathKeeps, QuietKeeps, CallbackKeeps, TickKeeps DEF Login!Next
  <1> QED BY <1>1, <1>2

LEMMA AlwaysKept == ASSUME Bounded PROVE Login!Spec => []Kept
  <1>1. Login!Init => Kept
    BY KeptAtFirst
  <1>2. Kept /\ [Login!Next]_Login!vars => Kept'
    BY LoginStepsKeep
  <1> QED BY <1>1, <1>2, PTL DEF Login!Spec

\* A tab of an abandoned login, or of another process, logs nobody in: what a
\* login exchanges is the code of its own state (callback-server.ts).
THEOREM LoginsExchangeTheirOwn == ASSUME Bounded PROVE Login!Spec => []Login!ExchangesItsOwn
  <1>1. Kept => Login!ExchangesItsOwn
    BY DEF Kept
  <1>2. Login!Spec => []Kept
    BY AlwaysKept
  <1> QED BY <1>1, <1>2, PTL

\* The callback port is held by a living login that waits, or for the moment
\* an answer takes (callback-server.ts).
THEOREM PortComesBack == ASSUME Bounded PROVE Login!Spec => []Login!PortIsReturned
  <1>1. Kept => Login!PortIsReturned
    BY DEF Kept
  <1>2. Login!Spec => []Kept
    BY AlwaysKept
  <1> QED BY <1>1, <1>2, PTL

\* A marker that refuses a login is of one under way, of a process that crashed
\* or of one whose save threw (pending-login.ts, session-manager.ts).
THEOREM MarkersTellOfLogins ==
    ASSUME Bounded PROVE Login!Spec => []Login!MarkerTellsOfALogin
  <1>1. Kept => Login!MarkerTellsOfALogin
    BY DEF Kept
  <1>2. Login!Spec => []Kept
    BY AlwaysKept
  <1> QED BY <1>1, <1>2, PTL

-----------------------------------------------------------------------------
(* The session history.                                                      *)

Histories == [app: History!Span \cup {None}, web: History!Span \cup {None},
  losses: Seq(History!Loss), legacy: BOOLEAN]
Documents == [entries: [Owners -> Histories \cup {None}], legacy: Histories \cup {None}]

\* Bounds are numbers; what stands for no value or no document is neither.
HistoryFits ==
  /\ MaxTime \in Nat /\ MaxSpans \in Nat /\ MaxLosses \in Nat
  /\ Configured \subseteq [Procs -> Owners]
  /\ None \notin Nat
  /\ None \notin [id: Nat, start: Nat \cup {None}, last: Nat, gap: Nat]
  /\ Damaged # None /\ Later # None /\ Later # Damaged /\ None # "history"
  /\ {None, Damaged, Later} \cap Documents = {}

\* A span is one that was seen, and its life adds up so far.
SpanFits(s) ==
  /\ s.id <= spans /\ s.last <= now
  /\ s.start # None => s.start + s.gap <= s.last

LossFits(l) == l.id <= spans /\ (l.age # None => l.gap + l.idle <= l.age)

\* No span is told twice in one history.
NoSpanTwice(h) ==
  /\ h.app # None /\ h.web # None => h.app.id # h.web.id
  /\ \A i, j \in DOMAIN h.losses : h.losses[i].id = h.losses[j].id => i = j
  /\ \A ses \in History!Sessions : h[ses] # None =>
       \A i \in DOMAIN h.losses : h.losses[i].id # h[ses].id

Sane(h) ==
  /\ h \in Histories /\ Len(h.losses) <= MaxLosses
  /\ \A ses \in History!Sessions : h[ses] # None => SpanFits(h[ses])
  /\ \A i \in DOMAIN h.losses : LossFits(h.losses[i])
  /\ NoSpanTwice(h)

\* A document's histories are sane, and nobody has an entry before the record
\* of an earlier build is claimed.
SaneDoc(d) ==
  /\ d \in Documents
  /\ \A a \in Owners : d.entries[a] # None => Sane(d.entries[a])
  /\ d.legacy # None => Sane(d.legacy) /\ \A a \in Owners : d.entries[a] = None

HistorySteps == {"idle", "reread", "put", "plain"}

HistoryTyped ==
  /\ account \in [Procs -> Owners]
  /\ plain \in {None, Damaged, "history"}
  /\ now \in 0 .. MaxTime /\ spans \in 0 .. MaxSpans
  /\ step \in [Procs -> HistorySteps]
  /\ DOMAIN work = Procs
  /\ overtaken \subseteq Procs

\* What each process has at hand.  Nobody replaced the file: it is the
\* account's entry made from the document that is still there.
AtHand(p) ==
  /\ step[p] = "reread" =>
       /\ Sane(work[p])
       /\ p \notin overtaken => work[p].legacy =
            History!historyOf(History!Document, account[p]).legacy
  /\ step[p] = "put" =>
       /\ SaneDoc(work[p])
       /\ p \notin overtaken =>
            /\ work[p].entries[account[p]].legacy =
                 History!historyOf(History!Document, account[p]).legacy
            /\ History!Document.entries[account[p]] = None => work[p].legacy = None
            /\ \A a \in Owners \ {account[p]} :
                 work[p].entries[a] = History!Document.entries[a]
  /\ step[p] \in {"reread", "put"} /\ p \notin overtaken => sealed # Later
  /\ step[p] = "plain" => sealed # None

HistoryKept ==
  /\ HistoryTyped
  /\ sealed \in {None, Damaged, Later} \/ SaneDoc(sealed)
  /\ \A p \in Procs : AtHand(p)

-----------------------------------------------------------------------------
LEMMA SpansAreSpans ==
    ASSUME HistoryFits
    PROVE  None \notin History!Span
  <1>1. History!Span \subseteq [id: Nat, start: Nat \cup {None}, last: Nat, gap: Nat]
    BY DEF History!Span, HistoryFits
  <1> QED BY <1>1 DEF HistoryFits

LEMMA EmptyIsSane ==
    ASSUME HistoryFits
    PROVE  Sane(History!empty) /\ ~History!empty.legacy
             /\ Sane([History!empty EXCEPT !.legacy = TRUE])
  <1>1. ASSUME NEW h \in Histories, h.app = None, h.web = None, h.losses = <<>>
        PROVE  Sane(h)
    <2>1. Len(h.losses) = 0 /\ h["app"] = None /\ h["web"] = None
      BY <1>1
    <2> QED BY <1>1, <2>1 DEF Sane, NoSpanTwice, History!Sessions, HistoryFits
  <1>2. /\ History!empty \in Histories /\ History!empty.app = None /\ History!empty.web = None
        /\ History!empty.losses = <<>> /\ History!empty.legacy = FALSE
    BY DEF History!empty, Histories
  <1> DEFINE old == [History!empty EXCEPT !.legacy = TRUE]
  <1>3. /\ old \in Histories /\ old.app = None /\ old.web = None
        /\ old.losses = <<>>
    BY <1>2 DEF Histories
  <1> QED BY <1>1, <1>2, <1>3

LEMMA FormerIsSane ==
    ASSUME HistoryFits
    PROVE  SaneDoc(History!keepLegacyHistory([History!empty EXCEPT !.legacy = TRUE]))
  <1> DEFINE h == [History!empty EXCEPT !.legacy = TRUE]
  <1>1. Sane(h) /\ h \in Histories
    BY EmptyIsSane DEF Sane
  <1> HIDE DEF h
  <1>2. SaneDoc(History!keepLegacyHistory(h))
    BY <1>1 DEF History!keepLegacyHistory, History!NoEntries, SaneDoc, Documents
  <1> QED BY <1>2 DEF h

\* The document as it is read is sane, and so is the history it has for an
\* account.
LEMMA DocumentIsSane ==
    ASSUME HistoryFits, HistoryKept, sealed # Later
    PROVE  SaneDoc(History!Document)
  <1>1. SaneDoc(History!Blank)
    BY DEF History!Blank, History!NoEntries, SaneDoc, Documents
  <1>2. SaneDoc(History!keepLegacyHistory([History!empty EXCEPT !.legacy = TRUE]))
    BY FormerIsSane
  <1> QED BY <1>1, <1>2 DEF History!Document, HistoryKept, HistoryFits

LEMMA HistoryIsSane ==
    ASSUME HistoryFits, NEW d, SaneDoc(d), NEW a \in Owners
    PROVE  Sane(History!historyOf(d, a))
             /\ (d.legacy = None => (d.entries[a] = None => ~History!historyOf(d, a).legacy))
  BY EmptyIsSane DEF History!historyOf, SaneDoc

\* Sanity is not lost as time passes and spans are seen.
LEMMA SaneStays ==
    ASSUME HistoryFits, HistoryTyped, HistoryTyped', spans <= spans', now <= now', NEW h,
             Sane(h)
    PROVE  Sane(h)'
  <1>1. \A ses \in History!Sessions : h[ses] # None => h[ses] \in History!Span
    BY DEF Sane, Histories, History!Sessions
  <1>2. \A i \in DOMAIN h.losses : h.losses[i] \in History!Loss
    BY DEF Sane, Histories
  <1> QED BY <1>1, <1>2 DEF Sane, SpanFits, LossFits, NoSpanTwice, HistoryTyped,
             History!Span, History!Loss, HistoryFits

LEMMA SaneDocStays ==
    ASSUME HistoryFits, HistoryTyped, HistoryTyped', spans <= spans', now <= now', NEW d,
             SaneDoc(d)
    PROVE  SaneDoc(d)'
  <1>1. \A h : Sane(h) => Sane(h)'
    BY SaneStays
  <1> QED BY <1>1 DEF SaneDoc

LEMMA LastOfIs ==
    ASSUME NEW S, NEW s \in Seq(S), NEW n \in Nat
    PROVE  /\ History!LastOf(s, n) \in Seq(S) /\ Len(History!LastOf(s, n)) <= n
           /\ \E k \in Nat : \A i \in DOMAIN History!LastOf(s, n) :
                i + k \in DOMAIN s /\ History!LastOf(s, n)[i] = s[i + k]
  <1>1. CASE Len(s) <= n
    <2>1. History!LastOf(s, n) = s
      BY <1>1 DEF History!LastOf
    <2>2. \A i \in DOMAIN s : i + 0 \in DOMAIN s /\ s[i] = s[i + 0]
      OBVIOUS
    <2>3. 0 \in Nat
      OBVIOUS
    <2> QED BY <1>1, <2>1, <2>2, <2>3
  <1>2. CASE Len(s) > n
    <2> DEFINE k == Len(s) - n
    <2>1. k \in Nat /\ k + 1 \in 1 .. Len(s) + 1 /\ Len(s) \in Nat /\ k + 1 >= 1
      BY <1>2
    <2>2. History!LastOf(s, n) = SubSeq(s, k + 1, Len(s))
      BY <1>2 DEF History!LastOf
    <2> DEFINE e == SubSeq(s, k + 1, Len(s))
    <2>3. /\ e \in Seq(S) /\ Len(e) = IF k + 1 <= Len(s) THEN Len(s) - (k + 1) + 1 ELSE 0
          /\ \A i \in 1 .. Len(s) - (k + 1) + 1 : e[i] = s[(k + 1) + i - 1]
      <3>1. \A i \in (k + 1) .. Len(s) : s[i] \in S
        BY <2>1
      <3>2. k + 1 \in Int /\ Len(s) \in Int
        BY <2>1
      <3> HIDE DEF k
      <3> QED BY <3>1, <3>2, SubSeqProperties
    <2> HIDE DEF e
    <2>4. Len(e) = n /\ \A i \in 1 .. n : i + k \in DOMAIN s /\ e[i] = s[i + k]
      BY <1>2, <2>1, <2>3
    <2>5. History!LastOf(s, n) = e
      BY <2>2 DEF e
    <2>6. DOMAIN e = 1 .. n
      BY <2>3, <2>4
    <2> HIDE DEF k
    <2>7. \A i \in DOMAIN History!LastOf(s, n) :
            i + k \in DOMAIN s /\ History!LastOf(s, n)[i] = s[i + k]
      BY <2>4, <2>5, <2>6
    <2>8. History!LastOf(s, n) \in Seq(S) /\ Len(History!LastOf(s, n)) <= n
      BY <2>3, <2>4, <2>5
    <2>9. \E j \in Nat : \A i \in DOMAIN History!LastOf(s, n) :
             i + j \in DOMAIN s /\ History!LastOf(s, n)[i] = s[i + j]
      BY <2>1, <2>7, Zenon
    <2> QED BY <2>8, <2>9, Zenon
  <1>3. Len(s) <= n \/ Len(s) > n
    BY LenProperties
  <1> QED BY <1>1, <1>2, <1>3, Zenon

\* A span takes its place: a new one, or the one that was there, which goes on.
LEMMA SpanPlaced ==
    ASSUME HistoryFits, HistoryTyped, HistoryTyped', now' = now, NEW h, Sane(h),
             NEW ses \in History!Sessions,
           NEW s \in History!Span, SpanFits(s)',
           \/ s.id = spans + 1 /\ spans' = spans + 1
           \/ h[ses] # None /\ s.id = h[ses].id /\ spans' = spans
    PROVE  Sane([h EXCEPT ![ses] = s])'
  <1> DEFINE g == [h EXCEPT ![ses] = s]
  <1>1. /\ h \in Histories /\ spans \in Nat /\ spans <= spans'
        /\ \A x \in History!Sessions : h[x] \in History!Span \cup {None}
        /\ \A i \in DOMAIN h.losses : h.losses[i] \in History!Loss
    BY DEF Sane, Histories, HistoryTyped, HistoryFits, History!Sessions
  <1>2. /\ g \in Histories /\ g.losses = h.losses /\ g[ses] = s
        /\ \A x \in History!Sessions \ {ses} : g[x] = h[x]
    BY <1>1 DEF Histories, History!Sessions
  <1> HIDE DEF g
  <1>3. Sane(h)'
    BY <1>1, SaneStays, HistoryFits DEF HistoryTyped
  <1>4. \A x \in History!Sessions \ {ses} : g[x] # None => g[x].id # s.id
    <2>1. \A x \in History!Sessions \ {ses} : h[x] # None =>
            h[x].id <= spans /\ h[x].id \in Nat
      BY <1>1 DEF Sane, SpanFits, History!Span
    <2>2. \A x \in History!Sessions \ {ses} : h[x] # None /\ h[ses] # None =>
            h[x].id # h[ses].id
      BY DEF Sane, NoSpanTwice, History!Sessions
    <2> QED BY <1>1, <1>2, <2>1, <2>2
  <1>5. \A i \in DOMAIN h.losses : h.losses[i].id # s.id
    <2>1. \A i \in DOMAIN h.losses : h.losses[i].id <= spans /\ h.losses[i].id \in Nat
      BY <1>1 DEF Sane, LossFits, History!Loss
    <2>2. \A i \in DOMAIN h.losses : h[ses] # None => h.losses[i].id # h[ses].id
      BY DEF Sane, NoSpanTwice
    <2> QED BY <1>1, <2>1, <2>2
  <1>6. NoSpanTwice(g)
    <2>1. g.app # None /\ g.web # None => g.app.id # g.web.id
      BY <1>2, <1>4 DEF History!Sessions
    <2>2. \A i, j \in DOMAIN g.losses : g.losses[i].id = g.losses[j].id => i = j
      BY <1>2 DEF Sane, NoSpanTwice
    <2>3. \A x \in History!Sessions : g[x] # None =>
            \A i \in DOMAIN g.losses : g.losses[i].id # g[x].id
      BY <1>2, <1>5 DEF Sane, NoSpanTwice
    <2> QED BY <2>1, <2>2, <2>3 DEF NoSpanTwice
  <1>7. Sane(g)'
    BY <1>2, <1>3, <1>6 DEF Sane, NoSpanTwice
  <1> QED BY <1>7 DEF g

\* A history without some of its spans is one.
LEMMA SpansGone ==
    ASSUME HistoryFits, NEW h, Sane(h), NEW g, g \in Histories, g.losses = h.losses,
           \A ses \in History!Sessions : g[ses] \in {h[ses], None}
    PROVE  Sane(g)
  BY DEF Sane, NoSpanTwice, History!Sessions, Histories

\* A span becomes a loss.
LEMMA LossKept ==
    ASSUME HistoryFits, HistoryTyped, NEW h, Sane(h), NEW ses \in History!Sessions,
             h[ses] # None
    PROVE  Sane(History!Lost(h, ses)) /\ History!Lost(h, ses).legacy = h.legacy
  <1> DEFINE l == History!LostOf(h, ses)
             all == Append(h.losses, l)
             g == History!Lost(h, ses)
  <1>1. /\ h \in Histories /\ h.losses \in Seq(History!Loss) /\ h[ses] \in History!Span
        /\ \A x \in History!Sessions : h[x] \in History!Span \cup {None}
        /\ now \in Nat /\ now <= MaxTime /\ spans \in Nat /\ SpanFits(h[ses])
    BY DEF Sane, Histories, History!Sessions, HistoryTyped, HistoryFits
  <1>2. l \in History!Loss /\ LossFits(l) /\ l.id = h[ses].id
    <2> DEFINE s == h[ses]
    <2>1. /\ s.id \in 1 .. MaxSpans /\ s.start \in 0 .. MaxTime \cup {None}
          /\ s.last \in 0 .. MaxTime /\ s.gap \in 0 .. MaxTime /\ s.last <= now
          /\ s.id <= spans /\ (s.start # None => s.start \in Nat /\ s.start + s.gap <= s.last)
      BY <1>1 DEF History!Span, SpanFits, HistoryFits
    <2> HIDE DEF s
    <2>2. l = [id |-> s.id, session |-> ses,
               age |-> IF s.start = None THEN None ELSE now - s.start,
               idle |-> now - s.last, gap |-> s.gap]
      BY DEF History!LostOf, s
    <2>3. now - s.last \in 0 .. MaxTime
      BY <1>1, <2>1, HistoryFits DEF HistoryFits
    <2>4. s.start # None => now - s.start \in 0 .. MaxTime
            /\ s.gap + (now - s.last) <= now - s.start
      <3>1. s.gap \in Nat /\ s.last \in Nat /\ MaxTime \in Nat
        BY <2>1 DEF HistoryFits
      <3> QED BY <1>1, <2>1, <3>1
    <2>5. l \in History!Loss
      BY <2>1, <2>2, <2>3, <2>4 DEF History!Loss
    <2>6. LossFits(l)
      BY <2>1, <2>2, <2>4 DEF LossFits
    <2> QED BY <2>2, <2>5, <2>6 DEF s
  <1> HIDE DEF l
  <1>3. /\ all \in Seq(History!Loss)
        /\ \A i \in DOMAIN all : LossFits(all[i])
        /\ \A i, j \in DOMAIN all : all[i].id = all[j].id => i = j
    <2>1. \A i \in DOMAIN all : \/ (i \in DOMAIN h.losses /\ all[i] = h.losses[i])
                                \/ (i = Len(h.losses) + 1 /\ all[i] = l)
      BY <1>1, <1>2
    <2>2. \A i \in DOMAIN h.losses : h.losses[i].id # l.id /\ LossFits(h.losses[i])
      BY <1>1, <1>2 DEF Sane, NoSpanTwice
    <2>3. \A i, j \in DOMAIN h.losses : h.losses[i].id = h.losses[j].id => i = j
      BY DEF Sane, NoSpanTwice
    <2>4. all \in Seq(History!Loss)
      BY <1>1, <1>2
    <2> HIDE DEF all
    <2> QED BY <1>2, <2>1, <2>2, <2>3, <2>4
  <1>4. \A x \in History!Sessions \ {ses} : h[x] # None =>
          \A i \in DOMAIN all : all[i].id # h[x].id
    <2>1. \A x \in History!Sessions \ {ses} : h[x] # None => h[x].id # l.id
      BY <1>2 DEF Sane, NoSpanTwice, History!Sessions
    <2>2. \A x \in History!Sessions : h[x] # None =>
             \A i \in DOMAIN h.losses : h.losses[i].id # h[x].id
      BY DEF Sane, NoSpanTwice
    <2>3. \A i \in DOMAIN all : \/ (i \in DOMAIN h.losses /\ all[i] = h.losses[i])
                                \/ all[i] = l
      BY <1>1, <1>2
    <2> QED BY <2>1, <2>2, <2>3
  <1> HIDE DEF all
  <1>5. PICK k \in Nat : \A i \in DOMAIN History!LastOf(all, MaxLosses) :
                i + k \in DOMAIN all /\ History!LastOf(all, MaxLosses)[i] = all[i + k]
    BY <1>3, LastOfIs, HistoryFits DEF HistoryFits
  <1>6. History!LastOf(all, MaxLosses) \in Seq(History!Loss)
          /\ Len(History!LastOf(all, MaxLosses)) <= MaxLosses
    BY <1>3, LastOfIs, HistoryFits DEF HistoryFits
  <1> DEFINE last == History!LastOf(all, MaxLosses)
  <1>7. /\ g \in Histories /\ g.losses = last /\ g.legacy = h.legacy /\ g[ses] = None
        /\ \A x \in History!Sessions \ {ses} : g[x] = h[x]
    BY <1>1, <1>6 DEF History!Lost, Histories, History!Sessions, all, l
  <1>8. DOMAIN last \subseteq Nat
    BY <1>6
  <1> HIDE DEF g, last
  <1>9. NoSpanTwice(g)
    BY <1>3, <1>4, <1>5, <1>7, <1>8 DEF NoSpanTwice, History!Sessions, last
  <1>10. \A x \in History!Sessions : g[x] # None => SpanFits(g[x])
    BY <1>7 DEF Sane
  <1>11. \A i \in DOMAIN g.losses : LossFits(g.losses[i])
    BY <1>3, <1>5, <1>7 DEF last
  <1>12. Sane(g)
    BY <1>6, <1>7, <1>9, <1>10, <1>11 DEF Sane, last
  <1> QED BY <1>7, <1>12 DEF g

\* Applying an event.
LEMMA AppliedIsSane ==
    ASSUME HistoryFits, HistoryTyped, HistoryTyped', now' = now, NEW h, Sane(h),
             NEW g \in History!Applied(h),
           IF History!NewSpan(h, g) THEN spans' = spans + 1 ELSE spans' = spans
    PROVE  Sane(g)' /\ g.legacy = h.legacy
  <1>0. /\ h \in Histories /\ now \in 0 .. MaxTime /\ spans \in Nat
             /\ spans' \in 0 .. MaxSpans
        /\ \A x \in History!Sessions : h[x] \in History!Span \cup {None}
        /\ now \in Nat /\ MaxTime \in Nat /\ MaxSpans \in Nat
    BY DEF Sane, Histories, History!Sessions, HistoryTyped, HistoryFits
  <1>a. ASSUME NEW ses \in History!Sessions, NEW s \in History!Span, SpanFits(s)',
                 g = [h EXCEPT ![ses] = s],
               s.id = spans + 1 \/ (h[ses] # None /\ s.id = h[ses].id)
        PROVE  Sane(g)' /\ g.legacy = h.legacy
    <2>1. g[ses] = s /\ g.legacy = h.legacy /\ s # None
          /\ \A x \in History!Sessions \ {ses} : g[x] = h[x]
      BY <1>0, <1>a, SpansAreSpans DEF Histories, History!Sessions
    <2>2. \A x \in History!Sessions : h[x] # None => h[x].id <= spans /\ h[x].id \in Nat
      BY <1>0 DEF Sane, SpanFits, History!Span
    <2>3. CASE s.id = spans + 1
      BY <1>a, <2>1, <2>3, SpanPlaced DEF History!NewSpan
    <2>4. CASE s.id # spans + 1
      <3>1. ~History!NewSpan(h, g)
        BY <1>0, <2>1, <2>2, <2>4 DEF History!NewSpan
      <3> QED BY <1>a, <2>1, <2>4, <3>1, SpanPlaced
    <2> QED BY <2>3, <2>4
  <1>b. ASSUME NEW ses \in History!Sessions, NEW at \in 0 .. now, NEW s,
                 s = History!fresh(at),
               g = [h EXCEPT ![ses] = s]
        PROVE  Sane(g)' /\ g.legacy = h.legacy
    <2>1. /\ s = [id |-> spans + 1, start |-> at, last |-> at, gap |-> 0]
          /\ at \in 0 .. MaxTime
      BY <1>0, <1>b DEF History!fresh
    <2>2. s.id = spans + 1 /\ s.start = at /\ s.last = at /\ s.gap = 0
      BY <2>1
    <2>3. g[ses] = s
      BY <1>0, <1>b DEF Histories, History!Sessions
    <2>4. s # None
      <3>1. s \in [id: Nat, start: Nat \cup {None}, last: Nat, gap: Nat]
        BY <1>0, <2>1
      <3> QED BY <3>1 DEF HistoryFits
    <2>5. History!NewSpan(h, g)
      BY <2>2, <2>3, <2>4 DEF History!NewSpan
    <2>6. s \in History!Span
      BY <1>0, <2>1, <2>5 DEF History!Span
    <2>7. SpanFits(s)'
      BY <1>0, <2>2, <2>5 DEF SpanFits
    <2> QED BY <1>a, <1>b, <2>2, <2>6, <2>7
  <1>c. ASSUME NEW ses \in History!Sessions, NEW start \in 0 .. now \cup {None},
               NEW s, s = History!touched(h[ses], now, start), g = [h EXCEPT ![ses] = s]
        PROVE  Sane(g)' /\ g.legacy = h.legacy
    <2>1. CASE h[ses] = None
      <3>1. /\ s = [id |-> spans + 1, start |-> start, last |-> now, gap |-> 0]
            /\ start \in 0 .. MaxTime \cup {None}
        BY <1>0, <1>c, <2>1 DEF History!touched
      <3>2. s.id = spans + 1 /\ s.start = start /\ s.last = now /\ s.gap = 0
        BY <3>1
      <3>3. g[ses] = s
        BY <1>0, <1>c DEF Histories, History!Sessions
      <3>4. s # None
        <4>1. s \in [id: Nat, start: Nat \cup {None}, last: Nat, gap: Nat]
          BY <1>0, <3>1
        <4> QED BY <4>1 DEF HistoryFits
      <3>5. History!NewSpan(h, g)
        BY <3>2, <3>3, <3>4 DEF History!NewSpan
      <3>6. s \in History!Span
        BY <1>0, <3>1, <3>5 DEF History!Span
      <3>7. SpanFits(s)'
        BY <1>0, <3>2, <3>5 DEF SpanFits
      <3> QED BY <1>a, <1>c, <3>2, <3>6, <3>7
    <2>2. CASE h[ses] # None
      <3> DEFINE o == h[ses]
      <3>1. o \in History!Span /\ SpanFits(o) /\ o # None
        BY <1>0, <2>2 DEF Sane
      <3>2. /\ o.id \in 1 .. MaxSpans /\ o.start \in 0 .. MaxTime \cup {None}
            /\ o.last \in 0 .. MaxTime /\ o.gap \in 0 .. MaxTime
            /\ o.id <= spans /\ o.last <= now
            /\ o.start # None => o.start \in Nat /\ o.start + o.gap <= o.last
        BY <1>0, <3>1 DEF History!Span, SpanFits
      <3>3. s = [o EXCEPT !.last = now, !.gap = History!Longest(@, now - o.last)]
        BY <1>c, <3>1 DEF History!touched
      <3> HIDE DEF o
      <3>4. /\ s = [o EXCEPT !.last = now, !.gap = History!Longest(o.gap, now - o.last)]
            /\ now - o.last \in 0 .. MaxTime
        BY <1>0, <3>2, <3>3
      <3>5. History!Longest(o.gap, now - o.last) \in {o.gap, now - o.last}
        BY DEF History!Longest
      <3>6. /\ s \in History!Span /\ s.id = o.id /\ s.start = o.start /\ s.last = now
            /\ s.gap \in {o.gap, now - o.last}
        BY <1>0, <3>1, <3>2, <3>4, <3>5 DEF History!Span
      <3>7. SpanFits(s)'
        BY <1>0, <3>2, <3>6 DEF SpanFits, HistoryTyped
      <3>8. s.id = h[ses].id
        BY <3>6 DEF o
      <3> QED BY <1>a, <1>c, <2>2, <3>6, <3>7, <3>8
    <2> QED BY <2>1, <2>2
  <1>1. CASE g = [h EXCEPT !.app = History!fresh(now)]
    <2>1. now \in 0 .. now /\ "app" \in History!Sessions
            /\ g = [h EXCEPT !["app"] = History!fresh(now)]
      BY <1>0, <1>1 DEF History!Sessions
    <2> QED BY <2>1, <1>b
  <1>2. CASE g = [h EXCEPT !.app = History!touched(h.app, now, None)]
    <2>1. "app" \in History!Sessions /\ g =
            [h EXCEPT !["app"] = History!touched(h["app"], now, None)]
      BY <1>2 DEF History!Sessions
    <2> QED BY <2>1, <1>c
  <1>3. CASE g = [h EXCEPT !.app = None, !.web = None]
    <2>1. /\ g \in Histories /\ g.losses = h.losses /\ g.legacy = h.legacy
          /\ g.app = None /\ g.web = None
      BY <1>0, <1>3 DEF Histories
    <2>2. \A ses \in History!Sessions : g[ses] = None
      BY <2>1 DEF History!Sessions
    <2>3. Sane(g)
      BY <2>1, <2>2, SpansGone
    <2>4. ~History!NewSpan(h, g)
      BY <2>2 DEF History!NewSpan
    <2> QED BY <1>0, <2>1, <2>3, <2>4, SaneStays
  <1>4. CASE g \in {[h EXCEPT !.web = History!fresh(since)] : since \in 0 .. now}
    <2>1. PICK since \in 0 .. now : g = [h EXCEPT !["web"] = History!fresh(since)]
      BY <1>4
    <2> QED BY <2>1, <1>b DEF History!Sessions
  <1>5. CASE g \in {[h EXCEPT !.web = History!touched(h.web, now, since)] :
          since \in 0 .. now}
    <2>1. PICK since \in 0 .. now : g = [h EXCEPT !["web"] =
                 History!touched(h["web"], now, since)]
      BY <1>5
    <2> QED BY <2>1, <1>c DEF History!Sessions
  <1>6. CASE g \in {History!Lost(h, ses) : ses \in {x \in History!Sessions : h[x] # None}}
    <2>1. PICK ses \in History!Sessions : h[ses] # None /\ g = History!Lost(h, ses)
      BY <1>6
    <2>2. Sane(g) /\ g.legacy = h.legacy
      BY <2>1, LossKept
    <2>3. \A x \in History!Sessions : g[x] \in {h[x], None}
      BY <1>0, <2>1 DEF History!Lost, Histories, History!Sessions
    <2>4. ~History!NewSpan(h, g)
      <3>1. \A x \in History!Sessions : h[x] # None => h[x].id <= spans /\ h[x].id \in Nat
        BY <1>0 DEF Sane, SpanFits, History!Span
      <3> QED BY <1>0, <2>3, <3>1 DEF History!NewSpan
    <2> QED BY <1>0, <2>2, <2>4, SaneStays
  <1> QED BY <1>1, <1>2, <1>3, <1>4, <1>5, <1>6 DEF History!Applied

-----------------------------------------------------------------------------
LEMMA HistoryAtFirst ==
    ASSUME HistoryFits, History!Init
    PROVE  HistoryKept
  <1>1. HistoryTyped
    BY DEF HistoryTyped, History!Init, HistoryFits, HistorySteps
  <1>2. sealed \in {None, Damaged, Later} \/ SaneDoc(sealed)
    BY FormerIsSane DEF History!Init
  <1>3. \A p \in Procs : step[p] = "idle"
    BY DEF History!Init
  <1> QED BY <1>1, <1>2, <1>3 DEF HistoryKept, AtHand

\* What a process has at hand stays right while the document is the same.
LEMMA AtHandStays ==
    ASSUME HistoryFits, HistoryKept, HistoryTyped', NEW q \in Procs, spans <= spans',
             now <= now',
           step'[q] = step[q], work'[q] = work[q], account' = account,
           q \in overtaken => q \in overtaken',
           step[q] \in {"reread", "put"} /\ q \notin overtaken' =>
             History!Document' = History!Document,
           sealed' = Later /\ step[q] \in {"reread", "put"} /\ q \notin overtaken' =>
             sealed = Later,
           step[q] = "plain" => sealed' # None
    PROVE  AtHand(q)'
  <1>1. step[q] = "reread" => Sane(work[q])'
    <2>1. ASSUME step[q] = "reread" PROVE Sane(work[q])
      BY <2>1 DEF HistoryKept, AtHand
    <2>2. ASSUME NEW h, Sane(h) PROVE Sane(h)'
      BY <2>2, SaneStays DEF HistoryKept
    <2>3. step[q] = "reread" => /\ work'[q] = work[q] /\ Sane(work[q])
      BY <2>1
    <2> QED BY <2>2, <2>3 DEF Sane, SpanFits, LossFits, NoSpanTwice
  <1>2. step[q] = "put" => SaneDoc(work[q])'
    <2>1. ASSUME step[q] = "put" PROVE SaneDoc(work[q])
      BY <2>1 DEF HistoryKept, AtHand
    <2>2. ASSUME NEW d, SaneDoc(d) PROVE SaneDoc(d)'
      BY <2>2, SaneDocStays DEF HistoryKept
    <2>3. step[q] = "put" => /\ work'[q] = work[q] /\ SaneDoc(work[q])
      BY <2>1
    <2> QED BY <2>2, <2>3
  <1>3. step[q] = "reread" /\ q \notin overtaken' =>
            work'[q].legacy = History!historyOf(History!Document', account'[q]).legacy
    BY DEF HistoryKept, AtHand
  <1>4. step[q] = "put" /\ q \notin overtaken' =>
            /\ work'[q].entries[account'[q]].legacy =
                 History!historyOf(History!Document', account'[q]).legacy
            /\ History!Document'.entries[account'[q]] = None => work'[q].legacy = None
            /\ \A a \in Owners \ {account'[q]} :
                 work'[q].entries[a] = History!Document'.entries[a]
    BY DEF HistoryKept, AtHand
  <1>5. step[q] \in {"reread", "put"} /\ q \notin overtaken' => sealed' # Later
    BY DEF HistoryKept, AtHand
  <1> QED BY <1>1, <1>2, <1>3, <1>4, <1>5 DEF AtHand

\* The account's entry, put into a document, makes a document.
LEMMA EntryIsPut ==
    ASSUME HistoryFits, NEW d, SaneDoc(d), NEW a \in Owners, NEW h, Sane(h)
    PROVE  /\ SaneDoc(History!withHistory(d, a, h))
           /\ History!withHistory(d, a, h).entries[a] = h
           /\ d.entries[a] = None => History!withHistory(d, a, h).legacy = None
           /\ \A x \in Owners \ {a} : History!withHistory(d, a, h).entries[x] = d.entries[x]
  <1>1. d \in Documents /\ h \in Histories
    BY DEF SaneDoc, Sane
  <1>2. CASE d.entries[a] # None
    <2> DEFINE e == History!withHistory(d, a, h)
    <2>1. e = [d EXCEPT !.entries[a] = h]
      BY <1>2 DEF History!withHistory
    <2>2. /\ e \in Documents /\ e.legacy = d.legacy /\ e.entries[a] = h
          /\ \A x \in Owners \ {a} : e.entries[x] = d.entries[x]
      BY <1>1, <2>1 DEF Documents
    <2> HIDE DEF e
    <2>3. d.legacy = None
      BY <1>2 DEF SaneDoc
    <2>4. SaneDoc(e)
      BY <2>2, <2>3 DEF SaneDoc
    <2> QED BY <1>2, <2>2, <2>4 DEF e
  <1>3. CASE d.entries[a] = None
    <2> DEFINE e == History!withHistory(d, a, h)
    <2>1. e = [d EXCEPT !.entries[a] = h, !.legacy = None]
      BY <1>3 DEF History!withHistory
    <2>2. /\ e \in Documents /\ e.legacy = None /\ e.entries[a] = h
          /\ \A x \in Owners \ {a} : e.entries[x] = d.entries[x]
      BY <1>1, <2>1 DEF Documents
    <2> HIDE DEF e
    <2>3. SaneDoc(e)
      BY <2>2 DEF SaneDoc
    <2> QED BY <2>2, <2>3 DEF e
  <1> QED BY <1>2, <1>3

LEMMA RecordKeeps ==
    ASSUME HistoryFits, HistoryKept, NEW p \in Procs, History!Record(p)
    PROVE  HistoryKept'
  <1> DEFINE h == History!historyOf(History!Document, account[p])
  <1>1. account[p] \in Owners /\ sealed # Later
    BY DEF HistoryKept, HistoryTyped, History!Record
  <1>2. Sane(h)
    BY <1>1, DocumentIsSane, HistoryIsSane
  <1>3. History!Document' = History!Document
    BY DEF History!Document, History!Record
  <1>4. PICK g \in History!Applied(h) :
            /\ IF History!NewSpan(h, g) THEN spans < MaxSpans
                 /\ spans' = spans + 1 ELSE spans' = spans
            /\ work' = [work EXCEPT ![p] = g]
    BY DEF History!Record
  <1>5. h.legacy = History!historyOf(History!Document, account[p]).legacy
    OBVIOUS
  <1> HIDE DEF h
  <1>6. HistoryTyped' /\ spans <= spans' /\ now' = now /\ now <= now'
    BY <1>4 DEF HistoryKept, HistoryTyped, History!Record, HistorySteps, HistoryFits
  <1>7. Sane(g)' /\ g.legacy = h.legacy
    BY <1>2, <1>4, <1>6, AppliedIsSane DEF HistoryKept
  <1>8. AtHand(p)'
    <2>1. step'[p] = "reread" /\ work'[p] = g /\ account' = account /\ sealed' = sealed
      BY <1>4 DEF HistoryKept, HistoryTyped, History!Record
    <2>2. work'[p].legacy = History!historyOf(History!Document', account'[p]).legacy
      BY <1>3, <1>5, <1>7, <2>1
    <2>3. Sane(work[p])'
      BY <1>7, <2>1 DEF Sane, SpanFits, LossFits, NoSpanTwice
    <2> QED BY <1>1, <2>1, <2>2, <2>3 DEF AtHand
  <1>9. ASSUME NEW q \in Procs \ {p} PROVE AtHand(q)'
    <2>1. /\ step'[q] = step[q] /\ work'[q] = work[q] /\ account' = account
          /\ (q \in overtaken => q \in overtaken') /\ sealed' = sealed
          /\ (step[q] = "plain" => sealed # None)
      BY <1>4 DEF HistoryKept, HistoryTyped, History!Record, AtHand
    <2> QED BY <1>1, <1>3, <1>6, <2>1, AtHandStays
  <1>10. (sealed \in {None, Damaged, Later} \/ SaneDoc(sealed))'
    <2>1. sealed' = sealed
      BY DEF History!Record
    <2>2. ASSUME NEW d, SaneDoc(d) PROVE SaneDoc(d)'
      BY <1>6, <2>2, SaneDocStays DEF HistoryKept
    <2> QED BY <2>1, <2>2 DEF HistoryKept
  <1> QED BY <1>6, <1>8, <1>9, <1>10 DEF HistoryKept

LEMMA RereadKeeps ==
    ASSUME HistoryFits, HistoryKept, NEW p \in Procs, History!Reread(p)
    PROVE  HistoryKept'
  <1>1. /\ account[p] \in Owners /\ account' = account /\ sealed' = sealed
             /\ overtaken' = overtaken
        /\ step[p] = "reread" /\ now' = now /\ spans' = spans /\ plain' = plain
    BY DEF HistoryKept, HistoryTyped, History!Reread
  <1>2. History!Document' = History!Document
    BY <1>1 DEF History!Document
  <1>3. HistoryTyped' /\ spans <= spans' /\ now <= now'
    BY DEF HistoryKept, HistoryTyped, History!Reread, HistorySteps, HistoryFits
  <1>4. \A d : SaneDoc(d)' = SaneDoc(d)
    BY <1>1 DEF SaneDoc, Sane, SpanFits, LossFits
  <1>5. AtHand(p)'
    <2>1. CASE sealed = Later
      <3>1. step'[p] = "idle"
        BY <2>1 DEF HistoryKept, HistoryTyped, History!Reread
      <3> QED BY <3>1 DEF AtHand
    <2>2. CASE sealed # Later
      <3> DEFINE a == account[p]
                 h == work[p]
                 d == History!Document
                 e == History!withHistory(d, a, h)
      <3>1. step'[p] = "put" /\ work'[p] = e
        BY <2>2 DEF HistoryKept, HistoryTyped, History!Reread
      <3>2. Sane(h) /\ (p \notin overtaken => h.legacy = History!historyOf(d, a).legacy)
        BY <1>1 DEF HistoryKept, AtHand
      <3>3. SaneDoc(d)
        BY <2>2, DocumentIsSane
      <3>5. a \in Owners /\ d = History!Document' /\ a = account'[p]
        BY <1>1, <1>2
      <3> HIDE DEF a, h, d, e
      <3>6. /\ SaneDoc(e) /\ e.entries[a] = h
            /\ d.entries[a] = None => e.legacy = None
            /\ \A x \in Owners \ {a} : e.entries[x] = d.entries[x]
        BY <3>2, <3>3, <3>5, EntryIsPut DEF e
      <3>7. SaneDoc(work[p])'
        BY <1>1, <3>1, <3>6 DEF SaneDoc, Sane, SpanFits, LossFits, NoSpanTwice
      <3>8. p \notin overtaken' =>
              /\ work'[p].entries[account'[p]].legacy =
                   History!historyOf(History!Document', account'[p]).legacy
              /\ History!Document'.entries[account'[p]] = None => work'[p].legacy = None
              /\ \A x \in Owners \ {account'[p]} :
                   work'[p].entries[x] = History!Document'.entries[x]
        BY <1>1, <3>1, <3>2, <3>5, <3>6
      <3> QED BY <1>1, <2>2, <3>1, <3>7, <3>8 DEF AtHand
    <2> QED BY <2>1, <2>2
  <1>6. ASSUME NEW q \in Procs \ {p} PROVE AtHand(q)'
    <2>1. /\ step'[q] = step[q] /\ work'[q] = work[q]
          /\ (step[q] = "plain" => sealed # None)
      BY DEF HistoryKept, HistoryTyped, History!Reread, AtHand
    <2> QED BY <1>1, <1>2, <1>3, <2>1, AtHandStays
  <1> QED BY <1>1, <1>3, <1>4, <1>5, <1>6 DEF HistoryKept

LEMMA PutKeeps ==
    ASSUME HistoryFits, HistoryKept, NEW p \in Procs, History!Put(p)
    PROVE  HistoryKept'
  <1>1. /\ account' = account /\ sealed' = work[p]
        /\ step[p] = "put" /\ now' = now /\ spans' = spans /\ plain' = plain
    BY DEF HistoryKept, HistoryTyped, History!Put
  <1>2. HistoryTyped' /\ spans <= spans' /\ now <= now'
    BY DEF HistoryKept, HistoryTyped, History!Put, HistorySteps, HistoryFits
  <1>3. SaneDoc(work[p])
    BY <1>1 DEF HistoryKept, AtHand
  <1>4. SaneDoc(sealed)' /\ sealed' \notin {None, Damaged, Later}
    BY <1>1, <1>3 DEF SaneDoc, Sane, SpanFits, LossFits, NoSpanTwice, HistoryFits
  <1>5. AtHand(p)'
    <2>1. step'[p] = "plain"
      BY DEF HistoryKept, HistoryTyped, History!Put
    <2> QED BY <1>4, <2>1 DEF AtHand
  <1>6. ASSUME NEW q \in Procs \ {p} PROVE AtHand(q)'
    <2>1. /\ step'[q] = step[q] /\ work'[q] = work[q]
          /\ (q \in overtaken => q \in overtaken')
          /\ (step[q] \in {"reread", "put"} => q \in overtaken')
      BY DEF HistoryKept, HistoryTyped, History!Put
    <2> QED BY <1>1, <1>2, <1>4, <2>1, AtHandStays
  <1> QED BY <1>2, <1>4, <1>5, <1>6 DEF HistoryKept

\* The plaintext file is not looked at any more when it goes.
LEMMA PlainIsUnread ==
    ASSUME HistoryFits, HistoryKept, NEW p \in Procs, History!RemovePlain(p)
    PROVE  History!Document' = History!Document /\ sealed # None
  <1>1. sealed # None /\ sealed' = sealed
    BY DEF HistoryKept, AtHand, History!RemovePlain
  <1> QED BY <1>1 DEF History!Document

LEMMA RemovePlainKeeps ==
    ASSUME HistoryFits, HistoryKept, NEW p \in Procs, History!RemovePlain(p)
    PROVE  HistoryKept'
  <1>1. /\ account' = account /\ sealed' = sealed /\ overtaken' = overtaken /\ sealed # None
        /\ now' = now /\ spans' = spans /\ work' = work
             /\ History!Document' = History!Document
    BY PlainIsUnread DEF History!RemovePlain
  <1>2. HistoryTyped' /\ spans <= spans' /\ now <= now'
    BY DEF HistoryKept, HistoryTyped, History!RemovePlain, HistorySteps, HistoryFits
  <1>3. \A d : SaneDoc(d)' = SaneDoc(d)
    BY <1>1 DEF SaneDoc, Sane, SpanFits, LossFits
  <1>4. AtHand(p)'
    <2>1. step'[p] = "idle"
      BY DEF HistoryKept, HistoryTyped, History!RemovePlain
    <2> QED BY <2>1 DEF AtHand
  <1>5. ASSUME NEW q \in Procs \ {p} PROVE AtHand(q)'
    <2>1. step'[q] = step[q] /\ work'[q] = work[q]
      BY DEF HistoryKept, HistoryTyped, History!RemovePlain
    <2> QED BY <1>1, <1>2, <2>1, AtHandStays
  <1> QED BY <1>1, <1>2, <1>3, <1>4, <1>5 DEF HistoryKept

LEMMA HistoryCrashKeeps ==
    ASSUME HistoryFits, HistoryKept, NEW p \in Procs, History!Crash(p)
    PROVE  HistoryKept'
  <1>1. /\ account' = account /\ sealed' = sealed /\ plain' = plain
        /\ now' = now /\ spans' = spans
    BY DEF History!Crash
  <1>2. HistoryTyped' /\ spans <= spans' /\ now <= now'
    BY DEF HistoryKept, HistoryTyped, History!Crash, HistorySteps, HistoryFits
  <1>3. \A d : SaneDoc(d)' = SaneDoc(d)
    BY <1>1 DEF SaneDoc, Sane, SpanFits, LossFits
  <1>4. History!Document' = History!Document
    BY <1>1 DEF History!Document
  <1>5. AtHand(p)'
    <2>1. step'[p] = "idle"
      BY DEF HistoryKept, HistoryTyped, History!Crash
    <2> QED BY <2>1 DEF AtHand
  <1>6. ASSUME NEW q \in Procs \ {p} PROVE AtHand(q)'
    <2>1. /\ step'[q] = step[q] /\ work'[q] = work[q] /\ (q \in overtaken => q \in overtaken')
          /\ (step[q] = "plain" => sealed # None)
      BY DEF HistoryKept, HistoryTyped, History!Crash, AtHand
    <2> QED BY <1>1, <1>2, <1>4, <2>1, AtHandStays
  <1> QED BY <1>1, <1>2, <1>3, <1>5, <1>6 DEF HistoryKept

LEMMA UpgradedKeeps ==
    ASSUME HistoryFits, HistoryKept, History!Upgraded
    PROVE  HistoryKept'
  <1>1. /\ account' = account /\ sealed' = Later /\ plain' = plain
        /\ now' = now /\ spans' = spans /\ step' = step /\ work' = work
    BY DEF History!Upgraded
  <1>2. HistoryTyped' /\ spans <= spans' /\ now <= now'
    BY DEF HistoryKept, HistoryTyped, History!Upgraded, HistorySteps, HistoryFits
  <1>3. ASSUME NEW q \in Procs PROVE AtHand(q)'
    <2>1. /\ (step[q] \in {"reread", "put"} => q \in overtaken')
          /\ ((step[q] = "reread" => Sane(work[q])) /\ (step[q] = "put" => SaneDoc(work[q])))
      BY DEF HistoryKept, History!Upgraded, AtHand
    <2>2. (step[q] = "reread" => Sane(work[q])') /\ (step[q] = "put" => SaneDoc(work[q])')
      BY <1>1, <2>1 DEF SaneDoc, Sane, SpanFits, LossFits, NoSpanTwice
    <2> QED BY <1>1, <2>1, <2>2 DEF AtHand, HistoryFits
  <1> QED BY <1>1, <1>2, <1>3 DEF HistoryKept

LEMMA HistoryTickKeeps ==
    ASSUME HistoryFits, HistoryKept, History!Tick
    PROVE  HistoryKept'
  <1>1. /\ account' = account /\ sealed' = sealed /\ plain' = plain /\ overtaken' = overtaken
        /\ spans' = spans /\ step' = step /\ work' = work
    BY DEF History!Tick
  <1>2. HistoryTyped' /\ spans <= spans' /\ now <= now'
    BY DEF HistoryKept, HistoryTyped, History!Tick, HistoryFits
  <1>3. ASSUME NEW d, SaneDoc(d) PROVE SaneDoc(d)'
    BY <1>2, <1>3, SaneDocStays DEF HistoryKept
  <1>4. History!Document' = History!Document
    BY <1>1 DEF History!Document
  <1>5. ASSUME NEW q \in Procs PROVE AtHand(q)'
    <2>1. step[q] = "plain" => sealed # None
      BY DEF HistoryKept, AtHand
    <2> QED BY <1>1, <1>2, <1>4, <2>1, AtHandStays
  <1> QED BY <1>1, <1>2, <1>3, <1>5 DEF HistoryKept

LEMMA HistoryNextKeeps ==
    ASSUME HistoryFits, HistoryKept, [History!Next]_(History!vars)
    PROVE  HistoryKept'
  <1>1. CASE UNCHANGED History!vars
    <2>1. \A d : SaneDoc(d)' = SaneDoc(d)
      BY <1>1 DEF History!vars, SaneDoc, Sane, SpanFits, LossFits
    <2>2. \A h : Sane(h)' = Sane(h)
      BY <1>1 DEF History!vars, Sane, SpanFits, LossFits
    <2>3. History!Document' = History!Document
      BY <1>1 DEF History!vars, History!Document
    <2>4. HistoryTyped'
      BY <1>1 DEF History!vars, HistoryKept, HistoryTyped
    <2>5. ASSUME NEW q \in Procs PROVE AtHand(q)'
      <3>1. /\ step' = step /\ work' = work /\ account' = account /\ overtaken' = overtaken
            /\ sealed' = sealed /\ now' = now /\ spans' = spans /\ AtHand(q)
        BY <1>1 DEF History!vars, HistoryKept
      <3>2. (step[q] = "reread" => Sane(work[q])') /\ (step[q] = "put" => SaneDoc(work[q])')
        BY <2>1, <2>2, <3>1 DEF AtHand
      <3> QED BY <2>3, <3>1, <3>2 DEF AtHand
    <2> QED BY <1>1, <2>1, <2>4, <2>5 DEF History!vars, HistoryKept
  <1>2. ASSUME NEW p \in Procs,
               History!Record(p) \/ History!Reread(p) \/ History!Put(p)
                 \/ History!RemovePlain(p) \/ History!Crash(p)
        PROVE  HistoryKept'
    BY <1>2, RecordKeeps, RereadKeeps, PutKeeps, RemovePlainKeeps, HistoryCrashKeeps
  <1> QED BY <1>1, <1>2, UpgradedKeeps, HistoryTickKeeps DEF History!Next

LEMMA HistoryAlwaysKept ==
    ASSUME HistoryFits
    PROVE  History!Spec => []HistoryKept
  <1>1. History!Init => HistoryKept
    BY HistoryAtFirst
  <1>2. HistoryKept /\ [History!Next]_(History!vars) => HistoryKept'
    BY HistoryNextKeeps
  <1> QED BY <1>1, <1>2, PTL DEF History!Spec

LEMMA RecordedAreSane ==
    ASSUME HistoryFits, HistoryKept, NEW h \in History!Recorded
    PROVE  Sane(h)
  <1>1. SaneDoc(sealed)
    BY DEF HistoryKept, History!Recorded, History!IsDoc
  <1>2. PICK a \in Owners : h = sealed.entries[a] /\ h # None
    BY DEF History!Recorded
  <1> QED BY <1>1, <1>2 DEF SaneDoc

\* What is on disk of an account is whole, of its types and of the length that is kept.
THEOREM HistoriesAreTyped ==
    ASSUME HistoryFits
    PROVE  History!Spec => []History!TypeOK
  <1>1. HistoryKept => History!TypeOK
    <2>1. ASSUME HistoryKept, NEW h \in History!Recorded
          PROVE  /\ h.app \in History!Span \cup {None} /\ h.web \in History!Span \cup {None}
                 /\ Len(h.losses) <= MaxLosses
                 /\ \A i \in DOMAIN h.losses : h.losses[i] \in History!Loss
      BY <2>1, RecordedAreSane DEF Sane, Histories
    <2> QED BY <2>1 DEF History!TypeOK, HistoryKept, HistoryTyped
  <1> QED BY <1>1, HistoryAlwaysKept, PTL

\* A session is recorded as lost once, and is not the live one as well.
THEOREM LossesAreToldOnce ==
    ASSUME HistoryFits
    PROVE  History!Spec => []History!LostOnce
  <1>1. HistoryKept => History!LostOnce
    BY RecordedAreSane DEF History!LostOnce, Sane, NoSpanTwice
  <1> QED BY <1>1, HistoryAlwaysKept, PTL

\* The lifetimes that are read off a history add up.
THEOREM LifetimesAlwaysAddUp ==
    ASSUME HistoryFits
    PROVE  History!Spec => []History!LifetimesAddUp
  <1>1. HistoryKept => History!LifetimesAddUp
    BY RecordedAreSane DEF History!LifetimesAddUp, Sane, SpanFits, LossFits
  <1> QED BY <1>1, HistoryAlwaysKept, PTL

\* The record of an earlier build goes to the first account that records something.
THEOREM LegacyIsClaimedOnce ==
    ASSUME HistoryFits
    PROVE  History!Spec => [][History!LegacyGoesToOne]_(History!vars)
  <1>1. HistoryKept /\ [History!Next]_(History!vars) =>
          [History!LegacyGoesToOne]_(History!vars)
    <2> SUFFICES ASSUME HistoryKept, History!Next, NEW p \in Procs,
                        step[p] = "put", step'[p] = "plain", p \notin overtaken,
                        History!Document.entries[account[p]] = None,
                        sealed'.entries[account[p]].legacy
                 PROVE  /\ sealed'.legacy = None
                        /\ \A a \in Owners \ {account[p]} :
                             sealed'.entries[a] # None => ~sealed'.entries[a].legacy
      BY DEF History!LegacyGoesToOne
    <2>1. sealed' = work[p]
      BY DEF History!Next, HistoryKept, HistoryTyped, History!Record, History!Reread,
         History!Put, History!RemovePlain, History!Crash, History!Upgraded, History!Tick
    <2>2. /\ work[p].entries[account[p]].legacy =
               History!historyOf(History!Document, account[p]).legacy
          /\ work[p].legacy = None
          /\ \A a \in Owners \ {account[p]} : work[p].entries[a] = History!Document.entries[a]
      BY DEF HistoryKept, AtHand
    <2>3. sealed # Later /\ account[p] \in Owners
      BY DEF HistoryKept, HistoryTyped, AtHand
    <2>4. SaneDoc(History!Document)
      BY <2>3, DocumentIsSane
    <2>5. History!Document.legacy # None
      <3>1. History!historyOf(History!Document, account[p]).legacy
        BY <2>1, <2>2
      <3> QED BY <3>1 DEF History!historyOf, History!empty
    <2>6. \A a \in Owners : History!Document.entries[a] = None
      BY <2>4, <2>5 DEF SaneDoc
    <2> QED BY <2>1, <2>2, <2>6
  <1>2. History!Spec => []HistoryKept
    BY HistoryAlwaysKept
  <1> QED BY <1>1, <1>2, PTL DEF History!Spec

\* The plaintext file of an earlier build goes when there is a sealed one.
THEOREM PlainAlwaysGoesLast ==
    ASSUME HistoryFits
    PROVE  History!Spec => [][History!PlainGoesLast]_(History!vars)
  <1>1. HistoryKept /\ [History!Next]_(History!vars) => [History!PlainGoesLast]_(History!vars)
    <2> SUFFICES ASSUME HistoryKept, History!Next, plain = "history", plain' = None
                 PROVE  sealed' # None
      BY DEF History!PlainGoesLast
    <2>1. plain' # plain
      BY DEF HistoryFits
    <2>2. PICK p \in Procs : History!RemovePlain(p)
      BY <2>1 DEF History!Next, History!Record, History!Reread, History!Put, History!Crash,
         History!Upgraded, History!Tick
    <2> QED BY <2>2, PlainIsUnread DEF History!RemovePlain
  <1>2. History!Spec => []HistoryKept
    BY HistoryAlwaysKept
  <1> QED BY <1>1, <1>2, PTL DEF History!Spec

-----------------------------------------------------------------------------
(* The web login.                                                            *)

\* What an empty store holds is no login.
EmptyIsNone == NoSession \notin Nat

\* The directory has one process.
OneProcess == \A p, q \in Procs : p = q

\* The completed logins are numbered, and each kept the portal's cookies.
LoginsNumbered ==
  /\ Web!Newest \in Nat /\ DOMAIN keptCookies = 1 .. Web!Newest
  /\ Web!KeepsThePortals

\* A login that was forgotten is nowhere, and the one that was told as done is
\* the one in the store and in memory, unless it has ended.
Standing == reported # 0 /\ reported \notin ended \cup forgotten
Remembered ==
  /\ reported \in 0 .. Web!Newest /\ ended \subseteq 1 .. Web!Newest
       /\ forgotten \subseteq 1 .. Web!Newest
  /\ storedWeb \in (0 .. Web!Newest) \cup {NoSession} /\ Web!Saved \notin forgotten
  /\ webs \in [Procs -> 0 .. Web!Newest] /\ \A p \in Procs : webs[p] \notin forgotten
  /\ Standing => storedWeb = reported /\ \A p \in running : p \in Procs => webs[p] = reported

-----------------------------------------------------------------------------
\* The module counts as this one does.
LEMMA WebCounts == ASSUME NEW S PROVE Web!Cardinality(S) = Cardinality(S)
  BY DEF Web!Cardinality, Cardinality

LEMMA CountOf == ASSUME NEW n \in Nat PROVE Cardinality(1 .. n) = n
  <1>1. IF 1 > n THEN Cardinality(1 .. n) = 0 ELSE Cardinality(1 .. n) = n - 1 + 1
    BY FS_Interval
  <1> QED BY <1>1

LEMMA WindowCookies == ASSUME NEW p,
  Web!PortalCookies(p) # {} PROVE Web!PortalCookies(p) = {"portal"}
  BY DEF Web!PortalCookies

LEMMA NumberedAtFirst == ASSUME Web!Init PROVE LoginsNumbered /\ Web!Newest = 0
  <1>1. DOMAIN keptCookies = {} /\ 1 .. 0 = {}
    BY DEF Web!Init
  <1>2. Web!Newest = 0
    BY <1>1, FS_EmptySet, WebCounts DEF Web!Newest
  <1> QED BY <1>1, <1>2 DEF LoginsNumbered, Web!KeepsThePortals

\* A login completes: it is the next one, and has the cookies of the portal.
LEMMA LoginIsNext ==
    ASSUME LoginsNumbered, NEW p \in Procs, Web!webLogin(p)
    PROVE  LoginsNumbered' /\ Web!Newest' = Web!Newest + 1
  <1>1. /\ Web!Newest \in Nat /\ DOMAIN keptCookies = 1 .. Web!Newest
        /\ \A n \in DOMAIN keptCookies : keptCookies[n] = {"portal"}
    BY DEF LoginsNumbered, Web!KeepsThePortals
  <1>2. keptCookies' = [n \in 1 .. Web!Newest + 1 |->
                          IF n <= Web!Newest THEN keptCookies[n] ELSE {"portal"}]
    BY WindowCookies DEF Web!webLogin
  <1>3. DOMAIN keptCookies' = 1 .. Web!Newest + 1 /\ \A n \in DOMAIN keptCookies' :
          keptCookies'[n] = {"portal"}
    BY <1>1, <1>2
  <1>4. Web!Newest' = Web!Newest + 1
    <2>1. Cardinality(1 .. (Web!Newest + 1)) = Web!Newest + 1
      BY <1>1, CountOf
    <2> QED BY <1>3, <2>1, WebCounts DEF Web!Newest
  <1> QED BY <1>1, <1>3, <1>4 DEF LoginsNumbered, Web!KeepsThePortals

LEMMA NumberedStays ==
    ASSUME LoginsNumbered, keptCookies' = keptCookies
    PROVE  LoginsNumbered' /\ Web!Newest' = Web!Newest
  BY DEF LoginsNumbered, Web!Newest, Web!KeepsThePortals

LEMMA NumberedSteps ==
    ASSUME LoginsNumbered, [Web!Next]_(Web!vars)
    PROVE  LoginsNumbered'
  <1>1. CASE \E p \in Procs : Web!webLogin(p)
    BY <1>1, LoginIsNext
  <1>2. CASE ~(\E p \in Procs : Web!webLogin(p))
    <2>1. keptCookies' = keptCookies
      BY <1>2 DEF Web!Next, Web!vars, Web!Start, Web!Exit, Web!OpenWindow, Web!Browse,
         Web!CookieSet, Web!Poll, Web!WindowFails,
                  Web!persist, Web!loseAppSession, Web!logout
    <2> QED BY <2>1, NumberedStays
  <1> QED BY <1>1, <1>2

LEMMA RememberedAtFirst == ASSUME EmptyIsNone, Web!Init PROVE Remembered
  <1>1. Web!Newest = 0
    BY NumberedAtFirst
  <1> QED BY <1>1 DEF Remembered, Standing, Web!Saved, Web!Init, EmptyIsNone

\* Nothing of the logins changes.
LEMMA RememberedStays ==
    ASSUME Remembered, Web!Newest' = Web!Newest, running' \subseteq running,
           UNCHANGED <<storedWeb, reported, ended, forgotten, webs>>
    PROVE  Remembered'
  BY DEF Remembered, Standing, Web!Saved

LEMMA RememberedSteps ==
    ASSUME EmptyIsNone, OneProcess, LoginsNumbered, Remembered, [Web!Next]_(Web!vars)
    PROVE  Remembered'
  <1>1. ASSUME NEW p \in Procs, Web!webLogin(p) PROVE Remembered'
    <2> DEFINE N == Web!Newest
    <2>1. N \in Nat /\ Web!Newest' = N + 1
      BY <1>1, LoginIsNext DEF LoginsNumbered
    <2>2. /\ webs' = [webs EXCEPT ![p] = N + 1] /\ running' = running /\ ended' = ended
          /\ forgotten' = forgotten
          /\ IF storedWeb = NoSession THEN UNCHANGED <<storedWeb, reported>>
             ELSE storedWeb' = N + 1 /\ reported' = N + 1
      BY <1>1 DEF Web!webLogin
    <2> HIDE DEF N
    <2>3. /\ reported \in 0 .. N /\ ended \subseteq 1 .. N /\ forgotten \subseteq 1 .. N
          /\ storedWeb \in (0 .. N) \cup {NoSession} /\ Web!Saved \notin forgotten
          /\ webs \in [Procs -> 0 .. N] /\ \A q \in Procs : webs[q] \notin forgotten
          /\ Standing => storedWeb = reported
      BY DEF Remembered, N
    <2>4. N + 1 \notin forgotten /\ N + 1 \in 0 .. (N + 1)
      BY <2>1, <2>3
    <2>5. \A q \in Procs : webs'[q] = N + 1
      BY <2>2, <2>3 DEF OneProcess
    <2>6. webs' \in [Procs -> 0 .. (N + 1)] /\ \A q \in Procs : webs'[q] \notin forgotten'
      BY <2>2, <2>3, <2>4, <2>5
    <2>7. /\ reported' \in 0 .. (N + 1) /\ ended' \subseteq 1 .. (N + 1)
          /\ forgotten' \subseteq 1 .. (N + 1)
          /\ storedWeb' \in (0 .. (N + 1)) \cup {NoSession}
      BY <2>1, <2>2, <2>3
    <2>8. CASE storedWeb = NoSession
      <3>1. storedWeb' = storedWeb /\ reported' = reported
        BY <2>2, <2>8
      <3>2. ~Standing
        BY <2>1, <2>3, <2>8 DEF EmptyIsNone
      <3>3. ~Standing' /\ Web!Saved' = Web!Saved
        BY <2>2, <3>1, <3>2 DEF Standing, Web!Saved
      <3> QED BY <2>1, <2>2, <2>3, <2>6, <2>7, <3>3 DEF Remembered
    <2>9. CASE storedWeb # NoSession
      <3>1. storedWeb' = N + 1 /\ reported' = N + 1
        BY <2>2, <2>9
      <3>2. Web!Saved' = N + 1
        BY <2>1, <3>1 DEF Web!Saved, EmptyIsNone
      <3> QED BY <2>1, <2>2, <2>4, <2>5, <2>6, <2>7, <3>1, <3>2 DEF Remembered
    <2> QED BY <2>8, <2>9
  <1>2. ASSUME NEW p \in Procs, ~(\E q \in Procs : Web!webLogin(q)),
               \/ Web!Start(p) \/ Web!persist(p) \/ Web!loseAppSession(p) \/ Web!logout(p)
        PROVE  Remembered'
    <2> DEFINE N == Web!Newest
    <2>1. keptCookies' = keptCookies
      BY <1>2 DEF Web!Start, Web!persist, Web!loseAppSession, Web!logout
    <2>2. N \in Nat /\ Web!Newest' = N
      BY <2>1, NumberedStays DEF LoginsNumbered
    <2> HIDE DEF N
    <2>3. /\ reported \in 0 .. N /\ ended \subseteq 1 .. N /\ forgotten \subseteq 1 .. N
          /\ storedWeb \in (0 .. N) \cup {NoSession} /\ Web!Saved \notin forgotten
          /\ webs \in [Procs -> 0 .. N] /\ \A q \in Procs : webs[q] \notin forgotten
          /\ Standing => storedWeb = reported
          /\ Standing => \A q \in running : q \in Procs => webs[q] = reported
      BY DEF Remembered, N
    <2>4. Web!Saved \in 0 .. N /\ 0 \in 0 .. N /\ 0 \notin forgotten
      BY <2>2, <2>3 DEF Web!Saved
    <2>5. CASE Web!Start(p)
      <3>1. /\ webs' = [webs EXCEPT ![p] = Web!Saved]
            /\ UNCHANGED <<storedWeb, reported, ended, forgotten>>
        BY <2>5 DEF Web!Start
      <3>2. \A q \in Procs : webs'[q] = Web!Saved
        BY <2>3, <3>1 DEF OneProcess
      <3>3. webs' \in [Procs -> 0 .. N]
        BY <2>3, <2>4, <3>1
      <3>4. Web!Saved' = Web!Saved /\ Standing' = Standing
        BY <3>1 DEF Web!Saved, Standing
      <3>5. Standing => Web!Saved = reported
        BY <2>2, <2>3 DEF Web!Saved, EmptyIsNone
      <3> QED BY <2>2, <2>3, <3>1, <3>2, <3>3, <3>4, <3>5 DEF Remembered
    <2>6. CASE Web!persist(p)
      <3>1. storedWeb' = webs[p] /\ UNCHANGED <<running, webs, reported, ended,
              forgotten>> /\ p \in running
        BY <2>6 DEF Web!persist
      <3>2. webs[p] \in 0 .. N /\ webs[p] \notin forgotten
        BY <2>3
      <3>3. Web!Saved' = webs[p] /\ Standing' = Standing
        BY <2>2, <3>1, <3>2 DEF Web!Saved, EmptyIsNone, Standing
      <3> QED BY <2>2, <2>3, <3>1, <3>2, <3>3 DEF Remembered
    <2>7. CASE Web!loseAppSession(p)
      <3>1. /\ storedWeb # NoSession /\ storedWeb' = NoSession
                 /\ ended' = ended \cup ({storedWeb} \ {0})
            /\ UNCHANGED <<running, webs, reported, forgotten>>
        BY <2>7 DEF Web!loseAppSession
      <3>2. ended' \subseteq 1 .. N
        BY <2>2, <2>3, <3>1
      <3>3. ~Standing' /\ Web!Saved' = 0
        BY <2>3, <3>1 DEF Standing, Web!Saved
      <3> QED BY <2>2, <2>3, <2>4, <3>1, <3>2, <3>3 DEF Remembered
    <2>8. CASE Web!logout(p)
      <3>1. /\ storedWeb' = NoSession /\ webs' = [webs EXCEPT ![p] = 0]
            /\ forgotten' = forgotten \cup ({Web!Saved, webs[p]} \ {0})
            /\ UNCHANGED <<running, reported, ended>>
        BY <2>8 DEF Web!logout
      <3>2. forgotten' \subseteq 1 .. N /\ 0 \notin forgotten'
        <4>1. webs[p] \in 0 .. N
          BY <2>3
        <4>2. {Web!Saved, webs[p]} \ {0} \subseteq 1 .. N
          BY <2>2, <2>4, <4>1
        <4> DEFINE gone == {Web!Saved, webs[p]} \ {0}
        <4>3. gone \subseteq 1 .. N /\ forgotten' = forgotten \cup gone
          BY <3>1, <4>2
        <4> HIDE DEF gone
        <4>4. forgotten' \subseteq 1 .. N
          BY <2>3, <4>3
        <4>5. 0 \notin 1 .. N
          BY <2>2
        <4> QED BY <4>4, <4>5
      <3>3. \A q \in Procs : webs'[q] = 0
        BY <2>3, <3>1 DEF OneProcess
      <3>4. webs' \in [Procs -> 0 .. N]
        BY <2>3, <2>4, <3>1
      <3>5. ~Standing'
        <4>1. Standing => Web!Saved = reported
          BY <2>2, <2>3 DEF Web!Saved, EmptyIsNone
        <4> QED BY <3>1, <4>1 DEF Standing
      <3>6. Web!Saved' = 0
        BY <3>1 DEF Web!Saved
      <3> QED BY <2>2, <2>3, <3>1, <3>2, <3>3, <3>4, <3>5, <3>6 DEF Remembered
    <2> QED BY <1>2, <2>5, <2>6, <2>7, <2>8
  <1>3. ASSUME NEW p \in Procs,
               \/ Web!Exit(p) \/ Web!OpenWindow(p) \/ Web!Browse(p) \/ Web!CookieSet(p)
                    \/ Web!Poll(p) \/ Web!WindowFails(p)
        PROVE  Remembered'
    <2>1. /\ keptCookies' = keptCookies /\ running' \subseteq running
               /\ UNCHANGED <<storedWeb, reported, ended, forgotten>>
          /\ webs' = webs \/ (Web!Exit(p) /\ webs' = [webs EXCEPT ![p] = 0])
      BY <1>3 DEF Web!Exit, Web!OpenWindow, Web!Browse, Web!CookieSet, Web!Poll,
         Web!WindowFails
    <2>2. Web!Newest' = Web!Newest /\ Web!Newest \in Nat
      BY <2>1, NumberedStays DEF LoginsNumbered
    <2>3. CASE webs' = webs
      BY <2>1, <2>2, <2>3, RememberedStays
    <2>4. CASE Web!Exit(p) /\ webs' = [webs EXCEPT ![p] = 0]
      <3>1. running' = running \ {p} /\ p \in running
        BY <2>4 DEF Web!Exit
      <3>2. 0 \notin forgotten /\ 0 \in 0 .. Web!Newest
        BY <2>2 DEF Remembered
      <3>3. webs' \in [Procs -> 0 .. Web!Newest] /\ \A q \in Procs : webs'[q] \notin forgotten
        BY <2>4, <3>2 DEF Remembered
      <3>4. \A q \in running' : q \in Procs => webs'[q] = webs[q]
        BY <2>4, <3>1 DEF Remembered
      <3>5. Standing' = Standing /\ Web!Saved' = Web!Saved
        BY <2>1 DEF Standing, Web!Saved
      <3> QED BY <2>1, <2>2, <3>1, <3>3, <3>4, <3>5 DEF Remembered
    <2> QED BY <2>1, <2>3, <2>4
  <1>4. CASE UNCHANGED Web!vars
    <2>1. Web!Newest' = Web!Newest
      BY <1>4 DEF Web!vars, Web!Newest
    <2> QED BY <1>4, <2>1, RememberedStays DEF Web!vars
  <1> QED BY <1>1, <1>2, <1>3, <1>4 DEF Web!Next

\* The cookies of a completed web login are the portal's (web-login.ts).
THEOREM WindowsYieldThePortal == Web!Spec => []Web!KeepsThePortals
  <1>1. Web!Init => LoginsNumbered
    BY NumberedAtFirst
  <1>2. LoginsNumbered /\ [Web!Next]_(Web!vars) => LoginsNumbered'
    BY NumberedSteps
  <1>3. LoginsNumbered => Web!KeepsThePortals
    BY DEF LoginsNumbered
  <1> QED BY <1>1, <1>2, <1>3, PTL DEF Web!Spec

\* In a directory of one process, a web login that was told as done stays in the
\* store, and one that was logged out of never returns to it (session-manager.ts).
THEOREM WebLoginsStand ==
    ASSUME EmptyIsNone, OneProcess
    PROVE  Web!Spec => [](Web!WebLoginStays /\ Web!LogoutForgetsIt)
  <1>1. Web!Init => LoginsNumbered /\ Remembered
    BY NumberedAtFirst, RememberedAtFirst
  <1>2. LoginsNumbered /\ Remembered /\ [Web!Next]_(Web!vars) =>
          LoginsNumbered' /\ Remembered'
    BY NumberedSteps, RememberedSteps
  <1>3. LoginsNumbered /\ Remembered => Web!WebLoginStays /\ Web!LogoutForgetsIt
    <2> SUFFICES ASSUME LoginsNumbered, Remembered
                 PROVE  (Standing => Web!Saved >= reported) /\ Web!Saved \notin forgotten
      BY DEF Web!WebLoginStays, Web!LogoutForgetsIt, Standing
    <2>1. reported \in Nat /\ Web!Saved \notin forgotten
      BY DEF Remembered, LoginsNumbered
    <2>2. Standing => Web!Saved = reported
      BY <2>1 DEF Remembered, Web!Saved, EmptyIsNone
    <2> QED BY <2>1, <2>2
  <1> QED BY <1>1, <1>2, <1>3, PTL DEF Web!Spec
=============================================================================
