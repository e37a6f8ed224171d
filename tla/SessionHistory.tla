--------------------------- MODULE SessionHistory ---------------------------
(* The session history: when sessions started, were used and died, one      *)
(* history per account in session-history.enc, recorded by every process of *)
(* the directory (core/session/history.ts).                                 *)
(*                                                                          *)
(* Recording an event reads the account's history, applies the event, reads *)
(* the document again, sets the account's entry and replaces the file; then *)
(* the plaintext file of older builds goes. Nothing locks any of it.        *)
EXTENDS Naturals, Sequences, FiniteSets

CONSTANTS
  Procs,        \* the processes
  Accounts,     \* the accounts of the directory
  Configured,   \* the ways the processes may be configured: subset of [Procs -> Accounts]
  MaxTime,      \* bound on the clock
  MaxSpans,     \* bound on the sessions that are told apart
  MaxEvents,    \* bound on the events recorded
  MaxLosses,    \* MAX_HISTORY_LOSSES
  MaxCrashes,   \* bound on processes stopped half-way
  None, Damaged, Later   \* no value; a file that cannot be read; one of a later build

Sessions == {"app", "web"}

VARIABLES
  account,   \* the account each process is configured for
  sealed,    \* session-history.enc: None, Damaged, Later or a document
  plain,     \* session-history.json of builds before it was sealed
  now,       \* Date.now()
  spans,     \* how many sessions were seen to start (tells them apart)
  pc, work,  \* each process: its step, and the history or document at hand
  moved,     \* the processes whose file was replaced since their first read
  crashes, events   \* counted, for the bounds

vars == <<account, sealed, plain, now, spans, pc, work, moved, crashes, events>>

(* A span: `id` tells it from the others; start is None when it predates the *)
(* history. A history: the live spans, the losses, and whether it descends   *)
(* from the v1 record, which named no account.                               *)
Span  == [id: 1..MaxSpans, start: 0..MaxTime \cup {None}, last: 0..MaxTime, gap: 0..MaxTime]
Loss  == [id: 1..MaxSpans, session: Sessions, age: 0..MaxTime \cup {None},
          idle: 0..MaxTime, gap: 0..MaxTime]
empty == [app |-> None, web |-> None, losses |-> <<>>, legacy |-> FALSE]

NoEntries == [a \in Accounts |-> None]

(* keepLegacyHistory: a v1 history waits until an account claims it.          *)
keepLegacyHistory(h) == [entries |-> NoEntries, legacy |-> h]

Blank == [entries |-> NoEntries, legacy |-> None]

(* The sealed file when there is one, else the plaintext one; what cannot be *)
(* read is an empty document. A newer one throws, and record() swallows it.  *)
Document ==
  CASE sealed \notin {None, Damaged}         -> sealed
    [] sealed = None /\ plain = "history" -> keepLegacyHistory([empty EXCEPT !.legacy = TRUE])
    [] OTHER                              -> Blank

historyOf(d, a) ==
  IF d.entries[a] # None THEN d.entries[a]
  ELSE IF d.legacy # None THEN d.legacy ELSE empty

(* The first entry of an account claims the legacy record, which it was shown. *)
withHistory(d, a, h) ==
  IF d.entries[a] # None THEN [d EXCEPT !.entries[a] = h]
  ELSE [d EXCEPT !.entries[a] = h, !.legacy = None]

(*************************************************************************)
(* Applying an event.                                                    *)
(*************************************************************************)
Longest(x, y) == IF x > y THEN x ELSE y

touched(s, at, start) ==
  IF s = None THEN [id |-> spans + 1, start |-> start, last |-> at, gap |-> 0]
  ELSE [s EXCEPT !.last = at, !.gap = Longest(@, at - s.last)]

fresh(at) == [id |-> spans + 1, start |-> at, last |-> at, gap |-> 0]

LastOf(s, n) == IF Len(s) <= n THEN s ELSE SubSeq(s, Len(s) - n + 1, Len(s))

LostOf(h, ses) ==
  LET s == h[ses] IN
  [id |-> s.id, session |-> ses, age |-> IF s.start = None THEN None ELSE now - s.start,
   idle |-> now - s.last, gap |-> s.gap]

Lost(h, ses) ==
  [h EXCEPT !.losses = LastOf(Append(@, LostOf(h, ses)), MaxLosses), ![ses] = None]

(* `since`: when the web login was made, at most now. A loss that was already *)
(* recorded writes nothing.                                                   *)
Applied(h) ==
  {[h EXCEPT !.app = fresh(now)],                                     \* login
   [h EXCEPT !.app = touched(h.app, now, None)],                      \* refresh
   [h EXCEPT !.app = None, !.web = None]}                             \* logout
  \cup {[h EXCEPT !.web = fresh(since)] : since \in 0..now}            \* web_login
  \cup {[h EXCEPT !.web = touched(h.web, now, since)] : since \in 0..now}  \* web_use
  \cup {Lost(h, ses) : ses \in {x \in Sessions : h[x] # None}}

NewSpan(h, g) == \E ses \in Sessions : g[ses] # None /\ g[ses].id = spans + 1

(*************************************************************************)
(* record(): best effort, whatever goes wrong.                           *)
(*************************************************************************)
Init ==
  /\ account \in Configured
  /\ sealed \in {None, Damaged, keepLegacyHistory([empty EXCEPT !.legacy = TRUE])}
  /\ plain \in {None, Damaged, "history"} /\ (plain = Damaged => sealed = None)
  /\ now = 0 /\ spans = 0
  /\ pc = [p \in Procs |-> "idle"]
  /\ work = [p \in Procs |-> None]
  /\ moved = {} /\ crashes = 0 /\ events = 0

(* The first read, and the event applied to it.                               *)
Record(p) ==
  /\ pc[p] = "idle" /\ sealed # Later
  /\ events < MaxEvents /\ events' = events + 1
  /\ LET h == historyOf(Document, account[p]) IN
     \E g \in Applied(h) :
       /\ IF NewSpan(h, g) THEN spans < MaxSpans /\ spans' = spans + 1 ELSE spans' = spans
       /\ work' = [work EXCEPT ![p] = g]
  /\ pc' = [pc EXCEPT ![p] = "reread"]
  /\ moved' = moved \ {p}
  /\ UNCHANGED <<account, sealed, plain, now, crashes>>

(* accountHistoryStore.write reads the document again, so that the other *)
(* accounts' entries are kept.                                           *)
Reread(p) ==
  /\ pc[p] = "reread"
  /\ IF sealed = Later
     THEN pc' = [pc EXCEPT ![p] = "idle"] /\ work' = [work EXCEPT ![p] = None]
     ELSE /\ pc' = [pc EXCEPT ![p] = "put"]
          /\ work' = [work EXCEPT ![p] = withHistory(Document, account[p], @)]
  /\ UNCHANGED <<account, sealed, plain, now, spans, moved, crashes, events>>

(* writePrivateFile: whole, by a rename.                                      *)
Put(p) ==
  /\ pc[p] = "put"
  /\ sealed' = work[p]
  /\ pc' = [pc EXCEPT ![p] = "plain"]
  /\ work' = [work EXCEPT ![p] = None]
  /\ moved' = (moved \cup {q \in Procs : pc[q] \in {"reread", "put"}}) \ {p}
  /\ UNCHANGED <<account, plain, now, spans, crashes, events>>

RemovePlain(p) ==
  /\ pc[p] = "plain" /\ plain' = None
  /\ pc' = [pc EXCEPT ![p] = "idle"]
  /\ UNCHANGED <<account, sealed, now, spans, work, moved, crashes, events>>

Crash(p) ==
  /\ pc[p] # "idle" /\ crashes < MaxCrashes
  /\ crashes' = crashes + 1
  /\ pc' = [pc EXCEPT ![p] = "idle"]
  /\ work' = [work EXCEPT ![p] = None]
  /\ moved' = moved \ {p}
  /\ UNCHANGED <<account, sealed, plain, now, spans, events>>

(* A later build writes the file in its own version; this one leaves it alone. *)
Upgraded ==
  /\ sealed # Later /\ sealed' = Later
  /\ moved' = {q \in Procs : pc[q] \in {"reread", "put"}}
  /\ UNCHANGED <<account, plain, now, spans, pc, work, crashes, events>>

Tick ==
  /\ now < MaxTime /\ now' = now + 1
  /\ UNCHANGED <<account, sealed, plain, spans, pc, work, moved, crashes, events>>

Next ==
  \/ \E p \in Procs : Record(p) \/ Reread(p) \/ Put(p) \/ RemovePlain(p) \/ Crash(p)
  \/ Upgraded \/ Tick

Spec == Init /\ [][Next]_vars

(*************************************************************************)
(* Properties.                                                           *)
(*************************************************************************)
IsDoc(d) == d \notin {None, Damaged, Later}
Recorded == IF IsDoc(sealed) THEN {sealed.entries[a] : a \in Accounts} \ {None} ELSE {}

(* The types of what is on disk: at most MaxLosses losses are kept.           *)
TypeOK ==
  /\ \A h \in Recorded :
       /\ h.app \in Span \cup {None} /\ h.web \in Span \cup {None}
       /\ Len(h.losses) <= MaxLosses /\ \A i \in DOMAIN h.losses : h.losses[i] \in Loss
  /\ plain \in {None, Damaged, "history"}
  /\ moved \subseteq Procs /\ now \in 0..MaxTime /\ spans \in 0..MaxSpans

(* A session is recorded as lost once, however many processes find it dead *)
(* and whichever write is the last (history.ts:277-278), and a lost one is *)
(* not the live one.                                                       *)
LostOnce ==
  \A h \in Recorded :
    /\ \A i, j \in DOMAIN h.losses : h.losses[i].id = h.losses[j].id => i = j
    /\ \A ses \in Sessions : h[ses] # None =>
         \A i \in DOMAIN h.losses : h.losses[i].id # h[ses].id

(* What a lifetime is read off from adds up: a session of known start has  *)
(* been idle, and has survived a pause, within its age, before it was lost *)
(* and after.                                                              *)
LifetimesAddUp ==
  \A h \in Recorded :
    /\ \A ses \in Sessions : h[ses] # None /\ h[ses].start # None =>
         h[ses].start + h[ses].gap <= h[ses].last
    /\ \A i \in DOMAIN h.losses :
         h.losses[i].age # None => h.losses[i].gap + h.losses[i].idle <= h.losses[i].age

(* The v1 record goes to the first account that records something, and to no *)
(* other, unless two of them were writing at the same time.                  *)
LegacyGoesToOne ==
  \A p \in Procs :
    (/\ pc[p] = "put" /\ pc'[p] = "plain" /\ p \notin moved
     /\ Document.entries[account[p]] = None
     /\ sealed'.entries[account[p]].legacy) =>
      (/\ sealed'.legacy = None
       /\ \A a \in Accounts \ {account[p]} :
            sealed'.entries[a] # None => ~sealed'.entries[a].legacy)

(* What a build before the sealed file recorded is on disk, in one file or *)
(* the other, wherever a process stops (history.ts:188).                   *)
PlainGoesLast ==
  plain = "history" /\ plain' = None => sealed' # None
=============================================================================
