---------------------------- MODULE AccountFiles ----------------------------
(* The saved sessions: one document with an entry per account, in a file     *)
(* that several processes, of several builds, read and replace               *)
(* (core/session/store.ts, file-store.ts, sealed.ts, core/versioned.ts,      *)
(* core/private-files.ts, and http/storage.ts for the connector).            *)
(*                                                                           *)
(* A save reads the document, sets one entry and replaces the whole file;    *)
(* nothing locks it, so between the read and the rename another process may  *)
(* have replaced it: "moved" holds the processes this happened to.           *)
(* Processes stop at any point, the machine may lose its power, the file may *)
(* be damaged and key.bin removed.                                           *)
EXTENDS Naturals, FiniteSets, Functions

CONSTANTS
  Procs,         \* the processes sharing the directory
  AccountOf,     \* [Procs -> account]: accountKey of the configured school
  Build,         \* [Procs -> version]: currentVersion(SESSION_FORMAT) of its build
  Current,       \* the current version of this code (2); a later build adds one
  Keys,          \* the keys that can be drawn (bound)
  Faults,        \* subset of {"crash", "power", "damage", "keyLost"}
  MaxFaults,     \* bound on them
  Numbers        \* tells one saved session of an account from another (bound)

Accounts == Range(AccountOf)
Shapes   == {"flat", "folded"}   \* tokens at the top level (v0), or in `data`

Session == [n: Numbers, shape: Shapes]
NoEntry == [n |-> 0, shape |-> "folded"]
Missing == [v |-> "missing"]
Garbage == [v |-> "garbage"]   \* bytes that are no sealed document
Nothing == [a \in Accounts |-> NoEntry]

VARIABLES
  closed,   \* TRUE: the connector's EncryptedRepository; FALSE: session.enc
  file,     \* what the path holds
  key,      \* key.bin: "none", "empty", or the key (always one for the connector)
  tmp,      \* each process's temporary file
  pc,       \* where each process's operation is
  op,       \* the operation: load, save or clear
  doc,      \* the document it read: entries by account
  bytes,    \* the bytes it read, or, once sealed, the bytes it will write
  moved,    \* the processes whose file was replaced since they read it
  risk,     \* connector: what a power loss may leave at the path
  torn,     \* a process stopped between its rename and the directory's flush
  faults    \* how many faults there were

vars == <<closed, file, key, tmp, pc, op, doc, bytes, moved, risk, torn, faults>>

IsDoc(f) == f \notin {Missing, Garbage}
Version(f) == f.v

(* v1 and v0 hold one session and say which account it is of.                *)
Single(v, k, a, s) == [v |-> v, key |-> k, account |-> a, session |-> s]
Keyed(v, k, e)     == [v |-> v, key |-> k, entries |-> e]

(* migratePersisted: top-level tokens go into `data`.                         *)
migratePersisted(s) == [s EXCEPT !.shape = "folded"]

(* keySessionByAccount: the one session becomes the entry of its own account. *)
keySessionByAccount(a, s) == [Nothing EXCEPT ![a] = s]

(* readVersioned on a document this build can read.                           *)
readVersioned(f) ==
  CASE f.v = 0 -> keySessionByAccount(f.account, migratePersisted(f.session))
    [] f.v = 1 -> keySessionByAccount(f.account, f.session)
    [] OTHER   -> f.entries

(* What a process of a build that knows every version would read at the path. *)
Readable(f) == IsDoc(f) /\ f.key = key
Entries(f)  == IF Readable(f) THEN readVersioned(f) ELSE Nothing

(***************************************************************************)
(* Init: no file, a damaged one, or what an earlier or a later build left. *)
(***************************************************************************)
FirstKey == CHOOSE k \in Keys : TRUE
Left ==
  \/ file \in {Missing, Garbage}
  \/ \E v \in 0..1, a \in Accounts :
       file = Single(v, FirstKey, a, [n |-> 1, shape |-> IF v = 0 THEN "flat" ELSE "folded"])
  \/ \E v \in Current..(Current + 1), a \in Accounts :
       file = Keyed(v, FirstKey, [Nothing EXCEPT ![a] = [n |-> 1, shape |-> "folded"]])

Init ==
  /\ closed \in BOOLEAN
  /\ Left
  /\ key = IF file = Missing /\ ~closed THEN "none" ELSE FirstKey
  /\ tmp = [p \in Procs |-> Missing]
  /\ pc = [p \in Procs |-> "idle"]
  /\ op = [p \in Procs |-> "load"]
  /\ doc = [p \in Procs |-> Nothing]
  /\ bytes = [p \in Procs |-> Missing]
  /\ moved = {}
  /\ risk = IF closed THEN {file} ELSE {}
  /\ torn = FALSE
  /\ faults = 0

Goto(p, l) == pc' = [pc EXCEPT ![p] = l]

(* The operation is over: its locals are gone.                                *)
End(p) ==
  /\ Goto(p, "idle")
  /\ op' = [op EXCEPT ![p] = "load"]
  /\ doc' = [doc EXCEPT ![p] = Nothing]
  /\ bytes' = [bytes EXCEPT ![p] = Missing]
  /\ moved' = moved \ {p}

(****************************************************************************)
(* Reading. The bytes first, then the key: made, exclusively, when there is *)
(* none yet. Bytes that do not open are no document; a newer one throws.    *)
(****************************************************************************)
ReadBytes(p) ==
  /\ pc[p] = "idle"
  /\ \E o \in {"load", "save", "clear"} : op' = [op EXCEPT ![p] = o]
  /\ bytes' = [bytes EXCEPT ![p] = file]
  /\ moved' = moved \ {p}
  /\ Goto(p, IF closed THEN "open" ELSE IF file = Missing THEN "decide" ELSE "readKey")
  /\ UNCHANGED <<closed, file, key, tmp, doc, risk, torn, faults>>

(* createPrivateFile: the name is taken first, with O_EXCL; its 32 bytes follow. *)
KeyCreated(p, at, made, is) ==
  /\ pc[p] = at
  /\ IF key = "none" THEN key' = "empty" /\ Goto(p, made)
                     ELSE key' = key /\ Goto(p, is)
  /\ UNCHANGED <<closed, file, tmp, op, doc, bytes, moved, risk, torn, faults>>

KeyFilled(p, made, is) ==
  /\ pc[p] = made
  /\ \E k \in Keys :
       /\ ~(IsDoc(file) /\ file.key = k) /\ k # key
       /\ key' = k
  /\ Goto(p, is)
  /\ UNCHANGED <<closed, file, tmp, op, doc, bytes, moved, risk, torn, faults>>

Opens(p) == IsDoc(bytes[p]) /\ bytes[p].key = key

Newer(p) == Opens(p) /\ Version(bytes[p]) > Build[p]

(* loadVersioned: a newer document throws NewerFormatError; what cannot be *)
(* opened is no document, or, for the connector, an error.                 *)
Open(p) ==
  /\ pc[p] = "open"
  /\ IF Newer(p) \/ (closed /\ ~Opens(p) /\ bytes[p] # Missing)
     THEN End(p)
     ELSE /\ doc' = [doc EXCEPT ![p] = IF Opens(p) THEN readVersioned(bytes[p]) ELSE Nothing]
          /\ Goto(p, "decide")
          /\ UNCHANGED <<op, bytes, moved>>
  /\ UNCHANGED <<closed, file, key, tmp, risk, torn, faults>>

(*************************************************************************)
(* What the operation does with what it read.                            *)
(*************************************************************************)
Loaded(p) ==
  /\ pc[p] = "decide" /\ op[p] = "load"
  /\ End(p)
  /\ UNCHANGED <<closed, file, key, tmp, risk, torn, faults>>

\* Wrong: what the other accounts had saved is dropped.
OnlyAccount(e, a, s) ==
  [b \in DOMAIN e |-> IF b = a THEN s ELSE NoEntry]

withAccount(e, a, s) == [e EXCEPT ![a] = s]
withoutAccount(e, a) == [e EXCEPT ![a] = NoEntry]

Save(p) ==
  /\ pc[p] = "decide" /\ op[p] = "save"
  /\ \E n \in Numbers :
       doc' = [doc EXCEPT ![p] =
                 withAccount(@, AccountOf[p], [n |-> n, shape |-> "folded"])]
  /\ Goto(p, IF closed THEN "seal" ELSE "writeKey")
  /\ UNCHANGED <<closed, file, key, tmp, op, bytes, moved, risk, torn, faults>>

(* FileSessionStore.clear removes an unreadable file; accountSessionStore.clear *)
(* leaves alone a document without this account, and removes an empty one.      *)
Unread(p) == bytes[p] # Missing /\ ~Opens(p)

Clear(p) ==
  /\ pc[p] = "decide" /\ op[p] = "clear"
  /\ IF ~Unread(p) /\ doc[p][AccountOf[p]] = NoEntry
     THEN End(p)
     ELSE LET rest == withoutAccount(doc[p], AccountOf[p]) IN
          /\ doc' = [doc EXCEPT ![p] = rest]
          /\ Goto(p, IF Unread(p) \/ rest = Nothing THEN "remove"
                     ELSE IF closed THEN "seal" ELSE "writeKey")
          /\ UNCHANGED <<op, bytes, moved>>
  /\ UNCHANGED <<closed, file, key, tmp, risk, torn, faults>>

(******************************************************************************)
(* Writing: sealed with the key, next to the target, then renamed over it.    *)
(******************************************************************************)
(* SealedStateFiles.write reads the key back; one that is gone cannot be read *)
(* and an empty one is no AES key: it throws before anything is written.      *)
Seal(p) ==
  /\ pc[p] = "seal"
  /\ IF key \notin Keys THEN End(p)
     ELSE /\ bytes' = [bytes EXCEPT ![p] = Keyed(Build[p], key, doc[p])]
          /\ Goto(p, "temp")
          /\ UNCHANGED <<op, doc, moved>>
  /\ UNCHANGED <<closed, file, key, tmp, risk, torn, faults>>

(* A leftover of a crashed write is removed and the file begun.               *)
Temp(p) ==
  /\ pc[p] = "temp"
  /\ tmp' = [tmp EXCEPT ![p] = Garbage]
  /\ Goto(p, "fill")
  /\ UNCHANGED <<closed, file, key, op, doc, bytes, moved, risk, torn, faults>>

Fill(p) ==
  /\ pc[p] = "fill"
  /\ tmp' = [tmp EXCEPT ![p] = bytes[p]]
  /\ Goto(p, "rename")
  /\ UNCHANGED <<closed, file, key, op, doc, bytes, moved, risk, torn, faults>>

(* The path now holds new: everyone between a read and a write is overtaken.  *)
Replaced(p, new) ==
  /\ file' = new
  /\ moved' = (moved \cup {q \in Procs : pc[q] # "idle"}) \ {p}

Rename(p) ==
  /\ pc[p] = "rename"
  /\ Replaced(p, tmp[p])
  /\ tmp' = [tmp EXCEPT ![p] = Missing]
  /\ risk' = IF closed THEN risk \cup {tmp[p]} ELSE {}
  /\ Goto(p, "sync")
  /\ UNCHANGED <<closed, key, op, doc, bytes, torn, faults>>

(* remove: rmSync throws when the file went in the meantime (unlinkSync too, *)
(* which the connector takes for done).                                      *)
Remove(p) ==
  /\ pc[p] = "remove"
  /\ IF file = Missing THEN End(p) /\ UNCHANGED <<file, risk>>
     ELSE /\ Replaced(p, Missing)
          /\ risk' = IF closed THEN risk \cup {Missing} ELSE {}
          /\ Goto(p, "sync")
          /\ UNCHANGED <<op, doc, bytes>>
  /\ UNCHANGED <<closed, key, tmp, torn, faults>>

(* durable: the directory is flushed before the call returns; a local write *)
(* returns at once and the system flushes it in its own time.               *)
Sync(p) ==
  /\ pc[p] = "sync"
  /\ End(p)
  /\ IF closed THEN risk' = {file} /\ torn' = FALSE ELSE UNCHANGED <<risk, torn>>
  /\ UNCHANGED <<closed, file, key, tmp, faults>>

(*************************************************************************)
(* What happens to the directory and to the processes.                   *)
(*************************************************************************)
Fault(f) == /\ f \in Faults /\ faults < MaxFaults
            /\ faults' = faults + 1

Crash(p) ==
  /\ pc[p] # "idle" /\ Fault("crash")
  /\ End(p)
  /\ torn' = (torn \/ pc[p] = "sync")
  /\ UNCHANGED <<closed, file, key, tmp, risk>>

(* Every process is gone. The connector flushes a file before its rename and   *)
(* the directory after it; a local file that was not flushed may be cut short. *)
PowerLoss ==
  /\ Fault("power")
  /\ IF closed THEN \E f \in risk : file' = f /\ risk' = {f}
               ELSE file' \in {file, Garbage} /\ risk' = {}
  /\ pc' = [p \in Procs |-> "idle"]
  /\ op' = [p \in Procs |-> "load"]
  /\ doc' = [p \in Procs |-> Nothing]
  /\ bytes' = [p \in Procs |-> Missing]
  /\ tmp' = [p \in Procs |-> Missing]
  /\ moved' = {} /\ torn' = FALSE
  /\ UNCHANGED <<closed, key>>

Damage ==
  /\ file # Missing /\ Fault("damage")
  /\ file' = Garbage /\ risk' = IF closed THEN {Garbage} ELSE {}
  /\ moved' = {q \in Procs : pc[q] # "idle"}
  /\ UNCHANGED <<closed, key, tmp, pc, op, doc, bytes, torn>>

KeyLost ==
  /\ ~closed /\ key \in Keys /\ Fault("keyLost")
  /\ key' = "none"
  /\ moved' = {q \in Procs : pc[q] # "idle"}
  /\ UNCHANGED <<closed, file, tmp, pc, op, doc, bytes, risk, torn>>

Step(p) ==
  \/ ReadBytes(p) \/ Open(p) \/ Loaded(p) \/ Save(p) \/ Clear(p)
  \/ KeyCreated(p, "readKey", "fillRead", "open") \/ KeyFilled(p, "fillRead", "open")
  \/ KeyCreated(p, "writeKey", "fillWrite", "seal") \/ KeyFilled(p, "fillWrite", "seal")
  \/ Seal(p) \/ Temp(p) \/ Fill(p) \/ Rename(p) \/ Remove(p) \/ Sync(p)

Next ==
  \/ \E p \in Procs : Step(p) \/ Crash(p)
  \/ PowerLoss \/ Damage \/ KeyLost

Spec == Init /\ [][Next]_vars

(*************************************************************************)
(* Properties.                                                           *)
(*************************************************************************)
Files == {Missing, Garbage}
           \cup [v: 0..1, key: Keys, account: Accounts, session: Session]
           \cup [v: Current..(Current + 1), key: Keys, entries: [Accounts -> Session \cup {NoEntry}]]

OneShape == [Accounts -> {s \in Session \cup {NoEntry} : s.shape = "folded"}]

(* The types; whatever version a document was read in, the sessions a process *)
(* works with have the one shape the providers read, tokens in `data`.        *)
TypeOK ==
  /\ closed \in BOOLEAN /\ torn \in BOOLEAN
  /\ file \in Files /\ risk \subseteq Files
  /\ key \in Keys \cup {"none", "empty"}
  /\ tmp \in [Procs -> Files] /\ bytes \in [Procs -> Files]
  /\ doc \in [Procs -> OneShape]
  /\ moved \subseteq Procs /\ faults \in 0..MaxFaults

(* p's step replaces or removes the file.                                     *)
Puts(p) == pc[p] \in {"rename", "remove"} /\ pc'[p] = "sync"

(* A save or a clear of one account keeps what every other account has   *)
(* saved, whatever version the file was in, unless the file was replaced *)
(* between the read and the rename (store.ts:113-118).                   *)
KeepsTheOthers ==
  \A p \in Procs : Puts(p) /\ p \notin moved =>
    \A a \in Accounts \ {AccountOf[p]} : (Entries(file)[a])' = Entries(file)[a]

(* A file of a later build is neither overwritten nor deleted by an earlier   *)
(* one that found it there, and the connector leaves alone whatever it cannot *)
(* read (versioned.ts:31, file-store.ts:56-61, storage.ts:38).                *)
UnreadStays ==
  \A p \in Procs : Puts(p) /\ p \notin moved =>
    /\ ~(Readable(file) /\ Version(file) > Build[p])
    /\ closed => (file = Missing \/ Readable(file))

(* What a process puts in place opens with the key in the directory: two that *)
(* make the first key at the same time agree on one (private-files.ts:70-83). *)
OpensAfterwards ==
  \A p \in Procs : Puts(p) /\ p \notin moved => (file = Missing \/ Readable(file))'

(* Nobody ever finds half a file at the path, wherever a process stopped; for *)
(* the connector not even a power loss leaves one: at worst it brings back a  *)
(* damaged file that a rename had just replaced (private-files.ts:5-8).       *)
NeverHalfAFile ==
  file' = Garbage /\ file # Garbage =>
    (Damage \/ (PowerLoss /\ (closed => Garbage \in risk)))

(* What the connector's write or clear has answered survives a power loss.    *)
AnsweredWritesLast ==
  closed => (risk = {file} \/ torn \/ \E p \in Procs : pc[p] = "sync")
=============================================================================
