---------------------------- MODULE TypedClient ----------------------------
(***************************************************************************)
(* The typed REST client of an app (client/index.ts): calls that share one *)
(* pair of tokens, one refresh at a time, a token store that is slower     *)
(* than memory.  Pairs are numbered as the connector's authorization       *)
(* server hands them out (http/oauth.ts, here its `grant' and `age').      *)
(*                                                                         *)
(* A call is where its code waits: for load(), for the refresh under way,  *)
(* for the answer to its request or to the one retry.                      *)
(***************************************************************************)
EXTENDS Naturals, FiniteSets

CONSTANTS
    Calls,        \* calls of the app under way at once
    MaxPairs,     \* bound: pairs the grant hands out before it runs out
    KnowsExpiry,  \* pairs whose answer said how long the token lasts
    Faults        \* of "load", "save", "lost", "unavailable", "reload"

VARIABLES
    grant,       \* at the connector: whether it lives, its newest pair
    age,         \* of each access token: 0, 1 within EXPIRY_MARGIN_MS, 2 over
    tokens,      \* the pair in memory, 0 for none
    stored,      \* the pair in the app's TokenStore
    loaded,      \* load(): "no", "loading", "done", "broken"
    refreshing,  \* the one refresh: where it is, the pair it presents, the answer
    call,        \* per call: where it is, the token it used, where it goes on
    spent,       \* pairs whose successor has reached this client
    unsure       \* an answer was lost or taken for a refusal, or a save failed

vars == <<grant, age, tokens, stored, loaded, refreshing, call, spent, unsure>>

Pairs == 1 .. MaxPairs
NoPair == 0

AtRest == [at |-> "idle", pair |-> NoPair, answer |-> "none"]
Idle == [at |-> "idle", used |-> NoPair, next |-> "sending"]

TypeOK ==
    /\ grant \in [live: BOOLEAN, newest: Pairs]
    /\ age \in [Pairs -> 0 .. 2]
    /\ tokens \in Pairs \cup {NoPair}
    /\ stored \in Pairs \cup {NoPair}
    /\ loaded \in {"no", "loading", "done", "broken"}
    /\ refreshing \in [at: {"idle", "asked", "answered", "saving", "clearing"},
                       pair: Pairs \cup {NoPair},
                       answer: {"none", "pair", "refused"}]
    /\ call \in [Calls -> [at: {"idle", "loading", "waiting", "sending",
                                "resending", "refused", "clearing"},
                           used: Pairs \cup {NoPair},
                           next: {"sending", "resending"}]]
    /\ spent \subseteq Pairs
    /\ unsure \in BOOLEAN

\* The app has signed in: the store holds the first pair.
Init ==
    /\ grant = [live |-> TRUE, newest |-> 1]
    /\ age = [n \in Pairs |-> 0]
    /\ tokens = NoPair
    /\ stored = 1
    /\ loaded = "no"
    /\ refreshing = AtRest
    /\ call = [c \in Calls |-> Idle]
    /\ spent = {}
    /\ unsure = FALSE

Honoured(n) == grant.live /\ age[n] < 2

Fails(c) == call' = [call EXCEPT ![c] = Idle]

Sends(c, n, attempt) ==
    call' = [call EXCEPT ![c] = [at |-> attempt, used |-> n, next |-> attempt]]

Waits(c, n, attempt) ==
    call' = [call EXCEPT ![c] = [at |-> "waiting", used |-> n, next |-> attempt]]

-----------------------------------------------------------------------------
(* The calls. *)

Begin(c) ==
    /\ call[c].at = "idle"
    /\ call' = [call EXCEPT ![c].at = "loading"]
    /\ loaded' = IF loaded = "no" THEN "loading" ELSE loaded
    /\ UNCHANGED <<grant, age, tokens, stored, refreshing, spent, unsure>>

\* The promise of load() is kept, a rejected one too.
Load ==
    /\ loaded = "loading"
    /\ \/ loaded' = "done" /\ tokens' = stored
       \/ "load" \in Faults /\ loaded' = "broken" /\ UNCHANGED tokens
    /\ UNCHANGED <<grant, age, stored, refreshing, call, spent, unsure>>

\* A token newer than n, for the attempt that needs it.
Renewed(c, n, attempt) ==
    \/ /\ tokens = NoPair
       /\ Fails(c)
       /\ UNCHANGED refreshing
    \/ /\ tokens \notin {NoPair, n}
       /\ Sends(c, tokens, attempt)
       /\ UNCHANGED refreshing
    \/ /\ tokens = n
       /\ Waits(c, n, attempt)
       /\ refreshing' = IF refreshing.at = "idle"
                        THEN [at |-> "asked", pair |-> tokens, answer |-> "none"]
                        ELSE refreshing

\* What accessToken() does once load() has settled.
AccessToken(c) ==
    \/ /\ loaded = "broken"
       /\ Fails(c)
       /\ UNCHANGED refreshing
    \/ /\ loaded = "done" /\ refreshing.at # "idle"
       /\ Waits(c, NoPair, "sending")
       /\ UNCHANGED refreshing
    \/ /\ loaded = "done" /\ refreshing.at = "idle" /\ tokens = NoPair
       /\ Fails(c)
       /\ UNCHANGED refreshing
    \/ /\ loaded = "done" /\ refreshing.at = "idle" /\ tokens # NoPair
       /\ IF tokens \in KnowsExpiry /\ age[tokens] >= 1
          THEN Renewed(c, tokens, "sending")
          ELSE Sends(c, tokens, "sending") /\ UNCHANGED refreshing

Proceed(c) ==
    /\ call[c].at = "loading"
    /\ AccessToken(c)
    /\ UNCHANGED <<grant, age, tokens, stored, loaded, spent, unsure>>

\* Data, a problem, an error without details, or no answer: the call ends.
Answered(c) ==
    /\ call[c].at \in {"sending", "resending"}
    /\ Fails(c)
    /\ UNCHANGED <<grant, age, tokens, stored, loaded, refreshing, spent, unsure>>

Unauthorized(c) ==
    /\ call[c].at = "sending"
    /\ ~Honoured(call[c].used)
    /\ Renewed(c, call[c].used, "resending")
    /\ UNCHANGED <<grant, age, tokens, stored, loaded, spent, unsure>>

\* The retry is refused as well; its problem details are read first.
UnauthorizedAgain(c) ==
    /\ call[c].at = "resending"
    /\ ~Honoured(call[c].used)
    /\ call' = [call EXCEPT ![c].at = "refused"]
    /\ UNCHANGED <<grant, age, tokens, stored, loaded, refreshing, spent, unsure>>

Forget(c) ==
    /\ call[c].at = "refused"
    /\ tokens' = NoPair
    /\ call' = [call EXCEPT ![c].at = "clearing"]
    /\ UNCHANGED <<grant, age, stored, loaded, refreshing, spent, unsure>>

Forgotten(c) ==
    /\ call[c].at = "clearing"
    /\ stored' = NoPair
    /\ Fails(c)
    /\ UNCHANGED <<grant, age, tokens, loaded, refreshing, spent, unsure>>

-----------------------------------------------------------------------------
(* The refresh.  Everyone who waits for it goes on when it settles. *)

Resumed(n) ==
    [c \in Calls |-> IF call[c].at = "waiting"
                     THEN [at |-> call[c].next, used |-> n, next |-> call[c].next]
                     ELSE call[c]]

Rejected == [c \in Calls |-> IF call[c].at = "waiting" THEN Idle ELSE call[c]]

ExchangeForever ==
    /\ refreshing.at = "asked"
    /\ grant' = [grant EXCEPT !.newest = @ + 1]
    /\ refreshing' = [refreshing EXCEPT !.at = "answered", !.answer = "pair"]
    /\ UNCHANGED <<age, tokens, stored, loaded, call, spent, unsure>>

\* The token endpoint: the newest refresh token buys the next pair, an older
\* one ends the connection; at the bound the grant has run out.
Exchange ==
    LET good == grant.live /\ refreshing.pair = grant.newest /\ grant.newest < MaxPairs
    IN /\ refreshing.at = "asked"
       /\ grant' = IF good THEN [grant EXCEPT !.newest = @ + 1]
                           ELSE [grant EXCEPT !.live = FALSE]
       /\ refreshing' = [refreshing EXCEPT !.at = "answered",
                                           !.answer = IF good THEN "pair" ELSE "refused"]
       /\ UNCHANGED <<age, tokens, stored, loaded, call, spent, unsure>>

\* An error of the connector, or an answer that is not a pair, is a refusal
\* to this client.
Unavailable ==
    /\ "unavailable" \in Faults
    /\ refreshing.at = "asked"
    /\ refreshing' = [refreshing EXCEPT !.at = "answered", !.answer = "refused"]
    /\ unsure' = TRUE
    /\ UNCHANGED <<grant, age, tokens, stored, loaded, call, spent>>

\* The request fails before or after the connector has seen it.
RefreshLost ==
    /\ "lost" \in Faults
    /\ refreshing.at \in {"asked", "answered"}
    /\ refreshing' = AtRest
    /\ call' = Rejected
    /\ unsure' = TRUE
    /\ UNCHANGED <<grant, age, tokens, stored, loaded, spent>>

NextPair == refreshing.pair + 1

RefreshAnswer ==
    /\ refreshing.at = "answered"
    /\ \/ /\ refreshing.answer = "pair"
          /\ tokens' = NextPair
          /\ spent' = spent \cup {refreshing.pair}
          /\ refreshing' = [refreshing EXCEPT !.at = "saving"]
       \/ /\ refreshing.answer = "refused"
          /\ tokens' = NoPair
          /\ refreshing' = [refreshing EXCEPT !.at = "clearing"]
          /\ UNCHANGED spent
    /\ UNCHANGED <<grant, age, stored, loaded, call, unsure>>

\* save() resolves: the pair is stored and everyone may use it.
Saved ==
    /\ refreshing.at = "saving"
    /\ stored' = NextPair
    /\ refreshing' = AtRest
    /\ call' = Resumed(NextPair)
    /\ UNCHANGED <<grant, age, tokens, loaded, spent, unsure>>

SaveFails ==
    /\ "save" \in Faults
    /\ refreshing.at = "saving"
    /\ refreshing' = AtRest
    /\ call' = Rejected
    /\ unsure' = TRUE
    /\ UNCHANGED <<grant, age, tokens, stored, loaded, spent>>

Cleared ==
    /\ refreshing.at = "clearing"
    /\ stored' = NoPair
    /\ refreshing' = AtRest
    /\ call' = Rejected
    /\ UNCHANGED <<grant, age, tokens, loaded, spent, unsure>>

-----------------------------------------------------------------------------
(* The world. *)

\* A token does not end while a call is out that began before it was issued
\* or that uses it: calls are shorter than lifetimes.
Ages(n) ==
    /\ n <= grant.newest
    /\ age[n] < 2
    /\ \A c \in Calls : call[c].at \in {"idle", "loading"} \/ call[c].used > n
    /\ age' = [age EXCEPT ![n] = @ + 1]
    /\ UNCHANGED <<grant, tokens, stored, loaded, refreshing, call, spent, unsure>>

\* The owner disconnects the app.
Revoke ==
    /\ grant.live
    /\ grant' = [grant EXCEPT !.live = FALSE]
    /\ UNCHANGED <<age, tokens, stored, loaded, refreshing, call, spent, unsure>>

\* The app is closed and opened: only the store is left.
Reload ==
    /\ "reload" \in Faults
    /\ tokens' = NoPair
    /\ loaded' = "no"
    /\ refreshing' = AtRest
    /\ call' = [c \in Calls |-> Idle]
    /\ spent' = {}
    /\ unsure' = (unsure \/ refreshing.at # "idle")
    /\ UNCHANGED <<grant, age, stored>>

Next ==
    \/ \E c \in Calls :
          \/ Begin(c) \/ Proceed(c) \/ Answered(c) \/ Unauthorized(c)
          \/ UnauthorizedAgain(c) \/ Forget(c) \/ Forgotten(c)
    \/ Load \/ Exchange \/ Unavailable \/ RefreshLost \/ RefreshAnswer
    \/ Saved \/ SaveFails \/ Cleared
    \/ \E n \in Pairs : Ages(n)
    \/ Revoke \/ Reload

\* Promises settle: the connector, the store and the network answer.
Fairness ==
    /\ \A c \in Calls :
          /\ WF_vars(Proceed(c))
          /\ WF_vars(Answered(c) \/ Unauthorized(c) \/ UnauthorizedAgain(c))
          /\ WF_vars(Forget(c))
          /\ WF_vars(Forgotten(c))
    /\ WF_vars(Load)
    /\ WF_vars(Exchange)
    /\ WF_vars(RefreshAnswer)
    /\ WF_vars(Saved)
    /\ WF_vars(Cleared)

Spec == Init /\ [][Next]_vars /\ Fairness

-----------------------------------------------------------------------------
(* Properties. *)

\* A refresh token whose successor has arrived is never presented again, even
\* if saving the successor fails: the connector would end the connection
\* ("the old refresh token is spent, so it must never be sent again").
NeverReplays == refreshing'.at = "asked" => refreshing'.pair \notin spent

\* While the connection lives, no answer was lost and nothing is being
\* written, the store holds the newest pair and memory agrees: no refusal of
\* an old token, in whatever order the answers come, makes the app forget a
\* connection that is still good, and a reload finds it.
StoreHoldsNewest ==
    grant.live /\ ~unsure /\ refreshing.at \in {"idle", "asked"} =>
        /\ stored = grant.newest
        /\ loaded = "done" => tokens = stored

\* Every call ends, whatever happens to the refresh that it waits for.
Called(c) == call[c].at # "idle"
CallsEnd == \A c \in Calls : Called(c) ~> ~Called(c)
=============================================================================
