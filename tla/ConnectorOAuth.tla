--------------------------- MODULE ConnectorOAuth ---------------------------
(***************************************************************************)
(* The connector's authorization server: ConnectorOAuthProvider            *)
(* (http/oauth.ts) over its encrypted repository (http/storage.ts).  Apps  *)
(* register, ask for the owner's consent, exchange the code it yields for  *)
(* a pair of tokens and the refresh token of each pair for the next one.   *)
(*                                                                         *)
(* The methods run without an await, so each is one step; what may come    *)
(* between the steps is the failure of a write, a restart, and the end of  *)
(* any lifetime.  A pair of tokens is <<g, n>>: the grant and the value of *)
(* its rotation counter, which the refresh token carries; <<g, 0>> is the  *)
(* grant's authorization code.                                             *)
(***************************************************************************)
EXTENDS Integers, Sequences, FiniteSets

CONSTANTS
    ClientIds,        \* registrations
    RequestIds,       \* consent requests
    GrantIds,
    Networks,         \* where requests come from (clientKey)
    Scopes,
    MaxClients,       \* limits.clients
    MaxPending,       \* limits.pending
    MaxPerRequester,  \* limits.pendingPerRequester
    MaxGrants,        \* 64
    MaxTokens,        \* 8192
    Faults,           \* "write": a write fails, the file is the old one; "sync":
                      \* it fails after the file was replaced; "answer": an
                      \* answer is lost; "restart": the process restarts
    Ending,           \* bound: what may run out in the instance
    MaxRotations,     \* bound: the rotation counter
    MaxRuns           \* bound: processes one after the other

ASSUME OAuthAssumption ==
    /\ {MaxClients, MaxPending, MaxPerRequester, MaxGrants, MaxTokens}
         \subseteq Nat \ {0}
    /\ MaxPerRequester <= MaxPending
    /\ Faults \subseteq {"write", "sync", "answer", "restart"}
    /\ MaxRotations \in Nat \ {0}
    /\ MaxRuns \in Nat \ {0}

\* No value is the id of two things.
ASSUME KindsDiffer ==
    LET pairs == GrantIds \X (0 .. MaxRotations)
    IN  /\ (ClientIds \cup RequestIds) \cap (GrantIds \cup pairs) = {}
        /\ GrantIds \cap pairs = {}
        /\ "none" \notin ClientIds \cup RequestIds \cup GrantIds

VARIABLES
    state,      \* ConnectorOAuthProvider.state
    disk,       \* oauth.enc
    over,       \* whose lifetime has ended: requests, grants, codes, pairs, and
                \* registrations a day old
    run,        \* the running process; requesterKey is its own
    held,       \* the codes and pairs that reached the app
    born,       \* grants that have been on disk
    revoked,    \* grants whose revocation a write has confirmed
    spent,      \* codes and pairs exchanged so far
    unsure      \* grants of which an answer was lost, or is only on disk

vars == <<state, disk, over, run, held, born, revoked, spent, unsure>>

Pairs == GrantIds \X (1 .. MaxRotations)
Codes == GrantIds \X {0}

Consents == [id: RequestIds, client: ClientIds,
             from: Networks \X (1 .. MaxRuns), scopes: SUBSET Scopes]

\* Functions on some of the members of S.
Some(S, T) == UNION {[D -> T] : D \in SUBSET S}

Nothing == [x \in {} |-> x]

EmptyState == [clients |-> <<>>, pending |-> <<>>, codes |-> Nothing,
               grants |-> Nothing, refresh |-> Nothing, tokens |-> Nothing]

Init ==
    /\ state = EmptyState
    /\ disk = EmptyState
    /\ over = {}
    /\ run = 1
    /\ held = {}
    /\ born = {}
    /\ revoked = {}
    /\ spent = {}
    /\ unsure = {}

-----------------------------------------------------------------------------
(* Tables. *)

Only(f, S) == [x \in DOMAIN f \cap S |-> f[x]]
Put(f, x, y) == [z \in DOMAIN f \cup {x} |-> IF z = x THEN y ELSE f[z]]
RemovedAt(s, i) == SubSeq(s, 1, i - 1) \o SubSeq(s, i + 1, Len(s))
\* A random id, never used before.
Fresh(S, used) ==
    IF S \subseteq used THEN "none" ELSE CHOOSE x \in S : x \notin used

First(S) == CHOOSE i \in S : \A j \in S : i <= j

InUse(s, c) ==
    \/ \E g \in DOMAIN s.grants : s.grants[g].client = c
    \/ \E i \in DOMAIN s.pending : s.pending[i].client = c

\* prune()
Pruned(s) ==
    LET lasting == GrantIds \ over
        gone    == DOMAIN s.grants \cap over
        IsOpen(p) == p.id \notin over
    IN  [s EXCEPT !.pending = SelectSeq(@, IsOpen),
                  !.codes   = Only(@, {g \in GrantIds : <<g, 0>> \notin over}),
                  !.tokens  = Only(@, Pairs \ over),
                  !.grants  = Only(@, lasting),
                  !.refresh = Only(@, GrantIds \ gone)]

\* save(): memory has changed already when the write fails.
Stored(s) == disk' = s /\ born' = born \cup DOMAIN s.grants

Saved(s) == state' = s /\ Stored(s)

SaveFails(s) ==
    /\ state' = s
    /\ \/ "write" \in Faults /\ UNCHANGED <<disk, born>>
       \/ "sync" \in Faults /\ Stored(s)

Save(s) == Saved(s) \/ SaveFails(s)

-----------------------------------------------------------------------------
(* Registration and consent requests: anyone may send them. *)

\* Registrations a day old that nobody uses, dropped by the next one.
Swept(s) ==
    LET Stays(c) == ~(c \in over /\ ~InUse(s, c))
    IN  [s EXCEPT !.clients = SelectSeq(@, Stays)]

\* A full table makes room by dropping the oldest idle registration, if any.
RoomForClient(s) ==
    LET idle == {i \in DOMAIN s.clients : ~InUse(s, s.clients[i])}
    IN  IF Len(s.clients) < MaxClients THEN {s.clients}
        ELSE {RemovedAt(s.clients, i) : i \in {j \in idle : j = First(idle)}}

Known(s) == {s.clients[i] : i \in DOMAIN s.clients}
Waiting(s) == {s.pending[i].id : i \in DOMAIN s.pending}

RegisterClient ==
    LET s == Swept(Pruned(state))
        c == Fresh(ClientIds, Known(state) \cup Known(disk))
    IN  /\ c \in ClientIds
        /\ \E clients \in RoomForClient(s) :
             Save([s EXCEPT !.clients = Append(clients, c)])
        /\ over' = over \ {c}
        /\ UNCHANGED <<run, held, revoked, spent, unsure>>

\* Only when every registration is in use is the caller turned away.
RegisterRefused ==
    LET s == Swept(Pruned(state))
    IN  /\ RoomForClient(s) = {}
        /\ state' = s
        /\ UNCHANGED <<disk, over, run, held, born, revoked, spent, unsure>>

Share(s, i) ==
    Cardinality({j \in DOMAIN s.pending : s.pending[j].from = s.pending[i].from})

\* admitPending(): whoever holds the most requests loses their oldest one.
RoomForRequest(s, from) ==
    LET own  == {i \in DOMAIN s.pending : s.pending[i].from = from}
        most == {i \in DOMAIN s.pending :
                   \A j \in DOMAIN s.pending : Share(s, j) <= Share(s, i)}
    IN  CASE Cardinality(own) >= MaxPerRequester -> RemovedAt(s.pending, First(own))
          [] /\ Cardinality(own) < MaxPerRequester
             /\ Len(s.pending) >= MaxPending     -> RemovedAt(s.pending, First(most))
          [] OTHER                                -> s.pending

\* authorize() of a registered client.  Requests of an earlier process keep
\* the pseudonym it gave them.
Authorize(c, network, scopes) ==
    LET s == Pruned(state)
        q == Fresh(RequestIds, Waiting(state) \cup Waiting(disk))
        from == <<network, run>>
    IN  /\ c \in Known(state)
        /\ scopes # {}
        /\ q \in RequestIds
        /\ Save([s EXCEPT !.pending =
                   Append(RoomForRequest(s, from),
                          [id |-> q, client |-> c, from |-> from, scopes |-> scopes])])
        /\ over' = over \ {q}
        /\ UNCHANGED <<run, held, revoked, spent, unsure>>

-----------------------------------------------------------------------------
(* The owner's answer. *)

Without(s, q) ==
    LET IsOther(p) == p.id # q
    IN  [s EXCEPT !.pending = SelectSeq(@, IsOther)]

Answerable(i, selected) ==
    /\ i \in DOMAIN state.pending
    /\ state.pending[i].id \notin over
    /\ selected # {} /\ selected \subseteq state.pending[i].scopes

UsedIds == born \cup revoked \cup DOMAIN state.grants \cup DOMAIN state.codes

\* Wrong: the code leaves before the grant is written.
ApproveUnwritten(i, selected) ==
    LET s == Pruned(state)
        p == state.pending[i]
        g == Fresh(GrantIds, UsedIds)
    IN  /\ Answerable(i, selected)
        /\ Cardinality(DOMAIN s.grants) < MaxGrants
        /\ g \in GrantIds
        /\ state' = [Without(s, p.id) EXCEPT
                        !.grants = Put(@, g, [client |-> p.client, scopes |-> selected]),
                        !.codes = Put(@, g, "unused")]
        /\ held' = held \cup {<<g, 0>>}
        /\ over' = over \ {g, <<g, 0>>}
        /\ UNCHANGED <<disk, run, born, revoked, spent, unsure>>

\* approve()
Approve(i, selected) ==
    LET s == Pruned(state)
        p == state.pending[i]
        g == Fresh(GrantIds, UsedIds)
        next == [Without(s, p.id) EXCEPT
                   !.grants = Put(@, g, [client |-> p.client, scopes |-> selected]),
                   !.codes = Put(@, g, "unused")]
    IN  /\ Answerable(i, selected)
        /\ Cardinality(DOMAIN s.grants) < MaxGrants
        /\ g \in GrantIds
        /\ \/ Saved(next) /\ held' = held \cup {<<g, 0>>}
           \/ SaveFails(next) /\ UNCHANGED held
        /\ over' = over \ {g, <<g, 0>>}
        /\ UNCHANGED <<run, revoked, spent, unsure>>

\* A full table of grants refuses.
ApproveRefused(i, selected) ==
    /\ Answerable(i, selected)
    /\ Cardinality(DOMAIN Pruned(state).grants) >= MaxGrants
    /\ state' = Pruned(state)
    /\ UNCHANGED <<disk, over, run, held, born, revoked, spent, unsure>>

Deny(i) ==
    /\ i \in DOMAIN state.pending
    /\ state.pending[i].id \notin over
    /\ Save(Without(state, state.pending[i].id))
    /\ UNCHANGED <<over, run, held, revoked, spent, unsure>>

-----------------------------------------------------------------------------
(* Grants and tokens. *)

\* verifyGrant() and verifyAccessToken()
Verified(s, g) == g \in DOMAIN s.grants /\ g \notin over
Accepted(s, pair) ==
    pair \in DOMAIN s.tokens /\ pair \notin over /\ Verified(s, pair[1])

WithoutGrant(s, g) ==
    [s EXCEPT !.grants = Only(@, GrantIds \ {g}),
              !.refresh = Only(@, GrantIds \ {g}),
              !.codes = Only(@, GrantIds \ {g}),
              !.tokens = Only(@, {pair \in Pairs : pair[1] # g})]

\* Wrong: memory forgets the grant, the file does not.
RevokeGrantUnsaved(g) ==
    /\ g \in DOMAIN state.grants
    /\ state' = WithoutGrant(state, g)
    /\ UNCHANGED disk
    /\ revoked' = revoked \cup {g}
    /\ UNCHANGED <<over, run, held, born, spent, unsure>>

\* revokeGrant() of a grant that is there; of any other it does nothing.
RevokeGrant(g) ==
    /\ g \in DOMAIN state.grants
    /\ \/ Saved(WithoutGrant(state, g)) /\ revoked' = revoked \cup {g}
       \/ SaveFails(WithoutGrant(state, g)) /\ UNCHANGED revoked
    /\ UNCHANGED <<over, run, held, spent, unsure>>

\* The next pair of a grant, and its code used if it came by one.
Counter(s, g) == IF g \in DOMAIN s.refresh THEN s.refresh[g].counter ELSE 0

Rotated(s, g, scopes, byCode) ==
    LET n == Counter(s, g) + 1
    IN  [s EXCEPT
           !.refresh = Put(@, g, [counter |-> n, scopes |-> scopes]),
           !.tokens = Put(@, <<g, n>>, scopes),
           !.codes = IF byCode THEN Put(@, g, "used") ELSE @]

TokensFull(s) == Cardinality(DOMAIN s.tokens) >= MaxTokens

IssueRefused(s) ==
    /\ TokensFull(s)
    /\ state' = s
    /\ UNCHANGED <<disk, over, run, held, born, revoked, spent, unsure>>

\* The next state is published, and the pair on its way.
Issued(next, presented, pair) ==
    /\ Saved(next)
    /\ spent' = spent \cup {presented}
    /\ \/ held' = held \cup {pair} /\ UNCHANGED unsure
       \/ "answer" \in Faults /\ unsure' = unsure \cup {pair[1]} /\ UNCHANGED held
    /\ UNCHANGED <<over, run, revoked>>

\* Wrong: memory has moved on when the write fails.
IssueFailsConsuming(s, next, g) ==
    /\ "write" \in Faults
    /\ state' = next
    /\ UNCHANGED <<disk, over, run, held, born, revoked, spent, unsure>>

IssueFails(s, next, g) ==
    /\ state' = s
    /\ \/ "write" \in Faults /\ UNCHANGED <<disk, born, unsure>>
       \/ "sync" \in Faults /\ Stored(next) /\ unsure' = unsure \cup {g}
    /\ UNCHANGED <<over, run, held, revoked, spent>>

\* Wrong: published before it is written.
IssueUnwritten(presented, scopes) ==
    LET g == presented[1]
        s == Pruned(state)
        next == Rotated(s, g, scopes, presented[2] = 0)
    IN  /\ Counter(s, g) < MaxRotations
        /\ ~TokensFull(s)
        /\ state' = next
        /\ held' = held \cup {<<g, Counter(next, g)>>}
        /\ spent' = spent \cup {presented}
        /\ UNCHANGED <<disk, over, run, born, revoked, unsure>>

\* issue(): the next state is published only after persistence succeeds;
\* failed issuance is retryable.
Issue(presented, scopes) ==
    LET g == presented[1]
        s == Pruned(state)
        next == Rotated(s, g, scopes, presented[2] = 0)
    IN  /\ Counter(s, g) < MaxRotations
        /\ \/ IssueRefused(s)
           \/ ~TokensFull(s) /\ Issued(next, presented, <<g, Counter(next, g)>>)
           \/ ~TokensFull(s) /\ IssueFails(s, next, g)

CodeIsGood(g) ==
    /\ g \in DOMAIN state.codes
    /\ <<g, 0>> \notin over
    /\ Verified(state, g)

\* Wrong: a code may be exchanged again.
ExchangeCodeAgain(c, g) ==
    /\ <<g, 0>> \in held
    /\ CodeIsGood(g)
    /\ state.grants[g].client = c
    /\ Issue(<<g, 0>>, state.grants[g].scopes)

\* exchangeAuthorizationCode()
ExchangeCode(c, g) ==
    /\ <<g, 0>> \in held
    /\ CodeIsGood(g) /\ state.codes[g] = "unused"
    /\ state.grants[g].client = c
    /\ Issue(<<g, 0>>, state.grants[g].scopes)

\* code(), also for the challenge: a second presentation by the same client
\* withdraws what the code gave.
ReuseCode(c, g) ==
    /\ <<g, 0>> \in held
    /\ g \in DOMAIN state.codes /\ state.codes[g] = "used"
    /\ <<g, 0>> \notin over
    /\ g \in DOMAIN state.grants /\ state.grants[g].client = c
    /\ RevokeGrant(g)

\* readRefresh() knows every refresh token it ever made for a grant it has.
Recognised(c, pair) ==
    /\ pair \in held /\ pair[2] > 0
    /\ pair[1] \in DOMAIN state.refresh
    /\ Verified(state, pair[1])
    /\ state.grants[pair[1]].client = c

\* Wrong: the scopes of the consent are there to choose from again.
RefreshWidening(c, pair, selected) ==
    LET g == pair[1] IN
    /\ Recognised(c, pair)
    /\ pair[2] = state.refresh[g].counter
    /\ selected # {} /\ selected \subseteq Scopes
    /\ Issue(pair, selected)

\* exchangeRefreshToken()
Refresh(c, pair, selected) ==
    LET g == pair[1] IN
    /\ Recognised(c, pair)
    /\ pair[2] = state.refresh[g].counter
    /\ selected # {} /\ selected \subseteq state.refresh[g].scopes
    /\ Issue(pair, selected)

ReplayRefresh(c, pair) ==
    /\ Recognised(c, pair)
    /\ pair[2] # state.refresh[pair[1]].counter
    /\ RevokeGrant(pair[1])

\* revokeToken(): by an access token or a refresh token of the client, old
\* ones included.
RevokeToken(c, pair) ==
    /\ pair \in held /\ pair[2] > 0
    /\ pair \in DOMAIN state.tokens \/ pair[1] \in DOMAIN state.refresh
    /\ pair[1] \in DOMAIN state.grants
    /\ state.grants[pair[1]].client = c
    /\ RevokeGrant(pair[1])

RevokeAll ==
    LET s == [EmptyState EXCEPT !.clients = state.clients]
    IN  /\ \/ Saved(s) /\ revoked' = revoked \cup DOMAIN state.grants
           \/ SaveFails(s) /\ UNCHANGED revoked
        /\ UNCHANGED <<over, run, held, spent, unsure>>

\* listGrants() prunes and does not save.
ListGrants ==
    /\ state' = Pruned(state)
    /\ state' # state
    /\ UNCHANGED <<disk, over, run, held, born, revoked, spent, unsure>>

-----------------------------------------------------------------------------
(* Time and the process. *)

Mortal(s) ==
    Known(s) \cup Waiting(s) \cup DOMAIN s.grants \cup DOMAIN s.tokens
      \cup {<<g, 0>> : g \in DOMAIN s.codes}

RunsOut(x) ==
    /\ x \in Ending
    /\ x \in (Mortal(state) \cup Mortal(disk)) \ over
    /\ over' = over \cup {x}
    /\ UNCHANGED <<state, disk, run, held, born, revoked, spent, unsure>>

Restart ==
    /\ "restart" \in Faults
    /\ run < MaxRuns
    /\ run' = run + 1
    /\ state' = disk
    /\ UNCHANGED <<disk, over, held, born, revoked, spent, unsure>>

ByApp ==
    \/ RegisterClient \/ RegisterRefused
    \/ \E c \in ClientIds :
         \/ \E n \in Networks, scopes \in SUBSET Scopes : Authorize(c, n, scopes)
         \/ \E g \in GrantIds : ExchangeCode(c, g) \/ ReuseCode(c, g)
         \/ \E pair \in held :
              \/ \E selected \in SUBSET Scopes : Refresh(c, pair, selected)
              \/ ReplayRefresh(c, pair)
              \/ RevokeToken(c, pair)

ByOwner ==
    \/ \E i \in 1 .. MaxPending :
         \/ \E selected \in SUBSET Scopes :
              Approve(i, selected) \/ ApproveRefused(i, selected)
         \/ Deny(i)
    \/ \E g \in GrantIds : RevokeGrant(g)
    \/ RevokeAll
    \/ ListGrants

Next ==
    \/ ByApp
    \/ ByOwner
    \/ \E x \in Ending : RunsOut(x)
    \/ Restart

Spec == Init /\ [][Next]_vars

-----------------------------------------------------------------------------
(* Properties. *)

ConsentsOK(s) ==
    /\ s.clients \in Seq(ClientIds) /\ Len(s.clients) <= MaxClients
    /\ s.pending \in Seq(Consents) /\ Len(s.pending) <= MaxPending

GrantsOK(s) ==
    /\ s.codes \in Some(GrantIds, {"unused", "used"})
    /\ s.grants \in Some(GrantIds, [client: ClientIds, scopes: SUBSET Scopes])
    /\ s.refresh \in Some(GrantIds, [counter: 1 .. MaxRotations,
                                     scopes: SUBSET Scopes])
    /\ s.tokens \in Some(Pairs, SUBSET Scopes)

TypeOK ==
    /\ \A s \in {state, disk} : ConsentsOK(s) /\ GrantsOK(s)
    /\ over \subseteq ClientIds \cup RequestIds \cup GrantIds \cup Pairs \cup Codes
    /\ run \in 1 .. MaxRuns
    /\ held \subseteq Pairs \cup Codes
    /\ born \subseteq GrantIds
    /\ revoked \subseteq GrantIds
    /\ spent \subseteq Pairs \cup Codes
    /\ unsure \subseteq GrantIds

\* A registration that holds a grant or waits for consent is never evicted,
\* in memory or on disk: without it the app could not even use its tokens.
ClientsInUseStay ==
    \A s \in {state, disk} : \A c \in ClientIds : InUse(s, c) => c \in Known(s)

\* Whoever holds many requests makes room: the only request of a network is
\* displaced by a new one only when every place is taken by another network.
OnlyRequestStays ==
    \A i \in DOMAIN state.pending :
        LET p == state.pending[i] IN
        /\ run' = run
        /\ ~(Waiting(state') \subseteq Waiting(state))
        /\ p.id \notin over
        /\ p.id \notin Waiting(state')
        /\ Share(Pruned(state), CHOOSE j \in DOMAIN Pruned(state).pending :
                                   Pruned(state).pending[j] = p) = 1
        => Cardinality({state.pending[j].from : j \in DOMAIN state.pending})
             = MaxPending

\* A revocation that was confirmed is final, whoever holds what tokens and
\* however often the process restarts.
RevocationIsFinal ==
    revoked \cap (DOMAIN state.grants \cup DOMAIN disk.grants) = {}

\* What the connector honours has been written down: no restart turns an app
\* away that was let in before, or lets its old refresh token in again.
HonouredIsStored ==
    \A pair \in held :
        /\ Accepted(state, pair) => Accepted(disk, pair)
        /\ \A s \in {state, disk} :
             pair[1] \in DOMAIN s.grants => Counter(s, pair[1]) >= pair[2]

\* The newest pair an app has got is the one it may exchange, and its code
\* while it has none: failed persistence does not consume a code or a refresh
\* token, unless the file was replaced all the same.
NewestIsGood ==
    \A g \in DOMAIN state.grants \ unsure :
        \A n \in 0 .. MaxRotations :
            /\ <<g, n>> \in held
            /\ \A m \in n + 1 .. MaxRotations : <<g, m>> \notin held
            => /\ Counter(state, g) = n
               /\ g \in DOMAIN state.codes =>
                    (n = 0 <=> state.codes[g] = "unused")

\* The pairs of a grant are one chain from its code: each came for the one
\* before it, and nothing was exchanged twice.
OneChain ==
    \A g \in DOMAIN state.grants \ unsure :
        {x \in spent : x[1] = g} = {g} \X (0 .. Counter(state, g) - 1)

\* A refresh can narrow the scopes of a connection, for good; nothing but a
\* new consent widens them.
ScopesNeverWiden ==
    [][\A g \in DOMAIN state.refresh \cap DOMAIN state'.refresh :
          state'.refresh[g].scopes \subseteq state.refresh[g].scopes]_vars

\* Each grant is a connection: live while it is on disk.
Life(g) ==
    CASE g \in DOMAIN disk.grants -> "live"
      [] g \in born \ DOMAIN disk.grants -> "ended"
      [] OTHER -> "new"

IsNewest(pairs, g, n) ==
    /\ n = 0 \/ <<g, n>> \in pairs
    /\ \A m \in n + 1 .. MaxRotations : <<g, m>> \notin pairs

Newest(g) == CHOOSE n \in 0 .. MaxRotations : IsNewest(held, g, n)

Abstract ==
    INSTANCE Connections WITH
        Ids <- GrantIds,
        life <- [g \in GrantIds |-> Life(g)],
        newest <- [g \in GrantIds |-> Newest(g)]

\* Every grant, whatever is presented twice, evicted, lost or not written,
\* lives the one life of Connections.
ImplementsConnections == Abstract!Spec
=============================================================================
