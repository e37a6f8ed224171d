------------------------ MODULE ConnectorOAuthProofs ------------------------
(*************************************************************************)
(* Who is let in: proofs about ConnectorOAuth, for any number of apps,   *)
(* requests, grants and rotations and any faults.  Taken by name: the    *)
(* client of one app (TypedClient), for any number of calls and          *)
(* renewals; what a grant opens at the host probe (HostProbe), for any   *)
(* number of clients, sessions and pages; and the owner's sign-ins       *)
(* (OwnerSessions), for any number of browsers, tokens and requests.     *)
(*************************************************************************)
EXTENDS ConnectorOAuth, FiniteSetTheorems, SequenceTheorems, WellFoundedInduction, TLAPS

CONSTANTS Calls, MaxPairs, KnowsExpiry, AppFaults
VARIABLES grant, age, tokens, stored, loaded, refreshing, call, retired, doubted

Client == INSTANCE TypedClient WITH
    Faults <- AppFaults, spent <- retired, unsure <- doubted

CONSTANTS Apps, MaxApprovals, MaxIds, MaxSessions, IdleAfter, MaxPages, MaxHeld,
          PageLife, MaxTime
VARIABLES now, grants, sessions, opened, waits, required, passes, pages, made, told

Probe == INSTANCE HostProbe WITH
    Clients <- Apps, MaxGrants <- MaxApprovals, call <- waits

CONSTANTS Browsers, MaxOwners, SignInLife, MaxSignIns, Limit
VARIABLES clock, signIns, cookie, issued, ended, counted, logins, shutOut

Owner == INSTANCE OwnerSessions WITH
    SessionLife <- SignInLife, MaxTokens <- MaxSignIns, now <- clock, sessions <- signIns,
    spent <- counted

\* One document: a record, its grants and tokens well typed.
Shaped(s) ==
    s = [clients |-> s.clients, pending |-> s.pending, codes |-> s.codes,
         grants |-> s.grants, refresh |-> s.refresh, tokens |-> s.tokens]

Document(s) ==
    /\ Shaped(s)
    /\ DOMAIN s.grants \subseteq GrantIds
    /\ \A g \in DOMAIN s.grants : s.grants[g].scopes \subseteq Scopes
    /\ s.codes \in Some(GrantIds, {"unused", "used"})
    /\ s.refresh \in Some(GrantIds, [counter: 1 .. MaxRotations,
                                     scopes: SUBSET Scopes])
    /\ s.tokens \in Some(Pairs, SUBSET Scopes)

\* What the apps hold and have exchanged of the grants of a document.
Follows(s) ==
    \A g \in DOMAIN s.grants :
        /\ \A x \in held : x[1] = g => Counter(s, g) >= x[2]
        /\ g \in DOMAIN s.codes => (Counter(s, g) = 0 <=> s.codes[g] = "unused")
        /\ g \notin unsure =>
             /\ Counter(s, g) = 0 \/ <<g, Counter(s, g)>> \in held
             /\ \A n \in Nat : <<g, n>> \in spent <=> n < Counter(s, g)

Typed ==
    /\ Document(state) /\ Document(disk)
    /\ held \subseteq Pairs \cup Codes
    /\ spent \subseteq Pairs \cup Codes
    /\ born \subseteq GrantIds
    /\ unsure \subseteq GrantIds

\* Apps hold codes and pairs of grants that have been on disk, which is where
\* a grant in memory still is, unless it never was.
Rooted ==
    /\ \A x \in held \cup spent : x[1] \in born
    /\ DOMAIN disk.grants \subseteq born
    /\ DOMAIN state.grants \cap born \subseteq DOMAIN disk.grants
    /\ DOMAIN state.refresh \subseteq born
    /\ DOMAIN disk.refresh \subseteq born

Narrowed ==
    \A g \in DOMAIN state.refresh \cap DOMAIN disk.refresh :
        disk.refresh[g].scopes \subseteq state.refresh[g].scopes

Admitted == \A pair \in held : Accepted(state, pair) => Accepted(disk, pair)

HasNewest == \A g \in GrantIds : \E n \in 0 .. MaxRotations : IsNewest(held, g, n)

Kept ==
    /\ Typed /\ Follows(state) /\ Follows(disk)
    /\ Rooted /\ Narrowed /\ Admitted /\ HasNewest
    /\ RevocationIsFinal

ScopesStep ==
    \A g \in DOMAIN state.refresh \cap DOMAIN state'.refresh :
        state'.refresh[g].scopes \subseteq state.refresh[g].scopes

Good == Kept' /\ ScopesStep /\ Abstract!Next

-----------------------------------------------------------------------------
(* Tables and ids. *)

LEMMA SomeIs ==
    ASSUME NEW S, NEW T, NEW f
    PROVE  f \in Some(S, T) <=> DOMAIN f \subseteq S /\ f \in [DOMAIN f -> T]
  BY DEF Some

\* x is f on the members of K.
IsOnly(x, f, K) ==
    DOMAIN x = DOMAIN f \cap K /\ \A z \in DOMAIN x : x[z] = f[z]

\* p is f with y for x.
IsPut(p, f, x, y) ==
    /\ DOMAIN p = DOMAIN f \cup {x}
    /\ p[x] = y
    /\ \A z \in DOMAIN f : z # x => p[z] = f[z]

LEMMA OnlyIs ==
    ASSUME NEW f, NEW K, NEW x, x = Only(f, K)
    PROVE  IsOnly(x, f, K)
  BY DEF IsOnly, Only

LEMMA OnlyTyped ==
    ASSUME NEW S, NEW T, NEW f, f \in Some(S, T), NEW K, NEW x, x = Only(f, K)
    PROVE  x \in Some(S, T)
  <1>1. DOMAIN f \subseteq S /\ f \in [DOMAIN f -> T]
    BY SomeIs
  <1>2. DOMAIN x = DOMAIN f \cap K /\ x \in [DOMAIN f \cap K -> T]
    BY <1>1 DEF Only
  <1> QED
    BY <1>1, <1>2, SomeIs

LEMMA PutIs ==
    ASSUME NEW f, NEW x, NEW y, NEW p, p = Put(f, x, y)
    PROVE  IsPut(p, f, x, y)
  BY DEF IsPut, Put

LEMMA PutTyped ==
    ASSUME NEW S, NEW T, NEW f, f \in Some(S, T), NEW x \in S, NEW y \in T,
           NEW p, p = Put(f, x, y)
    PROVE  p \in Some(S, T)
  <1>1. DOMAIN f \subseteq S /\ f \in [DOMAIN f -> T]
    BY SomeIs
  <1>2. DOMAIN p = DOMAIN f \cup {x} /\ p \in [DOMAIN f \cup {x} -> T]
    BY <1>1 DEF Put
  <1> QED
    BY <1>1, <1>2, SomeIs

LEMMA NothingIs ==
    ASSUME NEW S, NEW T
    PROVE  Nothing \in Some(S, T) /\ DOMAIN Nothing = {}
  <1>1. DOMAIN Nothing = {} /\ Nothing \in [{} -> T]
    BY DEF Nothing
  <1> QED
    BY <1>1, SomeIs

LEMMA FreshIsNew ==
    ASSUME NEW S, NEW used, "none" \notin S, Fresh(S, used) \in S
    PROVE  Fresh(S, used) \notin used
  <1>1. ~(S \subseteq used)
    BY DEF Fresh
  <1>2. Fresh(S, used) = CHOOSE x \in S : x \notin used
    BY <1>1 DEF Fresh
  <1> QED
    BY <1>1, <1>2

\* The newest pair is the only one of its kind.
LEMMA NewestIs ==
    ASSUME NEW pairs, NEW g, NEW n \in 0 .. MaxRotations, IsNewest(pairs, g, n)
    PROVE  (CHOOSE k \in 0 .. MaxRotations : IsNewest(pairs, g, k)) = n
  <1> DEFINE k == CHOOSE k \in 0 .. MaxRotations : IsNewest(pairs, g, k)
  <1>1. k \in 0 .. MaxRotations /\ IsNewest(pairs, g, k)
    OBVIOUS
  <1> HIDE DEF k
  <1>2. MaxRotations \in Nat
    BY OAuthAssumption
  <1>3. ~(k < n) /\ ~(n < k)
    BY <1>1, <1>2 DEF IsNewest
  <1>4. k = n
    BY <1>1, <1>2, <1>3
  <1> QED
    BY <1>4 DEF k

-----------------------------------------------------------------------------
(* A document that lost things and kept the rest as it was. *)

Thinner(s, t) ==
    /\ Document(s)
    /\ DOMAIN s.grants \subseteq DOMAIN t.grants
    /\ \A g \in DOMAIN s.grants : Counter(s, g) = Counter(t, g)
    /\ DOMAIN s.tokens \subseteq DOMAIN t.tokens
    /\ DOMAIN s.codes \subseteq DOMAIN t.codes
    /\ \A g \in DOMAIN s.codes : s.codes[g] = t.codes[g]
    /\ DOMAIN s.refresh \subseteq DOMAIN t.refresh
    /\ \A g \in DOMAIN s.refresh : s.refresh[g].scopes = t.refresh[g].scopes

SameGrants(s, t) ==
    /\ Shaped(s)
    /\ s.grants = t.grants /\ s.refresh = t.refresh
    /\ s.codes = t.codes /\ s.tokens = t.tokens

LEMMA SameIsThinner ==
    ASSUME NEW s, NEW t, Document(t), SameGrants(s, t)
    PROVE  Thinner(s, t)
  BY DEF Thinner, SameGrants, Document, Counter

LEMMA ThinnerTrans ==
    ASSUME NEW s, NEW t, NEW u, Thinner(s, t), Thinner(t, u)
    PROVE  Thinner(s, u)
  BY DEF Thinner

LEMMA PrunedIs ==
    ASSUME NEW s, Shaped(s)
    PROVE  /\ Shaped(Pruned(s))
           /\ Pruned(s).grants = Only(s.grants, GrantIds \ over)
           /\ Pruned(s).refresh =
                Only(s.refresh, GrantIds \ (DOMAIN s.grants \cap over))
           /\ Pruned(s).codes =
                Only(s.codes, {g \in GrantIds : <<g, 0>> \notin over})
           /\ Pruned(s).tokens = Only(s.tokens, Pairs \ over)
  <1> DEFINE IsOpen(q) == q.id \notin over
             p == SelectSeq(s.pending, IsOpen)
             c == Only(s.codes, {g \in GrantIds : <<g, 0>> \notin over})
             k == Only(s.tokens, Pairs \ over)
             g == Only(s.grants, GrantIds \ over)
             r == Only(s.refresh, GrantIds \ (DOMAIN s.grants \cap over))
  <1>1. Pruned(s) = [s EXCEPT !.pending = p, !.codes = c, !.tokens = k,
                              !.grants = g, !.refresh = r]
    BY DEF Pruned
  <1> HIDE DEF p, c, k, g, r
  <1>2. /\ Shaped(Pruned(s)) /\ Pruned(s).codes = c /\ Pruned(s).tokens = k
        /\ Pruned(s).grants = g /\ Pruned(s).refresh = r
    BY <1>1 DEF Shaped
  <1> QED
    BY <1>2 DEF c, k, g, r

LEMMA WithoutGrantIs ==
    ASSUME NEW s, Shaped(s), NEW g
    PROVE  /\ Shaped(WithoutGrant(s, g))
           /\ WithoutGrant(s, g).grants = Only(s.grants, GrantIds \ {g})
           /\ WithoutGrant(s, g).refresh = Only(s.refresh, GrantIds \ {g})
           /\ WithoutGrant(s, g).codes = Only(s.codes, GrantIds \ {g})
           /\ WithoutGrant(s, g).tokens =
                Only(s.tokens, {pair \in Pairs : pair[1] # g})
  <1> DEFINE a == Only(s.grants, GrantIds \ {g})
             r == Only(s.refresh, GrantIds \ {g})
             c == Only(s.codes, GrantIds \ {g})
             k == Only(s.tokens, {pair \in Pairs : pair[1] # g})
             w == WithoutGrant(s, g)
  <1>1. w = [s EXCEPT !.grants = a, !.refresh = r, !.codes = c, !.tokens = k]
    BY DEF WithoutGrant
  <1> HIDE DEF a, r, c, k, w
  <1>2. Shaped(w) /\ w.grants = a /\ w.refresh = r /\ w.codes = c /\ w.tokens = k
    BY <1>1 DEF Shaped
  <1> QED
    BY <1>2 DEF a, r, c, k, w

\* Restricting the tables thins the document, as long as a grant that stays
\* keeps its counter.
LEMMA OnlyThins ==
    ASSUME NEW s, NEW t, Document(t), Shaped(s), NEW G, NEW R, NEW C, NEW K,
           s.grants = Only(t.grants, G), s.refresh = Only(t.refresh, R),
           s.codes = Only(t.codes, C), s.tokens = Only(t.tokens, K),
           DOMAIN t.grants \cap G \subseteq R
    PROVE  Thinner(s, t)
  <1> DEFINE RefreshRecords == [counter: 1 .. MaxRotations, scopes: SUBSET Scopes]
             Uses == {"unused", "used"}
             Tokens == SUBSET Scopes
  <1>1. /\ t.refresh \in Some(GrantIds, RefreshRecords)
        /\ t.codes \in Some(GrantIds, Uses)
        /\ t.tokens \in Some(Pairs, Tokens)
    BY DEF Document
  <1> HIDE DEF RefreshRecords, Uses, Tokens
  <1>2. IsOnly(s.grants, t.grants, G)
    BY OnlyIs
  <1>3. IsOnly(s.refresh, t.refresh, R) /\ s.refresh \in Some(GrantIds, RefreshRecords)
    BY <1>1, OnlyIs, OnlyTyped
  <1>4. IsOnly(s.codes, t.codes, C) /\ s.codes \in Some(GrantIds, Uses)
    BY <1>1, OnlyIs, OnlyTyped
  <1>5. IsOnly(s.tokens, t.tokens, K) /\ s.tokens \in Some(Pairs, Tokens)
    BY <1>1, OnlyIs, OnlyTyped
  <1>6. Document(s)
    BY <1>2, <1>3, <1>4, <1>5 DEF Document, RefreshRecords, Uses, Tokens, IsOnly
  <1>7. ASSUME NEW g \in DOMAIN s.grants
        PROVE  Counter(s, g) = Counter(t, g)
    BY <1>2, <1>3 DEF Counter, IsOnly
  <1> QED
    BY <1>2, <1>3, <1>4, <1>5, <1>6, <1>7 DEF Thinner, IsOnly

LEMMA PrunedThins ==
    ASSUME NEW s, Document(s)
    PROVE  Thinner(Pruned(s), s)
  <1> DEFINE G == GrantIds \ over
             R == GrantIds \ (DOMAIN s.grants \cap over)
             C == {g \in GrantIds : <<g, 0>> \notin over}
             K == Pairs \ over
             p == Pruned(s)
  <1>1. Shaped(s)
    BY DEF Document
  <1>2. /\ Shaped(p) /\ p.grants = Only(s.grants, G) /\ p.refresh = Only(s.refresh, R)
        /\ p.codes = Only(s.codes, C) /\ p.tokens = Only(s.tokens, K)
    BY <1>1, PrunedIs
  <1>3. DOMAIN s.grants \cap G \subseteq R
    OBVIOUS
  <1> HIDE DEF G, R, C, K, p
  <1>4. Thinner(p, s)
    BY <1>2, <1>3, OnlyThins
  <1> QED
    BY <1>4 DEF p

LEMMA WithoutGrantThins ==
    ASSUME NEW s, Document(s), NEW g
    PROVE  Thinner(WithoutGrant(s, g), s)
  <1> DEFINE others == GrantIds \ {g}
             pairs == {pair \in Pairs : pair[1] # g}
             w == WithoutGrant(s, g)
  <1>1. Shaped(s)
    BY DEF Document
  <1>2. /\ Shaped(w) /\ w.grants = Only(s.grants, others)
        /\ w.refresh = Only(s.refresh, others) /\ w.codes = Only(s.codes, others)
        /\ w.tokens = Only(s.tokens, pairs)
    BY <1>1, WithoutGrantIs
  <1>3. DOMAIN s.grants \cap others \subseteq others
    OBVIOUS
  <1> HIDE DEF others, pairs, w
  <1>4. Thinner(w, s)
    BY <1>2, <1>3, OnlyThins
  <1> QED
    BY <1>4 DEF w

LEMMA SweptThins ==
    ASSUME NEW s, Document(s)
    PROVE  Thinner(Swept(s), s)
  <1>1. SameGrants(Swept(s), s)
    BY DEF Document, Shaped, SameGrants, Swept
  <1> QED
    BY <1>1, SameIsThinner

LEMMA ReflThins ==
    ASSUME NEW s, Document(s)
    PROVE  Thinner(s, s)
  BY SameIsThinner DEF Document, SameGrants

-----------------------------------------------------------------------------
(* A step after which memory is a thinner document, and the disk either has *)
(* it too or is what it was.                                                *)

LEMMA ThinStep ==
    ASSUME Kept, NEW s, Thinner(s, state), state' = s,
           \/ disk' = disk /\ born' = born /\ revoked' = revoked
           \/ Stored(s),
           \A x \in GrantIds \cup Pairs : x \in over => x \in over',
           revoked' \subseteq revoked \/ revoked' \cap DOMAIN s.grants = {},
           held' = held, spent' = spent, unsure' = unsure
    PROVE  Good
  <1> USE DEF Kept
  <1>0. /\ Document(state) /\ Document(disk) /\ Document(s)
        /\ DOMAIN state.grants \subseteq GrantIds
        /\ DOMAIN disk.grants \subseteq GrantIds
        /\ DOMAIN state.tokens \subseteq Pairs
    BY SomeIs DEF Typed, Document, Thinner
  <1>1. Typed'
    <2>1. DOMAIN s.grants \subseteq GrantIds
      BY <1>0 DEF Thinner
    <2>2. born' \subseteq GrantIds /\ Document(disk)'
      <3>1. CASE disk' = disk /\ born' = born
        BY <3>1, <1>0 DEF Typed, Document, Shaped
      <3>2. CASE Stored(s)
        BY <3>2, <2>1, <1>0 DEF Stored, Typed, Document, Shaped
      <3> QED BY <3>1, <3>2
    <2>3. Document(state)'
      BY <1>0 DEF Document, Shaped
    <2> QED
      BY <2>2, <2>3 DEF Typed
  <1>2. ASSUME NEW d, Follows(d), Thinner(s, d), NEW g \in DOMAIN s.grants
        PROVE  /\ \A x \in held : x[1] = g => Counter(s, g) >= x[2]
               /\ g \in DOMAIN s.codes =>
                    (Counter(s, g) = 0 <=> s.codes[g] = "unused")
               /\ g \notin unsure =>
                    /\ Counter(s, g) = 0 \/ <<g, Counter(s, g)>> \in held
                    /\ \A n \in Nat : <<g, n>> \in spent <=> n < Counter(s, g)
    BY <1>2 DEF Thinner, Follows
  <1>3. Follows(state)' /\ Follows(disk)'
    <2>1. Follows(state)'
      BY <1>2 DEF Follows, Counter
    <2>2. Follows(disk)'
      <3>1. CASE disk' = disk
        BY <3>1 DEF Follows, Counter
      <3>2. CASE disk' = s
        BY <3>2, <2>1 DEF Follows, Counter
      <3> QED BY <3>1, <3>2 DEF Stored
    <2> QED BY <2>1, <2>2
  <1>4. Rooted'
    <2>1. CASE disk' = disk /\ born' = born
      BY <2>1 DEF Rooted, Thinner
    <2>2. CASE Stored(s)
      BY <2>2 DEF Rooted, Thinner, Stored
    <2> QED BY <2>1, <2>2
  <1>5. Narrowed'
    <2>1. CASE disk' = disk
      BY <2>1 DEF Narrowed, Thinner
    <2>2. CASE disk' = s
      BY <2>2 DEF Narrowed, Thinner
    <2> QED BY <2>1, <2>2 DEF Stored
  <1>6. Admitted'
    <2>1. CASE disk' = disk
      <3> SUFFICES ASSUME NEW pair \in held, Accepted(state, pair)'
                   PROVE  Accepted(disk, pair)'
        BY DEF Admitted
      <3>1. /\ pair \in DOMAIN s.tokens /\ pair \notin over'
            /\ pair[1] \in DOMAIN s.grants /\ pair[1] \notin over'
        BY DEF Accepted, Verified
      <3>2. pair \notin over /\ pair[1] \notin over
        BY <3>1, <1>0 DEF Thinner
      <3>3. Accepted(disk, pair)
        BY <3>1, <3>2 DEF Accepted, Verified, Admitted, Thinner
      <3> QED
        BY <2>1, <3>1, <3>3 DEF Accepted, Verified
    <2>2. CASE disk' = s
      BY <2>2 DEF Admitted, Accepted, Verified
    <2> QED BY <2>1, <2>2 DEF Stored
  <1>7. HasNewest'
    BY DEF HasNewest
  <1>8. RevocationIsFinal'
    <2>1. CASE disk' = disk /\ revoked' = revoked
      BY <2>1 DEF RevocationIsFinal, Thinner
    <2>2. CASE Stored(s)
      BY <2>2 DEF RevocationIsFinal, Thinner, Stored
    <2> QED BY <2>1, <2>2
  <1>9. ScopesStep
    BY DEF ScopesStep, Thinner
  <1>10. Abstract!Next
    <2> SUFFICES ASSUME NEW g \in GrantIds
                 PROVE  /\ Newest(g)' = Newest(g)
                        /\ \/ Life(g)' = Life(g)
                           \/ Life(g) = "new" /\ Life(g)' = "live"
                           \/ Life(g) = "live" /\ Life(g)' = "ended"
      BY DEF Abstract!Next, Abstract!Rests, Abstract!Starts, Abstract!Ends
    <2>1. Newest(g)' = Newest(g)
      BY DEF Newest
    <2>2. CASE disk' = disk /\ born' = born
      BY <2>1, <2>2 DEF Life
    <2>3. CASE Stored(s)
      BY <2>1, <2>3 DEF Life, Stored, Rooted, Thinner
    <2> QED BY <2>2, <2>3
  <1> QED
    BY <1>1, <1>3, <1>4, <1>5, <1>6, <1>7, <1>8, <1>9, <1>10 DEF Good

-----------------------------------------------------------------------------
(* The owner approves. *)

LEMMA StoredLives ==
    ASSUME Rooted, NEW s, DOMAIN s.grants \cap born \subseteq DOMAIN disk.grants,
           Stored(s), NEW g \in GrantIds
    PROVE  \/ Life(g)' = Life(g)
           \/ Life(g) = "new" /\ Life(g)' = "live"
           \/ Life(g) = "live" /\ Life(g)' = "ended"
  BY DEF Life, Stored, Rooted

LEMMA StoredRoots ==
    ASSUME Typed, Rooted, NEW s, Document(s), Stored(s), state' = s,
           DOMAIN s.refresh \subseteq born, spent' \subseteq Pairs \cup Codes,
           held' \subseteq Pairs \cup Codes, unsure' \subseteq GrantIds,
           \A x \in held' \cup spent' : x[1] \in born'
    PROVE  Typed' /\ Rooted'
  <1>1. DOMAIN s.grants \subseteq GrantIds
    BY SomeIs DEF Document
  <1>2. Document(state)' /\ Document(disk)'
    BY DEF Stored, Document, Shaped
  <1>3. Typed'
    BY <1>1, <1>2 DEF Typed, Stored
  <1>4. Rooted'
    BY DEF Rooted, Stored
  <1> QED BY <1>3, <1>4

\* What is kept when the document that is stored is also the one in memory.
LEMMA StoredTwins ==
    ASSUME NEW s, Stored(s), state' = s, Follows(state)'
    PROVE  Follows(disk)' /\ Narrowed' /\ Admitted'
  <1>1. disk' = state'
    BY DEF Stored
  <1>2. Follows(disk)'
    BY <1>1 DEF Follows, Counter
  <1>3. Narrowed'
    BY <1>1 DEF Narrowed
  <1>4. Admitted'
    BY <1>1 DEF Admitted, Accepted, Verified
  <1> QED BY <1>2, <1>3, <1>4

LEMMA ApproveStep ==
    ASSUME Kept, NEW t, Thinner(t, state), NEW g \in GrantIds, g \notin UsedIds,
           NEW y, NEW s, Document(s), state' = s,
           IsPut(s.grants, t.grants, g, y), IsPut(s.codes, t.codes, g, "unused"),
           s.refresh = t.refresh, s.tokens = t.tokens,
           \/ disk' = disk /\ born' = born /\ held' = held
           \/ Stored(s) /\ (held' = held \/ held' = held \cup {<<g, 0>>}),
           over' = over \ {g, <<g, 0>>},
           UNCHANGED <<revoked, spent, unsure>>
    PROVE  Good
  <1> USE DEF Kept
  <1>1. /\ g \notin born /\ g \notin revoked
        /\ DOMAIN s.grants = DOMAIN t.grants \cup {g}
        /\ DOMAIN s.grants \cap born \subseteq DOMAIN disk.grants
        /\ DOMAIN s.refresh \subseteq born
    BY DEF UsedIds, IsPut, Rooted, Thinner
  <1>2. /\ held \subseteq held' /\ held' \subseteq held \cup {<<g, 0>>}
        /\ <<g, 0>> \in Codes
    BY DEF Codes
  <1>3. Counter(s, g) = 0
    BY <1>1 DEF Counter
  <1>4. ASSUME NEW h \in DOMAIN t.grants
        PROVE  h # g /\ Counter(s, h) = Counter(state, h) /\ h \in DOMAIN state.grants
    BY DEF Thinner, Counter, UsedIds
  <1>5. Follows(state)'
    <2> SUFFICES ASSUME NEW h \in DOMAIN s.grants
                 PROVE  /\ \A x \in held' : x[1] = h => Counter(s, h) >= x[2]
                        /\ h \in DOMAIN s.codes =>
                             (Counter(s, h) = 0 <=> s.codes[h] = "unused")
                        /\ h \notin unsure =>
                             /\ Counter(s, h) = 0 \/ <<h, Counter(s, h)>> \in held'
                             /\ \A n \in Nat : <<h, n>> \in spent <=> n < Counter(s, h)
      BY DEF Follows, Counter
    <2>1. CASE h = g
      <3>1. \A x \in held' : x[1] = g => x = <<g, 0>>
        BY <1>1, <1>2 DEF Rooted
      <3>2. \A n \in Nat : <<g, n>> \notin spent
        BY <1>1 DEF Rooted
      <3>3. s.codes[g] = "unused"
        BY DEF IsPut
      <3> QED
        BY <2>1, <3>1, <3>2, <3>3, <1>3
    <2>2. CASE h \in DOMAIN t.grants
      <3>1. h # g /\ Counter(s, h) = Counter(state, h) /\ h \in DOMAIN state.grants
        BY <2>2, <1>4
      <3>2. \A x \in held' : x[1] = h => x \in held
        BY <1>2, <3>1
      <3>3. h \in DOMAIN s.codes => h \in DOMAIN state.codes /\ s.codes[h] = state.codes[h]
        BY <3>1 DEF IsPut, Thinner
      <3> QED
        BY <3>1, <3>2, <3>3, <1>2 DEF Follows
    <2> QED BY <2>1, <2>2, <1>1
  <1>6. HasNewest' /\ \A h \in GrantIds : Newest(h)' = Newest(h)
    <2> SUFFICES ASSUME NEW h \in GrantIds
                 PROVE  /\ \E n \in 0 .. MaxRotations : IsNewest(held', h, n)
                        /\ Newest(h)' = Newest(h)
      BY DEF HasNewest
    <2>1. PICK n \in 0 .. MaxRotations : IsNewest(held, h, n)
      BY DEF HasNewest
    <2>2. \A m \in n + 1 .. MaxRotations : <<h, m>> # <<g, 0>>
      OBVIOUS
    <2>3. IsNewest(held', h, n)
      BY <2>1, <2>2, <1>2 DEF IsNewest
    <2>4. Newest(h) = n
      BY <2>1, NewestIs DEF Newest
    <2>5. Newest(h)' = n
      BY <2>3, NewestIs DEF Newest
    <2> QED BY <2>3, <2>4, <2>5
  <1>7. ScopesStep
    BY DEF ScopesStep, Thinner
  <1>8. CASE disk' = disk /\ born' = born /\ held' = held
    <2>1. Typed'
      BY <1>8 DEF Typed, Document, Shaped
    <2>2. Follows(disk)'
      BY <1>8 DEF Follows, Counter
    <2>3. Rooted'
      BY <1>8, <1>1 DEF Rooted
    <2>4. Narrowed'
      BY <1>8 DEF Narrowed, Thinner
    <2>5. Admitted'
      <3> SUFFICES ASSUME NEW pair \in held, Accepted(state, pair)'
                   PROVE  Accepted(disk, pair)'
        BY <1>8 DEF Admitted
      <3>1. /\ pair \in DOMAIN s.tokens /\ pair \notin over'
            /\ pair[1] \in DOMAIN s.grants /\ pair[1] \notin over'
        BY DEF Accepted, Verified
      <3>2. pair[1] \in born /\ pair[1] # g
        BY <1>1 DEF Rooted
      <3>3. pair # g /\ pair[1] # <<g, 0>>
        <4>1. g \notin Pairs \cup Codes
          BY KindsDiffer, OAuthAssumption DEF Pairs, Codes
        <4>2. <<g, 0>> \notin GrantIds
          BY KindsDiffer, OAuthAssumption
        <4>3. pair \in Pairs \cup Codes /\ pair[1] \in GrantIds
          BY <3>2 DEF Typed
        <4> QED BY <4>1, <4>2, <4>3
      <3>4. pair \notin over /\ pair[1] \notin over
        BY <3>1, <3>2, <3>3
      <3>5. pair \in DOMAIN state.tokens /\ pair[1] \in DOMAIN state.grants
        BY <3>1, <3>2, <1>1 DEF Thinner
      <3>6. Accepted(disk, pair)
        BY <3>4, <3>5 DEF Accepted, Verified, Admitted
      <3> QED
        BY <3>1, <3>6, <1>8 DEF Accepted, Verified
    <2>6. RevocationIsFinal'
      BY <1>8, <1>1 DEF RevocationIsFinal, Thinner
    <2>7. Abstract!Next
      <3>1. \A h \in GrantIds : Life(h)' = Life(h)
        BY <1>8 DEF Life
      <3> QED
        BY <3>1, <1>6 DEF Abstract!Next, Abstract!Rests
    <2> QED
      BY <1>5, <1>6, <1>7, <2>1, <2>2, <2>3, <2>4, <2>5, <2>6, <2>7 DEF Good
  <1>9. CASE Stored(s)
    <2>1. Typed' /\ Rooted'
      <3>1. held' \subseteq Pairs \cup Codes
        BY <1>2 DEF Typed
      <3>2. \A x \in held' \cup spent : x[1] \in born'
        BY <1>9, <1>1, <1>2 DEF Stored, Rooted
      <3>3. spent' \subseteq Pairs \cup Codes /\ unsure' \subseteq GrantIds
        BY DEF Typed
      <3> QED BY <1>9, <1>1, <3>1, <3>2, <3>3, StoredRoots
    <2>2. Follows(disk)' /\ Narrowed' /\ Admitted'
      BY <1>9, <1>5, StoredTwins
    <2>3. RevocationIsFinal'
      BY <1>9, <1>1 DEF RevocationIsFinal, Thinner, Stored
    <2>4. Abstract!Next
      <3> SUFFICES ASSUME NEW h \in GrantIds
                   PROVE  \/ Life(h)' = Life(h)
                          \/ Life(h) = "new" /\ Life(h)' = "live"
                          \/ Life(h) = "live" /\ Life(h)' = "ended"
        BY <1>6 DEF Abstract!Next, Abstract!Rests, Abstract!Starts, Abstract!Ends
      <3> QED
        BY <1>1, <1>9, StoredLives
    <2> QED
      BY <1>5, <1>6, <1>7, <2>1, <2>2, <2>3, <2>4 DEF Good
  <1> QED BY <1>8, <1>9

-----------------------------------------------------------------------------
(* A pair is issued. *)

\* s is t after grant g has got pair n with scopes sc.
Rotation(s, t, g, n, sc) ==
    /\ Document(s)
    /\ s.grants = t.grants
    /\ DOMAIN s.refresh = DOMAIN t.refresh \cup {g}
    /\ s.refresh[g] = [counter |-> n, scopes |-> sc]
    /\ \A h \in DOMAIN t.refresh : h # g => s.refresh[h] = t.refresh[h]
    /\ DOMAIN t.tokens \subseteq DOMAIN s.tokens
    /\ DOMAIN s.codes \subseteq DOMAIN t.codes \cup {g}
    /\ \A h \in DOMAIN s.codes : h # g => s.codes[h] = t.codes[h]
    /\ g \in DOMAIN s.codes => s.codes[g] = "used"

\* A good code or refresh token was presented: the one that carries the
\* grant's counter, for no more scopes than the last one had.
Presented(t, g, n, sc) ==
    /\ Thinner(t, state)
    /\ g \in DOMAIN t.grants /\ g \in born
    /\ n = Counter(t, g) + 1 /\ n \in 1 .. MaxRotations
    /\ g \in DOMAIN state.refresh => sc \subseteq state.refresh[g].scopes

LEMMA RotationCounters ==
    ASSUME NEW s, NEW t, NEW g, NEW n, NEW sc, Rotation(s, t, g, n, sc)
    PROVE  /\ Counter(s, g) = n
           /\ \A h \in DOMAIN s.grants : h # g => Counter(s, h) = Counter(t, h)
  BY DEF Rotation, Counter

LEMMA RotationScopes ==
    ASSUME NEW s, NEW t, NEW g, NEW n, NEW sc,
           Presented(t, g, n, sc), Rotation(s, t, g, n, sc)
    PROVE  \A h \in DOMAIN state.refresh \cap DOMAIN s.refresh :
               s.refresh[h].scopes \subseteq state.refresh[h].scopes
  BY DEF Presented, Rotation, Thinner

LEMMA CounterIsNat ==
    ASSUME NEW s, Document(s), NEW g
    PROVE  Counter(s, g) \in 0 .. MaxRotations
  <1> DEFINE RefreshRecords == [counter: 1 .. MaxRotations, scopes: SUBSET Scopes]
  <1>1. s.refresh \in Some(GrantIds, RefreshRecords)
    BY DEF Document
  <1> HIDE DEF RefreshRecords
  <1>2. s.refresh \in [DOMAIN s.refresh -> RefreshRecords]
    BY <1>1, SomeIs
  <1>3. \A r \in RefreshRecords : r.counter \in 1 .. MaxRotations
    BY DEF RefreshRecords
  <1> QED
    BY <1>2, <1>3, OAuthAssumption DEF Counter

\* The other grants of the new document are as they were.
LEMMA RotationOthers ==
    ASSUME Kept, NEW s, NEW t, NEW g, NEW n, NEW sc,
           Presented(t, g, n, sc), Rotation(s, t, g, n, sc),
           NEW h \in DOMAIN s.grants, h # g
    PROVE  /\ h \in DOMAIN state.grants
           /\ Counter(s, h) = Counter(state, h)
           /\ h \in DOMAIN s.codes =>
                h \in DOMAIN state.codes /\ s.codes[h] = state.codes[h]
           /\ \A x \in held : x[1] = h => Counter(s, h) >= x[2]
           /\ h \in DOMAIN s.codes => (Counter(s, h) = 0 <=> s.codes[h] = "unused")
           /\ h \notin unsure =>
                /\ Counter(s, h) = 0 \/ <<h, Counter(s, h)>> \in held
                /\ \A m \in Nat : <<h, m>> \in spent <=> m < Counter(s, h)
  <1>1. h \in DOMAIN t.grants /\ h \in DOMAIN state.grants
    BY DEF Presented, Rotation, Thinner
  <1>2. Counter(s, h) = Counter(state, h)
    BY <1>1, RotationCounters DEF Presented, Thinner
  <1>3. h \in DOMAIN s.codes =>
          h \in DOMAIN state.codes /\ s.codes[h] = state.codes[h]
    BY DEF Presented, Rotation, Thinner
  <1> QED
    BY <1>1, <1>2, <1>3 DEF Kept, Follows

LEMMA IssuedStep ==
    ASSUME Kept, NEW s, NEW t, NEW g, NEW n, NEW sc,
           Presented(t, g, n, sc), Rotation(s, t, g, n, sc),
           Stored(s), state' = s,
           spent' = spent \cup {<<g, n - 1>>},
           \/ held' = held \cup {<<g, n>>} /\ unsure' = unsure
           \/ held' = held /\ unsure' = unsure \cup {g},
           UNCHANGED <<over, revoked>>
    PROVE  Good
  <1> USE DEF Kept
  <1>1. /\ g \in GrantIds /\ g \in DOMAIN state.grants /\ g \in DOMAIN disk.grants
        /\ g \in DOMAIN s.grants /\ DOMAIN s.grants \subseteq DOMAIN state.grants
        /\ n \in 1 .. MaxRotations /\ MaxRotations \in Nat
        /\ Document(s)
    BY OAuthAssumption DEF Presented, Rotation, Thinner, Rooted, Typed
  <1>2. Counter(state, g) = n - 1 /\ Counter(s, g) = n
    <2>1. Counter(t, g) = Counter(state, g) /\ Counter(t, g) \in 0 .. MaxRotations
      BY CounterIsNat DEF Presented, Thinner
    <2> QED
      BY <2>1, <1>1, RotationCounters DEF Presented
  <1>3. <<g, n>> \in Pairs /\ <<g, n - 1>> \in Pairs \cup Codes
    BY <1>1 DEF Pairs, Codes
  <1>4. \A x \in held : x[1] = g => x[2] <= n - 1
    BY <1>1, <1>2 DEF Follows
  <1>5. \A x \in held : x = <<x[1], x[2]>> /\ x[2] \in Nat
    BY DEF Typed, Pairs, Codes
  <1>6. Follows(state)'
    <2> SUFFICES ASSUME NEW h \in DOMAIN s.grants
                 PROVE  /\ \A x \in held' : x[1] = h => Counter(s, h) >= x[2]
                        /\ h \in DOMAIN s.codes =>
                             (Counter(s, h) = 0 <=> s.codes[h] = "unused")
                        /\ h \notin unsure' =>
                             /\ Counter(s, h) = 0 \/ <<h, Counter(s, h)>> \in held'
                             /\ \A m \in Nat : <<h, m>> \in spent' <=> m < Counter(s, h)
      BY DEF Follows, Counter
    <2>1. CASE h = g
      <3>1. \A x \in held' : x[1] = g => n >= x[2]
        BY <1>1, <1>4, <1>5
      <3>2. g \in DOMAIN s.codes => s.codes[g] = "used"
        BY DEF Rotation
      <3>3. ASSUME g \notin unsure'
            PROVE  /\ <<g, n>> \in held'
                   /\ \A m \in Nat : <<g, m>> \in spent' <=> m < n
        <4>1. g \notin unsure /\ <<g, n>> \in held'
          BY <3>3
        <4>2. \A m \in Nat : <<g, m>> \in spent <=> m < n - 1
          BY <4>1, <1>1, <1>2 DEF Follows
        <4>3. \A m \in Nat : <<g, m>> \in spent' <=> m < n - 1 \/ m = n - 1
          BY <4>2
        <4> QED
          BY <4>1, <4>3, <1>1
      <3> QED
        BY <2>1, <3>1, <3>2, <3>3, <1>1, <1>2
    <2>2. CASE h # g
      <3>1. \A x \in held' : x[1] = h => x \in held
        BY <2>2
      <3>2. held \subseteq held' /\ (h \notin unsure' => h \notin unsure)
        OBVIOUS
      <3>3. \A m \in Nat : <<h, m>> \in spent' <=> <<h, m>> \in spent
        BY <2>2
      <3> QED
        BY <2>2, <3>1, <3>2, <3>3, RotationOthers
    <2> QED BY <2>1, <2>2
  <1>7. Typed' /\ Rooted'
    <2>1. /\ held' \subseteq Pairs \cup Codes /\ spent' \subseteq Pairs \cup Codes
          /\ unsure' \subseteq GrantIds
      BY <1>1, <1>3 DEF Typed
    <2>2. g \in born /\ born \subseteq born'
      BY DEF Presented, Stored
    <2>3. \A x \in held' \cup spent' : x[1] \in born'
      BY <2>2 DEF Rooted
    <2>4. DOMAIN s.refresh \subseteq born
      BY <2>2 DEF Rotation, Presented, Thinner, Rooted
    <2> QED
      BY <1>1, <2>1, <2>3, <2>4, StoredRoots
  <1>8. Follows(disk)' /\ Narrowed' /\ Admitted'
    BY <1>6, StoredTwins
  <1>9. RevocationIsFinal'
    BY <1>1 DEF RevocationIsFinal, Stored
  <1>10. ScopesStep
    BY RotationScopes DEF ScopesStep
  <1>11. ASSUME NEW h \in GrantIds
         PROVE  /\ \E k \in 0 .. MaxRotations : IsNewest(held', h, k)
                /\ Newest(h)' = Newest(h) \/ (h = g /\ Newest(h)' > Newest(h))
    <2>1. PICK k \in 0 .. MaxRotations : IsNewest(held, h, k)
      BY DEF HasNewest
    <2>2. Newest(h) = k
      BY <2>1, NewestIs DEF Newest
    <2>3. CASE h = g /\ held' = held \cup {<<g, n>>}
      <3>1. k <= n - 1
        BY <2>1, <2>3, <1>1, <1>4 DEF IsNewest
      <3>2. ASSUME NEW m \in n + 1 .. MaxRotations
            PROVE  <<g, m>> \notin held'
        BY <2>3, <1>1, <1>4
      <3>3. n \in 0 .. MaxRotations
        BY <1>1
      <3>4. IsNewest(held', h, n)
        BY <2>3, <3>2 DEF IsNewest
      <3>5. Newest(h)' = n
        BY <3>3, <3>4, NewestIs DEF Newest
      <3>6. n > k
        BY <3>1, <1>1
      <3> QED BY <2>2, <2>3, <3>3, <3>4, <3>5, <3>6
    <2>4. CASE h # g \/ held' = held
      <3>1. \A m : <<h, m>> \in held' <=> <<h, m>> \in held
        BY <2>4
      <3>2. IsNewest(held', h, k)
        BY <2>1, <3>1 DEF IsNewest
      <3>3. Newest(h)' = k
        BY <3>2, NewestIs DEF Newest
      <3> QED BY <2>2, <3>2, <3>3
    <2> QED BY <2>3, <2>4
  <1>12. Abstract!Next
    <2> SUFFICES ASSUME NEW h \in GrantIds
                 PROVE  \/ /\ Newest(h)' = Newest(h)
                           /\ \/ Life(h)' = Life(h)
                              \/ Life(h) = "new" /\ Life(h)' = "live"
                              \/ Life(h) = "live" /\ Life(h)' = "ended"
                        \/ /\ Newest(h)' > Newest(h)
                           /\ Life(h) = "live" /\ Life(h)' = "live"
      BY DEF Abstract!Next, Abstract!Rests, Abstract!Starts, Abstract!Ends,
             Abstract!HandsOut
    <2>1. DOMAIN s.grants \cap born \subseteq DOMAIN disk.grants
      BY <1>1 DEF Rooted
    <2>2. CASE h = g
      <3>1. Life(g) = "live" /\ Life(g)' = "live"
        BY <1>1 DEF Life, Stored
      <3> QED BY <2>2, <3>1, <1>11
    <2>3. CASE h # g
      BY <2>1, <2>3, <1>11, StoredLives
    <2> QED BY <2>2, <2>3
  <1>13. HasNewest'
    BY <1>11 DEF HasNewest
  <1> QED
    BY <1>6, <1>7, <1>8, <1>9, <1>10, <1>12, <1>13 DEF Good

\* The file was replaced and the pair is not handed out.
LEMMA IssueFailsStep ==
    ASSUME Kept, NEW s, NEW t, NEW g, NEW n, NEW sc,
           Presented(t, g, n, sc), Rotation(s, t, g, n, sc),
           Stored(s), state' = t, unsure' = unsure \cup {g},
           UNCHANGED <<over, held, revoked, spent>>
    PROVE  Good
  <1> USE DEF Kept
  <1>1. /\ g \in GrantIds /\ g \in DOMAIN state.grants
        /\ DOMAIN s.grants = DOMAIN t.grants
        /\ DOMAIN t.grants \subseteq DOMAIN state.grants
        /\ n \in 1 .. MaxRotations /\ MaxRotations \in Nat
        /\ Document(s) /\ Document(t) /\ Thinner(t, state)
        /\ DOMAIN t.grants \subseteq GrantIds
    BY OAuthAssumption, SomeIs DEF Presented, Rotation, Thinner, Document
  <1>2. Counter(state, g) = n - 1 /\ Counter(s, g) = n
    <2>1. Counter(t, g) = Counter(state, g) /\ Counter(t, g) \in 0 .. MaxRotations
      BY CounterIsNat DEF Presented, Thinner
    <2> QED
      BY <2>1, <1>1, RotationCounters DEF Presented
  <1>3. Follows(state)'
    BY <1>1 DEF Follows, Thinner, Counter
  <1>4. Follows(disk)'
    <2> SUFFICES ASSUME NEW h \in DOMAIN s.grants
                 PROVE  /\ \A x \in held : x[1] = h => Counter(s, h) >= x[2]
                        /\ h \in DOMAIN s.codes =>
                             (Counter(s, h) = 0 <=> s.codes[h] = "unused")
                        /\ h \notin unsure' =>
                             /\ Counter(s, h) = 0 \/ <<h, Counter(s, h)>> \in held
                             /\ \A m \in Nat : <<h, m>> \in spent <=> m < Counter(s, h)
      BY DEF Follows, Counter, Stored
    <2>1. CASE h = g
      <3>1. \A x \in held : x[1] = g => n - 1 >= x[2]
        BY <1>1, <1>2 DEF Follows
      <3>2. \A x \in held : x[2] \in Nat
        BY <1>1 DEF Typed, Pairs, Codes
      <3>4. \A x \in held : x[1] = g => n >= x[2]
        BY <3>1, <3>2, <1>1
      <3>3. g \in DOMAIN s.codes => s.codes[g] = "used"
        BY DEF Rotation
      <3> QED
        BY <2>1, <3>3, <3>4, <1>1, <1>2
    <2>2. CASE h # g
      BY <2>2, RotationOthers
    <2> QED BY <2>1, <2>2
  <1>5. Typed'
    BY <1>1 DEF Typed, Stored, Document, Shaped
  <1>6. Rooted'
    BY <1>1 DEF Rooted, Stored, Presented, Rotation, Thinner
  <1>7. Narrowed'
    <2> SUFFICES ASSUME NEW h \in DOMAIN t.refresh
                 PROVE  s.refresh[h].scopes \subseteq t.refresh[h].scopes
      BY DEF Narrowed, Stored
    <2>1. h \in DOMAIN state.refresh /\ t.refresh[h].scopes = state.refresh[h].scopes
      BY <1>1 DEF Thinner
    <2> QED
      BY <2>1, RotationScopes DEF Rotation
  <1>8. Admitted'
    BY DEF Admitted, Accepted, Verified, Stored, Rotation
  <1>9. HasNewest'
    BY DEF HasNewest
  <1>10. RevocationIsFinal'
    BY <1>1 DEF RevocationIsFinal, Stored
  <1>11. ScopesStep
    BY <1>1 DEF ScopesStep, Thinner
  <1>12. Abstract!Next
    <2> SUFFICES ASSUME NEW h \in GrantIds
                 PROVE  /\ Newest(h)' = Newest(h)
                        /\ \/ Life(h)' = Life(h)
                           \/ Life(h) = "new" /\ Life(h)' = "live"
                           \/ Life(h) = "live" /\ Life(h)' = "ended"
      BY DEF Abstract!Next, Abstract!Rests, Abstract!Starts, Abstract!Ends
    <2>1. DOMAIN s.grants \cap born \subseteq DOMAIN disk.grants
      BY <1>1 DEF Rooted
    <2> QED
      BY <2>1, StoredLives DEF Newest
  <1> QED
    BY <1>3, <1>4, <1>5, <1>6, <1>7, <1>8, <1>9, <1>10, <1>11, <1>12 DEF Good

LEMMA RestartStep ==
    ASSUME Kept, Restart
    PROVE  Good
  <1> USE DEF Kept, Restart
  <1>1. Typed' /\ Rooted' /\ HasNewest' /\ RevocationIsFinal'
    BY DEF Typed, Document, Shaped, Rooted, HasNewest, RevocationIsFinal
  <1>2. Follows(state)' /\ Follows(disk)'
    BY DEF Follows, Counter
  <1>3. Narrowed' /\ Admitted'
    BY DEF Narrowed, Admitted, Accepted, Verified
  <1>4. ScopesStep
    BY DEF Narrowed, ScopesStep
  <1>5. Abstract!Next
    BY DEF Abstract!Next, Abstract!Rests, Life, Newest
  <1> QED BY <1>1, <1>2, <1>3, <1>4, <1>5 DEF Good

-----------------------------------------------------------------------------
(* The actions. *)

LEMMA SavedOrNot ==
    ASSUME NEW s, Save(s)
    PROVE  state' = s /\ ((disk' = disk /\ born' = born) \/ Stored(s))
  BY DEF Save, Saved, SaveFails

LEMMA ClientsSame ==
    ASSUME NEW t, Document(t), NEW c
    PROVE  SameGrants([t EXCEPT !.clients = c], t)
  BY DEF Document, Shaped, SameGrants

LEMMA PendingSame ==
    ASSUME NEW t, Document(t), NEW p
    PROVE  SameGrants([t EXCEPT !.pending = p], t)
  BY DEF Document, Shaped, SameGrants

LEMMA WithoutThins ==
    ASSUME NEW t, Document(t), NEW q
    PROVE  Thinner(Without(t, q), t)
  BY PendingSame, SameIsThinner DEF Without

LEMMA PrunedState ==
    ASSUME Kept
    PROVE  /\ Document(state) /\ Document(Pruned(state))
           /\ Thinner(Pruned(state), state)
  BY PrunedThins DEF Kept, Typed, Thinner

LEMMA RegisterStep ==
    ASSUME Kept, RegisterClient \/ RegisterRefused
    PROVE  Good
  <1> DEFINE s == Swept(Pruned(state))
             c == Fresh(ClientIds, Known(state) \cup Known(disk))
  <1>1. Thinner(s, state) /\ Document(s)
    BY PrunedState, SweptThins, ThinnerTrans DEF Thinner
  <1>2. CASE RegisterRefused
    BY <1>1, <1>2, ThinStep DEF RegisterRefused
  <1>3. CASE RegisterClient
    <2>1. PICK clients : Save([s EXCEPT !.clients = Append(clients, c)])
      BY <1>3 DEF RegisterClient
    <2> DEFINE x == [s EXCEPT !.clients = Append(clients, c)]
    <2>2. Thinner(x, s)
      BY <1>1, ClientsSame, SameIsThinner
    <2>3. Thinner(x, state)
      BY <1>1, <2>2, ThinnerTrans
    <2>4. c \in ClientIds /\ over' = over \ {c}
      BY <1>3 DEF RegisterClient
    <2>5. c \notin GrantIds \cup Pairs
      BY <2>4, KindsDiffer, OAuthAssumption DEF Pairs
    <2>6. \A z \in GrantIds \cup Pairs : z \in over => z \in over'
      BY <2>4, <2>5
    <2>7. UNCHANGED <<run, held, revoked, spent, unsure>>
      BY <1>3 DEF RegisterClient
    <2> HIDE DEF x
    <2>8. state' = x /\ ((disk' = disk /\ born' = born) \/ Stored(x))
      BY <2>1, SavedOrNot DEF x
    <2> QED
      BY <2>3, <2>6, <2>7, <2>8, ThinStep
  <1> QED BY <1>2, <1>3

LEMMA AuthorizeStep ==
    ASSUME Kept, NEW c, NEW network, NEW scopes, Authorize(c, network, scopes)
    PROVE  Good
  <1> DEFINE s == Pruned(state)
             q == Fresh(RequestIds, Waiting(state) \cup Waiting(disk))
             p == Append(RoomForRequest(s, <<network, run>>),
                         [id |-> q, client |-> c, from |-> <<network, run>>,
                          scopes |-> scopes])
             x == [s EXCEPT !.pending = p]
  <1>1. Thinner(s, state) /\ Document(s)
    BY PrunedState
  <1>2. /\ q \in RequestIds /\ over' = over \ {q}
        /\ Save(x) /\ UNCHANGED <<run, held, revoked, spent, unsure>>
    BY DEF Authorize
  <1>3. q \notin GrantIds \cup Pairs
    BY <1>2, KindsDiffer, OAuthAssumption DEF Pairs
  <1>4. \A z \in GrantIds \cup Pairs : z \in over => z \in over'
    BY <1>2, <1>3
  <1> HIDE DEF p, s
  <1>5. Thinner(x, s)
    BY <1>1, PendingSame, SameIsThinner
  <1>6. Thinner(x, state)
    BY <1>1, <1>5, ThinnerTrans
  <1> HIDE DEF x
  <1>7. state' = x /\ ((disk' = disk /\ born' = born) \/ Stored(x))
    BY <1>2, SavedOrNot
  <1> QED
    BY <1>2, <1>4, <1>6, <1>7, ThinStep

Granted(x, t, G, C) ==
    /\ Shaped(x) /\ x.grants = G /\ x.codes = C
    /\ x.refresh = t.refresh /\ x.tokens = t.tokens

LEMMA GrantReplaced ==
    ASSUME NEW t, Document(t), NEW G, NEW C, NEW x,
           x = [t EXCEPT !.grants = G, !.codes = C]
    PROVE  Granted(x, t, G, C)
  BY DEF Document, Shaped, Granted

LEMMA ApproveAction ==
    ASSUME Kept, NEW i, NEW selected \in SUBSET Scopes, Approve(i, selected)
    PROVE  Good
  <1> DEFINE p == state.pending[i]
             g == Fresh(GrantIds, UsedIds)
             t == Without(Pruned(state), p.id)
             y == [client |-> p.client, scopes |-> selected]
             G == Put(t.grants, g, y)
             C == Put(t.codes, g, "unused")
             next == [t EXCEPT !.grants = G, !.codes = C]
             Uses == {"unused", "used"}
  <1>1. Thinner(t, state) /\ Document(t)
    BY PrunedState, WithoutThins, ThinnerTrans DEF Thinner
  <1>2. g \in GrantIds /\ g \notin UsedIds
    BY FreshIsNew, KindsDiffer DEF Approve
  <1>3. /\ \/ Saved(next) /\ held' = held \cup {<<g, 0>>}
           \/ SaveFails(next) /\ UNCHANGED held
        /\ over' = over \ {g, <<g, 0>>}
        /\ UNCHANGED <<run, revoked, spent, unsure>>
    BY DEF Approve
  <1>4. y.scopes \subseteq Scopes /\ "unused" \in Uses
    OBVIOUS
  <1>5. t.codes \in Some(GrantIds, Uses)
    BY <1>1 DEF Document
  <1>11. next = [t EXCEPT !.grants = G, !.codes = C]
    OBVIOUS
  <1> HIDE DEF t, y, g, next
  <1>6. /\ Shaped(next) /\ next.grants = G /\ next.codes = C
        /\ next.refresh = t.refresh /\ next.tokens = t.tokens
    <2>1. Granted(next, t, G, C)
      <3> HIDE DEF G, C
      <3> QED BY <1>1, <1>11, GrantReplaced
    <2> QED BY <2>1 DEF Granted
  <1> HIDE DEF Uses
  <1>7. IsPut(next.grants, t.grants, g, y)
    BY <1>6, PutIs
  <1>8. IsPut(next.codes, t.codes, g, "unused") /\ next.codes \in Some(GrantIds, Uses)
    BY <1>2, <1>4, <1>5, <1>6, PutIs, PutTyped
  <1>9. Document(next)
    <2>1. /\ DOMAIN next.grants \subseteq GrantIds
          /\ \A h \in DOMAIN next.grants : next.grants[h].scopes \subseteq Scopes
      BY <1>1, <1>2, <1>4, <1>7 DEF Document, IsPut
    <2> QED
      BY <1>1, <1>6, <1>8, <2>1 DEF Document, Uses
  <1>10. /\ state' = next
         /\ \/ disk' = disk /\ born' = born /\ held' = held
            \/ Stored(next) /\ (held' = held \/ held' = held \cup {<<g, 0>>})
    BY <1>3 DEF Saved, SaveFails
  <1> QED
    BY <1>1, <1>2, <1>3, <1>6, <1>7, <1>8, <1>9, <1>10, ApproveStep

LEMMA RevokeStep ==
    ASSUME Kept, NEW g, RevokeGrant(g)
    PROVE  Good
  <1> DEFINE s == WithoutGrant(state, g)
  <1>1. Document(state)
    BY PrunedState
  <1>2. Thinner(s, state)
    BY <1>1, WithoutGrantThins
  <1>3. DOMAIN s.grants \subseteq DOMAIN state.grants \ {g}
    <2>1. s.grants = Only(state.grants, GrantIds \ {g})
      BY <1>1, WithoutGrantIs DEF Document
    <2> QED BY <2>1 DEF Only
  <1>4. revoked' \subseteq revoked \/ revoked' \cap DOMAIN s.grants = {}
    <2>1. revoked' \subseteq revoked \cup {g}
      BY DEF RevokeGrant
    <2> QED BY <1>3, <2>1 DEF Kept, RevocationIsFinal
  <1>5. /\ state' = s
        /\ \/ disk' = disk /\ born' = born /\ revoked' = revoked
           \/ Stored(s)
        /\ UNCHANGED <<over, held, spent, unsure>>
    BY DEF RevokeGrant, Saved, SaveFails
  <1> HIDE DEF s
  <1> QED BY <1>2, <1>4, <1>5, ThinStep

LEMMA RevokeAllStep ==
    ASSUME Kept, RevokeAll
    PROVE  Good
  <1> DEFINE s == [EmptyState EXCEPT !.clients = state.clients]
  <1>1. /\ Shaped(s) /\ s.grants = Nothing /\ s.codes = Nothing
        /\ s.refresh = Nothing /\ s.tokens = Nothing
    BY DEF EmptyState, Shaped
  <1>2. Document(s) /\ DOMAIN s.grants = {} /\ DOMAIN s.tokens = {}
        /\ DOMAIN s.codes = {} /\ DOMAIN s.refresh = {}
    BY <1>1, NothingIs DEF Document
  <1>3. Thinner(s, state)
    BY <1>2 DEF Thinner
  <1>4. /\ state' = s
        /\ \/ disk' = disk /\ born' = born /\ revoked' = revoked
           \/ Stored(s)
        /\ UNCHANGED <<over, held, spent, unsure>>
    BY DEF RevokeAll, Saved, SaveFails
  <1> HIDE DEF s
  <1> QED BY <1>2, <1>3, <1>4, ThinStep

-----------------------------------------------------------------------------
(* Issuing a pair. *)

LEMMA RotatedIs ==
    ASSUME NEW t, Document(t), NEW g \in GrantIds, NEW sc \in SUBSET Scopes,
           NEW byCode \in BOOLEAN,
           g \in DOMAIN t.codes => byCode \/ t.codes[g] = "used",
           Counter(t, g) < MaxRotations
    PROVE  Rotation(Rotated(t, g, sc, byCode), t, g, Counter(t, g) + 1, sc)
  <1> DEFINE n == Counter(t, g) + 1
             r == [counter |-> n, scopes |-> sc]
             R == Put(t.refresh, g, r)
             K == Put(t.tokens, <<g, n>>, sc)
             C == IF byCode THEN Put(t.codes, g, "used") ELSE t.codes
             s == Rotated(t, g, sc, byCode)
             RefreshRecords == [counter: 1 .. MaxRotations, scopes: SUBSET Scopes]
             Uses == {"unused", "used"}
             Tokens == SUBSET Scopes
  <1>1. n \in 1 .. MaxRotations
    BY CounterIsNat, OAuthAssumption
  <1>2. r \in RefreshRecords /\ <<g, n>> \in Pairs
    BY <1>1 DEF Pairs
  <1>3. /\ Shaped(s) /\ s.grants = t.grants
        /\ s.refresh = R /\ s.tokens = K /\ s.codes = C
    <2>1. s = [t EXCEPT !.refresh = R, !.tokens = K, !.codes = C]
      BY DEF Rotated
    <2> HIDE DEF R, K, C, s
    <2> QED BY <2>1 DEF Document, Shaped
  <1>4. /\ t.refresh \in Some(GrantIds, RefreshRecords)
        /\ t.tokens \in Some(Pairs, Tokens) /\ t.codes \in Some(GrantIds, Uses)
    BY DEF Document
  <1> HIDE DEF n, r, s, RefreshRecords, Tokens
  <1>5. IsPut(s.refresh, t.refresh, g, r) /\ s.refresh \in Some(GrantIds, RefreshRecords)
    BY <1>2, <1>3, <1>4, PutIs, PutTyped
  <1>6. IsPut(s.tokens, t.tokens, <<g, n>>, sc) /\ s.tokens \in Some(Pairs, Tokens)
    <2>1. sc \in Tokens
      BY DEF Tokens
    <2> QED BY <1>2, <1>3, <1>4, <2>1, PutIs, PutTyped
  <1>7. /\ s.codes \in Some(GrantIds, Uses)
        /\ DOMAIN s.codes \subseteq DOMAIN t.codes \cup {g}
        /\ \A h \in DOMAIN s.codes : h # g => s.codes[h] = t.codes[h]
        /\ g \in DOMAIN s.codes => s.codes[g] = "used"
    <2>1. CASE byCode
      <3>1. s.codes = Put(t.codes, g, "used") /\ "used" \in Uses
        BY <1>3, <2>1
      <3> HIDE DEF Uses
      <3>2. IsPut(s.codes, t.codes, g, "used") /\ s.codes \in Some(GrantIds, Uses)
        BY <1>4, <3>1, PutIs, PutTyped
      <3> QED BY <3>2 DEF IsPut
    <2>2. CASE ~byCode
      BY <2>2, <1>3, <1>4
    <2> QED BY <2>1, <2>2
  <1>8. Document(s)
    BY <1>3, <1>5, <1>6, <1>7 DEF Document, RefreshRecords, Tokens
  <1>9. Rotation(s, t, g, n, sc)
    BY <1>3, <1>5, <1>6, <1>7, <1>8 DEF Rotation, IsPut, r
  <1> QED BY <1>9 DEF n, s

LEMMA IssueStep ==
    ASSUME Kept, NEW g, NEW k, NEW sc \in SUBSET Scopes,
           <<g, k>> \in held, Verified(state, g), Counter(state, g) = k,
           k # 0 /\ g \in DOMAIN state.refresh => sc \subseteq state.refresh[g].scopes,
           Issue(<<g, k>>, sc)
    PROVE  Good
  <1> DEFINE t == Pruned(state)
             byCode == k = 0
             next == Rotated(t, g, sc, byCode)
             n == Counter(t, g) + 1
  <1>1. Document(state) /\ Document(t) /\ Thinner(t, state)
    BY PrunedState
  <1>2. g \in GrantIds /\ g \in born /\ g \in DOMAIN state.grants /\ g \notin over
    BY DEF Verified, Document, Kept, Typed, Rooted
  <1>3. g \in DOMAIN t.grants
    <2>1. t.grants = Only(state.grants, GrantIds \ over)
      BY <1>1, PrunedIs DEF Document
    <2> QED BY <1>2, <2>1 DEF Only
  <1>4. Counter(t, g) = k /\ k \in 0 .. MaxRotations
    BY <1>1, <1>3, CounterIsNat DEF Thinner
  <1>5. /\ Counter(t, g) < MaxRotations
        /\ \/ IssueRefused(t)
           \/ Issued(next, <<g, k>>, <<g, Counter(next, g)>>)
           \/ IssueFails(t, next, g)
    BY DEF Issue
  <1>6. g \in DOMAIN t.codes => byCode \/ t.codes[g] = "used"
    <2>1. ASSUME g \in DOMAIN t.codes, k # 0
          PROVE  t.codes[g] = "used"
      <3>1. g \in DOMAIN state.codes /\ t.codes[g] = state.codes[g]
        BY <1>1, <2>1 DEF Thinner
      <3>2. state.codes[g] # "unused"
        BY <1>2, <2>1, <3>1 DEF Kept, Follows
      <3>3. state.codes[g] \in {"unused", "used"}
        BY <1>1, <3>1, SomeIs DEF Document
      <3> QED BY <3>1, <3>2, <3>3
    <2> QED BY <2>1
  <1>7. Rotation(next, t, g, n, sc)
    BY <1>1, <1>2, <1>5, <1>6, RotatedIs
  <1>8. n \in 1 .. MaxRotations /\ n - 1 = k /\ Counter(next, g) = n
    BY <1>4, <1>5, <1>7, RotationCounters, OAuthAssumption
  <1>9. Presented(t, g, n, sc)
    <2>1. k = 0 => g \notin DOMAIN state.refresh
      <3> DEFINE RefreshRecords == [counter: 1 .. MaxRotations, scopes: SUBSET Scopes]
      <3>1. state.refresh \in Some(GrantIds, RefreshRecords)
        BY <1>1 DEF Document
      <3> HIDE DEF RefreshRecords
      <3>2. state.refresh \in [DOMAIN state.refresh -> RefreshRecords]
        BY <3>1, SomeIs
      <3>3. \A r \in RefreshRecords : r.counter # 0
        BY OAuthAssumption DEF RefreshRecords
      <3> QED BY <3>2, <3>3 DEF Counter
    <2> QED BY <1>1, <1>2, <1>3, <1>8, <2>1 DEF Presented
  <1> HIDE DEF t, next, n, byCode
  <1>10. CASE IssueRefused(t)
    BY <1>1, <1>10, ThinStep DEF IssueRefused
  <1>11. CASE Issued(next, <<g, k>>, <<g, Counter(next, g)>>)
    <2>1. /\ state' = next /\ Stored(next)
          /\ spent' = spent \cup {<<g, n - 1>>}
          /\ \/ held' = held \cup {<<g, n>>} /\ unsure' = unsure
             \/ held' = held /\ unsure' = unsure \cup {g}
          /\ UNCHANGED <<over, revoked>>
      BY <1>8, <1>11 DEF Issued, Saved
    <2> QED BY <1>7, <1>9, <2>1, IssuedStep
  <1>12. CASE IssueFails(t, next, g)
    <2>1. /\ state' = t /\ UNCHANGED <<over, held, revoked, spent>>
          /\ \/ UNCHANGED <<disk, born, unsure>>
             \/ Stored(next) /\ unsure' = unsure \cup {g}
      BY <1>12 DEF IssueFails
    <2>2. CASE UNCHANGED <<disk, born, unsure>>
      BY <1>1, <2>1, <2>2, ThinStep
    <2>3. CASE Stored(next) /\ unsure' = unsure \cup {g}
      BY <1>7, <1>9, <2>1, <2>3, IssueFailsStep
    <2> QED BY <2>1, <2>2, <2>3
  <1> QED BY <1>5, <1>10, <1>11, <1>12

LEMMA ExchangeCodeStep ==
    ASSUME Kept, NEW c, NEW g \in GrantIds, ExchangeCode(c, g)
    PROVE  Good
  <1>1. /\ <<g, 0>> \in held /\ CodeIsGood(g) /\ state.codes[g] = "unused"
        /\ Issue(<<g, 0>>, state.grants[g].scopes)
    BY DEF ExchangeCode
  <1>2. Verified(state, g) /\ g \in DOMAIN state.codes
    BY <1>1 DEF CodeIsGood
  <1>3. Counter(state, g) = 0
    BY <1>1, <1>2 DEF Verified, Kept, Follows
  <1>4. state.grants[g].scopes \in SUBSET Scopes
    BY <1>2, PrunedState DEF Document, Verified
  <1> QED
    BY <1>1, <1>2, <1>3, <1>4, IssueStep

LEMMA RefreshStep ==
    ASSUME Kept, NEW c, NEW pair \in held, NEW selected \in SUBSET Scopes,
           Refresh(c, pair, selected)
    PROVE  Good
  <1>1. PICK g \in GrantIds, k \in 0 .. MaxRotations : pair = <<g, k>>
    BY OAuthAssumption DEF Kept, Typed, Pairs, Codes
  <1>2. /\ k > 0 /\ g \in DOMAIN state.refresh /\ Verified(state, g)
        /\ k = state.refresh[g].counter
        /\ selected \subseteq state.refresh[g].scopes
        /\ Issue(<<g, k>>, selected)
    BY <1>1 DEF Refresh, Recognised
  <1>3. Counter(state, g) = k
    BY <1>2 DEF Counter
  <1> QED
    BY <1>1, <1>2, <1>3, IssueStep

LEMMA PruneStep ==
    ASSUME Kept, state' = Pruned(state), UNCHANGED <<disk, over, held, born, revoked,
                                                     spent, unsure>>
    PROVE  Good
  BY PrunedState, ThinStep

LEMMA DenyStep ==
    ASSUME Kept, NEW i, Deny(i)
    PROVE  Good
  <1> DEFINE s == Without(state, state.pending[i].id)
  <1>1. Thinner(s, state)
    BY PrunedState, WithoutThins
  <1>2. Save(s) /\ UNCHANGED <<over, run, held, revoked, spent, unsure>>
    BY DEF Deny
  <1> HIDE DEF s
  <1>3. state' = s /\ ((disk' = disk /\ born' = born) \/ Stored(s))
    BY <1>2, SavedOrNot
  <1> QED BY <1>1, <1>2, <1>3, ThinStep

LEMMA RunsOutStep ==
    ASSUME Kept, NEW x, RunsOut(x)
    PROVE  Good
  <1>1. Thinner(state, state)
    BY PrunedState, ReflThins
  <1>2. /\ over' = over \cup {x} /\ state' = state
        /\ UNCHANGED <<disk, run, held, born, revoked, spent, unsure>>
    BY DEF RunsOut
  <1> QED BY <1>1, <1>2, ThinStep

-----------------------------------------------------------------------------

LEMMA InitKeeps == Init => Kept
  <1> SUFFICES ASSUME Init PROVE Kept
    OBVIOUS
  <1> USE DEF Init
  <1>1. /\ Shaped(EmptyState) /\ EmptyState.grants = Nothing
        /\ EmptyState.codes = Nothing /\ EmptyState.refresh = Nothing
        /\ EmptyState.tokens = Nothing
    BY DEF EmptyState, Shaped
  <1>2. Document(EmptyState) /\ DOMAIN EmptyState.grants = {}
        /\ DOMAIN EmptyState.refresh = {}
    BY <1>1, NothingIs DEF Document
  <1>3. Typed /\ Rooted /\ Narrowed /\ Admitted /\ RevocationIsFinal
    BY <1>2 DEF Typed, Rooted, Narrowed, Admitted, RevocationIsFinal
  <1>4. Follows(state) /\ Follows(disk)
    BY <1>2 DEF Follows
  <1>5. HasNewest
    <2>1. 0 \in 0 .. MaxRotations
      BY OAuthAssumption
    <2> QED BY <2>1 DEF HasNewest, IsNewest
  <1> QED BY <1>3, <1>4, <1>5 DEF Kept

LEMMA StutterStep ==
    ASSUME Kept, UNCHANGED vars
    PROVE  Kept' /\ ScopesStep /\ UNCHANGED <<[g \in GrantIds |-> Life(g)],
                                            [g \in GrantIds |-> Newest(g)]>>
  <1> USE DEF vars
  <1>1. Kept'
    BY DEF Kept, Typed, Document, Shaped, Follows, Counter, Rooted, Narrowed,
           Admitted, Accepted, Verified, HasNewest, RevocationIsFinal
  <1>2. ScopesStep
    BY DEF ScopesStep
  <1>3. UNCHANGED <<[g \in GrantIds |-> Life(g)], [g \in GrantIds |-> Newest(g)]>>
    BY DEF Life, Newest
  <1> QED BY <1>1, <1>2, <1>3

LEMMA NextStep ==
    ASSUME Kept, Next
    PROVE  Good
  <1>1. CASE RegisterClient \/ RegisterRefused
    BY <1>1, RegisterStep
  <1>2. CASE \E c \in ClientIds, n \in Networks, scopes \in SUBSET Scopes :
               Authorize(c, n, scopes)
    BY <1>2, AuthorizeStep
  <1>3. CASE \E c \in ClientIds, g \in GrantIds : ExchangeCode(c, g)
    BY <1>3, ExchangeCodeStep
  <1>4. CASE \E c \in ClientIds, g \in GrantIds : ReuseCode(c, g)
    BY <1>4, RevokeStep DEF ReuseCode
  <1>5. CASE \E c \in ClientIds, pair \in held, selected \in SUBSET Scopes :
               Refresh(c, pair, selected)
    BY <1>5, RefreshStep
  <1>6. CASE \E c \in ClientIds, pair \in held :
               ReplayRefresh(c, pair) \/ RevokeToken(c, pair)
    BY <1>6, RevokeStep DEF ReplayRefresh, RevokeToken
  <1>7. CASE \E i \in 1 .. MaxPending, selected \in SUBSET Scopes :
               Approve(i, selected)
    BY <1>7, ApproveAction
  <1>8. CASE \E i \in 1 .. MaxPending, selected \in SUBSET Scopes :
               ApproveRefused(i, selected)
    BY <1>8, PruneStep DEF ApproveRefused
  <1>9. CASE \E i \in 1 .. MaxPending : Deny(i)
    BY <1>9, DenyStep
  <1>10. CASE \E g \in GrantIds : RevokeGrant(g)
    BY <1>10, RevokeStep
  <1>11. CASE RevokeAll
    BY <1>11, RevokeAllStep
  <1>12. CASE ListGrants
    BY <1>12, PruneStep DEF ListGrants
  <1>13. CASE \E x \in Ending : RunsOut(x)
    BY <1>13, RunsOutStep
  <1>14. CASE Restart
    BY <1>14, RestartStep
  <1> QED
    BY <1>1, <1>2, <1>3, <1>4, <1>5, <1>6, <1>7, <1>8, <1>9, <1>10, <1>11,
       <1>12, <1>13, <1>14
    DEF Next, ByApp, ByOwner

\* The invariant behind the theorems below: memory and disk are documents that
\* say of each grant what its app holds and has exchanged.
THEOREM OAuthKept == Spec => []Kept
  <1>1. Kept /\ [Next]_vars => Kept'
    BY NextStep, StutterStep DEF Good
  <1> QED
    BY InitKeeps, <1>1, PTL DEF Spec

\* A revocation that a write has confirmed is final: no later request, failure
\* or restart brings the grant back to memory or disk (revokeGrant, revokeAll).
THEOREM RevocationStands == Spec => []RevocationIsFinal
  <1>1. Kept => RevocationIsFinal
    BY DEF Kept
  <1> QED BY <1>1, OAuthKept, PTL

\* Whatever token the connector accepts is on disk, and no document would let
\* an app's older refresh token in again (issue(): write, then publish).
THEOREM HonouredTokensAreStored == Spec => []HonouredIsStored
  <1>1. Kept => HonouredIsStored
    BY DEF Kept, Follows, Admitted, HonouredIsStored
  <1> QED BY <1>1, OAuthKept, PTL

\* Each pair of a grant was issued for the one before it, and each code or
\* refresh token bought one pair at most, unless an answer was lost.
THEOREM PairsAreOneChain == Spec => []OneChain
  <1>1. Kept => OneChain
    <2> SUFFICES ASSUME Kept, NEW g \in DOMAIN state.grants \ unsure
                 PROVE  {x \in spent : x[1] = g} = {g} \X (0 .. Counter(state, g) - 1)
      BY DEF OneChain
    <2>1. \A n \in Nat : <<g, n>> \in spent <=> n < Counter(state, g)
      BY DEF Kept, Follows
    <2>2. Counter(state, g) \in Nat
      BY PrunedState, CounterIsNat, OAuthAssumption
    <2>3. \A x \in spent : x = <<x[1], x[2]>> /\ x[2] \in Nat
      BY OAuthAssumption DEF Kept, Typed, Pairs, Codes
    <2>4. ASSUME NEW x \in spent, x[1] = g
          PROVE  x \in {g} \X (0 .. Counter(state, g) - 1)
      <3>1. x = <<g, x[2]>> /\ x[2] \in Nat /\ x[2] < Counter(state, g)
        BY <2>1, <2>3, <2>4
      <3>2. x[2] \in 0 .. Counter(state, g) - 1
        BY <3>1, <2>2
      <3> QED BY <3>1, <3>2
    <2>5. ASSUME NEW n \in 0 .. Counter(state, g) - 1
          PROVE  <<g, n>> \in spent
      BY <2>1, <2>2
    <2>6. ASSUME NEW x \in {g} \X (0 .. Counter(state, g) - 1)
          PROVE  x \in spent /\ x[1] = g
      BY <2>5
    <2> QED BY <2>4, <2>6
  <1> QED BY <1>1, OAuthKept, PTL

\* The newest pair an app has got is the one that may be exchanged next, and its
\* code while it has none (a failed issue() consumes nothing).
THEOREM NewestPairIsGood == Spec => []NewestIsGood
  <1>1. Kept => NewestIsGood
    <2> SUFFICES ASSUME Kept, NEW g \in DOMAIN state.grants \ unsure,
                        NEW n \in 0 .. MaxRotations, <<g, n>> \in held,
                        \A m \in n + 1 .. MaxRotations : <<g, m>> \notin held
                 PROVE  /\ Counter(state, g) = n
                        /\ g \in DOMAIN state.codes =>
                             (n = 0 <=> state.codes[g] = "unused")
      BY DEF NewestIsGood
    <2>1. Counter(state, g) \in 0 .. MaxRotations /\ MaxRotations \in Nat
      BY PrunedState, CounterIsNat, OAuthAssumption
    <2>2. /\ Counter(state, g) >= n
          /\ Counter(state, g) = 0 \/ <<g, Counter(state, g)>> \in held
          /\ g \in DOMAIN state.codes =>
               (Counter(state, g) = 0 <=> state.codes[g] = "unused")
      BY DEF Kept, Follows
    <2>3. Counter(state, g) = n
      BY <2>1, <2>2
    <2> QED BY <2>2, <2>3
  <1> QED BY <1>1, OAuthKept, PTL

\* A refresh narrows the scopes of a connection for good, whatever fails.
THEOREM ScopesOnlyNarrow == Spec => ScopesNeverWiden
  <1>1. Kept /\ [Next]_vars => [ScopesStep]_vars
    BY NextStep DEF Good
  <1>2. [ScopesStep]_vars =>
          [\A g \in DOMAIN state.refresh \cap DOMAIN state'.refresh :
              state'.refresh[g].scopes \subseteq state.refresh[g].scopes]_vars
    BY DEF ScopesStep
  <1> QED BY <1>1, <1>2, OAuthKept, PTL DEF Spec, ScopesNeverWiden

\* The authorization server lets every grant live the one life of Connections:
\* approved once, handing out ever newer pairs, and ended for good.
THEOREM OAuthIsConnections == Spec => ImplementsConnections
  <1>1. Init => Abstract!Init
    <2> SUFFICES ASSUME Init, NEW g \in GrantIds
                 PROVE  Life(g) = "new" /\ Newest(g) = 0
      BY DEF Abstract!Init
    <2>1. EmptyState.grants = Nothing /\ DOMAIN Nothing = {}
      BY DEF EmptyState, Nothing
    <2>2. Life(g) = "new"
      BY <2>1 DEF Init, Life
    <2>3. 0 \in 0 .. MaxRotations /\ IsNewest(held, g, 0)
      BY OAuthAssumption DEF Init, IsNewest
    <2> QED BY <2>2, <2>3, NewestIs DEF Newest
  <1>2. Kept /\ [Next]_vars => [Abstract!Next]_(Abstract!connectionVars)
    BY NextStep, StutterStep DEF Good, Abstract!connectionVars
  <1> QED
    BY <1>1, <1>2, OAuthKept, PTL DEF Spec, ImplementsConnections, Abstract!Spec

-----------------------------------------------------------------------------
(* The client of an app.                                                     *)

CallRecords == [at: {"idle", "loading", "waiting", "sending", "resending", "refused",
                     "clearing"},
                used: Client!Pairs \cup {Client!NoPair}, next: {"sending", "resending"}]
Refreshes   == [at: {"idle", "asked", "answered", "saving", "clearing"},
                pair: Client!Pairs \cup {Client!NoPair}, answer: {"none", "pair", "refused"}]

Out(c)   == call[c].at \in {"sending", "resending"}
Sound    == grant.live /\ ~doubted
Renewing == refreshing.at \in {"asked", "answered"}

\* A refresh presents a pair, and what a request carries is one; an answer that
\* is a pair leaves room for it; who does more than load has loaded.
Carried ==
    /\ refreshing.at # "idle" => refreshing.pair # Client!NoPair
    /\ refreshing.at = "saving" \/ (refreshing.at = "answered" /\ refreshing.answer = "pair")
          => refreshing.pair < MaxPairs
    /\ refreshing.at = "answered" => refreshing.answer # "none"
    /\ \A c \in Calls : Out(c) => call[c].used # Client!NoPair
    /\ loaded # "done" => /\ tokens = Client!NoPair /\ refreshing.at = "idle" /\ retired = {}
                          /\ \A c \in Calls : call[c].at \in {"idle", "loading"}

\* What was spent is older than what is at hand.
SpentIsOld ==
    /\ \A s \in retired : tokens # Client!NoPair => s < tokens
    /\ \A s \in retired : Renewing => s < refreshing.pair
    /\ \A s \in retired : refreshing.at = "saving" => s <= refreshing.pair

\* Of a connection that is still good: memory, store and refresh agree.
Agrees ==
    Sound =>
        /\ refreshing.at # "clearing"
        /\ refreshing.at = "answered" => refreshing.answer = "pair"
        /\ refreshing.at \in {"idle", "asked"} =>
              stored = grant.newest /\ (loaded = "done" => tokens = grant.newest)
        /\ refreshing.at = "asked" => refreshing.pair = grant.newest
        /\ refreshing.at \in {"answered", "saving"} => grant.newest = refreshing.pair + 1
        /\ refreshing.at = "answered" => tokens = refreshing.pair
        /\ refreshing.at = "saving" => tokens = grant.newest

\* Nobody is refused: a retry carries a token that has just been issued, since
\* calls are shorter than lifetimes.
Young ==
    Sound =>
        /\ \A n \in Client!Pairs : n > grant.newest => age[n] = 0
        /\ refreshing.at \in {"answered", "saving"} => age[grant.newest] = 0
        /\ refreshing.at # "idle" => \E c \in Calls : call[c].at = "waiting"
        /\ \A c \in Calls :
              /\ call[c].at \notin {"refused", "clearing"}
              /\ call[c].at = "waiting" =>
                    refreshing.at # "idle" /\ call[c].used <= refreshing.pair
              /\ Out(c) => /\ call[c].used <= tokens
                           /\ \A n \in Client!Pairs : n > call[c].used => age[n] = 0
              /\ call[c].at = "resending" => age[call[c].used] = 0

Held == Client!TypeOK /\ Carried /\ SpentIsOld /\ Agrees /\ Young

\* There is a first pair.
Room == MaxPairs \in Nat \ {0}

LEMMA HeldAtFirst == ASSUME Room, Client!Init PROVE Held
  <1> USE DEF Client!Init, Client!Idle, Client!AtRest, Client!Pairs, Client!NoPair, Room
  <1>1. Client!TypeOK
    <2>1. grant \in [live: BOOLEAN, newest: Client!Pairs] /\ stored \in Client!Pairs
      OBVIOUS
    <2>2. Client!AtRest \in Refreshes /\ Client!Idle \in CallRecords
      BY DEF Refreshes, CallRecords
    <2> HIDE DEF Client!AtRest, Client!Idle
    <2>3. call \in [Calls -> CallRecords] /\ refreshing \in Refreshes
      BY <2>2
    <2>4. age \in [Client!Pairs -> 0 .. 2]
      OBVIOUS
    <2>5. tokens \in Client!Pairs \cup {Client!NoPair} /\ loaded = "no" /\ retired = {}
            /\ doubted \in BOOLEAN
      OBVIOUS
    <2> HIDE DEF Client!Init, Client!Pairs, Client!NoPair
    <2> QED BY <2>1, <2>3, <2>4, <2>5 DEF Client!TypeOK, Refreshes, CallRecords
  <1>2. Carried /\ SpentIsOld /\ Agrees
    BY DEF Carried, SpentIsOld, Agrees, Sound, Out, Renewing
  <1>3. Young
    BY DEF Young, Sound, Out
  <1> QED BY <1>1, <1>2, <1>3 DEF Held

\* A call that nobody waits with ends.
LEMMA EndHolds ==
    ASSUME Held, NEW c \in Calls, call[c].at # "waiting", Client!Fails(c),
           UNCHANGED <<grant, age, tokens, stored, loaded, refreshing, retired, doubted>>
    PROVE  Held'
  <1> USE DEF Client!Fails, Client!Idle, Held, Client!Pairs, Client!NoPair
  <1>1. Client!TypeOK'
    BY DEF Client!TypeOK
  <1>2. Carried' /\ SpentIsOld' /\ Agrees'
    BY DEF Client!TypeOK, Carried, SpentIsOld, Agrees, Sound, Out, Renewing
  <1>3. Young'
    BY DEF Client!TypeOK, Young, Sound, Out
  <1> QED BY <1>1, <1>2, <1>3

\* A call leaves with the token at hand, in time.
LEMMA SendHolds ==
    ASSUME Held, Room, NEW c \in Calls, call[c].at \in {"loading", "sending"},
           loaded = "done", tokens # Client!NoPair, NEW attempt \in {"sending", "resending"},
           Client!Sends(c, tokens, attempt),
           Sound => /\ \A n \in Client!Pairs : n > tokens => age[n] = 0
                    /\ attempt = "resending" => age[tokens] = 0,
           UNCHANGED <<grant, age, tokens, stored, loaded, refreshing, retired, doubted>>
    PROVE  Held'
  <1> USE DEF Client!Sends, Held, Client!Pairs, Client!NoPair, Room
  <1>1. Client!TypeOK'
    BY DEF Client!TypeOK
  <1>2. Carried' /\ SpentIsOld' /\ Agrees'
    BY DEF Client!TypeOK, Carried, SpentIsOld, Agrees, Sound, Out, Renewing
  <1>3. Young'
    BY DEF Client!TypeOK, Young, Sound, Out
  <1> QED BY <1>1, <1>2, <1>3

\* A call waits for the refresh, of the pair at hand if it is the first.
LEMMA WaitHolds ==
    ASSUME Held, Room, NEW c \in Calls, call[c].at \in {"loading", "sending"},
           loaded = "done", NEW n \in Client!Pairs \cup {Client!NoPair},
           NEW attempt \in {"sending", "resending"}, Client!Waits(c, n, attempt),
           \/ /\ refreshing.at # "idle" /\ UNCHANGED refreshing
              /\ Sound => n <= refreshing.pair
           \/ /\ refreshing.at = "idle" /\ n = tokens /\ n # Client!NoPair
              /\ refreshing' = [at |-> "asked", pair |-> tokens, answer |-> "none"],
           UNCHANGED <<grant, age, tokens, stored, loaded, retired, doubted>>
    PROVE  Held'
  <1> USE DEF Client!Waits, Held, Client!Pairs, Client!NoPair, Room
  <1>1. Client!TypeOK'
    BY DEF Client!TypeOK
  <1>2. Carried' /\ SpentIsOld'
    BY DEF Client!TypeOK, Carried, SpentIsOld, Out, Renewing
  <1>3. Agrees'
    BY DEF Client!TypeOK, Agrees, Sound
  <1>4. Young'
    BY DEF Client!TypeOK, Young, Agrees, Sound, Out
  <1> QED BY <1>1, <1>2, <1>3, <1>4

\* Between answers the pair at hand is no older than what a request carries,
\* and nothing newer has aged.
LEMMA TokensAreYoung ==
    ASSUME Held, Room, Sound, loaded = "done"
    PROVE  /\ \A n \in Client!Pairs : n > tokens => age[n] = 0
           /\ refreshing.at # "idle" => tokens \in {refreshing.pair, refreshing.pair + 1}
           /\ tokens \in Client!Pairs
  BY DEF Held, Client!TypeOK, Carried, Agrees, Young, Sound, Client!Pairs, Client!NoPair, Room

LEMMA ProceedHolds == ASSUME Room, Held, NEW c \in Calls, Client!Proceed(c) PROVE Held'
  <1>1. /\ call[c].at = "loading"
        /\ UNCHANGED <<grant, age, tokens, stored, loaded, retired, doubted>>
    BY DEF Client!Proceed
  <1>2. CASE Client!Fails(c) /\ UNCHANGED refreshing
    BY <1>1, <1>2, EndHolds
  <1>3. CASE /\ loaded = "done" /\ tokens # Client!NoPair /\ refreshing.at = "idle"
             /\ Client!Sends(c, tokens, "sending") /\ UNCHANGED refreshing
    <2>1. Sound => \A n \in Client!Pairs : n > tokens => age[n] = 0
      BY <1>3, TokensAreYoung
    <2> QED BY <1>1, <1>3, <2>1, SendHolds
  <1>4. CASE /\ loaded = "done" /\ tokens # Client!NoPair /\ refreshing.at = "idle"
             /\ Client!Waits(c, tokens, "sending")
             /\ refreshing' = [at |-> "asked", pair |-> tokens, answer |-> "none"]
    <2>1. tokens \in Client!Pairs
      BY <1>4 DEF Held, Client!TypeOK
    <2> QED BY <1>1, <1>4, <2>1, WaitHolds
  <1>5. CASE /\ loaded = "done" /\ refreshing.at # "idle"
             /\ Client!Waits(c, Client!NoPair, "sending") /\ UNCHANGED refreshing
    <2>1. Client!NoPair <= refreshing.pair
      BY DEF Held, Client!TypeOK, Client!Pairs, Client!NoPair, Room
    <2> QED BY <1>1, <1>5, <2>1, WaitHolds
  <1> QED
    BY <1>1, <1>2, <1>3, <1>4, <1>5 DEF Client!Proceed, Client!AccessToken, Client!Renewed

LEMMA UnauthorizedHolds == ASSUME Room, Held, NEW c \in Calls,
  Client!Unauthorized(c) PROVE Held'
  <1> DEFINE n == call[c].used
  <1>1. /\ call[c].at = "sending" /\ ~Client!Honoured(n)
        /\ UNCHANGED <<grant, age, tokens, stored, loaded, retired, doubted>>
    BY DEF Client!Unauthorized
  <1>2. n \in Client!Pairs /\ tokens \in Client!Pairs \cup {Client!NoPair} /\ loaded = "done"
    BY <1>1 DEF Held, Client!TypeOK, Carried, Out
  <1>3. Sound => /\ n <= tokens /\ \A m \in Client!Pairs : m > n => age[m] = 0
    BY <1>1 DEF Held, Young, Out
  <1>4. CASE Client!Fails(c) /\ UNCHANGED refreshing
    BY <1>1, <1>4, EndHolds
  <1>5. CASE tokens \notin {Client!NoPair, n} /\ Client!Sends(c, tokens, "resending")
          /\ UNCHANGED refreshing
    <2>1. Sound => /\ \A m \in Client!Pairs : m > tokens => age[m] = 0
                   /\ age[tokens] = 0
      BY <1>2, <1>3, <1>5, TokensAreYoung DEF Client!Pairs, Room
    <2> QED BY <1>1, <1>2, <1>5, <2>1, SendHolds
  <1>6. CASE /\ refreshing.at # "idle" /\ tokens = n
             /\ Client!Waits(c, n, "resending") /\ UNCHANGED refreshing
    <2>1. Sound /\ refreshing.at = "saving" => FALSE
      <3>1. Sound /\ refreshing.at = "saving" => age[tokens] = 0
        BY DEF Held, Agrees, Young
      <3> QED BY <1>1, <1>6, <3>1 DEF Client!Honoured, Sound
    <2>2. Sound => n <= refreshing.pair
      BY <1>2, <1>6, <2>1 DEF Held, Client!TypeOK, Agrees, Client!Pairs, Room
    <2> QED BY <1>1, <1>2, <1>6, <2>2, WaitHolds
  <1>7. CASE /\ refreshing.at = "idle" /\ tokens = n /\ Client!Waits(c, n, "resending")
             /\ refreshing' = [at |-> "asked", pair |-> tokens, answer |-> "none"]
    BY <1>1, <1>2, <1>7, WaitHolds DEF Client!Pairs, Client!NoPair
  <1> QED
    BY <1>1, <1>2, <1>4, <1>5, <1>6, <1>7 DEF Client!Unauthorized, Client!Renewed

LEMMA BeginHolds == ASSUME Room, Held, NEW c \in Calls, Client!Begin(c) PROVE Held'
  <1> USE DEF Held, Client!TypeOK, Carried, Client!Pairs, Client!NoPair, Room, Client!Begin
  <1>1. Client!TypeOK'
    OBVIOUS
  <1>2. Carried' /\ SpentIsOld'
    BY DEF SpentIsOld, Out, Renewing
  <1>3. Agrees'
    BY DEF Agrees, Young, Sound
  <1>4. Young'
    BY DEF Agrees, Young, Sound, Out
  <1> QED BY <1>1, <1>2, <1>3, <1>4

LEMMA UnauthorizedAgainHolds == ASSUME Room, Held, NEW c \in Calls,
  Client!UnauthorizedAgain(c) PROVE Held'
  <1> USE DEF Held, Client!TypeOK, Carried, Client!Pairs, Client!NoPair, Room,
        Client!UnauthorizedAgain, Client!Honoured
  <1>1. Client!TypeOK'
    OBVIOUS
  <1>2. Carried' /\ SpentIsOld'
    BY DEF SpentIsOld, Out, Renewing
  <1>3. Agrees'
    BY DEF Agrees, Young, Sound
  <1>4. Young'
    BY DEF Agrees, Young, Sound, Out
  <1> QED BY <1>1, <1>2, <1>3, <1>4

LEMMA ForgetHolds == ASSUME Room, Held, NEW c \in Calls, Client!Forget(c) PROVE Held'
  <1> USE DEF Held, Client!TypeOK, Carried, Client!Pairs, Client!NoPair, Room, Client!Forget
  <1>1. Client!TypeOK'
    OBVIOUS
  <1>2. Carried' /\ SpentIsOld'
    BY DEF SpentIsOld, Out, Renewing
  <1>3. Agrees'
    BY DEF Agrees, Young, Sound
  <1>4. Young'
    BY DEF Agrees, Young, Sound, Out
  <1> QED BY <1>1, <1>2, <1>3, <1>4

LEMMA ForgottenHolds == ASSUME Room, Held, NEW c \in Calls, Client!Forgotten(c) PROVE Held'
  <1> USE DEF Held, Client!TypeOK, Carried, Client!Pairs, Client!NoPair, Room,
        Client!Forgotten, Client!Fails, Client!Idle
  <1>1. Client!TypeOK'
    OBVIOUS
  <1>2. Carried' /\ SpentIsOld'
    BY DEF SpentIsOld, Out, Renewing
  <1>3. Agrees'
    BY DEF Agrees, Young, Sound
  <1>4. Young'
    BY DEF Agrees, Young, Sound, Out
  <1> QED BY <1>1, <1>2, <1>3, <1>4

LEMMA LoadHolds == ASSUME Room, Held, Client!Load PROVE Held'
  <1> USE DEF Held, Client!TypeOK, Carried, Client!Pairs, Client!NoPair, Room, Client!Load
  <1>1. Client!TypeOK'
    OBVIOUS
  <1>2. Carried' /\ SpentIsOld'
    BY DEF SpentIsOld, Out, Renewing
  <1>3. Agrees'
    BY DEF Agrees, Young, Sound
  <1>4. Young'
    BY DEF Agrees, Young, Sound, Out
  <1> QED BY <1>1, <1>2, <1>3, <1>4

LEMMA ExchangeHolds == ASSUME Room, Held, Client!Exchange PROVE Held'
  <1> USE DEF Held, Client!TypeOK, Carried, Client!Pairs, Client!NoPair, Room, Client!Exchange
  <1>1. Client!TypeOK'
    <2>1. refreshing \in Refreshes /\ grant \in [live: BOOLEAN, newest: Client!Pairs]
      BY DEF Refreshes
    <2>2. grant' \in [live: BOOLEAN, newest: Client!Pairs]
      <3>1. grant.newest < MaxPairs => grant.newest + 1 \in Client!Pairs
        BY <2>1
      <3>2. \/ grant' = [grant EXCEPT !.live = FALSE]
            \/ grant.newest + 1 \in Client!Pairs /\ grant' = [grant EXCEPT !.newest = @ + 1]
        BY <3>1
      <3> HIDE DEF Client!Exchange, Carried, Held, Client!TypeOK, Client!Pairs
      <3> QED BY <2>1, <3>2
    <2>3. refreshing' \in Refreshes
      BY <2>1 DEF Refreshes
    <2>4. UNCHANGED <<age, tokens, stored, loaded, call, retired, doubted>>
      OBVIOUS
    <2> HIDE DEF Client!Exchange, Carried, Client!Pairs, Client!NoPair
    <2> QED BY <2>2, <2>3, <2>4 DEF Refreshes
  <1>2. Carried' /\ SpentIsOld'
    BY DEF SpentIsOld, Out, Renewing
  <1>3. Agrees'
    BY DEF Agrees, Young, Sound
  <1>4. Young'
    BY DEF Agrees, Young, Sound, Out
  <1> QED BY <1>1, <1>2, <1>3, <1>4

LEMMA UnavailableHolds == ASSUME Room, Held, Client!Unavailable PROVE Held'
  <1> USE DEF Held, Client!TypeOK, Carried, Client!Pairs, Client!NoPair, Room,
        Client!Unavailable
  <1>1. Client!TypeOK'
    OBVIOUS
  <1>2. Carried' /\ SpentIsOld'
    BY DEF SpentIsOld, Out, Renewing
  <1>3. Agrees'
    BY DEF Agrees, Young, Sound
  <1>4. Young'
    BY DEF Agrees, Young, Sound, Out
  <1> QED BY <1>1, <1>2, <1>3, <1>4

LEMMA RefreshLostHolds == ASSUME Room, Held, Client!RefreshLost PROVE Held'
  <1> USE DEF Held, Client!TypeOK, Carried, Client!Pairs, Client!NoPair, Room,
        Client!RefreshLost, Client!AtRest, Client!Rejected, Client!Idle
  <1>1. Client!TypeOK'
    OBVIOUS
  <1>2. Carried' /\ SpentIsOld'
    BY DEF SpentIsOld, Out, Renewing
  <1>3. Agrees'
    BY DEF Agrees, Young, Sound
  <1>4. Young'
    BY DEF Agrees, Young, Sound, Out
  <1> QED BY <1>1, <1>2, <1>3, <1>4

LEMMA RefreshAnswerHolds == ASSUME Room, Held, Client!RefreshAnswer PROVE Held'
  <1> USE DEF Held, Client!TypeOK, Carried, Client!Pairs, Client!NoPair, Room,
        Client!RefreshAnswer, Client!NextPair
  <1>1. Client!TypeOK'
    <2>1. refreshing.answer = "pair" => Client!NextPair \in Client!Pairs
      OBVIOUS
    <2>2. refreshing \in Refreshes
      BY DEF Refreshes
    <2>3. refreshing' \in Refreshes
      BY <2>2 DEF Refreshes
    <2>4. tokens' \in Client!Pairs \cup {Client!NoPair} /\ retired' \subseteq Client!Pairs
      BY <2>1, <2>2 DEF Refreshes
    <2>5. UNCHANGED <<grant, age, stored, loaded, call, doubted>>
      OBVIOUS
    <2>6. refreshing' \in [at: {"idle", "asked", "answered", "saving", "clearing"},
                            pair: Client!Pairs \cup {Client!NoPair},
                              answer: {"none", "pair", "refused"}]
      BY <2>3 DEF Refreshes
    <2> HIDE DEF Client!RefreshAnswer, Carried, Client!Pairs, Client!NoPair
    <2> QED BY <2>4, <2>5, <2>6
  <1>2. Carried' /\ SpentIsOld'
    BY DEF SpentIsOld, Out, Renewing
  <1>3. Agrees'
    BY DEF Agrees, Young, Sound
  <1>4. Young'
    BY DEF Agrees, Young, Sound, Out
  <1> QED BY <1>1, <1>2, <1>3, <1>4

LEMMA SavedHolds == ASSUME Room, Held, Client!Saved PROVE Held'
  <1> USE DEF Held, Client!TypeOK, Carried, Client!Pairs, Client!NoPair, Room, Client!Saved,
        Client!NextPair, Client!AtRest, Client!Resumed
  <1>1. Client!TypeOK'
    OBVIOUS
  <1>2. Carried' /\ SpentIsOld'
    BY DEF SpentIsOld, Out, Renewing
  <1>3. Agrees'
    BY DEF Agrees, Young, Sound
  <1>4. Young'
    BY DEF Agrees, Young, Sound, Out
  <1> QED BY <1>1, <1>2, <1>3, <1>4

LEMMA SaveFailsHolds == ASSUME Room, Held, Client!SaveFails PROVE Held'
  <1> USE DEF Held, Client!TypeOK, Carried, Client!Pairs, Client!NoPair, Room,
        Client!SaveFails, Client!AtRest, Client!Rejected, Client!Idle
  <1>1. Client!TypeOK'
    OBVIOUS
  <1>2. Carried' /\ SpentIsOld'
    BY DEF SpentIsOld, Out, Renewing
  <1>3. Agrees'
    BY DEF Agrees, Young, Sound
  <1>4. Young'
    BY DEF Agrees, Young, Sound, Out
  <1> QED BY <1>1, <1>2, <1>3, <1>4

LEMMA ClearedHolds == ASSUME Room, Held, Client!Cleared PROVE Held'
  <1> USE DEF Held, Client!TypeOK, Carried, Client!Pairs, Client!NoPair, Room,
        Client!Cleared, Client!AtRest, Client!Rejected, Client!Idle
  <1>1. Client!TypeOK'
    OBVIOUS
  <1>2. Carried' /\ SpentIsOld'
    BY DEF SpentIsOld, Out, Renewing
  <1>3. Agrees'
    BY DEF Agrees, Young, Sound
  <1>4. Young'
    BY DEF Agrees, Young, Sound, Out
  <1> QED BY <1>1, <1>2, <1>3, <1>4

LEMMA AgesHolds == ASSUME Room, Held, NEW n \in Client!Pairs, Client!Ages(n) PROVE Held'
  <1> USE DEF Held, Client!TypeOK, Carried, Client!Pairs, Client!NoPair, Room, Client!Ages
  <1>1. Client!TypeOK'
    OBVIOUS
  <1>2. Carried' /\ SpentIsOld'
    BY DEF SpentIsOld, Out, Renewing
  <1>3. Agrees'
    BY DEF Agrees, Young, Sound
  <1>4. Young'
    <2> SUFFICES ASSUME Sound PROVE Young'
      BY DEF Young, Sound
    <2> USE DEF Sound, Out
    <2>1. \A m \in Client!Pairs : m > grant.newest => age'[m] = 0
      BY DEF Young
    <2>2. refreshing.at \in {"answered", "saving"} => age'[grant.newest] = 0
      <3>1. ASSUME refreshing.at \in {"answered", "saving"} PROVE n # grant.newest
        <4>1. PICK d \in Calls : call[d].at = "waiting"
          BY <3>1 DEF Young
        <4>2. call[d].used <= refreshing.pair /\ refreshing.pair + 1 = grant.newest
          BY <3>1, <4>1 DEF Young, Agrees
        <4>3. call[d].used > n /\ call[d].used \in Nat /\ refreshing.pair \in Nat
          BY <4>1
        <4> QED BY <4>2, <4>3
      <3> QED BY <3>1 DEF Young
    <2>3. refreshing.at # "idle" => \E d \in Calls : call[d].at = "waiting"
      BY DEF Young
    <2>4. ASSUME NEW d \in Calls
          PROVE  /\ call[d].at \notin {"refused", "clearing"}
                 /\ call[d].at = "waiting" =>
                       refreshing.at # "idle" /\ call[d].used <= refreshing.pair
                 /\ Out(d) => /\ call[d].used <= tokens
                              /\ \A m \in Client!Pairs : m > call[d].used => age'[m] = 0
                 /\ call[d].at = "resending" => age'[call[d].used] = 0
      BY DEF Young
    <2> QED BY <2>1, <2>2, <2>3, <2>4 DEF Young
  <1> QED BY <1>1, <1>2, <1>3, <1>4

LEMMA RevokeHolds == ASSUME Room, Held, Client!Revoke PROVE Held'
  <1> USE DEF Held, Client!TypeOK, Carried, Client!Pairs, Client!NoPair, Room, Client!Revoke
  <1>1. Client!TypeOK'
    OBVIOUS
  <1>2. Carried' /\ SpentIsOld'
    BY DEF SpentIsOld, Out, Renewing
  <1>3. Agrees'
    BY DEF Agrees, Young, Sound
  <1>4. Young'
    BY DEF Agrees, Young, Sound, Out
  <1> QED BY <1>1, <1>2, <1>3, <1>4

LEMMA ReloadHolds == ASSUME Room, Held, Client!Reload PROVE Held'
  <1> USE DEF Held, Client!TypeOK, Carried, Client!Pairs, Client!NoPair, Room,
        Client!Reload, Client!AtRest, Client!Idle
  <1>1. Client!TypeOK'
    OBVIOUS
  <1>2. Carried' /\ SpentIsOld'
    BY DEF SpentIsOld, Out, Renewing
  <1>3. Agrees'
    BY DEF Agrees, Young, Sound
  <1>4. Young'
    BY DEF Agrees, Young, Sound, Out
  <1> QED BY <1>1, <1>2, <1>3, <1>4

LEMMA StepHolds == ASSUME Room, Held, [Client!Next]_(Client!vars) PROVE Held'
  <1>1. CASE UNCHANGED Client!vars
    BY <1>1 DEF Client!vars, Held, Client!TypeOK, Carried, SpentIsOld, Agrees, Young, Sound,
       Out, Renewing
  <1>2. ASSUME NEW c \in Calls,
               \/ Client!Begin(c) \/ Client!Proceed(c) \/ Client!Answered(c)
                    \/ Client!Unauthorized(c)
               \/ Client!UnauthorizedAgain(c) \/ Client!Forget(c) \/ Client!Forgotten(c)
        PROVE  Held'
    <2>1. Client!Answered(c) => Held'
      BY EndHolds DEF Client!Answered
    <2> QED
      BY <1>2, <2>1, BeginHolds, ProceedHolds, UnauthorizedHolds, UnauthorizedAgainHolds,
         ForgetHolds, ForgottenHolds
  <1>3. CASE \/ Client!Load \/ Client!Exchange \/ Client!Unavailable \/ Client!RefreshLost
          \/ Client!RefreshAnswer
             \/ Client!Saved \/ Client!SaveFails \/ Client!Cleared \/ Client!Revoke
                  \/ Client!Reload
    BY <1>3, LoadHolds, ExchangeHolds, UnavailableHolds, RefreshLostHolds,
       RefreshAnswerHolds, SavedHolds, SaveFailsHolds, ClearedHolds, RevokeHolds, ReloadHolds
  <1> QED
    BY <1>1, <1>2, <1>3, AgesHolds DEF Client!Next

LEMMA AlwaysHeld == ASSUME Room PROVE Client!Spec => []Held
  <1>1. Client!Init => Held
    BY HeldAtFirst
  <1>2. Held /\ [Client!Next]_(Client!vars) => Held'
    BY StepHolds
  <1> QED BY <1>1, <1>2, PTL DEF Client!Spec

\* While the connection lives, no answer was lost and nothing is being written,
\* the app's store holds the newest pair and memory agrees (client/index.ts).
THEOREM StoreIsNewest == ASSUME Room PROVE Client!Spec => []Client!StoreHoldsNewest
  <1>1. Held => Client!StoreHoldsNewest
    BY DEF Held, Agrees, Sound, Client!StoreHoldsNewest
  <1>2. Client!Spec => []Held
    BY AlwaysHeld
  <1> QED BY <1>1, <1>2, PTL

\* No refresh token is presented once its successor has arrived, whatever is
\* lost, refused or not saved (client/index.ts).
THEOREM SpentStaysSpent == ASSUME Room PROVE Client!Spec =>
  [][Client!NeverReplays]_(Client!vars)
  <1>1. ASSUME Held, Held', [Client!Next]_(Client!vars), refreshing'.at = "asked"
        PROVE  refreshing'.pair \notin retired
    <2>1. \A s \in retired : s \in Client!Pairs
      BY <1>1 DEF Held, Client!TypeOK
    <2>2. retired' = retired
      <3>1. ~(Client!RefreshAnswer \/ Client!Reload)
        <4>1. refreshing \in Refreshes
          BY <1>1 DEF Held, Client!TypeOK, Refreshes
        <4> QED BY <1>1, <4>1 DEF Client!RefreshAnswer, Client!Reload, Client!AtRest,
                   Refreshes
      <3> QED
        BY <1>1, <3>1 DEF Client!Next, Client!vars, Client!Begin, Client!Proceed,
           Client!Answered, Client!Unauthorized,
           Client!UnauthorizedAgain, Client!Forget, Client!Forgotten, Client!Load,
             Client!Exchange, Client!Unavailable, Client!RefreshLost,
           Client!Saved, Client!SaveFails, Client!Cleared, Client!Ages, Client!Revoke
    <2>3. \A s \in retired' : s < refreshing'.pair
      BY <1>1 DEF Held, SpentIsOld, Renewing
    <2> QED BY <2>1, <2>2, <2>3 DEF Client!Pairs
  <1>2. Client!Spec => []Held
    BY AlwaysHeld
  <1>3. Held /\ Held' /\ [Client!Next]_(Client!vars) => [Client!NeverReplays]_(Client!vars)
    BY <1>1 DEF Client!NeverReplays
  <1> QED BY <1>2, <1>3, PTL DEF Client!Spec

-----------------------------------------------------------------------------
(* The sessions of the host probe.                                           *)

\* Bounds are numbers, and there is room for a session and for a page.
Limits ==
  /\ MaxIds \in Nat /\ MaxTime \in Nat /\ IdleAfter \in Nat /\ PageLife \in Nat
  /\ MaxApprovals \in Nat /\ MaxPages \in Nat
  /\ MaxSessions \in Nat \ {0} /\ MaxHeld \in Nat \ {0}

Grant == [client: Apps, state: {"live", "revoked", "returned"}]

\* A session is of a client, follows a grant of it that the owner has not
\* revoked, and was used by now.
FollowsGrant(s) ==
  /\ sessions[s].grant \in DOMAIN grants /\ ~Probe!ByOwner(sessions[s].grant)
  /\ sessions[s].client = grants[sessions[s].grant].client
  /\ sessions[s].lastUsed \in 0 .. now

\* The sessions that are open, no more than may be, and who waits in them.
Hosted ==
  /\ now \in 0 .. MaxTime /\ opened \in 0 .. MaxIds
  /\ grants \in Seq(Grant)
  /\ DOMAIN sessions \subseteq 1 .. opened
  /\ Cardinality(DOMAIN sessions) <= MaxSessions
  /\ \A s \in DOMAIN sessions :
       sessions[s] \in [client: Apps, grant: Nat, lastUsed: Nat] /\ FollowsGrant(s)
  /\ waits \in [Probe!Ids -> 0 .. MaxPages]
  /\ \A s \in Probe!Ids : waits[s] # 0 => s \in DOMAIN sessions

Page == [session: Probe!Ids, done: BOOLEAN, telling: Nat]

\* The completed pages of a session, but the one it has yet to pass with.
Earned(s) == {p \in DOMAIN made : made[p].session = s /\ made[p].done /\ p # required[s]}

\* A page is told of once it is done, and once; what lets a session through is
\* a page it asked for.
Answered ==
  /\ made \in Seq(Page) /\ Len(made) <= MaxPages
  /\ pages \in Seq([id: Nat, since: Nat]) /\ Len(pages) <= MaxHeld
  /\ required \in [Probe!Ids -> 0 .. MaxPages]
  /\ passes \in [Probe!Ids -> Nat]
  /\ told \in [Probe!Pages -> Nat]
  /\ \A p \in Probe!Pages :
       IF p \in DOMAIN made THEN told[p] + made[p].telling <= (IF made[p].done THEN 1 ELSE 0)
       ELSE told[p] = 0
  /\ \A s \in Probe!Ids :
       /\ required[s] # 0 => required[s] \in DOMAIN made /\ made[required[s]].session = s
       /\ passes[s] <= Cardinality(Earned(s))

-----------------------------------------------------------------------------
\* The module counts as this one does.
LEMMA ProbeCounts == ASSUME NEW S PROVE Probe!Cardinality(S) = Cardinality(S)
  BY DEF Probe!Cardinality, Cardinality

\* A set of numbers has a least one.
LEMMA Smallest == ASSUME NEW S, S \subseteq Nat, S # {} PROVE \E x \in S : \A y \in S : x <= y
  <1>1. OpToRel(<, Nat) = {ss \in Nat \X Nat : ss[1] < ss[2]}
    BY DEF OpToRel
  <1>2. \E x \in S : \A y \in S : ~(<<y, x>> \in {ss \in Nat \X Nat : ss[1] < ss[2]})
    BY <1>1, NatLessThanWellFounded, WFMin
  <1>3. PICK x \in S : \A y \in S : ~(<<y, x>> \in {ss \in Nat \X Nat : ss[1] < ss[2]})
    BY <1>2
  <1>4. \A y \in S : x <= y
    <2>1. \A y \in S : ~(y < x)
      BY <1>3
    <2> QED BY <2>1
  <1> QED BY <1>4

LEMMA Numbers ==
    ASSUME Limits, Hosted
    PROVE  /\ now \in Nat /\ opened \in Nat /\ Probe!Open \subseteq 1 .. opened
           /\ DOMAIN grants \subseteq Nat /\ MaxPages \in Nat /\ MaxSessions \in Nat
           /\ IsFiniteSet(Probe!Open) /\ Cardinality(Probe!Open) \in Nat
           /\ Cardinality(Probe!Open) <= MaxSessions
  <1>1. /\ now \in 0 .. MaxTime /\ opened \in 0 .. MaxIds /\ Probe!Open \subseteq 1 .. opened
        /\ grants \in Seq(Grant) /\ Cardinality(Probe!Open) <= MaxSessions
    BY DEF Hosted, Probe!Open
  <1>2. now \in Nat /\ opened \in Nat /\ MaxPages \in Nat /\ MaxSessions \in Nat
    BY <1>1 DEF Limits
  <1>3. DOMAIN grants = 1 .. Len(grants) /\ Len(grants) \in Nat
    BY <1>1, LenProperties
  <1>4. IsFiniteSet(1 .. opened)
    BY <1>2, FS_Interval
  <1>5. IsFiniteSet(Probe!Open)
    BY <1>1, <1>4, FS_Subset
  <1> QED BY <1>1, <1>2, <1>3, <1>5, FS_CardinalityType

\* Fewer sessions are not too many.
LEMMA FewerFit ==
    ASSUME Limits, Hosted, NEW S, S \subseteq Probe!Open
    PROVE  IsFiniteSet(S) /\ Cardinality(S) \in Nat
             /\ Cardinality(S) <= Cardinality(Probe!Open)
  BY Numbers, FS_Subset, FS_CardinalityType

LEMMA HostedAtFirst ==
    ASSUME Limits, Probe!Init
    PROVE  Hosted /\ Answered
  <1>1. DOMAIN sessions = {} /\ Cardinality(DOMAIN sessions) = 0
    BY FS_EmptySet DEF Probe!Init
  <1>2. Hosted
    BY <1>1 DEF Hosted, Probe!Init, Limits, Probe!Ids
  <1>3. \A s \in Probe!Ids : Earned(s) = {}
    BY DEF Earned, Probe!Init
  <1>4. Answered
    <2>1. /\ made \in Seq(Page) /\ Len(made) <= MaxPages
          /\ pages \in Seq([id: Nat, since: Nat]) /\ Len(pages) <= MaxHeld
      BY DEF Probe!Init, Limits
    <2>2. /\ required \in [Probe!Ids -> 0 .. MaxPages] /\ passes \in [Probe!Ids -> Nat]
          /\ told \in [Probe!Pages -> Nat]
      BY DEF Probe!Init, Limits
    <2>3. \A p \in Probe!Pages : p \notin DOMAIN made /\ told[p] = 0
      BY DEF Probe!Init
    <2>4. \A s \in Probe!Ids : required[s] = 0 /\ passes[s] <= Cardinality(Earned(s))
      BY <1>3, FS_EmptySet DEF Probe!Init
    <2> QED BY <2>1, <2>2, <2>3, <2>4 DEF Answered
  <1> QED BY <1>2, <1>4

\* A session is used by a living grant of its client.
Used(s) ==
  \E g \in DOMAIN grants :
    /\ Probe!Live(g) /\ sessions[s].client = grants[g].client
    /\ sessions'[s] = [sessions[s] EXCEPT !.grant = g, !.lastUsed = now]

\* Some sessions stay, as they were or used.
LEMMA SessionsKeep ==
    ASSUME Limits, Hosted, now' = now, opened' = opened, grants' = grants,
           NEW S, S \subseteq Probe!Open, DOMAIN sessions' = S,
           \A s \in S : sessions'[s] = sessions[s] \/ Used(s),
           waits' \in [Probe!Ids -> 0 .. MaxPages], \A s \in Probe!Ids : waits'[s] # 0 =>
             s \in S
    PROVE  Hosted'
  <1>1. S \subseteq 1 .. opened /\ now \in Nat /\ now \in 0 .. now
    BY Numbers
  <1>2. Cardinality(S) <= MaxSessions
    BY Numbers, FewerFit
  <1>3. ASSUME NEW s \in S
        PROVE  sessions'[s] \in [client: Apps, grant: Nat, lastUsed: Nat] /\ FollowsGrant(s)'
    <2>1. sessions[s] \in [client: Apps, grant: Nat, lastUsed: Nat] /\ FollowsGrant(s)
      BY DEF Hosted, Probe!Open
    <2>2. CASE sessions'[s] = sessions[s]
      BY <2>1, <2>2 DEF FollowsGrant, Probe!ByOwner
    <2>3. CASE Used(s)
      <3>0. PICK g \in DOMAIN grants :
              /\ Probe!Live(g) /\ sessions[s].client = grants[g].client
              /\ sessions'[s] = [sessions[s] EXCEPT !.grant = g, !.lastUsed = now]
        BY <2>3 DEF Used
      <3>1. g \in Nat /\ ~Probe!ByOwner(g)
        BY <3>0, Numbers DEF Probe!Live, Probe!ByOwner
      <3>2. /\ sessions'[s] \in [client: Apps, grant: Nat, lastUsed: Nat]
            /\ sessions'[s].grant = g /\ sessions'[s].lastUsed = now
            /\ sessions'[s].client = grants[g].client
        BY <1>1, <2>1, <3>0, <3>1
      <3> QED BY <1>1, <3>0, <3>1, <3>2 DEF FollowsGrant, Probe!ByOwner
    <2> QED BY <2>1, <2>2, <2>3
  <1> QED BY <1>1, <1>2, <1>3 DEF Hosted

\* Sessions are closed, and what waited in them fails.
LEMMA ClosingKeeps ==
    ASSUME Limits, Hosted, NEW S, S \subseteq Probe!Open, Probe!CloseAllBut(S),
           now' = now, opened' = opened, grants' = grants
    PROVE  Hosted'
  <1>1. DOMAIN sessions' = S /\ \A s \in S : sessions'[s] = sessions[s]
    BY DEF Probe!CloseAllBut, Probe!Restricted
  <1>2. waits' \in [Probe!Ids -> 0 .. MaxPages] /\ \A s \in Probe!Ids : waits'[s] # 0 =>
          s \in S
    BY DEF Probe!CloseAllBut, Hosted, Probe!Open, Limits
  <1> QED BY <1>1, <1>2, SessionsKeep

\* A session is used.
LEMMA UseKeeps ==
    ASSUME Limits, Hosted, NEW g \in DOMAIN grants, NEW s \in Probe!Open, Probe!Live(g),
             Probe!Uses(g, s),
           sessions' = Probe!Touched(g, s), waits' \in [Probe!Ids -> 0 .. MaxPages],
           \A t \in Probe!Ids : waits'[t] # 0 => t \in Probe!Fresh,
           now' = now, opened' = opened, grants' = grants
    PROVE  Hosted'
  <1>1. Probe!Fresh \subseteq Probe!Open /\ s \in Probe!Fresh
    BY DEF Probe!Fresh, Probe!Uses
  <1>2. DOMAIN sessions' = Probe!Fresh
    BY DEF Probe!Touched, Probe!Restricted
  <1>3. \A t \in Probe!Fresh \ {s} : sessions'[t] = sessions[t]
    BY DEF Probe!Touched, Probe!Restricted
  <1>4. sessions'[s] = [sessions[s] EXCEPT !.grant = g, !.lastUsed = now]
    BY <1>1 DEF Probe!Touched, Probe!Restricted
  <1>5. Used(s)
    BY <1>4 DEF Used, Probe!Uses
  <1> QED BY <1>1, <1>2, <1>3, <1>5, SessionsKeep

LEMMA RestIs ==
    ASSUME Limits, Hosted, NEW s
    PROVE  Probe!Rest(s) \in [Probe!Ids -> 0 .. MaxPages] /\ \A t \in Probe!Ids :
             Probe!Rest(s)[t] # 0 => t \in Probe!Fresh
  BY DEF Probe!Rest, Hosted, Probe!Fresh, Probe!Open, Limits

LEMMA ApproveHosts == ASSUME Limits, Hosted, NEW c \in Apps, Probe!Approve(c) PROVE Hosted'
  <1>1. grants' \in Seq(Grant) /\ Len(grants') = Len(grants) + 1
        /\ \A g \in DOMAIN grants : g \in DOMAIN grants' /\ grants'[g] = grants[g]
    BY AppendProperties DEF Hosted, Probe!Approve, Grant
  <1>2. \A s \in DOMAIN sessions : FollowsGrant(s)'
    BY <1>1 DEF Hosted, FollowsGrant, Probe!ByOwner, Probe!Approve
  <1> QED BY <1>1, <1>2 DEF Hosted, Probe!Approve

\* Grants end, and those the owner ends take their sessions along.
LEMMA GrantsEnd ==
    ASSUME Limits, Hosted, now' = now, opened' = opened,
           grants' \in Seq(Grant), DOMAIN grants' = DOMAIN grants,
           \A g \in DOMAIN grants : grants'[g].client = grants[g].client,
           NEW S, S \subseteq Probe!Open, Probe!CloseAllBut(S),
           \A s \in S : ~Probe!ByOwner(sessions[s].grant)'
    PROVE  Hosted'
  <1>1. DOMAIN sessions' = S /\ (\A s \in S : sessions'[s] = sessions[s])
    BY DEF Probe!CloseAllBut, Probe!Restricted
  <1>2. waits' \in [Probe!Ids -> 0 .. MaxPages] /\ \A s \in Probe!Ids : waits'[s] # 0 =>
          s \in S
    BY DEF Probe!CloseAllBut, Hosted, Probe!Open, Limits
  <1>3. Cardinality(S) <= MaxSessions
    BY Numbers, FewerFit
  <1>4. \A s \in S : FollowsGrant(s)'
          /\ sessions'[s] \in [client: Apps, grant: Nat, lastUsed: Nat]
    BY <1>1 DEF Hosted, FollowsGrant, Probe!Open, Probe!ByOwner
  <1> QED BY <1>1, <1>2, <1>3, <1>4 DEF Hosted, Probe!Open

LEMMA RevokeHosts == ASSUME Limits, Hosted, NEW g \in DOMAIN grants,
  Probe!Revoke(g) PROVE Hosted'
  <1> DEFINE S == {s \in Probe!Open : sessions[s].grant # g}
  <1>1. /\ grants' = [grants EXCEPT ![g].state = "revoked"] /\ Probe!CloseAllBut(S)
        /\ now' = now /\ opened' = opened
    BY DEF Probe!Revoke
  <1>2. grants \in Seq(Grant) /\ g \in 1 .. Len(grants) /\ grants[g] \in Grant
    BY ElementOfSeq DEF Hosted
  <1>3. [grants[g] EXCEPT !.state = "revoked"] \in Grant
    BY <1>2 DEF Grant
  <1>4. /\ grants' \in Seq(Grant) /\ DOMAIN grants' = DOMAIN grants
        /\ \A k \in DOMAIN grants \ {g} : grants'[k] = grants[k]
        /\ grants'[g] = [grants[g] EXCEPT !.state = "revoked"]
    BY <1>1, <1>2, <1>3, ExceptSeq
  <1>5. \A k \in DOMAIN grants : grants'[k].client = grants[k].client
    BY <1>2, <1>4 DEF Grant
  <1>6. \A s \in S : ~Probe!ByOwner(sessions[s].grant)'
    <2>1. \A s \in S : sessions'[s] = sessions[s] /\ sessions[s].grant # g /\ FollowsGrant(s)
      BY <1>1 DEF Probe!CloseAllBut, Probe!Restricted, Hosted, Probe!Open
    <2> QED BY <1>4, <2>1 DEF FollowsGrant, Probe!ByOwner
  <1>7. S \subseteq Probe!Open
    OBVIOUS
  <1> HIDE DEF S
  <1> QED BY <1>1, <1>4, <1>5, <1>6, <1>7, GrantsEnd

LEMMA RevokeAllHosts == ASSUME Limits, Hosted, Probe!RevokeAll PROVE Hosted'
  <1>1. /\ grants' = [g \in DOMAIN grants |->
                        IF Probe!Live(g) THEN [grants[g] EXCEPT !.state =
                          "revoked"] ELSE grants[g]]
        /\ Probe!CloseAllBut({}) /\ now' = now /\ opened' = opened
    BY DEF Probe!RevokeAll
  <1>2. grants \in Seq(Grant) /\ \A g \in DOMAIN grants : grants[g] \in Grant
    BY ElementOfSeq DEF Hosted
  <1>3. \A g \in DOMAIN grants : grants'[g] \in Grant /\ grants'[g].client = grants[g].client
    BY <1>1, <1>2 DEF Grant
  <1>4. DOMAIN grants' = 1 .. Len(grants) /\ Len(grants) \in Nat
    BY <1>1, <1>2
  <1>5. grants' \in [1 .. Len(grants) -> Grant]
    BY <1>1, <1>3, <1>4
  <1>6. grants' \in Seq(Grant) /\ DOMAIN grants' = DOMAIN grants
    BY <1>2, <1>4, <1>5
  <1> QED BY <1>1, <1>3, <1>6, GrantsEnd

LEMMA ReturnedHosts == ASSUME Limits, Hosted, NEW g \in DOMAIN grants,
  Probe!Returned(g) PROVE Hosted'
  <1>1. grants' = [grants EXCEPT ![g].state = "returned"]
    BY DEF Probe!Returned
  <1>2. grants \in Seq(Grant) /\ g \in 1 .. Len(grants) /\ grants[g] \in Grant
    BY ElementOfSeq DEF Hosted
  <1>3. [grants[g] EXCEPT !.state = "returned"] \in Grant
    BY <1>2 DEF Grant
  <1>4. /\ grants' \in Seq(Grant) /\ DOMAIN grants' = DOMAIN grants
        /\ \A k \in DOMAIN grants \ {g} : grants'[k] = grants[k]
        /\ grants'[g].state = "returned" /\ grants'[g].client = grants[g].client
    BY <1>1, <1>2, <1>3, ExceptSeq DEF Grant
  <1>5. \A s \in DOMAIN sessions : FollowsGrant(s)'
    BY <1>4 DEF Hosted, FollowsGrant, Probe!ByOwner, Probe!Returned
  <1> QED BY <1>4, <1>5 DEF Hosted, Probe!Returned

\* Who makes room is one of the fresh, and none of them was used longer ago.
LEMMA EvictIs ==
    ASSUME Limits, Hosted
    PROVE  /\ Probe!Evict(Probe!Fresh) \subseteq Probe!Fresh
                /\ IsFiniteSet(Probe!Evict(Probe!Fresh))
           /\ Cardinality(Probe!Evict(Probe!Fresh)) + 1 <= MaxSessions
           /\ \A s \in Probe!Fresh \ Probe!Evict(Probe!Fresh) : \A t \in Probe!Fresh :
                sessions[s].lastUsed <= sessions[t].lastUsed
  <1>1. Probe!Fresh \subseteq Probe!Open
    BY DEF Probe!Fresh
  <1>2. /\ IsFiniteSet(Probe!Fresh) /\ Cardinality(Probe!Fresh) \in Nat
             /\ Cardinality(Probe!Fresh) <= MaxSessions
        /\ MaxSessions \in Nat \ {0} /\ MaxSessions \in Nat
    BY <1>1, FewerFit, Numbers DEF Limits
  <1>3. CASE Cardinality(Probe!Fresh) < MaxSessions
    <2>1. Probe!Evict(Probe!Fresh) = Probe!Fresh
      BY <1>3, ProbeCounts DEF Probe!Evict
    <2> QED BY <1>2, <1>3, <2>1
  <1>4. CASE ~(Cardinality(Probe!Fresh) < MaxSessions)
    <2>1. Probe!Fresh # {}
      BY <1>2, <1>4, FS_EmptySet
    <2> DEFINE used == {sessions[s].lastUsed : s \in Probe!Fresh}
               first == CHOOSE s \in Probe!Fresh :
                          \A t \in Probe!Fresh : sessions[s].lastUsed <= sessions[t].lastUsed
    <2>2. used \subseteq Nat /\ used # {}
      BY <1>1, <2>1 DEF Hosted, Probe!Open
    <2>3. PICK u \in used : \A v \in used : u <= v
      <3> HIDE DEF used
      <3> QED BY <2>2, Smallest
    <2>4. \E s \in Probe!Fresh : \A t \in Probe!Fresh :
            sessions[s].lastUsed <= sessions[t].lastUsed
      BY <2>3
    <2>5. first \in Probe!Fresh /\ \A t \in Probe!Fresh :
            sessions[first].lastUsed <= sessions[t].lastUsed
      BY <2>4
    <2>6. Probe!Evict(Probe!Fresh) = Probe!Fresh \ {first}
      BY <1>4, ProbeCounts DEF Probe!Evict
    <2> HIDE DEF first, used
    <2>7. IsFiniteSet(Probe!Fresh \ {first})
            /\ Cardinality(Probe!Fresh \ {first}) = Cardinality(Probe!Fresh) - 1
      BY <1>2, <2>5, FS_RemoveElement
    <2> QED BY <1>2, <2>5, <2>6, <2>7
  <1> QED BY <1>3, <1>4

LEMMA InitializeHosts ==
    ASSUME Limits, Hosted, NEW g \in DOMAIN grants, Probe!Initialize(g)
    PROVE  Hosted' /\ DOMAIN sessions' = Probe!Evict(Probe!Fresh) \cup {opened + 1}
  <1> DEFINE E == Probe!Evict(Probe!Fresh)
             id == opened + 1
             new == [client |-> grants[g].client, grant |-> g, lastUsed |-> now]
  <1>1. /\ now \in Nat /\ opened \in Nat /\ Probe!Open \subseteq 1 .. opened /\ g \in Nat
        /\ MaxIds \in Nat /\ MaxSessions \in Nat /\ MaxPages \in Nat
    BY Numbers DEF Limits
  <1>2. /\ E \subseteq Probe!Open /\ IsFiniteSet(E) /\ Cardinality(E) + 1 <= MaxSessions
    BY EvictIs DEF Probe!Fresh
  <1>3. /\ Probe!Live(g) /\ opened < MaxIds /\ opened' = id /\ now' = now /\ grants' = grants
        /\ sessions' = [s \in E \cup {id} |-> IF s = id THEN new ELSE sessions[s]]
        /\ waits' = [s \in Probe!Ids |-> IF s \in Probe!Open \ E THEN 0 ELSE waits[s]]
    BY DEF Probe!Initialize, Probe!kept
  <1>4. grants \in Seq(Grant) /\ grants[g] \in Grant /\ grants[g].client \in Apps
    <2>1. grants \in Seq(Grant) /\ g \in 1 .. Len(grants)
      BY DEF Hosted
    <2>2. grants[g] \in Grant
      BY <2>1, ElementOfSeq
    <2> QED BY <2>1, <2>2 DEF Grant
  <1>5. DOMAIN sessions' = E \cup {id} /\ id \notin E
    BY <1>1, <1>2, <1>3
  <1>6. Cardinality(E \cup {id}) <= MaxSessions
    <2>1. Cardinality(E) \in Nat /\ Cardinality(E \cup {id}) = Cardinality(E) + 1
      <3> HIDE DEF E, id
      <3> QED BY <1>2, <1>5, FS_AddElement, FS_CardinalityType
    <2> HIDE DEF E, id
    <2> QED BY <1>1, <1>2, <2>1
  <1>7. ASSUME NEW s \in E \cup {id}
        PROVE  sessions'[s] \in [client: Apps, grant: Nat, lastUsed: Nat] /\ FollowsGrant(s)'
    <2>1. CASE s = id
      <3>1. sessions'[s] = new
        BY <1>3, <2>1
      <3>2. ~Probe!ByOwner(g) /\ now \in 0 .. now
        BY <1>1, <1>3 DEF Probe!Live, Probe!ByOwner
      <3>3. new \in [client: Apps, grant: Nat, lastUsed: Nat]
        BY <1>1, <1>4
      <3> QED BY <1>3, <3>1, <3>2, <3>3 DEF FollowsGrant, Probe!ByOwner
    <2>2. CASE s # id
      <3>1. s \in E /\ sessions'[s] = sessions[s]
        BY <1>3, <2>2
      <3>2. s \in DOMAIN sessions
        BY <1>2, <3>1 DEF Probe!Open
      <3>3. sessions[s] \in [client: Apps, grant: Nat, lastUsed: Nat] /\ FollowsGrant(s)
        BY <3>2 DEF Hosted
      <3> QED BY <1>3, <3>1, <3>3 DEF FollowsGrant, Probe!ByOwner
    <2> QED BY <2>1, <2>2
  <1>8. waits' \in [Probe!Ids -> 0 .. MaxPages] /\ \A s \in Probe!Ids : waits'[s] # 0 =>
          s \in E
    <2>1. waits \in [Probe!Ids -> 0 .. MaxPages] /\ \A s \in Probe!Ids : waits[s] # 0 =>
            s \in Probe!Open
      BY DEF Hosted, Probe!Open
    <2> HIDE DEF E
    <2> QED BY <1>1, <1>3, <2>1
  <1>9. E \cup {id} \subseteq 1 .. id /\ id \in 0 .. MaxIds
    <2> HIDE DEF E
    <2> QED BY <1>1, <1>2, <1>3
  <1>10. now \in 0 .. MaxTime
    BY DEF Hosted
  <1> HIDE DEF E, id, new
  <1>11. Hosted'
    BY <1>3, <1>4, <1>5, <1>6, <1>7, <1>8, <1>9, <1>10 DEF Hosted
  <1> QED BY <1>5, <1>11 DEF E, id

LEMMA CallsHost ==
    ASSUME Limits, Hosted, NEW g \in DOMAIN grants, NEW s \in Probe!Open,
           Probe!Request(g, s) \/ Probe!Close(g, s)
    PROVE  Hosted'
  <1>1. CASE Probe!Request(g, s)
    BY <1>1, UseKeeps, RestIs DEF Probe!Request, Probe!kept
  <1>2. CASE Probe!Close(g, s)
    <2>1. Probe!Fresh \ {s} \subseteq Probe!Open
      BY DEF Probe!Fresh
    <2> QED BY <1>2, <2>1, ClosingKeeps DEF Probe!Close, Probe!kept
  <1> QED BY <1>1, <1>2

LEMMA RefusedHosts ==
    ASSUME Limits, Hosted, NEW g \in DOMAIN grants, Probe!Refused(g)
    PROVE  Hosted'
  <1>1. Probe!Fresh \subseteq Probe!Open
    BY DEF Probe!Fresh
  <1> QED BY <1>1, ClosingKeeps DEF Probe!Refused, Probe!kept

LEMMA ElicitUrlHosts ==
    ASSUME Limits, Hosted, Answered, NEW g \in DOMAIN grants, NEW s \in Probe!Open,
             Probe!ElicitUrl(g, s)
    PROVE  Hosted'
  <1>1. Probe!NewPage(s) \in 0 .. MaxPages
    <2>1. Len(made) \in Nat /\ Len(made) < MaxPages
      BY LenProperties DEF Answered, Probe!ElicitUrl, Probe!CreatePage
    <2> QED BY <2>1, Numbers DEF Probe!NewPage
  <1>2. s \in Probe!Fresh
    BY DEF Probe!ElicitUrl, Probe!Uses
  <1>3. /\ waits' \in [Probe!Ids -> 0 .. MaxPages]
        /\ \A t \in Probe!Ids : waits'[t] # 0 => t \in Probe!Fresh
    BY <1>1, <1>2, RestIs DEF Probe!ElicitUrl
  <1> QED BY <1>3, UseKeeps DEF Probe!ElicitUrl

LEMMA RequireUrlHosts ==
    ASSUME Limits, Hosted, NEW g \in DOMAIN grants, NEW s \in Probe!Open,
             Probe!RequireUrl(g, s)
    PROVE  Hosted'
  BY UseKeeps, RestIs DEF Probe!RequireUrl

LEMMA ElicitEndsHosts ==
    ASSUME Limits, Hosted, NEW s \in Probe!Ids, Probe!ElicitEnds(s)
    PROVE  Hosted'
  <1>1. /\ now' = now /\ opened' = opened /\ grants' = grants /\ sessions' = sessions
        /\ waits' = [waits EXCEPT ![s] = 0]
    BY DEF Probe!ElicitEnds, Probe!kept
  <1>2. waits' \in [Probe!Ids -> 0 .. MaxPages] /\ \A t \in Probe!Ids : waits'[t] # 0 =>
          t \in Probe!Open
    BY <1>1, Numbers DEF Hosted, Probe!Open
  <1>3. DOMAIN sessions' = Probe!Open /\ \A t \in Probe!Open : sessions'[t] = sessions[t]
    BY <1>1 DEF Probe!Open
  <1> QED BY <1>1, <1>2, <1>3, SessionsKeep

LEMMA StillHosts ==
    ASSUME Limits, Hosted, UNCHANGED <<now, grants, sessions, opened, waits>>
    PROVE  Hosted'
  BY DEF Hosted, FollowsGrant, Probe!ByOwner

LEMMA TickHosts == ASSUME Limits, Hosted, Probe!Tick PROVE Hosted'
  <1>1. now' \in 0 .. MaxTime /\ now' = now + 1 /\ now \in Nat
    BY Numbers DEF Hosted, Probe!Tick, Limits
  <1>2. \A s \in DOMAIN sessions : FollowsGrant(s)'
    BY <1>1 DEF Hosted, FollowsGrant, Probe!ByOwner, Probe!Tick
  <1> QED BY <1>1, <1>2 DEF Hosted, Probe!Tick

-----------------------------------------------------------------------------
LEMMA StillAnswers ==
    ASSUME Limits, Answered, UNCHANGED <<required, passes, pages, made, told>>
    PROVE  Answered'
  <1>1. \A s : Earned(s)' = Earned(s)
    BY DEF Earned
  <1> QED BY <1>1 DEF Answered

LEMMA EarnedIsFinite ==
    ASSUME Limits, Answered, NEW s
    PROVE  IsFiniteSet(Earned(s)) /\ Cardinality(Earned(s)) \in Nat
  <1>1. IsFiniteSet(1 .. Len(made)) /\ DOMAIN made = 1 .. Len(made)
    <2>1. made \in Seq(Page) /\ Len(made) \in Nat
      BY LenProperties DEF Answered
    <2> QED BY <2>1, FS_Interval, LenProperties
  <1>2. Earned(s) \subseteq DOMAIN made
    BY DEF Earned
  <1> QED BY <1>1, <1>2, FS_Subset, FS_CardinalityType

\* A page is made: the oldest goes when there are too many.
LEMMA PageIsMade ==
    ASSUME Limits, Answered, NEW s \in Probe!Ids, Probe!CreatePage(s), now \in Nat
    PROVE  /\ made' \in Seq(Page) /\ Len(made') = Len(made) + 1 /\ Len(made') <= MaxPages
           /\ \A p \in DOMAIN made : p \in DOMAIN made' /\ made'[p] = made[p]
           /\ Probe!NewPage(s) \in DOMAIN made' /\ Probe!NewPage(s) \notin DOMAIN made
           /\ DOMAIN made' = DOMAIN made \cup {Probe!NewPage(s)}
           /\ made'[Probe!NewPage(s)] = [session |-> s, done |-> FALSE, telling |-> 0]
           /\ pages' \in Seq([id: Nat, since: Nat]) /\ Len(pages') <= MaxHeld
           /\ Probe!NewPage(s) \in Probe!Pages
  <1> DEFINE new == [session |-> s, done |-> FALSE, telling |-> 0]
             room == IF Len(pages) >= MaxHeld THEN Tail(pages) ELSE pages
             entry == [id |-> Probe!NewPage(s), since |-> now]
  <1>1. /\ made \in Seq(Page) /\ Len(made) \in Nat /\ DOMAIN made = 1 .. Len(made)
        /\ pages \in Seq([id: Nat, since: Nat]) /\ Len(pages) \in Nat /\ Len(pages) <= MaxHeld
        /\ Len(made) < MaxPages /\ MaxPages \in Nat /\ MaxHeld \in Nat \ {0}
        /\ made' = Append(made, new) /\ pages' = Append(room, entry)
    BY LenProperties DEF Answered, Probe!CreatePage, Limits
  <1>2. new \in Page /\ entry \in [id: Nat, since: Nat] /\ Probe!NewPage(s) = Len(made) + 1
    BY <1>1 DEF Page, Probe!NewPage
  <1>3. room \in Seq([id: Nat, since: Nat]) /\ Len(room) \in Nat /\ Len(room) + 1 <= MaxHeld
    <2>1. CASE Len(pages) >= MaxHeld
      <3>1. pages # <<>>
        BY <1>1, <2>1
      <3>2. Tail(pages) \in Seq([id: Nat, since: Nat]) /\ Len(Tail(pages)) = Len(pages) - 1
        BY <1>1, <3>1, HeadTailProperties
      <3> QED BY <1>1, <2>1, <3>2
    <2>2. CASE ~(Len(pages) >= MaxHeld)
      BY <1>1, <2>2
    <2> QED BY <2>1, <2>2
  <1> HIDE DEF new, room, entry
  <1>4. /\ made' \in Seq(Page) /\ Len(made') = Len(made) + 1
        /\ \A p \in 1 .. Len(made) : made'[p] = made[p]
        /\ made'[Len(made) + 1] = new
    BY <1>1, <1>2, AppendProperties
  <1>5. pages' \in Seq([id: Nat, since: Nat]) /\ Len(pages') = Len(room) + 1
    BY <1>1, <1>2, <1>3, AppendProperties
  <1>6. DOMAIN made' = 1 .. Len(made) + 1
    BY <1>4, LenProperties
  <1>7. DOMAIN made' = DOMAIN made \cup {Probe!NewPage(s)}
          /\ Probe!NewPage(s) \notin DOMAIN made
    BY <1>1, <1>2, <1>6
  <1> QED BY <1>1, <1>2, <1>3, <1>4, <1>5, <1>7 DEF new, Probe!Pages

LEMMA ElicitUrlAnswers ==
    ASSUME Limits, Hosted, Answered, NEW g \in DOMAIN grants, NEW s \in Probe!Open,
             Probe!ElicitUrl(g, s)
    PROVE  Answered'
  <1>1. s \in Probe!Ids /\ now \in Nat
    BY Numbers DEF Hosted, Probe!Open, Probe!Ids, Limits
  <1>2. Probe!CreatePage(s) /\ required' = required /\ passes' = passes /\ told' = told
    BY DEF Probe!ElicitUrl
  <1>3. /\ made' \in Seq(Page) /\ Len(made') <= MaxPages
        /\ \A p \in DOMAIN made : p \in DOMAIN made' /\ made'[p] = made[p]
        /\ DOMAIN made' = DOMAIN made \cup {Probe!NewPage(s)}
             /\ Probe!NewPage(s) \notin DOMAIN made
        /\ made'[Probe!NewPage(s)] = [session |-> s, done |-> FALSE, telling |-> 0]
        /\ pages' \in Seq([id: Nat, since: Nat]) /\ Len(pages') <= MaxHeld
    BY <1>1, <1>2, PageIsMade
  <1>4. \A t \in Probe!Ids : Earned(t)' = Earned(t)
    BY <1>2, <1>3 DEF Earned
  <1>5. \A p \in Probe!Pages :
          IF p \in DOMAIN made'
          THEN told'[p] + made'[p].telling <= (IF made'[p].done THEN 1 ELSE 0)
          ELSE told'[p] = 0
    BY <1>2, <1>3 DEF Answered
  <1>6. \A t \in Probe!Ids : required'[t] # 0 =>
           required'[t] \in DOMAIN made' /\ made'[required'[t]].session = t
    BY <1>2, <1>3 DEF Answered
  <1> QED BY <1>2, <1>3, <1>4, <1>5, <1>6 DEF Answered

LEMMA RequireUrlAnswers ==
    ASSUME Limits, Hosted, Answered, NEW g \in DOMAIN grants, NEW s \in Probe!Open,
             Probe!RequireUrl(g, s)
    PROVE  Answered'
  <1>1. s \in Probe!Ids /\ now \in Nat
    BY Numbers DEF Hosted, Probe!Open, Probe!Ids, Limits
  <1>2. required \in [Probe!Ids -> 0 .. MaxPages] /\ passes \in [Probe!Ids -> Nat]
          /\ told' = told
    BY DEF Answered, Probe!RequireUrl
  <1>3. CASE Probe!Done(required[s])
    <2>1. /\ passes' = [passes EXCEPT ![s] = @ + 1] /\ required' = [required EXCEPT ![s] = 0]
          /\ pages' = pages /\ made' = made
      BY <1>3 DEF Probe!RequireUrl
    <2> DEFINE p == required[s]
    <2>2. p # 0 /\ p \in DOMAIN made /\ made[p].session = s /\ made[p].done
      BY <1>1, <1>3 DEF Probe!Done, Answered
    <2>3. \A t \in Probe!Ids \ {s} : Earned(t)' = Earned(t) /\ passes'[t] = passes[t]
      BY <1>2, <2>1 DEF Earned
    <2>4. Earned(s)' = Earned(s) \cup {p} /\ p \notin Earned(s)
      <3>1. required'[s] = 0 /\ 0 \notin DOMAIN made
        BY <1>1, <1>2, <2>1, LenProperties DEF Answered
      <3> QED BY <2>1, <2>2, <3>1 DEF Earned
    <2>5. Cardinality(Earned(s)') = Cardinality(Earned(s)) + 1
      BY <2>4, EarnedIsFinite, FS_AddElement
    <2>6. passes'[s] = passes[s] + 1 /\ passes[s] \in Nat
      BY <1>1, <1>2, <2>1
    <2>7. passes'[s] <= Cardinality(Earned(s)')
      <3>1. passes[s] <= Cardinality(Earned(s)) /\ Cardinality(Earned(s)) \in Nat
        BY <1>1, EarnedIsFinite DEF Answered
      <3> QED BY <2>5, <2>6, <3>1
    <2>8. passes' \in [Probe!Ids -> Nat] /\ required' \in [Probe!Ids -> 0 .. MaxPages]
      BY <1>1, <1>2, <2>1 DEF Limits
    <2>9. \A t \in Probe!Ids :
            /\ required'[t] # 0 => required'[t] \in DOMAIN made'
                 /\ made'[required'[t]].session = t
            /\ passes'[t] <= Cardinality(Earned(t)')
      BY <1>2, <2>1, <2>3, <2>7 DEF Answered
    <2> QED BY <1>2, <2>1, <2>8, <2>9 DEF Answered
  <1>4. CASE ~Probe!Done(required[s])
    <2> DEFINE n == Probe!NewPage(s)
    <2>1. Probe!CreatePage(s) /\ required' = [required EXCEPT ![s] = n] /\ passes' = passes
      BY <1>4 DEF Probe!RequireUrl
    <2>2. /\ made' \in Seq(Page) /\ Len(made') <= MaxPages
          /\ \A p \in DOMAIN made : p \in DOMAIN made' /\ made'[p] = made[p]
          /\ DOMAIN made' = DOMAIN made \cup {n} /\ n \notin DOMAIN made /\ n \in Probe!Pages
          /\ made'[n] = [session |-> s, done |-> FALSE, telling |-> 0]
          /\ pages' \in Seq([id: Nat, since: Nat]) /\ Len(pages') <= MaxHeld
      BY <1>1, <2>1, PageIsMade
    <2> HIDE DEF n
    <2>3. required' \in [Probe!Ids -> 0 .. MaxPages] /\ required'[s] = n
          /\ \A t \in Probe!Ids \ {s} : required'[t] = required[t]
      BY <1>1, <1>2, <2>1, <2>2 DEF Probe!Pages, Limits
    <2>4. \A t \in Probe!Ids : Earned(t) \subseteq Earned(t)'
      BY <1>1, <2>2, <2>3 DEF Earned
    <2>5. \A t \in Probe!Ids : passes'[t] <= Cardinality(Earned(t)')
      <3> SUFFICES ASSUME NEW t \in Probe!Ids PROVE passes'[t] <= Cardinality(Earned(t)')
        OBVIOUS
      <3>1. IsFiniteSet(Earned(t)')
        <4>1. IsFiniteSet(1 .. Len(made')) /\ DOMAIN made' = 1 .. Len(made')
          <5>1. Len(made') \in Nat /\ DOMAIN made' = 1 .. Len(made')
            BY <2>2, LenProperties
          <5> QED BY <5>1, FS_Interval
        <4>2. Earned(t)' \subseteq DOMAIN made'
          BY DEF Earned
        <4> QED BY <4>1, <4>2, FS_Subset
      <3>2. Cardinality(Earned(t)) <= Cardinality(Earned(t)')
        BY <2>4, <3>1, FS_Subset
      <3>3. /\ Cardinality(Earned(t)) \in Nat /\ Cardinality(Earned(t)') \in Nat
            /\ passes[t] <= Cardinality(Earned(t)) /\ passes[t] \in Nat
        BY <1>2, <3>1, EarnedIsFinite, FS_CardinalityType DEF Answered
      <3> QED BY <2>1, <3>2, <3>3
    <2>6. \A t \in Probe!Ids : required'[t] # 0 =>
            required'[t] \in DOMAIN made' /\ made'[required'[t]].session = t
      <3>1. n \in DOMAIN made' /\ made'[n].session = s
        BY <2>2
      <3>2. ASSUME NEW t \in Probe!Ids \ {s}, required[t] # 0
            PROVE  required[t] \in DOMAIN made /\ made[required[t]].session = t
        BY <3>2 DEF Answered
      <3> QED BY <2>2, <2>3, <3>1, <3>2
    <2>7. \A p \in Probe!Pages :
            IF p \in DOMAIN made'
            THEN told'[p] + made'[p].telling <= (IF made'[p].done THEN 1 ELSE 0)
            ELSE told'[p] = 0
      BY <1>2, <2>2 DEF Answered
    <2> QED BY <1>2, <2>1, <2>2, <2>3, <2>5, <2>6, <2>7 DEF Answered
  <1> QED BY <1>3, <1>4

LEMMA CompleteAnswers ==
    ASSUME Limits, Answered, NEW p \in DOMAIN made, Probe!Complete(p)
    PROVE  Answered'
  <1>1. /\ made \in Seq(Page) /\ p \in 1 .. Len(made) /\ made[p] \in Page /\ p \in Probe!Pages
    <2>1. made \in Seq(Page) /\ p \in 1 .. Len(made) /\ Len(made) \in Nat
            /\ Len(made) <= MaxPages
      BY LenProperties DEF Answered
    <2> QED BY <2>1, ElementOfSeq DEF Probe!Pages, Limits
  <1> DEFINE new == [made[p] EXCEPT !.done = TRUE, !.telling = @ + 1]
  <1>2. /\ new \in Page /\ new.session = made[p].session /\ new.done
        /\ new.telling = made[p].telling + 1 /\ ~made[p].done
        /\ made[p].telling \in Nat
    <2>1. made[p].session \in Probe!Ids /\ made[p].telling \in Nat /\ ~made[p].done
      BY <1>1 DEF Page, Probe!Complete
    <2> DEFINE half == [made[p] EXCEPT !.done = TRUE]
    <2>2. half \in Page /\ half.session = made[p].session /\ half.done
          /\ half.telling = made[p].telling
      BY <1>1 DEF Page
    <2>3. new = [half EXCEPT !.telling = half.telling + 1]
      OBVIOUS
    <2> HIDE DEF new, half
    <2> QED BY <2>1, <2>2, <2>3 DEF Page
  <1>3. made' = [made EXCEPT ![p] = new]
    BY DEF Probe!Complete
  <1> HIDE DEF new
  <1>4. /\ made' \in Seq(Page) /\ Len(made') = Len(made) /\ DOMAIN made' = DOMAIN made
        /\ made'[p] = new /\ \A q \in DOMAIN made \ {p} : made'[q] = made[q]
    BY <1>1, <1>2, <1>3, ExceptSeq
  <1>5. /\ required' = required /\ passes' = passes /\ pages' = pages /\ told' = told
    BY DEF Probe!Complete
  <1>6. told'[p] + made'[p].telling <= 1
    <2>1. told[p] \in Nat /\ told[p] + made[p].telling <= 0
      BY <1>1, <1>2 DEF Answered
    <2> QED BY <1>2, <1>4, <1>5, <2>1
  <1>7. \A q \in Probe!Pages :
          IF q \in DOMAIN made'
          THEN told'[q] + made'[q].telling <= (IF made'[q].done THEN 1 ELSE 0)
          ELSE told'[q] = 0
    BY <1>2, <1>4, <1>5, <1>6 DEF Answered
  <1>8. ASSUME NEW t \in Probe!Ids PROVE passes'[t] <= Cardinality(Earned(t)')
    <2>1. Earned(t) \subseteq Earned(t)'
      BY <1>2, <1>4, <1>5 DEF Earned
    <2>2. IsFiniteSet(Earned(t)')
      <3>1. Len(made') \in Nat /\ DOMAIN made' = 1 .. Len(made')
        BY <1>4, LenProperties
      <3>2. IsFiniteSet(DOMAIN made')
        BY <3>1, FS_Interval
      <3>3. Earned(t)' \subseteq DOMAIN made'
        BY DEF Earned
      <3> QED BY <3>2, <3>3, FS_Subset
    <2>3. Cardinality(Earned(t)) <= Cardinality(Earned(t)')
      BY <2>1, <2>2, FS_Subset
    <2>4. /\ Cardinality(Earned(t)) \in Nat /\ Cardinality(Earned(t)') \in Nat
          /\ passes[t] <= Cardinality(Earned(t)) /\ passes[t] \in Nat
      BY <2>2, EarnedIsFinite, FS_CardinalityType DEF Answered
    <2> QED BY <1>5, <2>3, <2>4
  <1>9. ASSUME NEW t \in Probe!Ids, required[t] # 0
        PROVE  required[t] \in DOMAIN made' /\ made'[required[t]].session = t
    <2>1. required[t] \in DOMAIN made /\ made[required[t]].session = t
      BY <1>9 DEF Answered
    <2> QED BY <1>2, <1>4, <2>1
  <1> QED BY <1>4, <1>5, <1>7, <1>8, <1>9 DEF Answered

LEMMA ToldAnswers ==
    ASSUME Limits, Answered, NEW p \in DOMAIN made, Probe!Told(p)
    PROVE  Answered'
  <1>1. /\ made \in Seq(Page) /\ p \in 1 .. Len(made) /\ made[p] \in Page /\ p \in Probe!Pages
    <2>1. made \in Seq(Page) /\ p \in 1 .. Len(made) /\ Len(made) \in Nat
            /\ Len(made) <= MaxPages
      BY LenProperties DEF Answered
    <2> QED BY <2>1, ElementOfSeq DEF Probe!Pages, Limits
  <1>2. /\ told[p] \in Nat /\ made[p].telling \in Nat /\ made[p].telling > 0
        /\ made[p].done /\ told[p] + made[p].telling <= 1
    <2>1. told[p] \in Nat /\ made[p].telling \in Nat /\ made[p].telling > 0
      BY <1>1 DEF Answered, Probe!Told, Page
    <2>2. told[p] + made[p].telling <= (IF made[p].done THEN 1 ELSE 0)
      BY <1>1 DEF Answered
    <2> QED BY <2>1, <2>2
  <1> DEFINE new == [made[p] EXCEPT !.telling = @ - 1, !.done = TRUE]
  <1>3. /\ new \in Page /\ new.session = made[p].session /\ new.done
        /\ new.telling = made[p].telling - 1
    <2>1. made[p].session \in Probe!Ids /\ made[p].telling - 1 \in Nat
      BY <1>1, <1>2 DEF Page
    <2> DEFINE half == [made[p] EXCEPT !.telling = made[p].telling - 1]
    <2>2. half \in Page /\ half.session = made[p].session
          /\ half.telling = made[p].telling - 1
      BY <1>1, <2>1 DEF Page
    <2>3. new = [half EXCEPT !.done = TRUE]
      OBVIOUS
    <2> HIDE DEF new, half
    <2> QED BY <2>1, <2>2, <2>3 DEF Page
  <1>4. made' = [made EXCEPT ![p] = new]
    BY DEF Probe!Told
  <1> HIDE DEF new
  <1>5. /\ made' \in Seq(Page) /\ Len(made') = Len(made) /\ DOMAIN made' = DOMAIN made
        /\ made'[p] = new /\ \A q \in DOMAIN made \ {p} : made'[q] = made[q]
    BY <1>1, <1>3, <1>4, ExceptSeq
  <1>6. /\ required' = required /\ passes' = passes /\ pages' = pages
        /\ told' \in [Probe!Pages -> Nat] /\ told'[p] \in {told[p], told[p] + 1}
        /\ \A q \in Probe!Pages \ {p} : told'[q] = told[q]
    BY <1>1, <1>2 DEF Probe!Told, Answered
  <1>7. told'[p] + made'[p].telling <= 1
    BY <1>2, <1>3, <1>5, <1>6
  <1>8. \A q \in Probe!Pages :
          IF q \in DOMAIN made'
          THEN told'[q] + made'[q].telling <= (IF made'[q].done THEN 1 ELSE 0)
          ELSE told'[q] = 0
    <2>1. ASSUME NEW q \in Probe!Pages \ {p}
          PROVE  IF q \in DOMAIN made'
                 THEN told'[q] + made'[q].telling <= (IF made'[q].done THEN 1 ELSE 0)
                 ELSE told'[q] = 0
      BY <1>5, <1>6 DEF Answered
    <2> QED BY <1>3, <1>5, <1>7, <2>1
  <1>9. \A t \in Probe!Ids : Earned(t)' = Earned(t)
    BY <1>2, <1>3, <1>5, <1>6 DEF Earned
  <1>10. ASSUME NEW t \in Probe!Ids, required[t] # 0
         PROVE  required[t] \in DOMAIN made' /\ made'[required[t]].session = t
    <2>1. required[t] \in DOMAIN made /\ made[required[t]].session = t
      BY <1>10 DEF Answered
    <2> QED BY <1>3, <1>5, <2>1
  <1> QED BY <1>5, <1>6, <1>8, <1>9, <1>10 DEF Answered

LEMMA ProbeSteps ==
    ASSUME Limits, Hosted, Answered, [Probe!Next]_(Probe!vars)
    PROVE  Hosted' /\ Answered'
  <1>1. CASE UNCHANGED Probe!vars
    BY <1>1, StillHosts, StillAnswers DEF Probe!vars
  <1>2. ASSUME NEW c \in Apps, Probe!Approve(c) PROVE Hosted' /\ Answered'
    BY <1>2, ApproveHosts, StillAnswers DEF Probe!Approve
  <1>3. ASSUME NEW g \in DOMAIN grants, Probe!Revoke(g) \/ Probe!Returned(g)
                 \/ Probe!Refused(g) \/ Probe!Initialize(g)
        PROVE  Hosted' /\ Answered'
    <2>1. Hosted'
      BY <1>3, RevokeHosts, ReturnedHosts, RefusedHosts, InitializeHosts
    <2>2. Answered'
      BY <1>3, StillAnswers DEF Probe!Revoke, Probe!Returned, Probe!Refused,
         Probe!Initialize, Probe!kept
    <2> QED BY <2>1, <2>2
  <1>4. ASSUME NEW g \in DOMAIN grants, NEW s \in Probe!Open,
               Probe!Request(g, s) \/ Probe!Close(g, s) \/ Probe!ElicitUrl(g, s)
                 \/ Probe!RequireUrl(g, s)
        PROVE  Hosted' /\ Answered'
    <2>1. Hosted'
      BY <1>4, CallsHost, ElicitUrlHosts, RequireUrlHosts
    <2>2. CASE Probe!Request(g, s) \/ Probe!Close(g, s)
      BY <2>1, <2>2, StillAnswers DEF Probe!Request, Probe!Close, Probe!kept
    <2> QED BY <1>4, <2>1, <2>2, ElicitUrlAnswers, RequireUrlAnswers
  <1>5. ASSUME NEW s \in Probe!Ids, Probe!ElicitEnds(s) PROVE Hosted' /\ Answered'
    BY <1>5, ElicitEndsHosts, StillAnswers DEF Probe!ElicitEnds, Probe!kept
  <1>6. ASSUME NEW p \in DOMAIN made, Probe!Complete(p) \/ Probe!Told(p) PROVE Hosted'
                 /\ Answered'
    <2>1. Hosted'
      BY <1>6, StillHosts DEF Probe!Complete, Probe!Told
    <2> QED BY <1>6, <2>1, CompleteAnswers, ToldAnswers
  <1>7. CASE Probe!RevokeAll
    BY <1>7, RevokeAllHosts, StillAnswers DEF Probe!RevokeAll
  <1>8. CASE Probe!Tick
    BY <1>8, TickHosts, StillAnswers DEF Probe!Tick
  <1> QED BY <1>1, <1>2, <1>3, <1>4, <1>5, <1>6, <1>7, <1>8 DEF Probe!Next

LEMMA AlwaysHosted ==
    ASSUME Limits
    PROVE  Probe!Spec => [](Hosted /\ Answered)
  <1>1. Probe!Init => Hosted /\ Answered
    BY HostedAtFirst
  <1>2. Hosted /\ Answered /\ [Probe!Next]_(Probe!vars) => Hosted' /\ Answered'
    BY ProbeSteps
  <1> QED BY <1>1, <1>2, PTL DEF Probe!Spec

\* What the owner has disconnected is cut from every session, whichever grants
\* the session went through before (http/probe/app.ts).
THEOREM RevokedStaysCut ==
    ASSUME Limits
    PROVE  Probe!Spec => []Probe!RevokedIsCut
  <1>1. Hosted => Probe!RevokedIsCut
    BY DEF Hosted, FollowsGrant, Probe!RevokedIsCut, Probe!Open
  <1> QED BY <1>1, AlwaysHosted, PTL

\* A session that is in use is closed for another only when every other was used
\* since, and never more are open than may be (http/probe/app.ts).
THEOREM RoomIsMadeByTheOldest ==
    ASSUME Limits
    PROVE  Probe!Spec => [][Probe!OldestMakesRoom]_(Probe!vars)
  <1>1. Hosted /\ Answered /\ [Probe!Next]_(Probe!vars) =>
          [Probe!OldestMakesRoom]_(Probe!vars)
    <2> SUFFICES ASSUME Hosted, Answered, Probe!Next PROVE Probe!OldestMakesRoom
      OBVIOUS
    <2>1. Hosted'
      BY ProbeSteps
    <2>2. Cardinality(Probe!Open') <= MaxSessions
      BY <2>1 DEF Hosted, Probe!Open
    <2>3. ASSUME NEW s \in Probe!Fresh \ Probe!Open', opened' # opened,
                   NEW t \in Probe!Fresh \ {s}
          PROVE  sessions[t].lastUsed >= sessions[s].lastUsed
      <3>1. PICK g \in DOMAIN grants : Probe!Initialize(g)
        BY <2>3 DEF Probe!Next, Probe!Approve, Probe!Revoke, Probe!Returned, Probe!Refused,
           Probe!Request, Probe!Close, Probe!ElicitUrl,
                    Probe!RequireUrl, Probe!ElicitEnds, Probe!Complete, Probe!Told,
                      Probe!RevokeAll, Probe!Tick
      <3>2. Probe!Open' = Probe!Evict(Probe!Fresh) \cup {opened + 1}
        BY <3>1, InitializeHosts DEF Probe!Open
      <3>3. s \in Probe!Fresh \ Probe!Evict(Probe!Fresh)
        BY <2>3, <3>2
      <3>4. sessions[s].lastUsed <= sessions[t].lastUsed
        BY <3>3, EvictIs
      <3>5. sessions[s].lastUsed \in Nat /\ sessions[t].lastUsed \in Nat
        BY <2>3 DEF Hosted, Probe!Fresh, Probe!Open
      <3> QED BY <3>4, <3>5
    <2> QED BY <2>2, <2>3, ProbeCounts DEF Probe!OldestMakesRoom
  <1> QED BY <1>1, AlwaysHosted, PTL DEF Probe!Spec

\* The host is told at most once that a page is done (http/probe/web.ts).
THEOREM PagesAreToldOnce ==
    ASSUME Limits
    PROVE  Probe!Spec => []Probe!ToldOnce
  <1>1. Answered => Probe!ToldOnce
    <2> SUFFICES ASSUME Answered, NEW p \in Probe!Pages PROVE told[p] <= 1
      BY DEF Probe!ToldOnce
    <2>1. told[p] \in Nat
      BY DEF Answered
    <2>2. CASE p \in DOMAIN made
      <3>1. made[p] \in Page
        BY <2>2, ElementOfSeq, LenProperties DEF Answered
      <3>2. made[p].telling \in Nat
        BY <3>1 DEF Page
      <3>3. told[p] + made[p].telling <= (IF made[p].done THEN 1 ELSE 0)
        BY <2>2 DEF Answered
      <3> QED BY <2>1, <3>2, <3>3
    <2>3. CASE p \notin DOMAIN made
      BY <2>3 DEF Answered
    <2> QED BY <2>2, <2>3
  <1> QED BY <1>1, AlwaysHosted, PTL

\* The tool that requires a page lets a session through once per page that was
\* completed for it (http/probe/tools.ts).
THEOREM PassesAreForPages ==
    ASSUME Limits
    PROVE  Probe!Spec => []Probe!PassesAreEarned
  <1>1. Answered => Probe!PassesAreEarned
    <2> SUFFICES ASSUME Answered, NEW s \in Probe!Ids
                 PROVE  passes[s] <= Cardinality({p \in DOMAIN made :
                                                    made[p].session = s /\ made[p].done})
      BY ProbeCounts DEF Probe!PassesAreEarned
    <2> DEFINE all == {p \in DOMAIN made : made[p].session = s /\ made[p].done}
    <2>1. Earned(s) \subseteq all
      BY DEF Earned
    <2>2. IsFiniteSet(all)
      <3>1. Len(made) \in Nat /\ DOMAIN made = 1 .. Len(made)
        BY LenProperties DEF Answered
      <3>2. IsFiniteSet(DOMAIN made)
        BY <3>1, FS_Interval
      <3> QED BY <3>2, FS_Subset
    <2>3. Cardinality(Earned(s)) <= Cardinality(all) /\ Cardinality(all) \in Nat
      <3> HIDE DEF all
      <3> QED BY <2>1, <2>2, FS_Subset, FS_CardinalityType
    <2>4. Cardinality(Earned(s)) \in Nat /\ passes[s] \in Nat
            /\ passes[s] <= Cardinality(Earned(s))
      BY EarnedIsFinite DEF Answered
    <2> HIDE DEF all
    <2>5. passes[s] <= Cardinality(all)
      BY <2>3, <2>4
    <2> QED BY <2>5 DEF all
  <1> QED BY <1>1, AlwaysHosted, PTL

-----------------------------------------------------------------------------
(* The owner's sign-ins.                                                      *)

\* Bounds are numbers, and there is room for a sign-in.
OwnerBounds ==
  /\ MaxOwners \in Nat \ {0} /\ MaxTime \in Nat \ {0}
  /\ SignInLife \in Nat /\ MaxSignIns \in Nat /\ Limit \in Nat

\* A token that ended is one that was issued, and has no entry; what the limiter
\* of the portal logins has counted is what the owner began.
SignedOut ==
  /\ Owner!TypeOK
  /\ \A t \in ended : t <= issued /\ signIns[t] = 0
  /\ \A t \in Owner!Tokens : t > issued => signIns[t] = 0
  /\ counted["upstreamLogin"] = logins
  /\ ~shutOut

-----------------------------------------------------------------------------
\* The module counts as this one does.
LEMMA OwnerCounts == ASSUME NEW S PROVE Owner!Cardinality(S) = Cardinality(S)
  BY DEF Owner!Cardinality, Cardinality

LEMMA SignedOutAtFirst ==
    ASSUME OwnerBounds, Owner!Init
    PROVE  SignedOut
  <1>1. Owner!Kept = {}
    BY DEF Owner!Kept, Owner!Init
  <1>2. Cardinality(Owner!Kept) <= MaxOwners
    BY <1>1, FS_EmptySet DEF OwnerBounds
  <1>3. signIns \in [Owner!Tokens -> 0 .. (MaxTime + SignInLife)]
    <2>1. 0 \in 0 .. (MaxTime + SignInLife)
      BY DEF OwnerBounds
    <2> QED BY <2>1 DEF Owner!Init
  <1>4. /\ cookie \in [Browsers -> Owner!Tokens \cup {0}]
        /\ counted \in [Owner!Limiters -> 0 .. Limit] /\ logins \in 0 .. Limit
    BY DEF Owner!Init, OwnerBounds
  <1>5. clock \in 1 .. MaxTime /\ issued \in 0 .. MaxSignIns /\ ended \subseteq Owner!Tokens
    BY DEF Owner!Init, OwnerBounds
  <1>6. Owner!TypeOK
    BY <1>2, <1>3, <1>4, <1>5, OwnerCounts DEF Owner!TypeOK, Owner!Init
  <1> QED BY <1>6 DEF SignedOut, Owner!Init, Owner!Limiters

\* The entries are finitely many.
LEMMA EntriesAreFinite ==
    ASSUME OwnerBounds, NEW S, S \subseteq Owner!Tokens
    PROVE  IsFiniteSet(S) /\ Cardinality(S) \in Nat
  <1>1. IsFiniteSet(Owner!Tokens)
    BY FS_Interval DEF Owner!Tokens, OwnerBounds
  <1> QED BY <1>1, FS_Subset, FS_CardinalityType

\* Entries go.
LEMMA EntriesGo ==
    ASSUME OwnerBounds, SignedOut, NEW S, S \subseteq Owner!Kept,
           signIns' \in [Owner!Tokens -> 0 .. (MaxTime + SignInLife)],
           \A t \in Owner!Tokens : signIns'[t] = IF t \in S THEN 0 ELSE signIns[t],
           ended' = ended \cup S,
           cookie' \in [Browsers -> Owner!Tokens \cup {0}],
           UNCHANGED <<clock, issued, counted, logins, shutOut>>
    PROVE  SignedOut'
  <1>1. Owner!Kept' = Owner!Kept \ S /\ Owner!Kept \subseteq Owner!Tokens
    BY DEF Owner!Kept
  <1>2. Cardinality(Owner!Kept') <= MaxOwners
    <2>1. Cardinality(Owner!Kept') <= Cardinality(Owner!Kept)
            /\ Cardinality(Owner!Kept') \in Nat
          /\ Cardinality(Owner!Kept) \in Nat
      BY <1>1, EntriesAreFinite, FS_Subset
    <2> QED BY <2>1, OwnerCounts DEF SignedOut, Owner!TypeOK, OwnerBounds
  <1>3. Owner!TypeOK'
    BY <1>1, <1>2, OwnerCounts DEF SignedOut, Owner!TypeOK
  <1>4. \A t \in ended' : t <= issued /\ signIns'[t] = 0
    <2>1. \A t \in S : t \in Owner!Tokens /\ signIns[t] # 0
      BY DEF Owner!Kept
    <2>2. \A t \in S : t <= issued
      BY <2>1 DEF SignedOut, Owner!TypeOK, Owner!Tokens, OwnerBounds
    <2> QED BY <2>1, <2>2 DEF SignedOut, Owner!TypeOK
  <1>5. \A t \in Owner!Tokens : t > issued => signIns'[t] = 0
    BY DEF SignedOut
  <1> QED BY <1>3, <1>4, <1>5 DEF SignedOut

LEMMA LoginKeeps ==
    ASSUME OwnerBounds, SignedOut, NEW b \in Browsers, Owner!login(b)
    PROVE  SignedOut'
  <1> DEFINE live == Owner!Sweep({t \in Owner!Kept : ~Owner!Over(t)})
             new == issued + 1
  <1>1. /\ Owner!SignedIn(b) /\ counted' = counted /\ shutOut' = shutOut /\ clock' = clock
             /\ logins' = logins
    BY DEF Owner!login, Owner!Counts
  <1>2. /\ issued < MaxSignIns /\ issued' = new /\ cookie' = [cookie EXCEPT ![b] = new]
        /\ ended' = ended \cup (Owner!Kept \ live)
        /\ signIns' = [t \in Owner!Tokens |-> CASE t = new -> clock + SignInLife
                                           [] t \in live -> signIns[t]
                                           [] OTHER -> 0]
    BY <1>1 DEF Owner!SignedIn
  <1>3. live \subseteq Owner!Kept /\ Cardinality(live) + 1 <= MaxOwners
    <2> DEFINE all == {t \in Owner!Kept : ~Owner!Over(t)}
    <2>1. all \subseteq Owner!Kept /\ Owner!Kept \subseteq Owner!Tokens
      BY DEF Owner!Kept
    <2>2. Cardinality(all) \in Nat /\ Cardinality({}) = 0 /\ MaxOwners \in Nat \ {0}
      BY <2>1, EntriesAreFinite, FS_EmptySet DEF OwnerBounds
    <2> HIDE DEF all
    <2>3. live = IF Cardinality(all) >= MaxOwners THEN {} ELSE all
      BY OwnerCounts DEF Owner!Sweep, all
    <2> HIDE DEF live
    <2> QED BY <2>1, <2>2, <2>3
  <1> HIDE DEF live
  <1>4. /\ issued \in Nat /\ clock \in 1 .. MaxTime /\ new \in Owner!Tokens
             /\ new \notin Owner!Kept
        /\ new \notin live /\ new \notin ended /\ Owner!Kept \subseteq Owner!Tokens
             /\ MaxSignIns \in Nat
    BY <1>2, <1>3 DEF SignedOut, Owner!TypeOK, Owner!Tokens, Owner!Kept, OwnerBounds
  <1>5. /\ signIns'[new] = clock + SignInLife
        /\ \A t \in live : signIns'[t] = signIns[t]
        /\ \A t \in Owner!Tokens \ (live \cup {new}) : signIns'[t] = 0
        /\ DOMAIN signIns' = Owner!Tokens /\ signIns' = [t \in Owner!Tokens |-> signIns'[t]]
    <2> HIDE DEF new
    <2>1. live \subseteq Owner!Tokens
      BY <1>3, <1>4
    <2> QED BY <1>2, <1>4, <2>1
  <1>6. clock + SignInLife \in 0 .. (MaxTime + SignInLife) /\ clock + SignInLife # 0
    BY <1>4 DEF OwnerBounds
  <1>7. signIns' \in [Owner!Tokens -> 0 .. (MaxTime + SignInLife)]
    <2>1. \A t \in Owner!Tokens : signIns[t] \in 0 .. (MaxTime + SignInLife)
      BY DEF SignedOut, Owner!TypeOK
    <2>2. 0 \in 0 .. (MaxTime + SignInLife)
      BY DEF OwnerBounds
    <2> HIDE DEF new
    <2>3. \A t \in Owner!Tokens : signIns'[t] \in 0 .. (MaxTime + SignInLife)
      BY <1>3, <1>5, <1>6, <2>1, <2>2
    <2> QED BY <1>5, <2>3
  <1>8. Owner!Kept' = live \cup {new}
    <2> HIDE DEF new
    <2> QED BY <1>3, <1>4, <1>5, <1>6 DEF Owner!Kept
  <1>9. Cardinality(Owner!Kept') <= MaxOwners
    <2>1. IsFiniteSet(live)
      BY <1>3, <1>4, EntriesAreFinite
    <2>2. Cardinality(live \cup {new}) = Cardinality(live) + 1
      BY <1>4, <2>1, FS_AddElement
    <2> QED BY <1>3, <1>8, <2>2
  <1>10. cookie' \in [Browsers -> Owner!Tokens \cup {0}]
    BY <1>2, <1>4 DEF SignedOut, Owner!TypeOK
  <1>11. Owner!TypeOK'
    <2>1. issued' \in 0 .. MaxSignIns /\ ended' \subseteq Owner!Tokens
      BY <1>2, <1>4 DEF SignedOut, Owner!TypeOK
    <2> QED BY <1>1, <1>7, <1>9, <1>10, <2>1, OwnerCounts DEF SignedOut, Owner!TypeOK
  <1>12. \A t \in ended' : t <= issued' /\ signIns'[t] = 0
    <2>1. ASSUME NEW t \in ended PROVE t <= issued /\ t \in Owner!Tokens \ (live \cup {new})
      <3>1. t \in Owner!Tokens /\ t <= issued /\ signIns[t] = 0
        BY DEF SignedOut, Owner!TypeOK
      <3> QED BY <1>3, <1>4, <3>1 DEF Owner!Kept
    <2>2. ASSUME NEW t \in Owner!Kept \ live PROVE t <= issued
                   /\ t \in Owner!Tokens \ (live \cup {new})
      <3>1. t \in Owner!Tokens /\ signIns[t] # 0 /\ t # new
        BY <1>4 DEF Owner!Kept
      <3>2. t <= issued
        BY <1>4, <3>1 DEF SignedOut, Owner!Tokens
      <3> QED BY <3>1, <3>2
    <2>3. \A t \in ended' : t \in Owner!Tokens /\ t <= issued
            /\ t \in Owner!Tokens \ (live \cup {new})
      BY <1>2, <2>1, <2>2
    <2> QED BY <1>2, <1>4, <1>5, <2>3 DEF Owner!Tokens
  <1>13. \A t \in Owner!Tokens : t > issued' => signIns'[t] = 0
    <2>1. \A t \in live : t <= issued
      BY <1>3, <1>4 DEF SignedOut, Owner!Tokens, Owner!Kept
    <2> QED BY <1>2, <1>4, <1>5, <2>1 DEF Owner!Tokens
  <1>14. counted'["upstreamLogin"] = logins' /\ ~shutOut'
    BY <1>1 DEF SignedOut
  <1> HIDE DEF new
  <1> QED BY <1>11, <1>12, <1>13, <1>14 DEF SignedOut

\* What others send is counted where it belongs.
LEMMA CountingKeeps ==
    ASSUME OwnerBounds, SignedOut, UNCHANGED <<clock, signIns, cookie, issued, ended>>,
           NEW l \in Owner!Limiters, Owner!Spends(l),
           IF l = "upstreamLogin"
             THEN logins' = (IF logins < Limit THEN logins + 1 ELSE logins)
             ELSE logins' = logins,
           shutOut' = FALSE
    PROVE  SignedOut'
  <1>1. Owner!Kept' = Owner!Kept
    BY DEF Owner!Kept
  <1>2. counted \in [Owner!Limiters -> 0 .. Limit] /\ logins \in 0 .. Limit /\ Limit \in Nat
    BY DEF SignedOut, Owner!TypeOK, OwnerBounds
  <1>3. /\ counted' \in [Owner!Limiters -> 0 .. Limit] /\ logins' \in 0 .. Limit
        /\ counted'["upstreamLogin"] = logins'
    BY <1>2 DEF Owner!Spends, SignedOut, Owner!Limiters
  <1> QED BY <1>1, <1>3 DEF SignedOut, Owner!TypeOK

LEMMA OwnerSteps ==
    ASSUME OwnerBounds, SignedOut, [Owner!Next]_(Owner!vars)
    PROVE  SignedOut'
  <1>1. CASE UNCHANGED Owner!vars
    BY <1>1 DEF Owner!vars, SignedOut, Owner!TypeOK, Owner!Kept
  <1>2. ASSUME NEW b \in Browsers, Owner!login(b) PROVE SignedOut'
    BY <1>2, LoginKeeps
  <1>3. ASSUME NEW b \in Browsers, Owner!get(b) \/ Owner!logout(b) PROVE SignedOut'
    <2>1. cookie[b] \in Owner!Kept /\ {cookie[b]} \subseteq Owner!Kept
            /\ Owner!Kept \subseteq Owner!Tokens
      BY <1>3 DEF Owner!get, Owner!logout, Owner!Opens, Owner!Kept
    <2>2. signIns' = [signIns EXCEPT ![cookie[b]] = 0]
      BY <1>3 DEF Owner!get, Owner!logout
    <2>3. signIns' \in [Owner!Tokens -> 0 .. (MaxTime + SignInLife)]
          /\ \A t \in Owner!Tokens : signIns'[t] = IF t \in {cookie[b]} THEN 0 ELSE signIns[t]
      BY <2>1, <2>2 DEF SignedOut, Owner!TypeOK, OwnerBounds
    <2>4. cookie' \in [Browsers -> Owner!Tokens \cup {0}]
      BY <1>3 DEF Owner!get, Owner!logout, SignedOut, Owner!TypeOK
    <2> QED BY <1>3, <2>1, <2>3, <2>4, EntriesGo DEF Owner!get, Owner!logout
  <1>4. ASSUME NEW b \in Browsers, Owner!BeginLogin(b) PROVE SignedOut'
    <2>1. logins < Limit => Owner!Passes("upstreamLogin")
      BY DEF SignedOut, Owner!Passes
    <2>2. shutOut' = FALSE
      BY <1>4, <2>1 DEF Owner!BeginLogin, SignedOut, Owner!TypeOK
    <2> QED BY <1>4, <2>2, CountingKeeps DEF Owner!BeginLogin, Owner!Limiters
  <1>5. ASSUME NEW b \in Browsers, NEW c \in Browsers, Owner!Copied(b, c) PROVE SignedOut'
    <2>1. cookie' \in [Browsers -> Owner!Tokens \cup {0}]
      BY <1>5 DEF Owner!Copied, SignedOut, Owner!TypeOK
    <2> QED BY <1>5, <2>1 DEF Owner!Copied, SignedOut, Owner!TypeOK, Owner!Kept
  <1>6. CASE Owner!Guess
    BY <1>6, CountingKeeps DEF Owner!Guess, Owner!Limiters, SignedOut, Owner!TypeOK
  <1>7. CASE Owner!Calls
    BY <1>7, CountingKeeps DEF Owner!Calls, Owner!Limiters, SignedOut, Owner!TypeOK
  <1>8. CASE Owner!clear
    <2>1. /\ signIns' \in [Owner!Tokens -> 0 .. (MaxTime + SignInLife)]
          /\ \A t \in Owner!Tokens : signIns'[t] = IF t \in Owner!Kept THEN 0 ELSE signIns[t]
      BY <1>8 DEF Owner!clear, Owner!Kept, OwnerBounds
    <2>2. cookie' \in [Browsers -> Owner!Tokens \cup {0}]
      BY <1>8 DEF Owner!clear, SignedOut, Owner!TypeOK
    <2> QED BY <1>8, <2>1, <2>2, EntriesGo DEF Owner!clear
  <1>9. CASE Owner!Tick
    <2>1. counted' \in [Owner!Limiters -> 0 .. Limit] /\ counted'["upstreamLogin"] = 0
            /\ logins' = 0
      BY <1>9 DEF Owner!Tick, Owner!Limiters, OwnerBounds
    <2>2. clock' \in 1 .. MaxTime
      BY <1>9 DEF Owner!Tick, SignedOut, Owner!TypeOK, OwnerBounds
    <2>3. Owner!Kept' = Owner!Kept /\ 0 \in 0 .. Limit
      BY <1>9 DEF Owner!Tick, Owner!Kept, OwnerBounds
    <2> QED BY <1>9, <2>1, <2>2, <2>3 DEF Owner!Tick, SignedOut, Owner!TypeOK
  <1> QED BY <1>1, <1>2, <1>3, <1>4, <1>5, <1>6, <1>7, <1>8, <1>9 DEF Owner!Next

LEMMA AlwaysSignedOut ==
    ASSUME OwnerBounds
    PROVE  Owner!Spec => []SignedOut
  <1>1. Owner!Init => SignedOut
    BY SignedOutAtFirst
  <1>2. SignedOut /\ [Owner!Next]_(Owner!vars) => SignedOut'
    BY OwnerSteps
  <1> QED BY <1>1, <1>2, PTL DEF Owner!Spec

\* A sign-in that was ended opens nothing from then on, whoever kept its cookie,
\* and the table never holds more than it may (owner-session.ts).
THEOREM EndedSignInsStayEnded ==
    ASSUME OwnerBounds
    PROVE  Owner!Spec => [](Owner!TypeOK /\ Owner!EndedStaysEnded)
  <1>1. SignedOut => Owner!TypeOK /\ Owner!EndedStaysEnded
    <2> SUFFICES ASSUME SignedOut, NEW b \in Browsers, Owner!Opens(b)
                 PROVE  cookie[b] \notin ended /\ clock < signIns[cookie[b]]
      BY DEF Owner!EndedStaysEnded, SignedOut
    <2>1. cookie[b] \in Owner!Tokens /\ signIns[cookie[b]] # 0
            /\ ~(signIns[cookie[b]] <= clock)
      BY DEF Owner!Opens, Owner!Over, Owner!Kept
    <2>2. signIns[cookie[b]] \in Nat /\ clock \in Nat
      BY <2>1 DEF SignedOut, Owner!TypeOK, OwnerBounds
    <2> QED BY <2>1, <2>2 DEF SignedOut
  <1> QED BY <1>1, AlwaysSignedOut, PTL

\* Whatever others at the owner's address send, the owner's password signs in and
\* the owner's portal logins have their whole budget (server.ts, owner-session.ts).
THEOREM OwnerIsNeverShutOut ==
    ASSUME OwnerBounds
    PROVE  Owner!Spec => []Owner!OwnerIsNotShutOut
  <1>1. SignedOut => Owner!OwnerIsNotShutOut
    BY DEF SignedOut, Owner!OwnerIsNotShutOut
  <1> QED BY <1>1, AlwaysSignedOut, PTL
=============================================================================
