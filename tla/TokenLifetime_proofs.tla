------------------------- MODULE TokenLifetime_proofs -------------------------
(***************************************************************************)
(* Theorems about TokenLifetime, for any clocks, any lifetimes config.Load *)
(* accepts, any leeway, any precision of seconds and any number of pods    *)
(* and sessions.                                                           *)
(***************************************************************************)
EXTENDS TokenLifetime, TLAPS

TokenPair == [iat : Int, access : Int, pod : Pod, signed : Int]

Key == [expiresAt : Int, until : Int, ttl : Int]

Index == [ids : SUBSET LoginId, until : Int, ttl : Int]

Types ==
  /\ now \in Nat
  /\ ttl \in [Pod -> Lifetimes]
  /\ pair \in [LoginId -> TokenPair \cup {Never}]
  /\ key \in [LoginId -> Key]
  /\ index \in Index
  /\ issue # NoIssue => issue \in [id : LoginId, pair : TokenPair, rotate : BOOLEAN]

\* A pair of tokens is what PairOf made of it, some time ago.
Signed(p) ==
  /\ p \in TokenPair
  /\ p.iat = WholeSeconds(p.signed)
  /\ p.access = WholeSeconds(p.signed + ttl[p.pod].access)
  /\ p.signed <= now + Offset[p.pod]

PairsSigned ==
  /\ \A s \in LoginId : pair[s] # Never => Signed(pair[s])
  /\ issue # NoIssue => Signed(issue.pair)

\* A key in Redis belongs to the pair its session was given last.
KeysMatch ==
  \A s \in LoginId : KeyLives(s) =>
    pair[s] # Never /\ key[s].expiresAt = ExpiresAt(pair[s])

\* The session of a pair ends by a logout, by a pod whose clock is past its
\* end, or by its TTL, which runs from a moment after the signing.
KeysLast ==
  \A s \in LoginId : pair[s] # Never /\ s \notin revoked =>
    \/ \E e \in Pod : Clock(e) > ExpiresAt(pair[s])
    \/ /\ key[s].expiresAt = ExpiresAt(pair[s])
       /\ key[s].until >= ExpiresAt(pair[s]) - Offset[pair[s].pod]

\* A key outlives its entry in the index by less than a second, unless it was
\* stored with a longer TTL than a later one.
IndexFollows ==
  \A s \in LoginId :
    /\ key[s].until <= now + key[s].ttl
    /\ KeyLives(s) =>
         \/ s \in rolled
         \/ key[s].until < now + Second
         \/ s \in index.ids /\ key[s].until < index.until + Second

LifetimeInv == Types /\ PairsSigned /\ KeysMatch /\ KeysLast /\ IndexFollows

-----------------------------------------------------------------------------
(***************************************************************************)
(* Arithmetic.                                                             *)
(***************************************************************************)
\* Truncation to whole seconds loses less than a second.
LEMMA WholeSecondsBounds ==
  ASSUME NEW t \in Int
  PROVE  /\ WholeSeconds(t) \in Int
         /\ WholeSeconds(t) <= t
         /\ t < WholeSeconds(t) + Second
BY LifetimeAssumption DEF WholeSeconds

\* The TTL of the index is less than a second short.
LEMMA ExpireSecondsBounds ==
  ASSUME NEW t \in Int, t > 0
  PROVE  ExpireSeconds(t) \in Int /\ t < ExpireSeconds(t) + Second
BY WholeSecondsBounds, LifetimeAssumption DEF ExpireSeconds

\* What config.Load accepted.
LEMMA LifetimesAccepted ==
  ASSUME Types, NEW d \in Pod
  PROVE  /\ ttl[d].access \in Int /\ ttl[d].refresh \in Int
         /\ 0 < ttl[d].access /\ ttl[d].access < ttl[d].refresh
         /\ Offset[d] \in Int
BY LifetimeAssumption DEF Types, Lifetimes, ConfigAccepts

\* The tokens of a signed pair expire within their lifetimes.
LEMMA SignedBounds ==
  ASSUME Types, NEW p, Signed(p)
  PROVE  /\ p.pod \in Pod /\ p.signed \in Int /\ p.iat \in Int /\ p.access \in Int
         /\ p.iat <= p.signed
         /\ p.access <= p.signed + ttl[p.pod].access
         /\ ExpiresAt(p) \in Int
         /\ ExpiresAt(p) = p.signed + ttl[p.pod].refresh
<1>1. p.pod \in Pod /\ p.signed \in Int /\ p.iat \in Int /\ p.access \in Int
  BY DEF Signed, TokenPair
<1>2. p.signed + ttl[p.pod].access \in Int
  BY <1>1, LifetimesAccepted
<1> QED
  BY <1>1, <1>2, LifetimesAccepted, WholeSecondsBounds DEF Signed, ExpiresAt

-----------------------------------------------------------------------------
(***************************************************************************)
(* The invariant.                                                          *)
(***************************************************************************)
\* It holds initially: nothing is stored.
LEMMA LifetimeStarts == LifetimeInit => LifetimeInv
<1> SUFFICES ASSUME LifetimeInit PROVE LifetimeInv
  OBVIOUS
<1> USE DEF LifetimeInit
<1>1. Types
  BY DEF Types, Key, Index, NoKey, NoIndex
<1>2. PairsSigned /\ KeysMatch /\ KeysLast /\ IndexFollows
  BY DEF PairsSigned, KeysMatch, KeysLast, IndexFollows, KeyLives, NoKey
<1> QED
  BY <1>1, <1>2 DEF LifetimeInv

\* Time passes: keys die, nothing else changes.
LEMMA TickKeeps == LifetimeInv /\ Tick => LifetimeInv'
<1> SUFFICES ASSUME LifetimeInv, Tick PROVE LifetimeInv'
  OBVIOUS
<1> USE DEF LifetimeInv, Tick
<1>0. now \in Nat /\ now' = now + 1
  BY DEF Types
<1>1. Types'
  BY DEF Types
<1>2. PairsSigned'
  <2>1. ASSUME NEW p, Signed(p) PROVE Signed(p)'
    <3>1. p.pod \in Pod /\ p.signed \in Int /\ Offset[p.pod] \in Int
      BY <2>1, SignedBounds, LifetimesAccepted
    <3> QED
      BY <2>1, <3>1, <1>0 DEF Signed, WholeSeconds
  <2> QED
    BY <2>1 DEF PairsSigned
<1>3. KeysMatch'
  BY <1>0 DEF KeysMatch, KeyLives, ExpiresAt, Types, Key
<1>4. KeysLast'
  <2> SUFFICES ASSUME NEW s \in LoginId, pair[s] # Never, s \notin revoked
               PROVE  \/ \E e \in Pod : Clock(e)' > ExpiresAt(pair[s])
                      \/ /\ key[s].expiresAt = ExpiresAt(pair[s])
                         /\ key[s].until >= ExpiresAt(pair[s]) - Offset[pair[s].pod]
    BY DEF KeysLast, ExpiresAt
  <2>1. ASSUME NEW e \in Pod, Clock(e) > ExpiresAt(pair[s])
        PROVE  Clock(e)' > ExpiresAt(pair[s])
    <3>1. Offset[e] \in Int /\ ExpiresAt(pair[s]) \in Int
      BY SignedBounds, LifetimesAccepted DEF PairsSigned
    <3> QED
      BY <2>1, <3>1, <1>0 DEF Clock
  <2> QED
    BY <2>1 DEF KeysLast
<1>5. IndexFollows'
  <2> SUFFICES ASSUME NEW s \in LoginId
               PROVE  /\ key[s].until <= now + 1 + key[s].ttl
                      /\ now + 1 < key[s].until =>
                           \/ s \in rolled
                           \/ key[s].until < now + 1 + Second
                           \/ s \in index.ids /\ key[s].until < index.until + Second
    BY DEF IndexFollows, KeyLives
  <2>1. key[s].until \in Int /\ key[s].ttl \in Int
    BY DEF Types, Key
  <2> QED
    BY <2>1, <1>0, LifetimeAssumption DEF IndexFollows, KeyLives
<1> QED
  BY <1>1, <1>2, <1>3, <1>4, <1>5

\* A pod signs a pair.
LEMMA SignKeeps ==
  ASSUME LifetimeInv, NEW d \in Pod, NEW s \in LoginId, NEW b \in BOOLEAN,
         issue' = [id |-> s, pair |-> PairOf(d), rotate |-> b],
         UNCHANGED <<now, ttl, pair, key, index, revoked, rolled>>
  PROVE  LifetimeInv'
<1> USE DEF LifetimeInv
<1>1. /\ now \in Nat /\ Offset[d] \in Int
      /\ ttl[d].access \in Int
      /\ Clock(d) \in Int /\ Clock(d) + ttl[d].access \in Int
  BY LifetimesAccepted DEF Types, Clock
<1>2. PairOf(d) \in TokenPair
  BY <1>1, WholeSecondsBounds DEF PairOf, TokenPair
<1>3. Signed(PairOf(d))
  BY <1>1, <1>2 DEF Signed, PairOf, Clock
<1>4. Types'
  BY <1>2 DEF Types
<1>5. PairsSigned'
  BY <1>3 DEF PairsSigned, Signed
<1>6. KeysMatch' /\ KeysLast' /\ IndexFollows'
  BY DEF KeysMatch, KeysLast, IndexFollows, KeyLives, ExpiresAt, Clock
<1> QED
  BY <1>4, <1>5, <1>6

\* The signed pair is stored: SET, SADD, EXPIRE.
LEMMA StoreKeeps ==
  ASSUME LifetimeInv, NEW s \in LoginId, NEW p, Signed(p), StorePair(s, p),
         issue' = NoIssue, UNCHANGED <<now, ttl, revoked>>
  PROVE  LifetimeInv'
<1> USE DEF LifetimeInv
<1> DEFINE t == ttl[p.pod].refresh
<1>1. /\ now \in Nat /\ t \in Int /\ t > 0 /\ p.pod \in Pod /\ p.signed \in Int
      /\ Offset[p.pod] \in Int
      /\ ExpiresAt(p) = p.signed + t
      /\ p.signed <= now + Offset[p.pod]
  BY SignedBounds, LifetimesAccepted DEF Types, Signed
<1>2. ExpireSeconds(t) \in Int /\ t < ExpireSeconds(t) + Second
  BY <1>1, ExpireSecondsBounds
<1>3. /\ key' = [key EXCEPT ![s] = [expiresAt |-> ExpiresAt(p), until |-> now + t, ttl |-> t]]
      /\ index' = [ids |-> IF IndexLives THEN index.ids \cup {s} ELSE {s},
                   until |-> now + ExpireSeconds(t), ttl |-> t]
      /\ pair' = [pair EXCEPT ![s] = p]
      /\ rolled' = (rolled \ {s}) \cup {r \in LoginId \ {s} : key[r].ttl > t}
  BY DEF StorePair, RolledOver
<1> HIDE DEF t
<1>4. Types'
  <2>1. key' \in [LoginId -> Key]
    BY <1>1, <1>3 DEF Types, Key
  <2>2. pair' \in [LoginId -> TokenPair \cup {Never}]
    BY <1>3 DEF Types, Signed
  <2>3. index' \in Index
    BY <1>1, <1>2, <1>3 DEF Types, Index
  <2> QED
    BY <2>1, <2>2, <2>3 DEF Types
<1>5. PairsSigned'
  BY <1>3 DEF PairsSigned, Signed, Types
<1>6. \A r \in LoginId :
        /\ r = s => /\ pair'[r] = p
                    /\ key'[r].expiresAt = ExpiresAt(p)
                    /\ key'[r].until = now + t
                    /\ key'[r].ttl = t
        /\ r # s => pair'[r] = pair[r] /\ key'[r] = key[r]
  BY <1>3 DEF Types
<1>7. KeysMatch'
  <2>1. p # Never
    BY <1>1, LifetimeAssumption DEF Never
  <2> QED
    BY <2>1, <1>6 DEF KeysMatch, KeyLives, ExpiresAt
<1>8. KeysLast'
  <2> SUFFICES ASSUME NEW r \in LoginId, pair'[r] # Never, r \notin revoked
               PROVE  \/ \E e \in Pod : Clock(e) > ExpiresAt(pair'[r])
                      \/ /\ key'[r].expiresAt = ExpiresAt(pair'[r])
                         /\ key'[r].until >= ExpiresAt(pair'[r]) - Offset[pair'[r].pod]
    BY DEF KeysLast, ExpiresAt, Clock
  <2>1. CASE r = s
    <3>1. now + t >= p.signed + t - Offset[p.pod]
      BY <1>1
    <3> QED
      BY <2>1, <3>1, <1>1, <1>6
  <2>2. CASE r # s
    BY <2>2, <1>6 DEF KeysLast
  <2> QED
    BY <2>1, <2>2
<1>9. IndexFollows'
  <2> SUFFICES ASSUME NEW r \in LoginId
               PROVE  /\ key'[r].until <= now + key'[r].ttl
                      /\ now < key'[r].until =>
                           \/ r \in rolled'
                           \/ key'[r].until < now + Second
                           \/ r \in index'.ids /\ key'[r].until < index'.until + Second
    BY DEF IndexFollows, KeyLives
  <2>1. /\ s \in index'.ids
        /\ IndexLives => index.ids \subseteq index'.ids
        /\ index'.until = now + ExpireSeconds(t)
    BY <1>3
  <2>2. CASE r = s
    <3>1. now + t < now + ExpireSeconds(t) + Second
      BY <1>1, <1>2, LifetimeAssumption
    <3>2. now + t <= now + t
      BY <1>1
    <3> QED
      BY <2>1, <2>2, <3>1, <3>2, <1>6
  <2>3. CASE r # s
    <3>1. key'[r] = key[r] /\ key[r].until \in Int /\ key[r].ttl \in Int
          /\ index.until \in Int
      BY <2>3, <1>6 DEF Types, Key, Index
    <3>2. key[r].until <= now + key[r].ttl
      BY DEF IndexFollows
    <3> SUFFICES ASSUME now < key[r].until, key[r].ttl <= t,
                        key[r].until >= now + Second, r \notin rolled
                 PROVE  r \in index'.ids /\ key[r].until < index'.until + Second
      BY <3>1, <3>2, <2>3, <1>1, <1>3, LifetimeAssumption
    <3>3. r \in index.ids /\ key[r].until < index.until + Second
      BY <3>1, <1>1, LifetimeAssumption DEF IndexFollows, KeyLives
    <3>4. IndexLives
      BY <3>1, <3>3, <1>1, LifetimeAssumption DEF IndexLives
    <3> QED
      BY <2>1, <3>1, <3>2, <3>3, <3>4, <1>1, <1>2, LifetimeAssumption
  <2> QED
    BY <2>2, <2>3
<1> QED
  BY <1>4, <1>5, <1>7, <1>8, <1>9

\* Sessions are taken out of Redis: those that were logged out, or one whose
\* end a pod saw.
LEMMA DropKeeps ==
  ASSUME LifetimeInv, NEW S, Drop(S),
         revoked \subseteq revoked',
         \A s \in S \cap LoginId :
           s \in revoked' \/ \E e \in Pod : Clock(e) > ExpiresAt(pair[s])
  PROVE  LifetimeInv'
<1> USE DEF LifetimeInv, Drop
<1>0. now \in Nat
  BY DEF Types
<1>1. \A s \in LoginId : key'[s] = IF s \in S THEN NoKey ELSE key[s]
  OBVIOUS
<1>2. Types'
  BY DEF Types, Key, NoKey, Index
<1>3. PairsSigned'
  BY DEF PairsSigned, Signed
<1>4. KeysMatch'
  BY <1>0, <1>1 DEF KeysMatch, KeyLives, NoKey, ExpiresAt
<1>5. KeysLast'
  BY <1>1 DEF KeysLast, ExpiresAt, Clock
<1>6. IndexFollows'
  <2>1. index'.ids = index.ids \ S /\ index'.until = index.until
    BY DEF Types, Index
  <2> QED
    BY <2>1, <1>0, <1>1 DEF IndexFollows, KeyLives, NoKey
<1> QED
  BY <1>2, <1>3, <1>4, <1>5, <1>6

\* Every step keeps the invariant.
LEMMA LifetimeSteps == LifetimeInv /\ [LifetimeNext]_lifetimeVars => LifetimeInv'
<1> SUFFICES ASSUME LifetimeInv, [LifetimeNext]_lifetimeVars PROVE LifetimeInv'
  OBVIOUS
<1>1. CASE Tick
  BY <1>1, TickKeeps
<1>2. CASE Store
  <2>1. CASE StorePair(issue.id, issue.pair)
    <3>1. issue.id \in LoginId /\ Signed(issue.pair)
      BY <1>2 DEF Store, LifetimeInv, Types, PairsSigned
    <3> QED
      BY <1>2, <2>1, <3>1, StoreKeeps DEF Store
  <2>2. CASE UNCHANGED <<pair, key, index, rolled>>
    BY <1>2, <2>2 DEF Store, LifetimeInv, Types, PairsSigned, Signed, KeysMatch, KeysLast,
                      IndexFollows, KeyLives, ExpiresAt, Clock
  <2> QED
    BY <1>2, <2>1, <2>2 DEF Store
<1>3. ASSUME NEW d \in Pod, NEW s \in LoginId,
             SignLogin(d, s) \/ SignRefresh(d, s)
      PROVE  LifetimeInv'
  BY <1>3, SignKeeps DEF SignLogin, SignRefresh
<1>4. ASSUME NEW d \in Pod, NEW s \in LoginId, EndSession(d, s)
      PROVE  LifetimeInv'
  BY <1>4, DropKeeps DEF EndSession
<1>5. ASSUME NEW d \in Pod, NEW s \in LoginId, EndAllSessions(d, s)
      PROVE  LifetimeInv'
  BY <1>5, DropKeeps DEF EndAllSessions
<1>6. ASSUME NEW d \in Pod, NEW s \in LoginId, GetDropsExpired(d, s)
      PROVE  LifetimeInv'
  <2>1. Clock(d) > ExpiresAt(pair[s])
    BY <1>6 DEF GetDropsExpired, LifetimeInv, KeysMatch
  <2> QED
    BY <1>6, <2>1, DropKeeps DEF GetDropsExpired
<1>7. CASE UNCHANGED lifetimeVars
  BY <1>7 DEF lifetimeVars, LifetimeInv, Types, PairsSigned, Signed, KeysMatch, KeysLast,
              IndexFollows, KeyLives, ExpiresAt, Clock
<1> QED
  BY <1>1, <1>2, <1>3, <1>4, <1>5, <1>6, <1>7 DEF LifetimeNext

\* The invariant holds in every reachable state.
THEOREM LifetimeInvariance == LifetimeSpec => []LifetimeInv
BY LifetimeStarts, LifetimeSteps, PTL DEF LifetimeSpec

-----------------------------------------------------------------------------
(***************************************************************************)
(* What it implies.                                                        *)
(***************************************************************************)
\* An access token is worth nothing after its lifetime, the leeway and the
\* skew of the two pods, nor after its session.
THEOREM BoundedAuthority == LifetimeSpec => []AuthorityIsBounded
<1>1. LifetimeInv => AuthorityIsBounded
  <2> SUFFICES ASSUME LifetimeInv, NEW d \in Pod, NEW s \in LoginId, Accepts(d, s)
               PROVE  LET p == pair[s]
                          age == now - (p.signed - Offset[p.pod])
                      IN  /\ age < ttl[p.pod].access + Leeway + Ahead(p.pod, d)
                          /\ age <= ttl[p.pod].refresh + Ahead(p.pod, d)
    BY DEF AuthorityIsBounded
  <2> DEFINE p == pair[s]
  <2>1. Types /\ Signed(p)
    BY DEF LifetimeInv, PairsSigned, Accepts
  <2>2. now \in Nat /\ Offset[d] \in Int /\ Leeway \in Nat
    BY <2>1, LifetimesAccepted, LifetimeAssumption DEF Types
  <2>3. /\ p.pod \in Pod /\ p.signed \in Int /\ p.access \in Int
        /\ p.access <= p.signed + ttl[p.pod].access
        /\ ExpiresAt(p) = p.signed + ttl[p.pod].refresh
    BY <2>1, SignedBounds
  <2>4. /\ Offset[p.pod] \in Int
        /\ ttl[p.pod].access \in Int /\ ttl[p.pod].refresh \in Int
    BY <2>1, <2>3, LifetimesAccepted
  <2>5. now + Offset[d] < p.access + Leeway
    BY DEF Accepts, ClaimsValid, Clock
  <2>6. now + Offset[d] <= p.signed + ttl[p.pod].refresh
    BY <2>3 DEF Accepts, SessionFresh, Clock, LifetimeInv, KeysMatch
  <2> HIDE DEF p
  <2>7. now - (p.signed - Offset[p.pod]) < ttl[p.pod].access + Leeway + Ahead(p.pod, d)
    BY <2>2, <2>3, <2>4, <2>5 DEF Ahead
  <2>8. now - (p.signed - Offset[p.pod]) <= ttl[p.pod].refresh + Ahead(p.pod, d)
    BY <2>2, <2>3, <2>4, <2>6 DEF Ahead
  <2> QED
    BY <2>7, <2>8 DEF p
<1> QED
  BY <1>1, LifetimeInvariance, PTL

\* A fresh access token of a session nobody ended is accepted, within the
\* stated skew.
THEOREM FreshTokens == LifetimeSpec => []FreshTokenAccepted
<1>1. LifetimeInv => FreshTokenAccepted
  <2> SUFFICES ASSUME LifetimeInv, NEW d \in Pod, NEW s \in LoginId,
                      pair[s] # Never,
                      s \notin revoked,
                      Ahead(pair[s].pod, d) <= Leeway,
                      \A e \in Pod : Ahead(e, d) <= ttl[pair[s].pod].refresh
                                                     - ttl[pair[s].pod].access,
                      Clock(d) < pair[s].access
               PROVE  Accepts(d, s)
    BY DEF FreshTokenAccepted
  <2> DEFINE p == pair[s]
  <2>1. Types /\ Signed(p)
    BY DEF LifetimeInv, PairsSigned
  <2>2. now \in Nat /\ Offset[d] \in Int /\ Leeway \in Nat
    BY <2>1, LifetimesAccepted, LifetimeAssumption DEF Types
  <2>3. /\ p.pod \in Pod /\ p.signed \in Int /\ p.access \in Int /\ p.iat \in Int
        /\ p.iat <= p.signed
        /\ p.signed <= now + Offset[p.pod]
        /\ p.access <= p.signed + ttl[p.pod].access
        /\ ExpiresAt(p) = p.signed + ttl[p.pod].refresh
    BY <2>1, SignedBounds DEF Signed
  <2>4. /\ Offset[p.pod] \in Int
        /\ ttl[p.pod].access \in Int /\ ttl[p.pod].refresh \in Int
        /\ ttl[p.pod].access < ttl[p.pod].refresh
    BY <2>1, <2>3, LifetimesAccepted
  <2>5. /\ Offset[p.pod] - Offset[d] <= Leeway
        /\ Offset[p.pod] - Offset[d] <= ttl[p.pod].refresh - ttl[p.pod].access
        /\ now + Offset[d] < p.access
    BY <2>3 DEF Ahead, Clock
  <2>6. key[s].until \in Int /\ key[s].expiresAt \in Int
    BY <2>1 DEF Types, Key
  <2>7. ClaimsValid(d, p)
    <3> HIDE DEF p
    <3> QED
      BY <2>2, <2>3, <2>4, <2>5 DEF ClaimsValid, Clock
  <2>8. ASSUME NEW e \in Pod PROVE ~(Clock(e) > ExpiresAt(p))
    <3>1. Offset[e] \in Int
      BY <2>1, LifetimesAccepted
    <3>2. Offset[e] - Offset[d] <= ttl[p.pod].refresh - ttl[p.pod].access
      BY DEF Ahead
    <3> HIDE DEF p
    <3> QED
      BY <2>2, <2>3, <2>4, <2>5, <3>1, <3>2 DEF Clock
  <2>9. /\ key[s].expiresAt = ExpiresAt(p)
        /\ key[s].until >= ExpiresAt(p) - Offset[p.pod]
    BY <2>8 DEF LifetimeInv, KeysLast
  <2>10. SessionFresh(d, s)
    <3> HIDE DEF p
    <3> QED
      BY <2>2, <2>3, <2>4, <2>5, <2>6, <2>9 DEF SessionFresh, KeyLives, Clock
  <2> QED
    BY <2>7, <2>10 DEF Accepts
<1> QED
  BY <1>1, LifetimeInvariance, PTL

\* The index of a user covers the user's sessions, but for what the property
\* names.
THEOREM CoveringIndex == LifetimeSpec => []IndexCoversSessions
<1>1. LifetimeInv => IndexCoversSessions
  <2> SUFFICES ASSUME LifetimeInv, NEW s \in LoginId, KeyLives(s)
               PROVE  Indexed(s) \/ s \in rolled \/ key[s].until - now < Second
    BY DEF IndexCoversSessions
  <2>1. now \in Nat /\ key[s].until \in Int /\ index.until \in Int /\ Second \in Nat
    BY LifetimeAssumption DEF LifetimeInv, Types, Key, Index
  <2> QED
    BY <2>1 DEF LifetimeInv, IndexFollows, Indexed, IndexLives
<1> QED
  BY <1>1, LifetimeInvariance, PTL

\* The part of TokenLifetime in MCRequestPath's type invariant: the lifetimes stay
\* those config.Load accepts, and every key has a TTL.
THEOREM LifetimeKeepsTypes == LifetimeSpec => []LifetimeTypeOK
<1>1. ASSUME LifetimeInit PROVE LifetimeTypeOK
  <2>1. Types
    BY <1>1, LifetimeStarts DEF LifetimeInv
  <2>2. now \in 0 .. MaxTime
    BY <1>1, LifetimeAssumption DEF LifetimeInit
  <2>3. \A s \in LoginId : pair[s] = Never /\ key[s] = NoKey
    BY <1>1 DEF LifetimeInit
  <2>4. index.ids = {}
    BY <1>1 DEF LifetimeInit, NoIndex
  <2>5. issue = NoIssue /\ revoked = {} /\ rolled = {}
    BY <1>1 DEF LifetimeInit
  <2> QED
    BY <2>1, <2>2, <2>3, <2>4, <2>5, LifetimesAccepted DEF LifetimeTypeOK
<1>2. ASSUME LifetimeInv, LifetimeTypeOK, [LifetimeNext]_lifetimeVars
      PROVE  LifetimeTypeOK'
  <2> USE <1>2 DEF LifetimeInv, Types
  <2>1. CASE UNCHANGED lifetimeVars
    BY <2>1 DEF lifetimeVars, LifetimeTypeOK
  <2>2. CASE Tick
    BY <2>2, LifetimeAssumption DEF Tick, LifetimeTypeOK
  <2>3. CASE Store
    BY <2>3, LifetimesAccepted DEF Store, StorePair, RolledOver, LifetimeTypeOK, TokenPair
  <2>4. ASSUME NEW d \in Pod, NEW s \in LoginId, SignLogin(d, s) \/ SignRefresh(d, s)
        PROVE  LifetimeTypeOK'
    BY <2>4 DEF SignLogin, SignRefresh, LifetimeTypeOK
  <2>5. ASSUME NEW d \in Pod, NEW s \in LoginId,
               EndSession(d, s) \/ EndAllSessions(d, s) \/ GetDropsExpired(d, s)
        PROVE  LifetimeTypeOK'
    BY <2>5 DEF EndSession, EndAllSessions, GetDropsExpired, Drop, Index, LifetimeTypeOK
  <2> QED
    BY <1>2, <2>1, <2>2, <2>3, <2>4, <2>5 DEF LifetimeNext
<1> QED
  BY <1>1, <1>2, LifetimeInvariance, PTL DEF LifetimeSpec
=============================================================================
