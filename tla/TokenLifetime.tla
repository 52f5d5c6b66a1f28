---------------------------- MODULE TokenLifetime ----------------------------
(***************************************************************************)
(* How long a token pair is worth something: the lifetimes of              *)
(* internal/config/config.go, issueTokenPair and validateToken of          *)
(* internal/service/user_service.go, and the TTLs the session store gives  *)
(* its keys.  One user, several pods.                                      *)
(*                                                                         *)
(* Four clocks and three precisions meet here.  The pods sign with their   *)
(* own clocks, which are Offset ahead of Redis's; Redis counts a TTL from  *)
(* the command that sets it, later than the signing; the claims of a JWT   *)
(* are whole seconds, ExpiresAt of a session is not, and EXPIRE takes      *)
(* whole seconds where SET takes milliseconds.  During a rollout the pods  *)
(* run with different lifetimes.                                           *)
(*                                                                         *)
(* Who wins when store commands race is the subject of SessionCache and    *)
(* UserService; here each store method is one step and one pair is being   *)
(* issued at a time.                                                       *)
(***************************************************************************)
EXTENDS Integers

CONSTANTS
  LoginId,    \* session ids
  Pod,
  Offset,     \* how far the clock of a pod is ahead of the clock of Redis
  Lifetime,   \* what JWT_ACCESS_TTL and JWT_REFRESH_TTL may be set to
  Leeway,     \* tokenValidationLeeway
  Second,     \* clock ticks in a second
  MaxTime     \* bound: where the model's time ends

ASSUME LifetimeAssumption ==
  /\ Offset \in [Pod -> Int]
  /\ -1 \notin Pod
  /\ Lifetime \subseteq Int
  /\ Leeway \in Nat
  /\ Second \in Nat \ {0}
  /\ MaxTime \in Nat

VARIABLES
  now,     \* the clock of Redis
  ttl,     \* the lifetimes each pod was started with
  pair,    \* the token pair a session id was given last
  key,     \* auth:session:<id>: its ExpiresAt and when Redis drops it
  index,   \* auth:user-sessions:<uid>: its members and when Redis drops it
  issue,   \* the pair that is signed and not stored yet
  revoked, \* history: sessions that Logout or LogoutAll ended
  rolled   \* history: sessions stored with a longer TTL than a later one

lifetimeVars == <<now, ttl, pair, key, index, issue, revoked, rolled>>

Clock(d) == now + Offset[d]

(***************************************************************************)
(* config.Load: main exits when the lifetimes are refused.                 *)
(***************************************************************************)
\* Mutant: the lifetimes are not compared with each other.
ConfigAcceptsAny(access, refresh) == access > 0 /\ refresh > 0

ConfigAccepts(access, refresh) == access > 0 /\ refresh > access

Lifetimes ==
  {t \in [access : Lifetime, refresh : Lifetime] : ConfigAccepts(t.access, t.refresh)}

\* jwt.NewNumericDate, and the seconds of EXPIRE: whole seconds, at least one
\* for EXPIRE.
WholeSeconds(t) == t - (t % Second)

ExpireSeconds(t) == IF t < Second THEN Second ELSE WholeSeconds(t)

Never == [iat |-> -1, access |-> -1, pod |-> -1, signed |-> -1]

NoKey == [expiresAt |-> -1, until |-> -1, ttl |-> -1]

NoIndex == [ids |-> {}, until |-> -1, ttl |-> -1]

NoIssue == [id |-> -1, pair |-> Never, rotate |-> FALSE]

\* Redis has not dropped the key.
KeyLives(s) == now < key[s].until

IndexLives == now < index.until

Indexed(s) == IndexLives /\ s \in index.ids

(***************************************************************************)
(* issueTokenPair on pod d.                                                *)
(***************************************************************************)
PairOf(d) ==
  [iat    |-> WholeSeconds(Clock(d)),
   access |-> WholeSeconds(Clock(d) + ttl[d].access),
   pod    |-> d,
   signed |-> Clock(d)]

ExpiresAt(p) == p.signed + ttl[p.pod].refresh

(***************************************************************************)
(* validateToken on pod d, of the access token of the pair s was given     *)
(* last: the claims, with the leeway, and the session behind them.         *)
(***************************************************************************)
\* Mutants: no leeway for a token from the future; exp is not compared.
ClaimsValidStrict(d, p) == Clock(d) < p.access + Leeway /\ p.iat <= Clock(d)

ClaimsValidForever(d, p) == p.iat - Leeway <= Clock(d)

ClaimsValid(d, p) ==
  /\ Clock(d) < p.access + Leeway
  /\ p.iat - Leeway <= Clock(d)

SessionFresh(d, s) == KeyLives(s) /\ Clock(d) <= key[s].expiresAt

Accepts(d, s) == pair[s] # Never /\ ClaimsValid(d, pair[s]) /\ SessionFresh(d, s)

\* The refresh token expires when the session does, in whole seconds.
RefreshAccepted(d, s) ==
  /\ pair[s] # Never
  /\ Clock(d) < WholeSeconds(ExpiresAt(pair[s])) + Leeway
  /\ pair[s].iat - Leeway <= Clock(d)
  /\ SessionFresh(d, s)

(***************************************************************************)
(* Login and refresh: sign, then Create or Rotate.                         *)
(***************************************************************************)
SignLogin(d, s) ==
  /\ issue = NoIssue
  /\ pair[s] = Never
  /\ issue' = [id |-> s, pair |-> PairOf(d), rotate |-> FALSE]
  /\ UNCHANGED <<now, ttl, pair, key, index, revoked, rolled>>

SignRefresh(d, s) ==
  /\ issue = NoIssue
  /\ RefreshAccepted(d, s)
  /\ issue' = [id |-> s, pair |-> PairOf(d), rotate |-> TRUE]
  /\ UNCHANGED <<now, ttl, pair, key, index, revoked, rolled>>

RolledOver(s, t) == (rolled \ {s}) \cup {r \in LoginId \ {s} : key[r].ttl > t}

\* SET, SADD, EXPIRE; mutant: the index keeps the TTL it has.
StoreKeyOnly(s, p) ==
  LET t == ttl[p.pod].refresh IN
  /\ key' = [key EXCEPT ![s] = [expiresAt |-> ExpiresAt(p), until |-> now + t, ttl |-> t]]
  /\ index' = IF IndexLives THEN [index EXCEPT !.ids = @ \cup {s}]
              ELSE [ids |-> {s}, until |-> now + ExpireSeconds(t), ttl |-> t]
  /\ pair' = [pair EXCEPT ![s] = p]
  /\ rolled' = RolledOver(s, t)

StorePair(s, p) ==
  LET t == ttl[p.pod].refresh IN
  /\ key' = [key EXCEPT ![s] = [expiresAt |-> ExpiresAt(p), until |-> now + t, ttl |-> t]]
  /\ index' = [ids |-> IF IndexLives THEN index.ids \cup {s} ELSE {s},
               until |-> now + ExpireSeconds(t), ttl |-> t]
  /\ pair' = [pair EXCEPT ![s] = p]
  /\ rolled' = RolledOver(s, t)

\* Rotate finds the session gone: ErrInvalidToken.
Store ==
  /\ issue # NoIssue
  /\ issue' = NoIssue
  /\ \/ /\ ~issue.rotate \/ KeyLives(issue.id)
        /\ StorePair(issue.id, issue.pair)
     \/ /\ issue.rotate /\ ~KeyLives(issue.id)
        /\ UNCHANGED <<pair, key, index, rolled>>
  /\ UNCHANGED <<now, ttl, revoked>>

(***************************************************************************)
(* What ends a session.                                                    *)
(***************************************************************************)
Drop(S) ==
  /\ key' = [s \in LoginId |-> IF s \in S THEN NoKey ELSE key[s]]
  /\ index' = [index EXCEPT !.ids = @ \ S]
  /\ UNCHANGED <<now, ttl, pair, issue, rolled>>

EndSession(d, s) ==
  /\ Accepts(d, s)
  /\ Drop({s})
  /\ revoked' = revoked \cup {s}

EndAllSessions(d, s) ==
  LET listed == IF IndexLives THEN index.ids ELSE {} IN
  /\ Accepts(d, s)
  /\ Drop(listed)
  /\ revoked' = revoked \cup listed

\* Get on a pod whose clock is past ExpiresAt deletes the session for all.
GetDropsExpired(d, s) ==
  /\ KeyLives(s)
  /\ Clock(d) > key[s].expiresAt
  /\ Drop({s})
  /\ UNCHANGED revoked

Tick ==
  /\ now < MaxTime
  /\ now' = now + 1
  /\ UNCHANGED <<ttl, pair, key, index, issue, revoked, rolled>>

-----------------------------------------------------------------------------
LifetimeInit ==
  /\ now = 0
  /\ ttl \in [Pod -> Lifetimes]
  /\ pair = [s \in LoginId |-> Never]
  /\ key = [s \in LoginId |-> NoKey]
  /\ index = NoIndex
  /\ issue = NoIssue
  /\ revoked = {}
  /\ rolled = {}

LifetimeNext ==
  \/ Tick
  \/ Store
  \/ \E d \in Pod, s \in LoginId :
       \/ SignLogin(d, s)
       \/ SignRefresh(d, s)
       \/ EndSession(d, s)
       \/ EndAllSessions(d, s)
       \/ GetDropsExpired(d, s)

LifetimeSpec == LifetimeInit /\ [][LifetimeNext]_lifetimeVars
-----------------------------------------------------------------------------
(***************************************************************************)
(* Properties.                                                             *)
(***************************************************************************)
\* Every variable holds a value of its type.
LifetimeTypeOK ==
  /\ now \in 0 .. MaxTime
  /\ \A d \in Pod : 0 < ttl[d].access /\ ttl[d].access < ttl[d].refresh
  /\ \A s \in LoginId :
       /\ pair[s] # Never => pair[s].pod \in Pod
       /\ key[s] # NoKey => key[s].ttl > 0
  /\ index.ids \subseteq LoginId
  /\ issue # NoIssue => issue.id \in LoginId
  /\ revoked \subseteq LoginId
  /\ rolled \subseteq LoginId

\* How far the clock of d is ahead of the clock of e.
Ahead(d, e) == Offset[d] - Offset[e]

\* No pod accepts an access token that is older than its lifetime, the leeway
\* and what the clock of the pod that signed it was ahead, nor one that has
\* outlived its session.  The age is true time; neither pod can tell it.
AuthorityIsBounded ==
  \A d \in Pod, s \in LoginId : Accepts(d, s) =>
    LET p == pair[s]
        age == now - (p.signed - Offset[p.pod])
    IN  /\ age < ttl[p.pod].access + Leeway + Ahead(p.pod, d)
        /\ age <= ttl[p.pod].refresh + Ahead(p.pod, d)

\* An access token is accepted by every pod until it expires there, unless
\* its session was ended: no pod finds it too new, and neither a Redis TTL nor
\* a pod whose clock is ahead ends its session early.  It takes clocks within
\* the leeway, and lifetimes that differ by what any clock is ahead:
\* config.Load asks for less.
FreshTokenAccepted ==
  \A d \in Pod, s \in LoginId :
    LET p == pair[s]
        slack == ttl[p.pod].refresh - ttl[p.pod].access
    IN  /\ p # Never
        /\ s \notin revoked
        /\ Ahead(p.pod, d) <= Leeway
        /\ \A e \in Pod : Ahead(e, d) <= slack
        /\ Clock(d) < p.access
        => Accepts(d, s)

\* LogoutAll finds every session that lives: the index outlives them all, but
\* for the last second of one, and for those older than a session that was
\* stored with a shorter TTL.
IndexCoversSessions ==
  \A s \in LoginId :
    KeyLives(s) => Indexed(s) \/ s \in rolled \/ key[s].until - now < Second
=============================================================================
