---------------------------- MODULE SessionCache ----------------------------
(***************************************************************************)
(* The Redis session store of the user service: type SessionCache of       *)
(* internal/repository/redis/redis.go.                                     *)
(*                                                                         *)
(* Many request goroutines share one Redis.  Redis runs one command, or    *)
(* one MULTI/EXEC block, at a time; between two commands of a method any   *)
(* other goroutine may run.  So every action below is one Redis command    *)
(* (or one MULTI/EXEC block) together with the Go code up to the next one, *)
(* and a method is the sequence of program counters                        *)
(*                                                                         *)
(*   Create            createTx                                            *)
(*   Get               get [-> deleteGet -> deleteTx]                      *)
(*   Rotate            watch -> rotateGet -> rotateExec [-> watch ...]     *)
(*   Delete            deleteGet -> deleteTx                               *)
(*   DeleteAllForUser  smembers -> delAll                                  *)
(*                                                                         *)
(* A session carries the two token identifiers that are valid now.  They   *)
(* are drawn together for every token pair and replaced together by every  *)
(* rotation, so one element of Pair stands for both.                       *)
(***************************************************************************)
EXTENDS Naturals, FiniteSets

CONSTANTS
  Client,       \* request goroutines that call the store
  SessionId,    \* session identifiers (uuid.NewString at login)
  UserKey,      \* the strings that appear as a user id in a Redis key
  RoleList,     \* what a session records as the roles of its user
  Pair,         \* (access token id, refresh token id) of one token pair
  Nil,          \* no session, no answer
  MaxAttempts   \* maximumRotationAttempts

Session == [user : UserKey, roles : RoleList, pair : Pair]

ASSUME SessionCacheAssumption ==
  /\ MaxAttempts \in Nat \ {0, 1}
  /\ Nil \notin Session
  /\ Nil \notin SessionId
  /\ Nil \notin UserKey
  /\ Nil \notin Pair

VARIABLES
  sessions,      \* auth:session:<id>        : the stored session or Nil
  userSessions,  \* auth:user-sessions:<uid> : the ids indexed for a user
  expired,       \* stored sessions whose ExpiresAt has passed
  call,          \* the store method each client is executing
  dirty,         \* clients whose WATCHed key changed since their WATCH
  usedIds,       \* session ids drawn so far
  usedPairs,     \* token pairs drawn so far
  released,      \* pairs whose tokens were handed to a caller
  exchanges      \* history: rotations each pair was exchanged in

keyspace == <<sessions, userSessions, expired>>
drawn    == <<usedIds, usedPairs>>
cacheVars == <<sessions, userSessions, expired, call, dirty, usedIds,
               usedPairs, released, exchanges>>

(***************************************************************************)
(* The frame of a method call.                                             *)
(***************************************************************************)
Answer == {"none", "ok", "notFound", "invalidToken", "error"}

PC == {"idle", "createTx", "get", "deleteGet", "deleteTx", "watch",
       "rotateGet", "rotateExec", "smembers", "delAll"}

Op == {"none", "create", "get", "rotate", "delete", "deleteAll"}

Idle ==
  [op |-> "none", pc |-> "idle", sid |-> Nil, uid |-> Nil, expect |-> Nil,
   next |-> Nil, list |-> {}, attempt |-> 0, res |-> "none", seen |-> Nil]

Call ==
  [op : Op, pc : PC, sid : SessionId \cup {Nil}, uid : UserKey \cup {Nil},
   expect : Pair \cup {Nil}, next : Session \cup {Nil},
   list : SUBSET SessionId, attempt : Nat, res : Answer,
   seen : Session \cup {Nil}]

At(c, pc) == call[c].pc = pc

\* The caller gets the answer r, and for Get the session x.
Return(c, r, x) == call' = [call EXCEPT ![c] = [Idle EXCEPT !.res = r, !.seen = x]]

Goto(c, pc) == call' = [call EXCEPT ![c].pc = pc]

(***************************************************************************)
(* WATCH: a client that watches a key learns at EXEC whether it changed.   *)
(***************************************************************************)
Rotating == {"rotateGet", "rotateExec"}

\* Mutant: the client watches a key that every write touches.
WatchersOfAnyKey(S) == {c \in Client : S # {} /\ call[c].pc \in Rotating}

Watchers(S) == {c \in Client : call[c].pc \in Rotating /\ call[c].sid \in S}

\* DEL of the keys of S: only a key that exists is modified.
Present(S) == {s \in S : sessions[s] # Nil}

Erase(S) ==
  /\ sessions' = [s \in SessionId |-> IF s \in S THEN Nil ELSE sessions[s]]
  /\ expired' = expired \ S
  /\ dirty' = dirty \cup Watchers(Present(S))

(***************************************************************************)
(* MULTI: SET the session, SADD its id to the index of its user and renew  *)
(* the life of both.                                                       *)
(***************************************************************************)
\* Mutant: no SADD.
NotIndexed(s, x) == userSessions

Indexed(s, x) == [userSessions EXCEPT ![x.user] = @ \cup {s}]

Store(s, x) ==
  /\ sessions' = [sessions EXCEPT ![s] = x]
  /\ userSessions' = Indexed(s, x)
  /\ expired' = expired \ {s}

\* The reply to a command that was executed: it may be lost on the way back.
Reply == {"ok", "error"}

Release(r, p) == released' = IF r = "ok" THEN released \cup {p} ELSE released

(***************************************************************************)
(* Create.  The caller draws a session id and a token pair (uuid.NewString) *)
(* that nobody has drawn before.                                           *)
(***************************************************************************)
StartCreate(c, s, x) ==
  /\ At(c, "idle")
  /\ s \notin usedIds
  /\ x.pair \notin usedPairs
  /\ usedIds' = usedIds \cup {s}
  /\ usedPairs' = usedPairs \cup {x.pair}
  /\ call' = [call EXCEPT ![c] =
       [Idle EXCEPT !.op = "create", !.pc = "createTx", !.sid = s, !.next = x]]
  /\ UNCHANGED <<keyspace, dirty, released, exchanges>>

CreateTx(c) ==
  /\ At(c, "createTx")
  /\ Store(call[c].sid, call[c].next)
  /\ dirty' = dirty \cup Watchers({call[c].sid})
  /\ \E r \in Reply : Return(c, r, Nil) /\ Release(r, call[c].next.pair)
  /\ UNCHANGED <<drawn, exchanges>>

(***************************************************************************)
(* Get.  A session past its ExpiresAt is deleted by its id, with Delete,   *)
(* whose error is dropped.                                                 *)
(***************************************************************************)
StartGet(c, s) ==
  /\ At(c, "idle")
  /\ call' = [call EXCEPT ![c] =
       [Idle EXCEPT !.op = "get", !.pc = "get", !.sid = s]]
  /\ UNCHANGED <<keyspace, dirty, drawn, released, exchanges>>

Get(c) ==
  LET s == call[c].sid IN
  /\ At(c, "get")
  /\ \/ sessions[s] = Nil /\ Return(c, "notFound", Nil)
     \/ sessions[s] # Nil /\ s \in expired /\ Goto(c, "deleteGet")
     \/ sessions[s] # Nil /\ s \notin expired /\ Return(c, "ok", sessions[s])
  /\ UNCHANGED <<keyspace, dirty, drawn, released, exchanges>>

(***************************************************************************)
(* Delete.  GET the session for its user, then MULTI: DEL it and SREM it   *)
(* from the index of that user.  Also the second half of an expired Get.   *)
(***************************************************************************)
StartDelete(c, s) ==
  /\ At(c, "idle")
  /\ call' = [call EXCEPT ![c] =
       [Idle EXCEPT !.op = "delete", !.pc = "deleteGet", !.sid = s]]
  /\ UNCHANGED <<keyspace, dirty, drawn, released, exchanges>>

DeleteAnswer(c, r) == IF call[c].op = "get" THEN "invalidToken" ELSE r

DeleteGet(c) ==
  LET s == call[c].sid IN
  /\ At(c, "deleteGet")
  /\ \/ sessions[s] = Nil /\ Return(c, DeleteAnswer(c, "ok"), Nil)
     \/ /\ sessions[s] # Nil
        /\ call' = [call EXCEPT ![c].pc = "deleteTx", ![c].uid = sessions[s].user]
  /\ UNCHANGED <<keyspace, dirty, drawn, released, exchanges>>

DeleteTx(c) ==
  LET s == call[c].sid IN
  /\ At(c, "deleteTx")
  /\ Erase({s})
  /\ userSessions' = [userSessions EXCEPT ![call[c].uid] = @ \ {s}]
  /\ \E r \in Reply : Return(c, DeleteAnswer(c, r), Nil)
  /\ UNCHANGED <<drawn, released, exchanges>>

(***************************************************************************)
(* Rotate.  The caller presents a refresh token it was given before; the   *)
(* new pair has never been drawn.  At most MaxAttempts optimistic rounds.  *)
(***************************************************************************)
StartRotate(c, s, p, x) ==
  /\ At(c, "idle")
  /\ p \in released
  /\ x.pair \notin usedPairs
  /\ usedPairs' = usedPairs \cup {x.pair}
  /\ call' = [call EXCEPT ![c] =
       [Idle EXCEPT !.op = "rotate", !.pc = "watch", !.sid = s,
                    !.expect = p, !.next = x]]
  /\ UNCHANGED <<keyspace, dirty, usedIds, released, exchanges>>

Watch(c) ==
  /\ At(c, "watch")
  /\ Goto(c, "rotateGet")
  /\ UNCHANGED <<keyspace, dirty, drawn, released, exchanges>>

\* Mutants: a check of Rotate is missing.
AnyToken(c, x) == TRUE
AnyUser(c, x)  == TRUE

\* current.RefreshTokenID = currentRefreshTokenID
HoldsToken(c, x) == x.pair = call[c].expect

\* current.UserID = next.UserID
SameUser(c, x) == x.user = call[c].next.user

RotateGet(c) ==
  LET x == sessions[call[c].sid]
      valid == x # Nil /\ HoldsToken(c, x) /\ SameUser(c, x)
  IN
  /\ At(c, "rotateGet")
  /\ \/ valid /\ Goto(c, "rotateExec") /\ dirty' = dirty
     \/ ~valid /\ Return(c, "invalidToken", Nil) /\ dirty' = dirty \ {c}
  /\ UNCHANGED <<keyspace, drawn, released, exchanges>>

\* Mutant: SET without WATCH.
NoConflict(c) == FALSE

\* EXEC answers nil: TxFailedErr.
Conflict(c) == c \in dirty

LastAttempt(c) == call[c].attempt + 1 = MaxAttempts

RotateConflict(c) ==
  /\ At(c, "rotateExec")
  /\ Conflict(c)
  /\ dirty' = dirty \ {c}
  /\ \/ LastAttempt(c) /\ Return(c, "error", Nil)
     \/ /\ ~LastAttempt(c)
        /\ call' = [call EXCEPT ![c].pc = "watch", ![c].attempt = @ + 1]
  /\ UNCHANGED <<keyspace, drawn, released, exchanges>>

RotateExec(c) ==
  LET s == call[c].sid
      x == call[c].next
  IN
  /\ At(c, "rotateExec")
  /\ ~Conflict(c)
  /\ Store(s, x)
  /\ dirty' = (dirty \cup Watchers({s})) \ {c}
  /\ exchanges' = [exchanges EXCEPT ![call[c].expect] = @ + 1]
  /\ \E r \in Reply : Return(c, r, Nil) /\ Release(r, x.pair)
  /\ UNCHANGED drawn

(***************************************************************************)
(* DeleteAllForUser.  SMEMBERS of the index, then one DEL of the sessions  *)
(* it listed and of the index itself.                                      *)
(***************************************************************************)
StartDeleteAll(c, u) ==
  /\ At(c, "idle")
  /\ call' = [call EXCEPT ![c] =
       [Idle EXCEPT !.op = "deleteAll", !.pc = "smembers", !.uid = u]]
  /\ UNCHANGED <<keyspace, dirty, drawn, released, exchanges>>

SMembers(c) ==
  /\ At(c, "smembers")
  /\ call' = [call EXCEPT ![c].pc = "delAll",
                          ![c].list = userSessions[call[c].uid]]
  /\ UNCHANGED <<keyspace, dirty, drawn, released, exchanges>>

DelAll(c) ==
  /\ At(c, "delAll")
  /\ Erase(call[c].list)
  /\ userSessions' = [userSessions EXCEPT ![call[c].uid] = {}]
  /\ \E r \in Reply : Return(c, r, Nil)
  /\ UNCHANGED <<drawn, released, exchanges>>

(***************************************************************************)
(* A command that never reached Redis (connection, timeout, cancelled      *)
(* context): the method returns the error.                                 *)
(***************************************************************************)
CommandFails(c) ==
  /\ ~At(c, "idle")
  /\ Return(c, IF call[c].pc \in {"deleteGet", "deleteTx"}
               THEN DeleteAnswer(c, "error") ELSE "error", Nil)
  /\ dirty' = dirty \ {c}
  /\ UNCHANGED <<keyspace, drawn, released, exchanges>>

(***************************************************************************)
(* Time.  ExpiresAt is computed before the SET that carries the same ttl,  *)
(* so a session passes its ExpiresAt before Redis drops its key.  Every    *)
(* SET renews the index with that ttl: the index is dropped only when no   *)
(* session of the user is left.                                            *)
(***************************************************************************)
Expire(s) ==
  /\ sessions[s] # Nil
  /\ s \notin expired
  /\ expired' = expired \cup {s}
  /\ UNCHANGED <<sessions, userSessions, call, dirty, drawn, released, exchanges>>

Evict(s) ==
  /\ s \in expired
  /\ Erase({s})
  /\ UNCHANGED <<userSessions, call, drawn, released, exchanges>>

EvictIndex(u) ==
  /\ userSessions[u] # {}
  /\ \A s \in SessionId : sessions[s] # Nil => sessions[s].user # u
  /\ userSessions' = [userSessions EXCEPT ![u] = {}]
  /\ UNCHANGED <<sessions, expired, call, dirty, drawn, released, exchanges>>

\* The caller has used the answer of its last call.
Forget(c) ==
  /\ At(c, "idle")
  /\ call' = [call EXCEPT ![c] = Idle]
  /\ UNCHANGED <<keyspace, dirty, drawn, released, exchanges>>

-----------------------------------------------------------------------------
CacheInit ==
  /\ sessions = [s \in SessionId |-> Nil]
  /\ userSessions = [u \in UserKey |-> {}]
  /\ expired = {}
  /\ call = [c \in Client |-> Idle]
  /\ dirty = {}
  /\ usedIds = {}
  /\ usedPairs = {}
  /\ released = {}
  /\ exchanges = [p \in Pair |-> 0]

Start(c) ==
  \/ \E s \in SessionId, x \in Session : StartCreate(c, s, x)
  \/ \E s \in SessionId : StartGet(c, s)
  \/ \E s \in SessionId : StartDelete(c, s)
  \/ \E s \in SessionId, p \in Pair, x \in Session : StartRotate(c, s, p, x)
  \/ \E u \in UserKey : StartDeleteAll(c, u)

Execute(c) ==
  \/ CreateTx(c)
  \/ Get(c)
  \/ DeleteGet(c)
  \/ DeleteTx(c)
  \/ Watch(c)
  \/ RotateGet(c)
  \/ RotateConflict(c)
  \/ RotateExec(c)
  \/ SMembers(c)
  \/ DelAll(c)

Elapse ==
  \/ \E s \in SessionId : Expire(s) \/ Evict(s)
  \/ \E u \in UserKey : EvictIndex(u)

CacheNext ==
  \/ \E c \in Client : Start(c) \/ Execute(c) \/ CommandFails(c) \/ Forget(c)
  \/ Elapse

CacheSpec == CacheInit /\ [][CacheNext]_cacheVars

-----------------------------------------------------------------------------
(***************************************************************************)
(* The store implements AuthSessionStore.  An id has ended once it was     *)
(* drawn, names no session and waits for no Create.                        *)
(***************************************************************************)
Creating(s) == \E c \in Client : At(c, "createTx") /\ call[c].sid = s

Contract == INSTANCE AuthSessionStore WITH
  store <- sessions,
  ended <- {s \in usedIds : sessions[s] = Nil /\ ~Creating(s)},
  spent <- {p \in Pair : exchanges[p] > 0}

-----------------------------------------------------------------------------
(***************************************************************************)
(* Properties.                                                             *)
(***************************************************************************)
\* Every variable holds a value of its Redis or Go type.
TypeOK ==
  /\ sessions \in [SessionId -> Session \cup {Nil}]
  /\ userSessions \in [UserKey -> SUBSET SessionId]
  /\ expired \subseteq SessionId
  /\ call \in [Client -> Call]
  /\ dirty \subseteq Client
  /\ usedIds \subseteq SessionId
  /\ usedPairs \subseteq Pair
  /\ released \subseteq Pair
  /\ exchanges \in [Pair -> Nat]

\* A refresh token is exchanged at most once, however many goroutines race
\* to rotate with it (AuthSessionStore: "the same refresh token cannot be
\* successfully reused by concurrent requests").
RefreshSingleUse == \A p \in Pair : exchanges[p] <= 1

\* A session that ended stays ended: only the Create that drew its id ever
\* makes a session appear, so a Rotate that raced with Delete,
\* DeleteAllForUser or expiry does not bring the session back.
NoResurrection ==
  [][\A s \in SessionId : sessions[s] = Nil /\ sessions'[s] # Nil =>
       Creating(s)]_cacheVars

\* The retry loop of Rotate never runs dry: the change that made EXEC fail
\* also invalidated the token, so the second round ends in ErrInvalidToken
\* and the caller never sees "rotate auth session after 3 attempts".
SecondRoundDecides == \A c \in Client : call[c].attempt <= 1

\* Only an exchange or the end of the session retires a pair: whatever is
\* stored for a session carries a pair that was never exchanged, so both
\* tokens of the replaced pair are dead.
StoredPairIsFresh ==
  \A s \in SessionId : sessions[s] # Nil => exchanges[sessions[s].pair] = 0

\* The index of a user names no stored session of another user, so
\* DeleteAllForUser ends only sessions of the user it was asked for.
IndexedSessionsAreOwn ==
  \A u \in UserKey : \A s \in userSessions[u] :
    sessions[s] # Nil => sessions[s].user = u

\* Every stored session is in the index of its user, where DeleteAllForUser
\* looks for it.  Holds of the behaviours in which no login of the user is
\* under way between SMEMBERS and DEL of a DeleteAllForUser: see
\* RaceFreeServiceSpec of UserService.
IndexComplete ==
  \A s \in SessionId : sessions[s] # Nil => s \in userSessions[sessions[s].user]

\* The methods, a Redis command at a time, implement the interface the
\* service is written against.
ImplementsContract == Contract!Spec

\* DeleteAllForUser collects every stored session of the user ("LogoutAll
\* invalidates every user session").
DeleteAllListsEverySession ==
  [][\A c \in Client : At(c, "smembers") /\ call'[c].pc = "delAll" =>
       \A s \in SessionId :
         sessions[s] # Nil /\ sessions[s].user = call[c].uid
           => s \in call'[c].list]_cacheVars

-----------------------------------------------------------------------------
(***************************************************************************)
(* The inductive invariant behind the safety properties: what each client  *)
(* in the middle of a method can rely on, whatever the others do.          *)
(***************************************************************************)
InRotate(c) == call[c].pc \in Rotating \cup {"watch"}

\* c holds a session that it has not stored yet.
Pending(c) == InRotate(c) \/ At(c, "createTx")

Stored(s) == sessions[s] # Nil

CallShape ==
  \A c \in Client :
    /\ ~Pending(c) => call[c].attempt = 0
    /\ Pending(c) \/ call[c].pc \in {"get", "deleteGet", "deleteTx"}
         => call[c].sid \in SessionId
    /\ Pending(c) => call[c].next \in Session
    /\ InRotate(c) => call[c].expect \in released
    /\ call[c].pc \in {"deleteTx", "smembers", "delAll"} => call[c].uid \in UserKey
    /\ c \in dirty => call[c].pc \in Rotating

\* A drawn pair waits with one client, or is stored once, or is exchanged.
PairLife ==
  /\ released \subseteq usedPairs
  /\ \A p \in Pair : exchanges[p] \in {0, 1} /\ (exchanges[p] = 1 => p \in usedPairs)
  /\ \A c \in Client : Pending(c) =>
       /\ call[c].next.pair \in usedPairs
       /\ call[c].next.pair \notin released
       /\ exchanges[call[c].next.pair] = 0
       /\ \A s \in SessionId : Stored(s) => sessions[s].pair # call[c].next.pair
       /\ \A d \in Client : Pending(d) /\ d # c => call[d].next.pair # call[c].next.pair
  /\ \A s \in SessionId : Stored(s) =>
       /\ sessions[s].pair \in usedPairs
       /\ exchanges[sessions[s].pair] = 0
       /\ \A t \in SessionId : Stored(t) /\ sessions[t].pair = sessions[s].pair => t = s

\* What the WATCH guarantees: until the key changes, EXEC overwrites the
\* session RotateGet saw.
WatchHolds ==
  \A c \in Client : At(c, "rotateExec") /\ c \notin dirty =>
    LET x == sessions[call[c].sid] IN x # Nil /\ HoldsToken(c, x) /\ SameUser(c, x)

\* Once the key changed, the token is no longer the current one.
ConflictDecides ==
  \A c \in Client :
    /\ call[c].attempt \in {0, 1}
    /\ At(c, "rotateExec") => call[c].attempt = 0
    /\ InRotate(c) /\ (call[c].attempt = 1 \/ c \in dirty) =>
         LET x == sessions[call[c].sid] IN x = Nil \/ ~HoldsToken(c, x)

\* A session id starts with one Create.
IdLife ==
  /\ \A s \in SessionId : Stored(s) => s \in usedIds
  /\ \A u \in UserKey : userSessions[u] \subseteq usedIds
  /\ \A c \in Client :
       /\ call[c].list \subseteq usedIds
       /\ At(c, "deleteTx") => call[c].sid \in usedIds
  /\ \A c \in Client : At(c, "createTx") =>
       /\ call[c].sid \in usedIds
       /\ ~Stored(call[c].sid)
       /\ \A u \in UserKey : call[c].sid \notin userSessions[u]
       /\ \A d \in Client :
            /\ call[c].sid \notin call[d].list
            /\ ~(At(d, "deleteTx") /\ call[d].sid = call[c].sid)
       /\ \A d \in Client : At(d, "createTx") /\ call[d].sid = call[c].sid => d = c

\* A session belongs to one user for life.
Owner ==
  /\ IndexedSessionsAreOwn
  /\ \A c \in Client :
       /\ At(c, "deleteTx") /\ Stored(call[c].sid) => sessions[call[c].sid].user = call[c].uid
       /\ At(c, "delAll") =>
            \A s \in call[c].list : Stored(s) => sessions[s].user = call[c].uid

IndInv ==
  TypeOK /\ CallShape /\ PairLife /\ WatchHolds /\ ConflictDecides /\ IdLife /\ Owner
=============================================================================
