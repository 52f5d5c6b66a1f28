# Verification of storemesh-user-service

TLA+ models of the user service, the TLC runs that check them on small
instances, and theorems about them that the TLA+ proof system checks. Paths
below are relative to the repository.

## 1. The system and its parts

The service is one Go process (several pods of it may run) beside PostgreSQL
and Redis. A gRPC server and a Gin HTTP server call one domain service; every
request is a goroutine, so the state the requests share is what lives in Redis
and PostgreSQL, and everything between two commands is open to interleaving.

| Part | State | Operations | Hard behaviour |
|---|---|---|---|
| Session store, `internal/repository/redis/redis.go` | `auth:session:<id>`, `auth:user-sessions:<uid>` in Redis, with TTLs | Create, Get, Rotate, Delete, DeleteAllForUser | every method is several Redis commands; WATCH/MULTI with retries; expiry; lost replies |
| User service, `internal/service/user_service.go` | none of its own; signed tokens held by callers | Authenticate, ValidateToken, RefreshToken, Logout, LogoutAll, CreateUser, UpdateUser, DeleteUser, AssignRole, RevokeRole, ListUsers and reads | reads the row, signs, stores the session: three steps against concurrent revocation |
| User repository, `internal/repository/user_repository.go`, `user_mapper.go`, `internal/models` | tables `user`, `role`, `user_role` | Create, GetByID, GetByEmail, List, Update, Delete, AssignRole, RevokeRole, ListRoles | read-committed transactions, unique indexes, soft deletion, read-modify-write |
| Readiness checker, `internal/health/checker.go` | per probe: a channel, a goroutine per dependency | Check | timeout racing late answers, goroutines that outlive the probe |
| Server lifecycle, `cmd/server/main.go` | listeners, in-flight requests, the shared shutdown context | opening the stores, start of the servers, fatal server error, signal, graceful shutdown, deferred closes | two servers drained under one deadline, stores closed afterwards, signals before anybody listens for them, readiness probes all the while |
| Migration and seeding, `internal/repository/postgres/database.go` | rows of `role` and the demo users | MigrateAndSeed, SeedDemoUsers | several pods at once, a crash between two statements, restarts |
| HTTP and gRPC access control, `internal/server/http/middleware/auth.go`, the routes and handlers of `internal/server/http`, `internal/middleware/interceptors.go`, `internal/server/grpc/user_server.go` | the claims of the caller, for the length of a request | which caller may run which operation; the answer to each error | claims are read once and used until the request ends; two transports that must agree |
| Token lifetimes, `internal/config/config.go`, `issueTokenPair` and `validateToken` of the service, the TTLs of `redis.go` | `exp`, `nbf`, `ExpiresAt`, two TTLs | sign, store, validate, expire | clocks of several pods and of Redis, whole seconds beside nanoseconds, lifetimes that change in a rollout |
| Listing, `List` of the repository, `ListUsers` of the service and of both transports | none | count, read a page | int width, ties in the order, count and page read apart, rows that come and go between pages |
| HTTP middleware, logging, metrics, tracing | none the service acts on | | |
| Other configuration, DTOs, generated code, the SQLite test database | none the service acts on | | |

How they interact: a request validates its access token (`validateToken`: one
`Get` of the session store, compared field by field with the signed claims),
then runs its operation. Login and refresh read the account and its roles from
PostgreSQL, sign two JWTs and put the session, with the ids of the two tokens,
into Redis (`Create`, `Rotate`). Role changes and deletions end the sessions in
Redis first and then change the rows. Nothing ties Redis and PostgreSQL
together, so correctness rests on the order of these steps.

What makes each part correct:

- **Session store.** A refresh token is exchanged at most once. A session that
  ended stays ended. A rotation retires both tokens of the old pair. A session
  is found under its own user and nobody else's. Every method returns. All of
  it together: the methods behave like the atomic interface
  `domain.AuthSessionStore`.
- **User service.** A live session agrees with the tokens of its pair. Logout
  is final. After a successful role change no session has the old roles; a
  deleted user has no session. A refresh never brings older roles back. Every
  request is answered.
- **User repository.** A deleted row is never written again. Every reported
  grant and revocation took effect exactly once. An email names one account for
  ever. Updates that do not overlap change only what they were asked to change.
- **Access control.** Whoever changes an account or ends its sessions is its
  user or was an administrator while the request ran. Both transports answer a
  call alike.
- **Token lifetimes.** No pod accepts a token beyond its lifetime but for the
  leeway and the difference of two clocks; every pod accepts a fresh one; the
  index of a user outlives the sessions it has to name.
- **Listing.** A page skips what the pages before it hold and no more, whatever
  number is asked for; a walk over all pages reports everybody who stayed.
- **Server lifecycle.** No accepted request is lost before the shutdown
  deadline; no server accepts requests before the stores are open and seeded or
  once they are being closed; the process ends although handlers hang.
- **Seeding.** A pod that serves finds everything seeded, also what an earlier
  pod left half done; no account is overwritten; racing pods all come up.
- **Readiness checker.** "ready" means every dependency answered with success;
  every dependency is in the report; the probe returns although dependencies
  hang; no goroutine is stuck on the channel.

The places where this code is hard to test are listed in `PROJECT.json` under
`hazards`, each at its line with the properties that watch it.

## 2. Modules

| Module | Models | Shape |
|---|---|---|
| `AuthSessionStore` | the contract of `domain.AuthSessionStore` (`internal/domain/user.go`) | three atomic actions Create, Rotate, End over `store`, `ended`, `spent` |
| `SessionCache` | `internal/repository/redis/redis.go` | one action per Redis command or MULTI/EXEC block; `Contract` instantiates `AuthSessionStore` |
| `UserService` | `internal/service/user_service.go` with the SQL statements it causes | extends `SessionCache`: a request is a program counter over store calls and SQL statements; `Accounts` instantiates `AccountStore`, `Service` instantiates `ServiceContract` |
| `AccountStore` | the writing half of `domain.UserRepository`, a call at a time | four atomic actions Create, AssignRole, RevokeRole, Delete over `account` |
| `ServiceContract` | `domain.UserService` (`internal/domain/user.go`), what a caller may expect of it about sessions and accounts | four atomic actions Authenticate, RefreshToken, EndSessions, ChangeAccount; extends `AuthSessionStore`, instantiates `AccountStore` |
| `UserRepository` | `internal/repository/user_repository.go`, and `UpdateUser` of the service | one action per SQL statement or COMMIT at read committed; `Accounts` instantiates `AccountStore` |
| `AccessControl` | the checks of both transports and the service operations behind them | extends `AuthSessionStore`: a request keeps its claims while others change roles and end sessions |
| `TokenLifetime` | lifetimes of tokens, sessions and Redis keys | clocks with offsets, one action per signing, store call and tick |
| `UserListing` | `List`, `ListUsers`, page arithmetic | a caller walks the pages while rows are inserted and deleted |
| `HealthChecker` | `internal/health/checker.go` | one probe: goroutines, channel, select |
| `Lifecycle` | `main` and `gracefulShutdown` of `cmd/server/main.go` | main goroutine, server goroutines, handlers, signals, deadline |
| `Process` | the two together, `internal/server/http/operations.go` | extends `Lifecycle` and `HealthChecker`: the probe is a request, its dependencies are the clients main opens and closes |
| `Seeding` | `internal/repository/postgres/database.go` as `main` calls it | one action per SQL statement of a starting pod |
| `*_proofs` | theorems about the module of that name; `Process_proofs` also those about `Lifecycle` and `HealthChecker`, `AccessControl_proofs` those about `MCRequestPath` | section 5 |
| `MC*` | the constants of the runs | |

### 2.1 SessionCache

`sessions[s]` is the key `auth:session:<s>`, `userSessions[u]` the set
`auth:user-sessions:<u>`. `expired` holds the sessions whose `ExpiresAt` has
passed while the key is still there. `call[c]` is the method goroutine `c` is
in: its program counter names the next Redis command, the other fields are the
Go locals. `dirty` is what Redis remembers for WATCH: the clients whose watched
key changed since. Every action that writes a session marks the watchers
(`Watchers`); EXEC of a dirty client answers nil (`RotateConflict`), else it
writes (`RotateExec`).

Session ids and token ids are uuids drawn from `crypto/rand`; the model draws
them from sets and never draws one twice (`usedIds`, `usedPairs`). The access
and the refresh token id of a session are drawn together and replaced together,
so one element of `Pair` stands for both. `released` holds the pairs a caller
was ever given; a caller presents any of them at any time, old ones too.
`exchanges` is a history variable.

Failures: a command may not reach Redis (`CommandFails`, before every command),
and the reply of an executed write may be lost (`Reply`): the write took effect
and the method returns an error. Time: a session expires and Redis drops its
key (`Expire`, `Evict`); the index key is renewed with every write of a
session, so Redis drops it only when the user has no session left
(`EvictIndex`); `IndexCoversSessions` of `TokenLifetime` says how far that is
true of the TTLs.

`Get` of an expired session deletes it by id, with `Delete`, after its own read
(`redis.go:125-134`): a rotation in between is deleted too. The contract allows
that (the session ends); the model shows nothing worse happens.

### 2.2 UserService

`account[u]` is the row with its roles, `claims[p]` what the two JWTs of pair
`p` say, `req[c]` the request of goroutine `c`. A request at a store call waits
until `call[c]` is idle again and then reads the answer from it. Reading a row
is two statements in the code (the row, then `Preload("Roles")`): `ReadRow`
looks at the row, `Login` and `Refresh` look at the roles and sign.

Ids: the service writes `user.ID.String()` into sessions (`Canonical`), but
`AssignRole`, `RevokeRole` and `DeleteUser` hand the trimmed string of the
caller to the session store and to `uuid.Parse` (`Parse`). `UserKey` holds all
spellings, also one that does not parse.

`revision` (in `account` and `claims`) is a history variable: how often the
roles had changed when they were read.

`ServiceContract` is the view of a caller that sees neither statements nor
commands: a session is stored with what the account of an active user says at
that moment, an account changes only while its user has no session, and
anything may end a session. `Service` maps the store and the accounts as
`Contract` and `Accounts` do, and `ImplementsService` is its specification. It
holds under the hypotheses of the other revocation properties (section 3,
Bounds).

### 2.3 UserRepository

`table` and `userRole` are the committed rows, `work[c]` the call of a request
with its uncommitted statement. Unique indexes make a statement wait for an
uncommitted collision (`RowLocked`, `AssignmentLocked`) and refuse a committed
one (`Duplicate`, `Held`). `grants` and `revokes` count commits. `Fail` rolls a
transaction back at any statement. `UserService` uses a coarser account (no
names, emails or phones, the role transaction in two steps) because its subject
is the session store; `UserRepository` is where the statements are apart.
`AccountStore` is what the two have in common: an account with a status and
roles that a call changes at once. `UserRepository` implements it
(`ImplementsAccounts`) with a row mapped to the status `toDomainUser` gives it
and its COMMITs as the calls; the service, whose statements are coarser, changes
accounts only as it allows (`UsesAccounts`). `AccountStore` lets a role be
assigned to a deleted account, because `ensureActiveUserExists` takes no lock.

One thing the model shows by its shape: `Update` builds its result from a record
without roles (`user_repository.go:220-221`, `user_mapper.go:30-43`), so the
answer of `UpdateUser` lists no roles whatever the user holds. No document says
otherwise.

### 2.4 AccessControl

The routes with their requirements are sets and records (`HTTPProtected`,
`HTTPSelfOrAdmin`, `HTTPAdmin`, `GRPCAllowlist`, `GRPC...Methods`); `Verdict`
is the answer of the checks of one transport, in their order. A request begins
with the check that passes (`Arrive...`) and goes on with the calls of the
service: `RevokeSessions`, then `Commit`, for role changes and deletions;
`Validate`, then `Logout` or `LogoutAll`; `ReadAccount`, then `Refresh`. The
claims (`pair`, `sid`, `target`) stay as they were at the check.

The session store is its contract `AuthSessionStore`, which `SessionCache`
implements (section 5); `EndAll` is a `DeleteAllForUser`, which surely ends the
sessions it could see. The other ones are in the history `lapsed`: sessions
whose login raced with a revocation (findings 2 and 3) or whose user was named
by another spelling of the id (finding 1). `held` is the history of what the
caller of a request was entitled to since it began; `Note` adds to it at every
commit.

Shown by the shape of the model: gRPC has no `UpdateUser` (`Serves`); the gRPC
server validates the access token of Logout and LogoutAll twice, HTTP once; a
blank refresh token is refused by the binding of HTTP (400) and by the service
on gRPC (Unauthenticated), so `TransportsAgree` is about tokens that are given.
The interceptor `Authentication` runs before `Logging`, which therefore sees no
rejected and no panicking request, although `interceptors.go:21` says that
Logging records every request; logging is not modelled.

### 2.5 TokenLifetime

`now` is the clock of Redis, `Clock(d)` that of pod `d`. `SignLogin` and
`SignRefresh` compute the claims by the pod's clock, `Store` sets the two TTLs
by the clock of Redis, later. `WholeSeconds` is what `jwt.NewNumericDate` does
and `ExpireSeconds` what go-redis does with the argument of EXPIRE; SET takes
milliseconds. `ttl[d]` is what `config.Load` accepted on pod `d`. `revoked` and
`rolled` are histories: the sessions that were ended, and those stored with a
longer TTL than one stored after them (the index key takes the TTL of the last
write).

### 2.6 UserListing

`createdAt` is the table. `walk` is a caller who asks for page 1, 2, ... up to
the `total_pages` of the last answer; each call is `CountUsers`, then
`ReadPage`. `IsPage` says which sets of rows a page statement may return:
those of some order by `created_at DESC`. `stayed`, `seen` and `twice` are
histories; `tied`, `deletions`, `insertions` and `late` (a row created between
the count and the page of one call) say what happened in the walk. `Wrapped` is
int multiplication: an HTTP page number so large that `(page-1)*perPage`
overflows an int gets a wrapped offset, which gorm leaves out when it is
negative; a gRPC page is an int32 and cannot overflow.

### 2.7 HealthChecker

`worker[d]` is the goroutine of dependency `d`, `results` the channel, `over`
says that the context is done. `Receive` and `GiveUp` are the two cases of the
select; when both are ready Go picks freely, and so does the model.

### 2.8 Lifecycle

`main` is the main goroutine, from the configuration it loads to its exit;
`serving[s]` the goroutine of a server, `listening` the servers that accept,
`stores` the clients that are open. `request[r]` is a handler: it finishes at
any time or never. `http.Server.Shutdown`, `GracefulStop` and `Stop` are
external and modelled by their contracts: `Shutdown` closes the listener and
waits for handlers or the context; `Stop` cancels handlers without waiting; a
server that was stopped never starts. `Exit` is also what a signal does before
`signal.Notify` (the servers already accept then, so it may kill requests:
`notified` tells
these exits apart) and after `signal.Stop` (the first deferred call
to run). Seeding is one step here.

### 2.9 Process

A step of the check needs a process that runs and a probe that arrived; it
changes none of Lifecycle's state. A step of Lifecycle changes none of the
check's, and the handler of the probe ends no sooner than `Check` returns
(`HandlerWaits`) unless it is cut off. A closed client answers with an error
(`AnswersFrom`). So every step of `Process` is a step of one part and a stutter
of the other: section 5 proves that it implements both.

### 2.10 Seeding

`pod[p]` is the start of a pod: it walks the default roles, then the demo users.
A statement that fails is `log.Fatal`; the pod is started again. Requests of
serving pods register, revoke and delete meanwhile. The demo phones are fixed
in `main.go:179,183`, the emails come from the environment.

## 3. Runs

| Run | Instance | Shows |
|---|---|---|
| `SessionCache` | 2 goroutines, 2 sessions, 2 users, 3 pairs | the inductive invariant, types included (`IndInv`), which says among the rest that the retry loop decides in its second round and that an index names no session of another user; a refresh token is exchanged once (`RefreshSingleUse`); the store implements `AuthSessionStore` (`ImplementsContract`), so that an ended session stays ended |
| `SessionCacheMissedSession` | 2 goroutines, 2 sessions, 1 user, 2 pairs | **violation**: finding 3 |
| `UserServiceSafety` | 2 requests, 1 session, 3 pairs, 1 user, 2 spellings of the id | tokens agree with their session, Logout is final, refreshes never bring older roles back; the strengthened invariant (`ServiceIndInv`) holds |
| `UserServiceRevocation` | 2 requests, 2 sessions, 2 pairs, 2 role changes, an id that is canonical or does not parse, no login racing a revocation | no session keeps old roles; a deleted user has none; every session is in its index; the requests implement `ServiceContract` (`ImplementsService`) |
| `UserServiceLiveness` | 2 requests, 1 session, 2 pairs, no role change commits, no symmetry | every request is answered, and a request in progress always has a next step of its own (`RequestsCanGoOn`) |
| `UserServiceLoginRace` | 2 requests, canonical id | **violation**: finding 2 |
| `UserServiceAliasId` | 1 request, 2 spellings | **violation**: finding 1 |
| `RequestPath` | `AccessControl`, `TokenLifetime` and `UserListing` side by side (below) | changes are entitled and both transports agree; the authority of a token is bounded, a fresh token is accepted, the index covers the sessions; page arithmetic is exact and a walk sees everybody who stayed |
| `UserRepository` | 2 requests, 2 accounts, 2 emails, 2 phones, a known and an unknown role | reported grants and revocations took effect exactly once; keys stay taken; a deleted row is frozen; a field changes only on request; the statements implement `AccountStore` (`ImplementsAccounts`) |
| `Process` | a readiness probe over 2 stores, 1 gRPC request | no request lost before the deadline; no server without stores; "ready" means all answered; the report is complete; the process ends, the probe returns, no goroutine stays behind, and whoever has something to do is able to do it (`GuardsAreEnabled`) |
| `Seeding` | 3 pods, 2 default roles, 2 demo users, 2 crashes, 2 requests | seeding completes what was half done, overwrites nobody, and every pod comes up |
| `SeedingRenamed` | 1 pod, the customer email changed between starts | **violation**: finding 4 |

`HealthChecker` and `Lifecycle` are checked inside `Process`, with the
environment they really have.

### Bounds

- **Goroutines.** A race in the store or the service is between one request and
  one writer of the same key; two goroutines interleave every pair of methods
  at every command.
- **Sessions, users.** Two of each, so that one session can be confused with
  another and one user's index with another's.
- **Pairs.** Three: a login, a rotation, and a competitor's pair that is never
  stored. A request that finds no id or pair left cannot draw one; in
  `UserService` it fails (`SqlFails`). That is a bound, not a behaviour.
- **`MaxAttempts` = 3**, the constant of the code. The third round is never
  reached: `RetryBounded` of section 5, for any number of goroutines.
- **`MaxRevision`, `MaxCommits`, `MaxCrashes`, `MaxRequests`** bound counters.
  One role change is enough to make a session stale, two to make it regress and
  recover; two crashes let a second pod crash on what the first left.
- **`RequestPath`.** The three models share no variable, so each initial state
  picks one of them (`which`) and the others stand still. `AccessControl`: 2
  requests, 2 sessions, 2 pairs, an administrator and a user, and three ids of
  which one is another spelling: enough for an administrator whose role is
  revoked, or whose account is deleted, between check and commit. `TokenLifetime`:
  2 pods whose clocks differ by one tick, lifetimes 2, 3 and 5, 2 ticks a
  second, leeway 1, 7 ticks: every accepted pair of lifetimes, expiry within
  the run and clocks on both sides of it; two sessions, so that the index can
  outlive one and miss the other. `UserListing`: 3 users, 3 stamps, pages of 1
  to 3: ties, a shorter last page, and rows moving across a page border; `int`
  has 5 bits and `int32` 3, so that both ends of both types are reached.
- **`Process`.** One probe and one gRPC request: one handler for each server,
  and the check needs both dependencies it has.
- **Symmetry** is used in safety runs only, over goroutines, ids, pairs and
  users the specification treats alike.

`UserServiceRevocation` runs `RaceFreeServiceSpec`, which leaves out the
behaviours in which a login that has read the account stores its session during
a revocation: findings 2 and 3 show what happens in them. Everything else stays
in: racing refreshes, expiry, failing commands, lost replies. Its ids leave out
the non-canonical spellings, which finding 1 is about.

`FieldsChangeByRequest` exempts an update whose read was overtaken by another
write: of two overlapping updates the second puts back the fields it did not
ask to change. Nothing in the repository promises otherwise.

In `UserServiceLiveness` `MaxRevision` is 0: a role change runs all its
commands and statements and then ends in `SqlFails` unless it changes nothing.
The guards that look at roles (`Holds`, `Accepted`) only choose between going
on and ending.

The properties of `RequestPath` name what the code does not promise:
`ChangesAreEntitled` exempts the sessions in `lapsed`; `IndexCoversSessions`
those in `rolled` and the last second of a session, whose key counts
milliseconds while the index counts seconds; `FreshTokenAccepted` takes clocks
within the leeway and a refresh lifetime that exceeds the access lifetime by
what any clock is ahead, where `config.Load` only asks that it is longer;
`WalkSeesEveryone` takes a walk without ties, deletions and late rows, because
the listing has no tie-break and no snapshot.

Deadlock is checked except in `RequestPath` (time ends at `MaxTime`), `Process`
(a process ends) and `Seeding*` (all pods serve and the bounded requests are
used up).

### Fairness

- `UserService`: weak fairness of each goroutine's next step, as
  `Proceed(c) \/ RunCommand(c)`: a goroutine that can run is run, and go-redis
  and database/sql return within their timeouts, with an answer or an error.
  Nothing makes a command succeed, and nothing makes requests arrive.
- `Process`: weak fairness of `Progress`: main runs on, the timers of the
  shutdown and of the probe fire, a failed server reports its error, and `Check`
  and its goroutines run when they have something to send, receive or return.
  Each of these steps is taken a bounded number of times and stays enabled
  until it is taken or made pointless, so fairness of their disjunction is as
  strong as fairness of each goroutine. No handler is assumed to finish and no
  dependency to answer. `Lifecycle` and `HealthChecker` state no fairness of
  their own.
- The theorems about liveness (section 5) speak of fairness with a guard in place
  of ENABLED: what can go on for ever from some time on, is done again and again
  (`GuardedServiceSpec`, `GuardedSpec`). `RequestsCanGoOn` and
  `GuardsAreEnabled` say that guard and ENABLED are the same in every reachable
  state, so that the two specifications are too; TLC checks that.
- `Seeding`: a pod that is down is started and runs on (kubelet). Crashes are
  bounded; failures of its own statements are not.

## 4. What the code does that its documents do not say

1. `UserServiceAliasId`: role changes and deletions revoke sessions under the
   id as the caller spelt it and change the row of the parsed id. For
   `AssignRole` with an upper-case uuid the roles change and no session is
   revoked, against the comment at `user_service.go:317-319`.
2. `UserServiceLoginRace`: a login that has read the account before a role
   change and stores its session after the revocation keeps the old roles,
   against the same comment.
3. `SessionCacheMissedSession`: `DeleteAllForUser` deletes the index key it
   listed before; a session stored in between keeps living without an index
   entry and the next logout-all does not find it, against `README.md:22` and
   `tests/auth_test.go:690`.
4. `SeedingRenamed`: after `DEMO_CUSTOMER_EMAIL` is changed, the insert of the
   demo user collides with the phone of the old row and the pod never starts
   again, against the comment at `database.go:143-145`.

## 5. Proofs

`SessionCache_proofs` proves of `SessionCache`, for any sets of goroutines,
sessions, users, roles and pairs and any `MaxAttempts` of at least 2:

| Theorem | Statement |
|---|---|
| `Invariance` | `CacheSpec => []IndInv` |
| `TypeCorrect` | `CacheSpec => []TypeOK` |
| `SingleUse` | `CacheSpec => []RefreshSingleUse` |
| `FreshPairs` | `CacheSpec => []StoredPairIsFresh` |
| `RetryBounded` | `CacheSpec => []SecondRoundDecides` |
| `OwnSessionsOnly` | `CacheSpec => []IndexedSessionsAreOwn` |
| `EndedStaysEnded` | `CacheSpec => NoResurrection` |
| `Refinement` | `CacheSpec => ImplementsContract`, which is `Contract!Spec` |
| `ContractSuffices` | `ImplementsContract` gives every session a pair of its own, and what ended or was exchanged stays so |
| `StoreKeepsContract` | the same of `CacheSpec` |

The only assumption is `SessionCacheAssumption`, which TLC evaluates in every
run of the module. The argument: a client between RotateGet and EXEC whose key
is not dirty still sees the session it read (`WatchHolds`), so EXEC exchanges
the pair that is current; once the key has changed, the stored pair is not the
expected one any more (`ConflictDecides`), because a pair is stored in one place
and an exchanged pair is never stored again (`PairLife`). That pairs and ids do
not come back is `PairLife` and `IdLife`: each drawn value waits with one
client, is stored once, or is used up. `Owner` says that a session belongs to
one user for life. None of these is inductive alone; `IndInv` is their
conjunction, TLC checks it in `SessionCache`, and the proof has one lemma
per part with one step per action. `Refinement` maps `ended` to the drawn ids
that name no session and wait for no Create, and shows each action to be a
Create, a Rotate, an End or a stutter of the contract. `ContractSuffices` uses
nothing of the Redis store: another store that implements the interface keeps
the same promises to the service.

`UserService_proofs` proves of `UserService`, for any sets of requests, users,
spellings of ids, roles, sessions and pairs:

| Theorem | Statement |
|---|---|
| `ServiceInvariance` | `ServiceSpec => []JointInv` |
| `ServiceTypeCorrect` | `ServiceSpec => []ServiceTypeOK` |
| `ServiceInvHolds` | `ServiceSpec => []ServiceIndInv` |
| `ServiceUsesStore` | `ServiceSpec => CacheSpec` |
| `ServiceImplementsContract` | `ServiceSpec => ImplementsContract` |
| `ServiceUsesAccounts` | `ServiceSpec => UsesAccounts`, which is `Accounts!Spec` |
| `ServiceSingleUse` | `ServiceSpec => []RefreshSingleUse` |
| `ServiceNoResurrection` | `ServiceSpec => NoResurrection` |
| `TokensMatchSessions` | `ServiceSpec => []CurrentTokensMatchSession` |
| `LogoutIsFinal` | `ServiceSpec => []LogoutEndsSession` |
| `RefreshesGoForward` | `ServiceSpec => RolesNeverRegress` |
| `IndexStaysComplete` | `RaceFreeServiceSpec => []IndexComplete` |
| `RevocationInvariance` | `CanonicalIds /\ RaceFreeServiceSpec => []RevocationInv` |
| `PermissionsStayCurrent` | `CanonicalIds /\ RaceFreeServiceSpec => []NoStalePermissions` |
| `DeletedHaveNoSession` | `CanonicalIds /\ RaceFreeServiceSpec => []NoSessionAfterDelete` |
| `RequestsAreShort` | `ServiceSpec => []ShortRequests`: at most 13 statements and commands are left of a request |
| `RequestsGoOn` | each of them lowers that number, and nobody else raises it |
| `RequestsAreAnswered` | `GuardedServiceSpec => RequestsReturn` |
| `ServiceIsAtomic` | `CanonicalIds /\ RaceFreeServiceSpec => ImplementsService`, which is `Service!ServiceSpec` |
| `ContractSpeaksTruly` | `Service!ServiceSpec` gives: every session speaks for an active user with exactly the roles it says |

The assumptions are those of `SessionCache`, `UserServiceAssumption` (among
them that `uuid.Parse` inverts `String`) and `ClaimsAssumption`. The inductive
invariant is `JointInv`: `IndInv` of the store, the types, and `ServiceInv`,
which TLC checks in `UserServiceSafety` (as `ServiceIndInv`). `CurrentTokensMatchSession` alone is
not inductive: the session of a Create or Rotate under way is not stored yet,
so `TokensMatch` says of it too that it agrees with its claims, and
`PairsSigned` that no signing overwrites the claims of a pair that was drawn.
`LogoutEndsSession` needs that the session of a token in a caller's hands is
past its Create (`ReleasedOnceStored`); then `OnlyCreateStarts` of the store
says that it cannot come back between the DEL and the answer. The step of a
request splits into those that sign (`SignKeeps`) and those that do not
(`QuietKeeps`); the commands of the store are summed up by what they do to
sessions, calls and released pairs (`Commands...`). `RolesNeverRegress` needs
`RevisionInv` beside it: no claims carry a later revision than the account
(`SignedEarlier`), a refresh acts on the account its session belongs to
(`RefreshesOwn`), and a rotation under way carries no older revision than the
pair it presents (`RotatesForward`).

Five theorems are conditional, because without their hypotheses the code does
not keep the properties: `RaceFreeServiceSpec` says that no login has read an
account whose sessions are being ended (findings 2 and 3), and `CanonicalIds`
that an id is given as the service writes it (finding 1 in section 4 is about
one that is not). `IndexComplete` needs the first only: `IndexInv` says that a
`DeleteAllForUser` about to delete has listed all the sessions of its user
(`ListComplete`), for which a spelling that names no session is as good as any.
`RevocationInv` adds that every session agrees with its account now
(`SessionsCurrent`), and so do the session a login is about to create
(`LoginsCurrent`) and the one a refresh is about to store, unless the session it
replaces is gone (`RefreshesCurrent`); and that a change whose revocation is over
finds none (`RevokedHaveNone`). A commit therefore disturbs nobody
(`Undisturbed`, `RequestGoesOn`), and a refresh that raced with it loses because
WATCH sees its key deleted. Expiry, eviction of a session and failing commands
only remove sessions or leave index entries over.

`ServiceIsAtomic` follows step by step. A Create or Rotate that EXECs stores what
the contract asks for, because `SessionsCurrent` holds after it; an account that
changes has no session, by `RevokedHaveNone` for a role change and a deletion
and by `SessionsCurrent`, in which a session has an active account, for a
creation; every other step ends sessions or is a stutter. So a caller of the service needs none
of its program counters, and `ContractSpeaksTruly` is a matter of the contract
alone.

`RequestsAreShort` and `RequestsGoOn` are the safety half of `RequestsReturn`.
`StepsLeft` counts what a request still runs at most; the only way back in the
code is the retry of `Rotate`, and `ConflictDecides` of the store says that the
second round meets no conflict, so the retry has three commands and not
`MaxAttempts` times three. `RequestsAreAnswered` adds fairness: 13 is a number
the prover can count down from, one temporal step for each, so a request that
would never end is taken below zero. It assumes `GuardedRequests`, which has
`InProgress(c)` where `ServiceFairness` has ENABLED; `RequestsCanGoOn`, which TLC
checks, is that the two agree.

`UsesAccounts` needs one fact beyond `JointInv`: the account a role change is
about to commit exists (`AbsentIsNew`). No run lists `UsesAccounts`; it was model-checked
on the instance of `UserServiceSafety` before it was proved.

| Module | Theorem | Statement |
|---|---|---|
| `AccessControl_proofs` | `AccessInvariance` | `AccessSpec => []AccessInv` |
| | `EntitledChanges` | `AccessSpec => []ChangesAreEntitled` |
| | `ServersAgree` | `AccessSpec => []TransportsAgree` |
| | `AccessKeepsTypes` | `AccessSpec => []AccessTypeOK` |
| | `PathImplements` | `PathSpec => AccessSpec /\ LifetimeSpec /\ ListingSpec` |
| | `PathTypes` | `PathSpec => []PathTypeOK` |
| `TokenLifetime_proofs` | `LifetimeInvariance` | `LifetimeSpec => []LifetimeInv` |
| | `BoundedAuthority` | `LifetimeSpec => []AuthorityIsBounded` |
| | `FreshTokens` | `LifetimeSpec => []FreshTokenAccepted` |
| | `CoveringIndex` | `LifetimeSpec => []IndexCoversSessions` |
| | `LifetimeKeepsTypes` | `LifetimeSpec => []LifetimeTypeOK` |
| `UserListing_proofs` | `ListingInvariance` | `ListingSpec => []ListingInv` |
| | `ExactPages` | `ListingSpec => []PagesExact` |
| | `CompleteWalks` | `ListingSpec => []WalkSeesEveryone` |
| | `ListingKeepsTypes` | `ListingSpec => []ListingTypeOK` |
| `UserRepository_proofs` | `RepositoryInvariance` | `Spec => []RepositoryInv` |
| | `RepositoryTypes` | `Spec => []TypeOK` |
| | `OneAccountPerKey` | `Spec => []KeysStayTaken` |
| | `RoleChangesTakeEffect` | `Spec => []AssignmentsMatchCommits` |
| | `DeletedStaysDeleted` | `Spec => DeletedRowFrozen` |
| | `UpdatesChangeWhatIsAsked` | `Spec => FieldsChangeByRequest` |
| | `RepositoryImplements` | `Spec => ImplementsAccounts`, which is `Accounts!Spec` |
| `Seeding_proofs` | `SeedingInvariance` | `Spec => []SeedingInv` |
| | `SeedingTypes` | `Spec => []TypeOK` |
| | `ServingIsSeeded` | `Spec => []ServingMeansSeeded` |
| | `RestartsOverwriteNothing` | `Spec => ExistingUsersKept` |
| | `StartsGoForward` | under one configuration, `Alike`: every step of a pod lowers what is left of its start or of its tries, and nobody raises either |
| `Process_proofs` | `LifecycleInvariance` | `Spec => []LifecycleInv` |
| | `ServersNeedStores` | `Spec => []NoRequestWithoutStores` |
| | `RequestsKept` | `Spec => []RequestsGetTheirTime` |
| | `CheckInvariance` | `CheckSpec => []CheckInv` |
| | `ReadyIsReady` | `CheckSpec => []ReadyMeansAllUp` |
| | `ReportsComplete` | `CheckSpec => []EveryDependencyReported` |
| | `ImplementsLifecycle`, `ImplementsCheck` | `ProcessSpec => Spec`, `ProcessSpec => CheckSpec` |
| | `ProcessTypes` | `ProcessSpec => []ProcessTypeOK` |
| | `ProcessKeepsRequests`, `ProcessNeedsStores`, `ProbeReady`, `ProbeComplete` | the four safety properties, of the composition |
| | `SendersNeverBlock` | `CheckSpec => []RoomToSend`: a goroutine with a result finds room in the channel |
| | `ProgressEnds` | the process without its fairness takes finitely many `Progress` steps |
| | `ShutdownsEnd` | `GuardedSpec => ShutdownEnds` |
| | `ProbesReturn` | `GuardedSpec => ProbeReturns` |
| | `NoGoroutineLeaks` | `GuardedSpec => GoroutinesEnd` |

- **`AccessControl`** (`AccessAssumption`; the roles a session may carry are the
  sets over `admin`): `AccessInv` says that a session belongs to the user of its
  tokens (`Claims`); that a session outside `lapsed` carries no role its active
  account lacks (`Current`), also after the refresh that is under way
  (`Refreshing`); and that a request between its revocation and its commit finds
  no session of its target outside `lapsed`, and is entitled (`ChangingNow`).
  `Current` survives a commit because of `ChangingNow`; `ChangingNow` survives a
  commit of another request because `held` only grows. `PathImplements` carries
  these results, and those of `TokenLifetime` and `UserListing`, over to the
  run `RequestPath`, which explores the three side by side.
- **`TokenLifetime`** (`LifetimeAssumption`): `LifetimeInv` ties a pair to the
  clock that signed it (`PairsSigned`), a key to its pair (`KeysMatch`,
  `KeysLast`) and the index to the keys (`IndexFollows`). The theorems are then
  arithmetic over offsets, rounding and TTLs.
- **`UserListing`** (`ListingAssumption`: finite sets, and an int that holds
  every product of an int32 and a page size): `ListingInv` says that what the
  walk has not reported lies within the rows still ahead (`UnseenAhead`) and
  what it has reported within those behind (`SeenBehind`); a page of
  exactly so many rows then cannot leave one out.
- **`UserRepository`** (`UserRepositoryAssumption`): `RepositoryInv` says what
  each request knows between its statements (`RequestHolds`: the new key is
  free, the row it inserted collides with nothing, the role it checked exists,
  the change it has not committed will be one) and that two requests never
  hold the same key or assignment uncommitted (`Apart`), which is what the
  unique indexes give. `RepositoryImplements` needs all of it: the key of a
  COMMITted account was free, and an uncommitted role change will be one
  (`Effective`), so a COMMIT is exactly one call of `AccountStore`; `RowsLive`
  says that only a deletion ends the activity of an account, although
  `UpdateUser` writes `is_active` back as it read it.
- **`Seeding`** (`SeedingAssumption`: the demo users have default roles;
  `RowAssumption`): `SeedingInv` says of each pod that what it has passed is in
  the tables, whoever put it there (`Reached`), and a role that a request
  revoked since is in `taken`. Nobody removes a role or a row, so what one pod
  reached outlives its crash and the steps of the others. The configurations
  of the pods may differ. `StartsGoForward` is the safety half of
  `StartsSucceed`: a start that fails was overtaken by a row, a role or a crash
  of which only so many are left (`TriesLeft`), and within a start `StepsLeft`
  counts the statements. Here the configurations must be alike and the phones of
  the demo users distinct: without that a pod can fail for ever (finding 4).
- **`Lifecycle`** (`LifecycleAssumption`): `LifecycleInv` relates where main is
  to the stores (`StoresOpen`), the servers (`ServersStart`, `ServersStop`), the
  signals (`Hears`) and what is drained (`Drained`).
- **`HealthChecker`** (`HealthAssumption`: finitely many dependencies):
  `CheckInv` counts the results in the channel, received and outstanding
  (`Counting`, `InTheChannel`); a probe that leaves its loop has `Heard`
  everybody or run out of time.
- **`Process`** (`ProcessAssumption`): every step maps to a step of one part
  and a stutter of the other, so the theorems of both parts carry over.
  `StepsLeft` counts what main, the error reports of the servers and the probe
  still do at most; for the two servers and two stores of this process that is
  at most 22, no step raises it and every `Progress` step lowers it
  (`ProgressEnds`). A `Progress` step that stays possible and is fair would
  therefore be taken too often; what cannot go on any more has ended
  (`WhatIsDueHappens`), and that the goroutines of a check find room in the
  channel is `SendersNeverBlock`. The three liveness theorems follow from
  `GuardedSpec`, with `GuardsAreEnabled` in the same part as `RequestsCanGoOn`
  above.

Each assumption is evaluated by TLC in the runs of its module.

Checked by TLC only:

- `RequestsCanGoOn` and `GuardsAreEnabled`: they are about ENABLED, which is out
  of the prover's reach;
- `StartsSucceed`: `StartsGoForward` gives it a measure, but one without a fixed
  bound, and the descent along it is an induction over time that the prover
  does not do; its fairness is stated with ENABLED.

## 6. Not modelled

- JWT signing and parsing: a released token is one whose signature verifies;
  what its times do is `TokenLifetime`.
- bcrypt, email normalisation and input validation before the first command:
  they only refuse; a wrong password is `SqlFails` of a login.
- go-redis retries of a command after a network error, and eviction by
  `maxmemory`: an evicted session is an `Evict`, an evicted index is outside
  the assumptions of the code.
- The user profile cache in `redis.go`: nothing calls it.
- AutoMigrate and opening the connection pools: generated DDL and I/O.
- Configuration other than the token lifetimes: read once and passed on.
- HTTP middleware other than authentication, logging, metrics and tracing:
  observability only. Request decoding and response layout.
- Generated protobuf code (2100 of the repository's lines) and the SQLite test
  database.

## 7. Plan

Written, in this order: `AuthSessionStore`, `SessionCache`, `UserService`,
`HealthChecker`, `UserRepository`, `Lifecycle`, `Seeding`, `TokenLifetime`,
`UserListing`, `AccessControl`, `Process`, `AccountStore`, `ServiceContract`,
and the proofs about them. Open:

- `AccessControl` against `ServiceContract`, for the sessions outside `lapsed`;
  that contract has no sessions like those in `lapsed`.
- `StartsSucceed` for any number of pods, once the prover can do an induction
  over a measure.
