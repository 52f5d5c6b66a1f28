----------------------------- MODULE UserService -----------------------------
(***************************************************************************)
(* The authentication and account operations of                            *)
(* internal/service/user_service.go, run by many request goroutines over   *)
(* the session store (SessionCache, one Redis command per step) and the    *)
(* users table (internal/repository/user_repository.go, one SQL statement  *)
(* or commit per step).                                                    *)
(*                                                                         *)
(* A request of client c holds its place in req[c].  While it waits for    *)
(* the session store, call[c] is the store method it called; it goes on    *)
(* when call[c] is idle again, with the answer in call[c].                 *)
(*                                                                         *)
(*   Authenticate    row -> roles -> storing                               *)
(*   ValidateToken   validating                                            *)
(*   RefreshToken    validating -> row -> roles -> storing                 *)
(*   Logout          validating -> ending                                  *)
(*   LogoutAll       validating -> ending                                  *)
(*   AssignRole      revoking -> check -> commit                           *)
(*   RevokeRole      revoking -> check -> commit                           *)
(*   DeleteUser      revoking -> remove                                    *)
(***************************************************************************)
EXTENDS SessionCache

CONSTANTS
  User,          \* rows of the users table
  Role,          \* names of the roles table
  Customer,      \* the role every new account gets
  Canonical,     \* user.ID.String(): how the service writes a user's id
  Parse,         \* uuid.Parse: the user a string given as an id denotes, or Nil
  MaxRevision    \* bound: role changes of one account

ASSUME UserServiceAssumption ==
  /\ Customer \in Role
  /\ RoleList = SUBSET Role
  /\ Nil \notin User
  /\ Canonical \in [User -> UserKey]
  /\ Parse \in [UserKey -> User \cup {Nil}]
  /\ \A u \in User : Parse[Canonical[u]] = u
  /\ MaxRevision \in Nat

VARIABLES
  account,  \* the row of each user with its user_roles
  claims,   \* what the two JWTs of a pair say, once they are signed
  req       \* the request each client is executing

serviceVars == <<cacheVars, account, claims, req>>

Status == {"absent", "active", "deleted"}

\* revision is a history variable: how often the roles were changed.
Account == [status : Status, roles : RoleList, revision : 0 .. MaxRevision]

\* revision is a history variable: that of the roles when they were read.
Claims == [sid : SessionId, user : UserKey, roles : RoleList,
           revision : 0 .. MaxRevision]

ASSUME ClaimsAssumption == Nil \notin Claims

TokenOp  == {"validate", "refresh", "logout", "logoutAll"}
RoleOp   == {"assign", "revoke"}
ChangeOp == RoleOp \cup {"deleteUser"}

NoReq == [op |-> "none", pc |-> "idle", user |-> Nil, role |-> Nil, token |-> Nil]

Request ==
  [op : {"none", "login"} \cup TokenOp \cup ChangeOp,
   pc : {"idle", "validating", "row", "roles", "storing", "ending", "revoking",
         "check", "commit", "remove"},
   user : User \cup {Nil}, role : Role \cup {Nil}, token : Pair \cup {Nil}]

\* The request is at pc and is not waiting for the session store.
On(c, pc) == req[c].pc = pc /\ At(c, "idle")

Move(c, pc) == req' = [req EXCEPT ![c].pc = pc]

Finish(c) ==
  /\ req' = [req EXCEPT ![c] = NoReq]
  /\ Forget(c)

\* The request goes on with the answer of the session store, if it had one.
Continue(c, pc) == Move(c, pc) /\ Forget(c)

\* Mutant: the filter deleted = false is missing.
NotAbsent(u) == account[u].status # "absent"

Active(u) == account[u].status = "active"

(***************************************************************************)
(* issueTokenPair: the session and the claims carry the same fields.       *)
(***************************************************************************)
SessionFor(u, p) == [user |-> Canonical[u], roles |-> account[u].roles, pair |-> p]

\* Mutants: the subject is the row, not its id; the roles are those of a new
\* account.
ClaimsForRow(u, s) == [sid |-> s, user |-> u, roles |-> account[u].roles,
                       revision |-> account[u].revision]

ClaimsForNewcomer(u, s) == [sid |-> s, user |-> Canonical[u], roles |-> {Customer},
                            revision |-> account[u].revision]

ClaimsFor(u, s) == [sid |-> s, user |-> Canonical[u], roles |-> account[u].roles,
                    revision |-> account[u].revision]

Sign(u, s, p) == claims' = [claims EXCEPT ![p] = ClaimsFor(u, s)]

(***************************************************************************)
(* CreateUser: one transaction inserts the row and its customer role.      *)
(***************************************************************************)
CreateUser(c, u) ==
  /\ On(c, "idle")
  /\ account[u].status = "absent"
  /\ account' = [account EXCEPT ![u] =
       [status |-> "active", roles |-> {Customer}, revision |-> 0]]
  /\ UNCHANGED <<cacheVars, claims, req>>

(***************************************************************************)
(* Authenticate and RefreshToken read the row of the user (GetByEmail,     *)
(* GetByID: deleted = false, then IsActive) and, in a second query, its    *)
(* roles; with these they sign a token pair and call the session store.    *)
(***************************************************************************)
StartLogin(c, u) ==
  /\ On(c, "idle")
  /\ req' = [req EXCEPT ![c] = [NoReq EXCEPT !.op = "login", !.pc = "row", !.user = u]]
  /\ UNCHANGED <<cacheVars, account, claims>>

ReadRow(c) ==
  /\ On(c, "row")
  /\ IF Active(req[c].user) THEN Continue(c, "roles") ELSE Finish(c)
  /\ UNCHANGED <<account, claims>>

Login(c) ==
  LET u == req[c].user IN
  /\ On(c, "roles")
  /\ req[c].op = "login"
  /\ \E s \in SessionId, p \in Pair :
       StartCreate(c, s, SessionFor(u, p)) /\ Sign(u, s, p)
  /\ Move(c, "storing")
  /\ UNCHANGED account

Refresh(c) ==
  LET u == req[c].user
      s == claims[req[c].token].sid
  IN
  /\ On(c, "roles")
  /\ req[c].op = "refresh"
  /\ \E p \in Pair :
       StartRotate(c, s, req[c].token, SessionFor(u, p)) /\ Sign(u, s, p)
  /\ Move(c, "storing")
  /\ UNCHANGED account

(***************************************************************************)
(* validateToken: the session of the token is read and must agree with the *)
(* claims in every field and with the token id.                            *)
(***************************************************************************)
StartWithToken(c, op, p) ==
  /\ On(c, "idle")
  /\ p \in released
  /\ StartGet(c, claims[p].sid)
  /\ req' = [req EXCEPT ![c] =
       [NoReq EXCEPT !.op = op, !.pc = "validating", !.token = p]]
  /\ UNCHANGED <<account, claims>>

Accepted(c) ==
  LET p == req[c].token
      x == call[c].seen
  IN
  /\ call[c].res = "ok"
  /\ x.user = claims[p].user
  /\ x.roles = claims[p].roles
  /\ x.pair = p

\* Mutant: a refused token is looked up again.
RefuseAgain(c) ==
  /\ On(c, "validating")
  /\ ~Accepted(c)
  /\ StartGet(c, claims[req[c].token].sid)
  /\ UNCHANGED <<account, claims, req>>

Refuse(c) ==
  /\ On(c, "validating")
  /\ ~Accepted(c)
  /\ Finish(c)
  /\ UNCHANGED <<account, claims>>

Validated(c, op) == On(c, "validating") /\ Accepted(c) /\ req[c].op = op

ValidateToken(c) ==
  /\ Validated(c, "validate")
  /\ Finish(c)
  /\ UNCHANGED <<account, claims>>

RefreshToken(c) ==
  /\ Validated(c, "refresh")
  /\ req' = [req EXCEPT ![c].pc = "row",
                        ![c].user = Parse[claims[req[c].token].user]]
  /\ Forget(c)
  /\ UNCHANGED <<account, claims>>

Logout(c) ==
  /\ Validated(c, "logout")
  /\ StartDelete(c, claims[req[c].token].sid)
  /\ Move(c, "ending")
  /\ UNCHANGED <<account, claims>>

LogoutAll(c) ==
  /\ Validated(c, "logoutAll")
  /\ StartDeleteAll(c, claims[req[c].token].user)
  /\ Move(c, "ending")
  /\ UNCHANGED <<account, claims>>

\* Mutant: the request waits for a call that succeeds.
AnsweredWell(c) ==
  /\ On(c, "storing") \/ On(c, "ending")
  /\ call[c].res = "ok"
  /\ Finish(c)
  /\ UNCHANGED <<account, claims>>

\* The last call to the session store returned; so does the request.
Answered(c) ==
  /\ On(c, "storing") \/ On(c, "ending")
  /\ Finish(c)
  /\ UNCHANGED <<account, claims>>

(***************************************************************************)
(* AssignRole, RevokeRole and DeleteUser end the sessions indexed under    *)
(* the id as it was given, then parse the id and change the rows.          *)
(***************************************************************************)
StartChange(c, op, k, r) ==
  /\ On(c, "idle")
  /\ StartDeleteAll(c, k)
  /\ req' = [req EXCEPT ![c] =
       [NoReq EXCEPT !.op = op, !.pc = "revoking", !.user = Parse[k], !.role = r]]
  /\ UNCHANGED <<account, claims>>

\* Mutant: the error of DeleteAllForUser is ignored.
RevokedOrNot(c) == TRUE

SessionsRevoked(c) == call[c].res = "ok"

Change(c) ==
  LET proceed == SessionsRevoked(c) /\ req[c].user # Nil IN
  /\ On(c, "revoking")
  /\ \/ proceed /\ req[c].op \in RoleOp /\ Continue(c, "check")
     \/ proceed /\ req[c].op = "deleteUser" /\ Continue(c, "remove")
     \/ ~proceed /\ Finish(c)
  /\ UNCHANGED <<account, claims>>

\* The role is assigned already: ErrAlreadyExists.
Holds(c) == req[c].role \in account[req[c].user].roles

CheckRole(c) ==
  /\ On(c, "check")
  /\ IF Active(req[c].user) /\ ~(req[c].op = "assign" /\ Holds(c))
     THEN Continue(c, "commit") ELSE Finish(c)
  /\ UNCHANGED <<account, claims>>

\* A duplicate insert or a delete of no row changes nothing.
CommitRole(c) ==
  LET u == req[c].user
      old == account[u].roles
      new == IF req[c].op = "assign" THEN old \cup {req[c].role}
                                     ELSE old \ {req[c].role}
  IN
  /\ On(c, "commit")
  /\ \/ new = old /\ account' = account
     \/ /\ new # old
        /\ account[u].revision < MaxRevision
        /\ account' = [account EXCEPT ![u].roles = new, ![u].revision = @ + 1]
  /\ Finish(c)
  /\ UNCHANGED claims

RemoveUser(c) ==
  LET u == req[c].user IN
  /\ On(c, "remove")
  /\ account' = IF Active(u) THEN [account EXCEPT ![u].status = "deleted"] ELSE account
  /\ Finish(c)
  /\ UNCHANGED claims

\* A statement fails, the password is wrong, or signing fails: the request
\* ends and has changed nothing since its last call.
SqlFails(c) ==
  /\ \E pc \in {"row", "roles", "check", "commit", "remove"} : On(c, pc)
  /\ Finish(c)
  /\ UNCHANGED <<account, claims>>

-----------------------------------------------------------------------------
ServiceInit ==
  /\ CacheInit
  /\ account = [u \in User |-> [status |-> "absent", roles |-> {}, revision |-> 0]]
  /\ claims = [p \in Pair |-> Nil]
  /\ req = [c \in Client |-> NoReq]

Arrive(c) ==
  \/ \E u \in User : CreateUser(c, u) \/ StartLogin(c, u)
  \/ \E op \in TokenOp, p \in Pair : StartWithToken(c, op, p)
  \/ \E op \in RoleOp, k \in UserKey, r \in Role : StartChange(c, op, k, r)
  \/ \E k \in UserKey : StartChange(c, "deleteUser", k, Nil)

Proceed(c) ==
  \/ ReadRow(c)
  \/ Login(c)
  \/ Refresh(c)
  \/ Refuse(c)
  \/ ValidateToken(c)
  \/ RefreshToken(c)
  \/ Logout(c)
  \/ LogoutAll(c)
  \/ Answered(c)
  \/ Change(c)
  \/ CheckRole(c)
  \/ CommitRole(c)
  \/ RemoveUser(c)
  \/ SqlFails(c)

\* The session store runs a command of the request.
RunCommand(c) ==
  /\ Execute(c) \/ CommandFails(c)
  /\ UNCHANGED <<account, claims, req>>

PassTime ==
  /\ Elapse
  /\ UNCHANGED <<account, claims, req>>

ServiceNext ==
  \/ \E c \in Client : Arrive(c) \/ Proceed(c) \/ RunCommand(c)
  \/ PassTime

\* A goroutine that can run its next statement or command eventually does.
ServiceFairness == \A c \in Client : WF_serviceVars(Proceed(c) \/ RunCommand(c))

ServiceSpec == ServiceInit /\ [][ServiceNext]_serviceVars
FairServiceSpec == ServiceSpec /\ ServiceFairness

\* A login has read the account of u and has not created its session yet,
\* while the sessions of u are being ended.
LoginRacesRevocation ==
  \E c, d \in Client, u \in User :
    /\ req[c].op = "login" /\ req[c].user = u
    /\ On(c, "roles") \/ At(c, "createTx")
    /\ \/ req[d].op \in ChangeOp /\ req[d].user = u
       \/ req[d].op = "logoutAll" /\ claims[req[d].token].user = Canonical[u]

RaceFreeServiceSpec ==
  ServiceInit /\ [][ServiceNext /\ ~LoginRacesRevocation']_serviceVars

-----------------------------------------------------------------------------
(***************************************************************************)
(* The service changes accounts as AccountStore does, which is what the    *)
(* statements of UserRepository implement.                                 *)
(***************************************************************************)
AccountOf(u) == [status |-> account[u].status, roles |-> account[u].roles]

Accounts == INSTANCE AccountStore WITH account <- [u \in User |-> AccountOf(u)]

(***************************************************************************)
(* The requests, interleaved a command and a statement at a time, come to  *)
(* what ServiceContract lets a caller expect.                              *)
(***************************************************************************)
Service == INSTANCE ServiceContract WITH
  store <- sessions,
  ended <- {s \in usedIds : sessions[s] = Nil /\ ~Creating(s)},
  spent <- {p \in Pair : exchanges[p] > 0},
  account <- [u \in User |-> AccountOf(u)]

-----------------------------------------------------------------------------
(***************************************************************************)
(* Properties.                                                             *)
(***************************************************************************)
\* Every variable holds a value of its type.
ServiceTypeOK ==
  /\ TypeOK
  /\ account \in [User -> Account]
  /\ claims \in [Pair -> Claims \cup {Nil}]
  /\ req \in [Client -> Request]

\* The tokens of the pair a session holds say what the session says, so
\* validateToken refuses no caller whose session is alive and unchanged.
CurrentTokensMatchSession ==
  \A s \in SessionId : sessions[s] # Nil =>
    LET t == claims[sessions[s].pair] IN
    /\ t # Nil
    /\ t.sid = s
    /\ t.user = sessions[s].user
    /\ t.roles = sessions[s].roles

\* When Logout has its answer "ok", the session is gone, even if a refresh
\* of the same session replaced the tokens after Logout had validated its own.
LogoutEndsSession ==
  \A c \in Client :
    On(c, "ending") /\ req[c].op = "logout" /\ call[c].res = "ok"
      => sessions[claims[req[c].token].sid] = Nil

\* Refreshing a session never takes its permissions back to an older state
\* of the user's roles, whatever refreshes and role changes raced with it.
RolesNeverRegress ==
  [][\A s \in SessionId : sessions[s] # Nil /\ sessions'[s] # Nil =>
       claims[sessions'[s].pair].revision >= claims[sessions[s].pair].revision
    ]_serviceVars

\* Revocation is complete in the behaviours in which no login races with it:
\* no racing refresh, expiry or failing command leaves a session with the
\* old roles, a session of a deleted user or (IndexComplete of SessionCache)
\* one that a later revocation misses.  Without that restriction the three
\* invariants fail: see README.md.
\*
\* "No previously issued token can retain stale permissions after a
\* successful role change": while no role change of the user is under way,
\* the roles in every session are the roles of the user.
ChangingRoles(u) ==
  \E c \in Client : req[c].op \in RoleOp /\ req[c].user = u

NoStalePermissions ==
  \A s \in SessionId, u \in User :
    sessions[s] # Nil /\ Canonical[u] = sessions[s].user /\ ~ChangingRoles(u)
      => sessions[s].roles = account[u].roles

\* A deleted user has no session.
NoSessionAfterDelete ==
  \A s \in SessionId, u \in User :
    sessions[s] # Nil /\ Canonical[u] = sessions[s].user
      => account[u].status = "active"

\* Whatever goes on in the session store, the service changes accounts only as
\* the interface lets it.
UsesAccounts == Accounts!Spec

\* Sessions and accounts together change as if every method took effect at once:
\* a session is stored with what its account says at that moment, and an account
\* changes only while its user has no session.  Holds, as the three above, of the
\* behaviours in which no login races with a revocation.
ImplementsService == Service!ServiceSpec

InProgress(c) == req[c].pc # "idle"

\* A request in progress always has a next step of its own: it waits for no
\* other request, no answer is one it cannot go on with, and it can fail.
RequestsCanGoOn ==
  \A c \in Client : InProgress(c) <=> ENABLED <<Proceed(c) \/ RunCommand(c)>>_serviceVars

\* ServiceFairness and FairServiceSpec with that in place of ENABLED.
GuardedRequest(c) ==
  <>[]InProgress(c) => []<><<Proceed(c) \/ RunCommand(c)>>_serviceVars

GuardedRequests == \A c \in Client : GuardedRequest(c)

GuardedServiceSpec == ServiceSpec /\ GuardedRequests

\* Every request is answered.
RequestsReturn == \A c \in Client : []<>(req[c].pc = "idle")

-----------------------------------------------------------------------------
(***************************************************************************)
(* The inductive invariant behind CurrentTokensMatchSession and            *)
(* LogoutEndsSession, beside IndInv of SessionCache and ServiceTypeOK.     *)
(***************************************************************************)
\* A request has what its next step needs.
RequestShape ==
  \A c \in Client :
    /\ req[c].op \in TokenOp => req[c].token \in released
    /\ req[c].op \in RoleOp => req[c].role \in Role
    /\ req[c].pc = "validating" => req[c].op \in TokenOp
    /\ req[c].pc \in {"row", "roles", "check", "commit", "remove"} => req[c].user \in User

\* A drawn pair is signed, for a user of the table and a drawn session id.
PairsSigned ==
  \A p \in usedPairs :
    /\ claims[p] \in Claims
    /\ claims[p].sid \in usedIds
    /\ \E u \in User : claims[p].user = Canonical[u]

Says(p, s, x) ==
  claims[p].sid = s /\ claims[p].user = x.user /\ claims[p].roles = x.roles

\* A session agrees with its tokens from the moment it is sent to Redis.
TokensMatch ==
  /\ \A s \in SessionId : Stored(s) => Says(sessions[s].pair, s, sessions[s])
  /\ \A c \in Client : Pending(c) => Says(call[c].next.pair, call[c].sid, call[c].next)

\* Tokens in the hands of callers name sessions whose Create is over.
ReleasedOnceStored == \A p \in released : ~Creating(claims[p].sid)

LogoutDecides ==
  \A c \in Client : req[c].op = "logout" /\ req[c].pc = "ending" =>
    LET s == claims[req[c].token].sid IN
    /\ call[c].pc \in {"deleteGet", "deleteTx", "idle"}
    /\ ~At(c, "idle") => call[c].sid = s
    /\ At(c, "idle") /\ call[c].res = "ok" => sessions[s] = Nil

ServiceInv ==
  RequestShape /\ PairsSigned /\ TokensMatch /\ ReleasedOnceStored /\ LogoutDecides

\* With IndInv of the store it is inductive: the types, and what ties claims,
\* requests, sessions and released tokens together.
ServiceIndInv == ServiceTypeOK /\ ServiceInv
=============================================================================
