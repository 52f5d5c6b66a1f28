---------------------------- MODULE AccessControl ----------------------------
(***************************************************************************)
(* Who may do what: a request from its arrival at the HTTP or the gRPC     *)
(* server, past the token check and the route's requirement, to the last   *)
(* call of internal/service/user_service.go.                               *)
(*                                                                         *)
(*   HTTP  internal/server/http/middleware/auth.go, handler/*.go           *)
(*   gRPC  internal/middleware/interceptors.go, server/grpc/user_server.go *)
(*                                                                         *)
(* The claims are read once, when the request arrives, and used until it   *)
(* ends; meanwhile other requests change roles and end sessions.           *)
(*                                                                         *)
(* The session store is its contract, AuthSessionStore, which SessionCache *)
(* implements: a method is one step.  A DeleteAllForUser surely ends the   *)
(* sessions that no revocation overlapped at their creation.  A pair of    *)
(* tokens is current or not; what the JWTs of a current pair say is what   *)
(* its session says (CurrentTokensMatchSession of UserService).            *)
(***************************************************************************)
EXTENDS AuthSessionStore

CONSTANTS
  Client,      \* request goroutines
  User,        \* rows of the users table
  Admin,       \* domain.RoleAdmin
  Seeded,      \* the administrators SeedDemoUsers creates
  Canonical,   \* how the service writes the id of a user
  Parse        \* uuid.Parse of a string given as an id: a user or Nil

ASSUME AccessAssumption ==
  /\ RoleList = SUBSET {Admin}
  /\ Nil \notin User \cup Pair \cup SessionId \cup UserKey
  /\ Nil \notin Session
  /\ Seeded \subseteq User
  /\ Canonical \in [User -> UserKey]
  /\ Parse \in [UserKey -> User \cup {Nil}]
  /\ \A u \in User : Parse[Canonical[u]] = u

VARIABLES
  account,   \* the row of each user with its roles
  subject,   \* the user key in the claims of a pair a caller was given
  request,   \* the request each client is executing
  lapsed     \* history: sessions a revocation could not see

accessVars == <<vars, account, subject, request, lapsed>>

(***************************************************************************)
(* The operations of the two servers and what each of them asks for.       *)
(***************************************************************************)
UserOp    == {"createUser", "getUser", "listUsers", "updateUser", "deleteUser"}
SessionOp == {"login", "refresh", "logout", "logoutAll"}
GrantOp   == {"assignRole", "revokeRole"}
RoleOp    == {"listRoles", "getUserRoles"} \cup GrantOp
Changing  == {"updateUser", "deleteUser"} \cup GrantOp
Operation == UserOp \cup SessionOp \cup RoleOp

\* The routes of the REST API: those behind Authentication, and those with
\* RequireRole or RequireSelfOrRole before the handler.
HTTPProtected == (UserOp \ {"createUser"}) \cup RoleOp

HTTPSelfOrAdmin == {"getUser", "updateUser", "deleteUser", "getUserRoles"}

HTTPAdmin == {"listUsers", "listRoles"} \cup GrantOp

\* buildGRPCServer: what Authentication lets pass without a token.
GRPCAllowlist == {"createUser", "login", "refresh"}

\* The methods of UserGRPCServer: users, sessions, roles.
GRPCUserMethods ==
  [createUser |-> "none", getUser |-> "selfOrAdmin", listUsers |-> "admin",
   deleteUser |-> "selfOrAdmin"]

GRPCSessionMethods ==
  [login |-> "none", refresh |-> "none", logout |-> "none", logoutAll |-> "none"]

\* Mutant: GetUserRoles asks for nothing.
GRPCRoleMethodsOpen ==
  [listRoles |-> "admin", getUserRoles |-> "none",
   assignRole |-> "admin", revokeRole |-> "admin"]

GRPCRoleMethods ==
  [listRoles |-> "admin", getUserRoles |-> "selfOrAdmin",
   assignRole |-> "admin", revokeRole |-> "admin"]

Protected(via) ==
  IF via = "http" THEN HTTPProtected ELSE Operation \ GRPCAllowlist

Requirement(via, op) ==
  CASE via = "http" /\ op \in HTTPSelfOrAdmin -> "selfOrAdmin"
    [] via = "http" /\ op \in HTTPAdmin       -> "admin"
    [] via = "grpc" /\ op \in DOMAIN GRPCUserMethods    -> GRPCUserMethods[op]
    [] via = "grpc" /\ op \in DOMAIN GRPCSessionMethods -> GRPCSessionMethods[op]
    [] via = "grpc" /\ op \in DOMAIN GRPCRoleMethods    -> GRPCRoleMethods[op]
    [] OTHER -> "none"

\* The gRPC service has no UpdateUser.
Serves(via) == IF via = "http" THEN Operation ELSE Operation \ {"updateUser"}

(***************************************************************************)
(* writeError and toGRPCError: how an error of the service is answered.    *)
(***************************************************************************)
HTTPStatus ==
  [invalidInput |-> 400, alreadyExists |-> 409, notFound |-> 404,
   invalidPassword |-> 401, invalidToken |-> 401, unauthorized |-> 401,
   forbidden |-> 403, other |-> 500, none |-> 200]

GRPCCode ==
  [notFound |-> "NotFound", alreadyExists |-> "AlreadyExists",
   invalidPassword |-> "Unauthenticated", invalidToken |-> "Unauthenticated",
   unauthorized |-> "Unauthenticated", forbidden |-> "PermissionDenied",
   invalidInput |-> "InvalidArgument", other |-> "Internal", none |-> "OK"]

SameMeaning ==
  {<<200, "OK">>, <<400, "InvalidArgument">>, <<401, "Unauthenticated">>,
   <<403, "PermissionDenied">>, <<404, "NotFound">>, <<409, "AlreadyExists">>,
   <<500, "Internal">>}

(***************************************************************************)
(* Tokens and claims.                                                      *)
(***************************************************************************)
Live(k) == {s \in SessionId : store[s] # Nil /\ store[s].user = k}

\* validateToken.  ParseBearerToken and parseToken refuse the token Nil.
TokenValid(r, kind) == r.kind = kind /\ r.pair # Nil /\ Holder(r.pair) # {}

SessionOf(r) == CHOOSE s \in Holder(r.pair) : TRUE

\* HasAnyRole(claims, "admin"), and the comparison of ids as strings.
IsAdmin(r) == Admin \in store[SessionOf(r)].roles

IsSelf(r) == store[SessionOf(r)].user = r.target

\* The service validates the token itself, the gRPC server a second time.
ServiceToken ==
  [refresh |-> "refresh", logout |-> "access", logoutAll |-> "access"]

\* RequireSelfOrRole and RequireRole.
Allowed(via, r) ==
  LET need == Requirement(via, r.op) IN
  \/ need = "none"
  \/ need = "selfOrAdmin" /\ IsSelf(r)
  \/ IsAdmin(r)

\* The answer of the access checks, before the service does anything else.
Verdict(via, r) ==
  CASE r.op \in Protected(via) /\ ~TokenValid(r, "access") -> "unauthorized"
    [] r.op \in Protected(via) /\ ~Allowed(via, r)         -> "forbidden"
    [] r.op \in DOMAIN ServiceToken /\ ~TokenValid(r, ServiceToken[r.op]) -> "invalidToken"
    [] OTHER -> "none"

(***************************************************************************)
(* Requests.  A request begins with its first check: the middleware of its *)
(* HTTP route, or the interceptor and the first lines of the gRPC handler; *)
(* without these, the first statement of the service.  One that is refused *)
(* there changes nothing, and neither do the operations that only read.    *)
(***************************************************************************)
NoRequest ==
  [op |-> "none", pc |-> "idle", pair |-> Nil, sid |-> Nil, user |-> Nil,
   target |-> Nil, read |-> {}, held |-> {}]

On(c, pc) == request[c].pc = pc

Goto(c, pc) == request' = [request EXCEPT ![c].pc = pc]

Answer(c) == request' = [request EXCEPT ![c] = NoRequest]

\* What an account entitles its user to.
Authority(a) == IF a.status = "active" THEN {"self"} \cup a.roles ELSE {}

\* held is a history variable: what the caller of the request was entitled to
\* at any moment since it began.
HeldBy(accounts, p) ==
  IF p = Nil \/ subject[p] = Nil THEN {} ELSE Authority(accounts[Parse[subject[p]]])

\* The checks let a call by the holder of p pass; pc is where it goes on.
Begin(c, call, pc) ==
  LET s == SessionOf(call) IN
  /\ subject[call.pair] # Nil
  /\ request' = [request EXCEPT ![c] =
       [op |-> call.op, pc |-> pc, pair |-> call.pair, sid |-> s,
        user |-> Parse[store[s].user], target |-> call.target, read |-> {},
        held |-> HeldBy(account, call.pair)]]
  /\ UNCHANGED <<vars, account, subject, lapsed>>

\* UpdateUser reads the row and writes it; the others revoke sessions first.
ArriveChange(c, via, call) ==
  /\ call.op \in Changing \cap Serves(via)
  /\ TokenValid(call, "access")
  /\ Verdict(via, call) = "none"
  /\ Begin(c, call, IF call.op = "updateUser" THEN "commit" ELSE "revoke")

\* Logout and LogoutAll: the gRPC server has validated the token when the
\* service validates it again.
ArriveLogout(c, via, call) ==
  /\ call.op \in {"logout", "logoutAll"}
  /\ TokenValid(call, "access")
  /\ Verdict(via, call) = "none"
  /\ Begin(c, call, IF call.op \in Protected(via) THEN "validate" ELSE "end")

Validate(c) ==
  LET r == request[c] IN
  /\ On(c, "validate")
  /\ IF Holder(r.pair) = {r.sid} THEN Goto(c, "end") ELSE Answer(c)
  /\ UNCHANGED <<vars, account, subject, lapsed>>

ArriveRefresh(c, call) ==
  /\ call.op = "refresh"
  /\ TokenValid(call, "refresh")
  /\ Begin(c, call, "row")

(***************************************************************************)
(* Login and refresh read the account and call the session store.  (When   *)
(* the store's reply is lost nobody is given the tokens: such a session    *)
(* authorises nothing and is left out.)                                    *)
(***************************************************************************)
ArriveLogin(c, u) ==
  /\ account[u].status = "active"
  /\ request' = [request EXCEPT ![c] =
       [op |-> "login", pc |-> "store", pair |-> Nil, sid |-> Nil, user |-> u,
        target |-> Nil, read |-> account[u].roles, held |-> {}]]
  /\ UNCHANGED <<vars, account, subject, lapsed>>

ReadAccount(c) ==
  LET a == account[request[c].user] IN
  /\ On(c, "row")
  /\ IF a.status = "active"
     THEN request' = [request EXCEPT ![c].pc = "store", ![c].read = a.roles]
     ELSE Answer(c)
  /\ UNCHANGED <<vars, account, subject, lapsed>>

\* A revocation of u is under way at another request.
Revoking(u) ==
  \E d \in Client :
    \/ request[d].pc \in {"revoke", "commit"} /\ Parse[request[d].target] = u
    \/ request[d].op = "logoutAll" /\ request[d].pc = "end" /\ request[d].user = u

\* issueTokenPair draws new token ids.
Hand(u, p) ==
  /\ subject[p] = Nil
  /\ subject' = [subject EXCEPT ![p] = Canonical[u]]

Login(c, s, p) ==
  LET u == request[c].user
      current == account[u].status = "active" /\ account[u].roles = request[c].read
  IN
  /\ On(c, "store")
  /\ request[c].op = "login"
  /\ Create(s, [user |-> Canonical[u], roles |-> request[c].read, pair |-> p])
  /\ Hand(u, p)
  /\ lapsed' = IF Revoking(u) \/ ~current THEN lapsed \cup {s} ELSE lapsed
  /\ Answer(c)
  /\ UNCHANGED account

Refresh(c, p) ==
  LET r == request[c] IN
  /\ On(c, "store")
  /\ r.op = "refresh"
  /\ IF Holder(r.pair) = {r.sid}
     THEN /\ Rotate(r.sid, [user |-> Canonical[r.user], roles |-> r.read, pair |-> p])
          /\ Hand(r.user, p)
     ELSE UNCHANGED <<vars, subject>>
  /\ Answer(c)
  /\ UNCHANGED <<account, lapsed>>

(***************************************************************************)
(* Logout, LogoutAll, and the revocation before a change of an account.    *)
(***************************************************************************)
Logout(c) ==
  /\ On(c, "end")
  /\ request[c].op = "logout"
  /\ End(Canonical[request[c].user], {request[c].sid})
  /\ Answer(c)
  /\ UNCHANGED <<account, subject, lapsed>>

\* DeleteAllForUser: every session of the key but lapsed ones.
EndAll(k) ==
  \E S \in SUBSET Live(k) : Live(k) \ lapsed \subseteq S /\ End(k, S)

LogoutAll(c) ==
  /\ On(c, "end")
  /\ request[c].op = "logoutAll"
  /\ EndAll(Canonical[request[c].user])
  /\ Answer(c)
  /\ UNCHANGED <<account, subject, lapsed>>

\* Mutant: the error of DeleteAllForUser is ignored.
RevokeNothing(c) ==
  /\ On(c, "revoke")
  /\ Goto(c, "commit")
  /\ UNCHANGED <<vars, account, subject, lapsed>>

RevokeSessions(c) ==
  /\ On(c, "revoke")
  /\ EndAll(request[c].target)
  /\ Goto(c, "commit")
  /\ UNCHANGED <<account, subject, lapsed>>

(***************************************************************************)
(* Changes of accounts.  Names and phones, which UpdateUser changes, are   *)
(* no part of account.                                                     *)
(***************************************************************************)
Changed(a, op) ==
  CASE op = "assignRole" -> [a EXCEPT !.roles = @ \cup {Admin}]
    [] op = "revokeRole" -> [a EXCEPT !.roles = @ \ {Admin}]
    [] op = "deleteUser" -> [a EXCEPT !.status = "deleted"]
    [] op = "updateUser" -> a

\* The requests under way note what their callers are entitled to now.
Note(accounts, requests) ==
  [c \in Client |-> [requests[c] EXCEPT !.held = @ \cup HeldBy(accounts, requests[c].pair)]]

\* An id that is not written as the service writes it revoked nobody.
Overlooked(r, u) ==
  IF r.op # "updateUser" /\ r.target # Canonical[u] THEN Live(Canonical[u]) ELSE {}

Commit(c) ==
  LET r == request[c]
      u == Parse[r.target]
      new == [account EXCEPT ![u] = Changed(account[u], r.op)]
      answered == [request EXCEPT ![c] = NoRequest]
  IN
  /\ On(c, "commit")
  /\ IF u # Nil /\ account[u].status = "active"
     THEN /\ account' = new
          /\ request' = Note(new, answered)
          /\ lapsed' = lapsed \cup Overlooked(r, u)
     ELSE /\ request' = answered
          /\ UNCHANGED <<account, lapsed>>
  /\ UNCHANGED <<vars, subject>>

CreateUser(c, u) ==
  /\ account[u].status = "absent"
  /\ account' = [account EXCEPT ![u].status = "active"]
  /\ UNCHANGED <<vars, subject, request, lapsed>>

\* A call to the database or to Redis fails: an error is answered, and what
\* the calls before it did stays.
Fail(c) ==
  /\ ~On(c, "idle")
  /\ Answer(c)
  /\ UNCHANGED <<vars, account, subject, lapsed>>

Expire(s) ==
  /\ store[s] # Nil
  /\ End(store[s].user, {s})
  /\ UNCHANGED <<account, subject, request, lapsed>>

-----------------------------------------------------------------------------
AccessInit ==
  /\ Init
  /\ account = [u \in User |->
       [status |-> IF u \in Seeded THEN "active" ELSE "absent",
        roles  |-> IF u \in Seeded THEN {Admin} ELSE {}]]
  /\ subject = [p \in Pair |-> Nil]
  /\ request = [c \in Client |-> NoRequest]
  /\ lapsed = {}

\* A call as it arrives: a token, or Nil for one that is not genuine, and the
\* account it names.
Calls(ops, pairs, targets) ==
  [op : ops, pair : pairs, kind : {"access", "refresh"}, target : targets]

Arrive(c) ==
  /\ On(c, "idle")
  /\ \/ \E u \in User : CreateUser(c, u) \/ ArriveLogin(c, u)
     \/ \E via \in {"http", "grpc"} :
          \/ \E call \in Calls(Changing, Pair, UserKey) : ArriveChange(c, via, call)
          \/ \E call \in Calls({"logout", "logoutAll"}, Pair, {Nil}) :
               ArriveLogout(c, via, call)
     \/ \E call \in Calls({"refresh"}, Pair, {Nil}) : ArriveRefresh(c, call)

Serve(c) ==
  \/ Validate(c)
  \/ ReadAccount(c)
  \/ \E s \in SessionId, p \in Pair : Login(c, s, p)
  \/ \E p \in Pair : Refresh(c, p)
  \/ Logout(c)
  \/ LogoutAll(c)
  \/ RevokeSessions(c)
  \/ Commit(c)
  \/ Fail(c)

AccessNext ==
  \/ \E c \in Client : Arrive(c) \/ Serve(c)
  \/ \E s \in SessionId : Expire(s)

AccessSpec == AccessInit /\ [][AccessNext]_accessVars
-----------------------------------------------------------------------------
(***************************************************************************)
(* Properties.                                                             *)
(***************************************************************************)
\* Every variable holds a value of its type.
AccessTypeOK ==
  /\ store \in [SessionId -> Session \cup {Nil}]
  /\ account \in [User -> [status : {"absent", "active", "deleted"},
                           roles : RoleList]]
  /\ subject \in [Pair -> UserKey \cup {Nil}]
  /\ \A c \in Client :
       /\ request[c].op \in Operation \cup {"none"}
       /\ request[c].pc \in {"idle", "validate", "row", "store", "end", "revoke",
                             "commit"}
       /\ request[c].held \subseteq {"self", Admin}
  /\ lapsed \subseteq SessionId

\* Whoever is about to end the sessions of an account or to change it is its
\* own user, or was an administrator at some moment since the request began,
\* whatever role changes, refreshes, logouts and deletions ran since its claims
\* were read.  The sessions in lapsed are those of the findings about logins
\* that race with revocations and about the spelling of ids.
Entitled(r) ==
  \/ Admin \in r.held
  \/ "self" \in r.held /\ subject[r.pair] = r.target /\ r.op \in HTTPSelfOrAdmin
  \/ r.sid \in lapsed

ChangesAreEntitled ==
  \A c \in Client : request[c].pc \in {"revoke", "commit"} => Entitled(request[c])

\* The two servers answer a call alike ("two transport adapters over the same
\* domain service"), be it refused for its token, for its caller's roles or by
\* an error of the service.  The checks read the session store alone, so that
\* it is enough to look while no request is being served.
Quiet == \A c \in Client : On(c, "idle")

TransportsAgree ==
  /\ \A e \in DOMAIN HTTPStatus : <<HTTPStatus[e], GRPCCode[e]>> \in SameMeaning
  /\ \A s \in SessionId : store[s] # Nil /\ Quiet =>
       \A call \in Calls(Operation \ {"updateUser"}, {store[s].pair, Nil}, UserKey) :
         <<HTTPStatus[Verdict("http", call)],
           GRPCCode[Verdict("grpc", call)]>> \in SameMeaning
=============================================================================
