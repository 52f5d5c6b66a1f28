------------------------ MODULE AccessControl_proofs ------------------------
(***************************************************************************)
(* Theorems about AccessControl, for any numbers of clients, users,        *)
(* sessions and token pairs; and, at the end, about MCRequestPath, where   *)
(* it stands beside TokenLifetime and UserListing.                         *)
(***************************************************************************)
EXTENDS MCRequestPath, TokenLifetime_proofs, UserListing_proofs, TLAPS

\* Every field of a request has its type.
RequestTypes ==
  [op : Operation \cup {"none"},
   pc : {"idle", "validate", "row", "store", "end", "revoke", "commit"},
   pair : Pair \cup {Nil}, sid : SessionId \cup {Nil}, user : User \cup {Nil},
   target : UserKey \cup {Nil}, read : RoleList, held : SUBSET {"self", Admin}]

AccessTypes ==
  /\ store \in [SessionId -> Session \cup {Nil}]
  /\ account \in [User -> [status : {"absent", "active", "deleted"}, roles : RoleList]]
  /\ subject \in [Pair -> UserKey \cup {Nil}]
  /\ request \in [Client -> RequestTypes]
  /\ lapsed \subseteq SessionId

\* The claims of a pair name a user as the service writes it, and a session
\* belongs to the user of its claims.
Claims ==
  /\ \A p \in Pair : subject[p] # Nil => \E u \in User : subject[p] = Canonical[u]
  /\ \A s \in SessionId : store[s] # Nil => subject[store[s].pair] = store[s].user

\* What u is entitled to now covers a session that says roles.
Covers(u, roles) == account[u].status = "active" /\ roles \subseteq account[u].roles

\* A session that no revocation missed says no more than the account it
\* belongs to.
Current ==
  \A s \in SessionId \ lapsed :
    store[s] # Nil => Covers(Parse[store[s].user], store[s].roles)

\* Nor will it after the refresh that is under way.
Refreshing(r) ==
  r.op = "refresh" /\ r.pc \in {"row", "store"} =>
    /\ r.pair \in Pair /\ r.user \in User
    /\ subject[r.pair] = Canonical[r.user]
    /\ r.pc = "store" =>
         \/ Covers(r.user, r.read)
         \/ \A s \in SessionId \ lapsed : store[s] # Nil => store[s].pair # r.pair

\* Before an account changes, its sessions are ended, but for those missed.
ChangingNow(r) ==
  r.pc \in {"revoke", "commit"} =>
    /\ r.op \in Changing /\ r.target \in UserKey /\ r.pair \in Pair
    /\ subject[r.pair] # Nil
    /\ r.pc = "commit" /\ r.op # "updateUser" =>
         \A s \in SessionId \ lapsed : store[s] # Nil => store[s].user # r.target
    /\ Entitled(r)

\* A login has read the account when it calls the session store, and only a
\* refresh reads the account later.
Reading(r) ==
  /\ r.op = "login" => r.pc = "store" /\ r.user \in User
  /\ r.pc = "row" => r.op = "refresh"

AccessInv ==
  /\ AccessTypes
  /\ Claims
  /\ Current
  /\ \A c \in Client :
       Refreshing(request[c]) /\ ChangingNow(request[c]) /\ Reading(request[c])

\* What a step does to everything but the requests keeps the invariant.
Kept ==
  /\ store' \in [SessionId -> Session \cup {Nil}]
  /\ account' \in [User -> [status : {"absent", "active", "deleted"}, roles : RoleList]]
  /\ subject' \in [Pair -> UserKey \cup {Nil}]
  /\ lapsed' \subseteq SessionId
  /\ Claims'
  /\ Current'
  /\ \A c \in Client, r \in RequestTypes :
       r = request[c] => Refreshing(r)' /\ ChangingNow(r)'

-----------------------------------------------------------------------------
(***************************************************************************)
(* The two servers.                                                        *)
(***************************************************************************)
\* The same error of the service means the same on both servers.
LEMMA ErrorsAgree == \A e \in DOMAIN HTTPStatus : <<HTTPStatus[e], GRPCCode[e]>> \in SameMeaning
BY DEF HTTPStatus, GRPCCode, SameMeaning

\* What the servers ask of the callers of the operations both protect.
LEMMA RequirementsAgree ==
  ASSUME NEW op \in {"getUser", "listUsers", "deleteUser", "listRoles", "getUserRoles",
                     "assignRole", "revokeRole"}
  PROVE  /\ Requirement("http", op) = Requirement("grpc", op)
         /\ op \in Protected("http") /\ op \in Protected("grpc")
         /\ op \notin DOMAIN ServiceToken
<1> USE DEF Protected, HTTPProtected, UserOp, RoleOp, GrantOp, Operation, SessionOp,
            GRPCAllowlist, ServiceToken
<1>1. op \in Protected("http") /\ op \in Protected("grpc") /\ op \notin DOMAIN ServiceToken
  OBVIOUS
<1>2. Requirement("http", op) =
        IF op \in {"getUser", "deleteUser", "getUserRoles"} THEN "selfOrAdmin" ELSE "admin"
  BY DEF Requirement, HTTPSelfOrAdmin, HTTPAdmin
<1>3. Requirement("grpc", op) =
        IF op \in {"getUser", "deleteUser", "getUserRoles"} THEN "selfOrAdmin" ELSE "admin"
  BY DEF Requirement, GRPCUserMethods, GRPCSessionMethods, GRPCRoleMethods
<1> QED
  BY <1>1, <1>2, <1>3

\* A call is refused for the same reason, or for its token by the access check
\* of one server and by the service behind the other.
LEMMA VerdictsAgree ==
  ASSUME NEW call, call.op \in Operation \ {"updateUser"}
  PROVE  \/ Verdict("http", call) = Verdict("grpc", call)
         \/ Verdict("http", call) = "invalidToken" /\ Verdict("grpc", call) = "unauthorized"
<1>1. CASE call.op \in {"createUser", "login", "refresh"}
  <2>1. call.op \notin Protected("http") /\ call.op \notin Protected("grpc")
    BY <1>1 DEF Protected, HTTPProtected, UserOp, RoleOp, GrantOp, Operation, SessionOp,
                GRPCAllowlist
  <2> QED
    BY <2>1 DEF Verdict
<1>2. CASE call.op \in {"logout", "logoutAll"}
  <2>1. /\ call.op \notin Protected("http") /\ call.op \in Protected("grpc")
        /\ call.op \in DOMAIN ServiceToken /\ ServiceToken[call.op] = "access"
    BY <1>2 DEF Protected, HTTPProtected, UserOp, RoleOp, GrantOp, Operation, SessionOp,
                GRPCAllowlist, ServiceToken
  <2>2. Requirement("grpc", call.op) = "none"
    BY <1>2 DEF Requirement, GRPCUserMethods, GRPCSessionMethods, GRPCRoleMethods
  <2>3. Allowed("grpc", call)
    BY <2>2 DEF Allowed
  <2> QED
    BY <2>1, <2>3 DEF Verdict
<1>3. CASE call.op \in {"getUser", "listUsers", "deleteUser", "listRoles", "getUserRoles",
                        "assignRole", "revokeRole"}
  <2>1. /\ Requirement("http", call.op) = Requirement("grpc", call.op)
        /\ call.op \in Protected("http") /\ call.op \in Protected("grpc")
        /\ call.op \notin DOMAIN ServiceToken
    BY <1>3, RequirementsAgree
  <2>2. Allowed("http", call) = Allowed("grpc", call)
    BY <2>1 DEF Allowed
  <2> QED
    BY <2>1, <2>2 DEF Verdict
<1> QED
  BY <1>1, <1>2, <1>3 DEF Operation, UserOp, SessionOp, RoleOp, GrantOp

\* The answer of an access check is one of the errors of the service, or none.
LEMMA VerdictsAreErrors ==
  ASSUME NEW via, NEW call
  PROVE  Verdict(via, call) \in DOMAIN HTTPStatus
BY DEF Verdict, HTTPStatus

\* The two servers answer a call alike, in every state.
LEMMA AgreeInAnyState == TransportsAgree
<1> SUFFICES ASSUME NEW s \in SessionId,
                    NEW call \in Calls(Operation \ {"updateUser"}, {store[s].pair, Nil},
                                       UserKey)
             PROVE  <<HTTPStatus[Verdict("http", call)],
                      GRPCCode[Verdict("grpc", call)]>> \in SameMeaning
  BY ErrorsAgree DEF TransportsAgree
<1>1. call.op \in Operation \ {"updateUser"}
  BY DEF Calls
<1>2. CASE Verdict("http", call) = Verdict("grpc", call)
  BY <1>2, VerdictsAreErrors, ErrorsAgree
<1>3. CASE Verdict("http", call) = "invalidToken" /\ Verdict("grpc", call) = "unauthorized"
  BY <1>3 DEF HTTPStatus, GRPCCode, SameMeaning
<1> QED
  BY <1>1, <1>2, <1>3, VerdictsAgree

\* The two servers answer every call alike, be it refused or served.
THEOREM ServersAgree == AccessSpec => []TransportsAgree
BY AgreeInAnyState, PTL

-----------------------------------------------------------------------------
(***************************************************************************)
(* The invariant at the start, and how a step that updates one request     *)
(* keeps it.                                                               *)
(***************************************************************************)
\* The request of an idle client.
LEMMA IdleRequest ==
  /\ NoRequest = [op |-> "none", pc |-> "idle", pair |-> Nil, sid |-> Nil, user |-> Nil,
                  target |-> Nil, read |-> {}, held |-> {}]
  /\ NoRequest \in RequestTypes
  /\ Refreshing(NoRequest) /\ ChangingNow(NoRequest) /\ Reading(NoRequest)
  /\ Refreshing(NoRequest)' /\ ChangingNow(NoRequest)'
<1>1. NoRequest = [op |-> "none", pc |-> "idle", pair |-> Nil, sid |-> Nil, user |-> Nil,
                   target |-> Nil, read |-> {}, held |-> {}]
  BY DEF NoRequest
<1>2. {} \in RoleList
  BY AccessAssumption
<1>3. NoRequest \in RequestTypes
  BY <1>1, <1>2 DEF RequestTypes
<1> QED
  BY <1>1, <1>3 DEF Refreshing, ChangingNow, Reading

\* How the service writes an id, and who is meant by it.
LEMMA Ids ==
  ASSUME NEW u \in User
  PROVE  Canonical[u] \in UserKey /\ Parse[Canonical[u]] = u /\ Canonical[u] # Nil /\ u # Nil
BY AccessAssumption

\* A session is no missing one.
LEMMA SessionFields ==
  ASSUME AccessTypes, NEW s \in SessionId, store[s] # Nil
  PROVE  /\ store[s] \in Session /\ store[s].user \in UserKey
         /\ store[s].pair \in Pair /\ store[s].roles \in RoleList
BY DEF AccessTypes, Session

\* The invariant holds at the start.
LEMMA AccessStarts == AccessInit => AccessInv
<1> SUFFICES ASSUME AccessInit PROVE AccessInv
  OBVIOUS
<1>1. /\ store = [s \in SessionId |-> Nil] /\ lapsed = {}
      /\ subject = [p \in Pair |-> Nil] /\ request = [c \in Client |-> NoRequest]
  BY DEF AccessInit, Init
<1>2. account \in [User -> [status : {"absent", "active", "deleted"}, roles : RoleList]]
  <2>1. {} \in RoleList /\ {Admin} \in RoleList
    BY AccessAssumption
  <2> QED
    BY <2>1 DEF AccessInit
<1>3. AccessTypes
  BY <1>1, <1>2, IdleRequest DEF AccessTypes
<1>4. Claims /\ Current
  BY <1>1 DEF Claims, Current
<1> QED
  BY <1>1, <1>3, <1>4, IdleRequest DEF AccessInv

\* A request that a step leaves alone.
LEMMA OtherRequests ==
  ASSUME AccessInv, Kept, NEW d \in Client, request'[d] = request[d]
  PROVE  (Refreshing(request[d]) /\ ChangingNow(request[d]) /\ Reading(request[d]))'
<1>1. PICK r \in RequestTypes : r = request[d]
  BY DEF AccessInv, AccessTypes
<1>2. Reading(r)
  BY <1>1 DEF AccessInv
<1>3. Refreshing(r)' /\ ChangingNow(r)'
  BY <1>1 DEF Kept
<1> QED
  BY <1>1, <1>2, <1>3 DEF Refreshing, ChangingNow, Reading, Entitled, Covers

\* A step that updates no request.
LEMMA NoRequests ==
  ASSUME AccessInv, Kept, request' = request
  PROVE  AccessInv'
<1>1. AccessTypes'
  BY DEF Kept, AccessTypes, AccessInv
<1>2. ASSUME NEW d \in Client
      PROVE  (Refreshing(request[d]) /\ ChangingNow(request[d]) /\ Reading(request[d]))'
  BY OtherRequests
<1> QED
  BY <1>1, <1>2 DEF AccessInv, Kept

\* A step that updates one request.
LEMMA OneRequest ==
  ASSUME AccessInv, Kept, NEW c \in Client, NEW x \in RequestTypes,
         request' = [request EXCEPT ![c] = x],
         Refreshing(x)', ChangingNow(x)', Reading(x)
  PROVE  AccessInv'
<1>1. request \in [Client -> RequestTypes]
  BY DEF AccessInv, AccessTypes
<1>2. AccessTypes'
  BY <1>1 DEF Kept, AccessTypes
<1>3. ASSUME NEW d \in Client
      PROVE  (Refreshing(request[d]) /\ ChangingNow(request[d]) /\ Reading(request[d]))'
  <2>1. CASE d = c
    <3>1. request'[d] = x
      BY <1>1, <2>1
    <3> QED
      BY <3>1 DEF Refreshing, ChangingNow, Reading, Entitled, Covers
  <2>2. CASE d # c
    <3>1. request'[d] = request[d]
      BY <1>1, <2>2
    <3> QED
      BY <3>1, OtherRequests
  <2> QED
    BY <2>1, <2>2
<1> QED
  BY <1>2, <1>3 DEF AccessInv, Kept

\* Sessions that end keep the invariant.
LEMMA EndsKept ==
  ASSUME AccessInv, store' \in [SessionId -> Session \cup {Nil}],
         \A s \in SessionId : store'[s] = store[s] \/ store'[s] = Nil,
         UNCHANGED <<account, subject, lapsed>>
  PROVE  Kept
<1>1. AccessTypes /\ Claims /\ Current
  BY DEF AccessInv
<1>2. Claims' /\ Current'
  BY <1>1 DEF Claims, Current, Covers
<1>3. ASSUME NEW r \in RequestTypes, Refreshing(r) PROVE Refreshing(r)'
  BY <1>3 DEF Refreshing, Covers
<1>4. ASSUME NEW r \in RequestTypes, ChangingNow(r) PROVE ChangingNow(r)'
  BY <1>4 DEF ChangingNow, Entitled
<1> QED
  BY <1>1, <1>2, <1>3, <1>4 DEF Kept, AccessTypes, AccessInv

\* End ends sessions.
LEMMA EndEnds ==
  ASSUME AccessInv, NEW k, NEW S \in SUBSET SessionId, End(k, S)
  PROVE  /\ store' \in [SessionId -> Session \cup {Nil}]
         /\ \A s \in SessionId : store'[s] = IF s \in S THEN Nil ELSE store[s]
BY DEF End, AccessInv, AccessTypes

\* EndAll ends every session of the key but lapsed ones.
LEMMA EndAllEnds ==
  ASSUME AccessInv, NEW k, EndAll(k)
  PROVE  /\ store' \in [SessionId -> Session \cup {Nil}]
         /\ \A s \in SessionId : store'[s] = store[s] \/ store'[s] = Nil
         /\ \A s \in SessionId \ lapsed : store'[s] # Nil => store'[s].user # k
<1>1. PICK S \in SUBSET Live(k) : Live(k) \ lapsed \subseteq S /\ End(k, S)
  BY DEF EndAll
<1>2. S \in SUBSET SessionId
  BY DEF Live
<1>3. /\ store' \in [SessionId -> Session \cup {Nil}]
      /\ \A s \in SessionId : store'[s] = IF s \in S THEN Nil ELSE store[s]
  BY <1>1, <1>2, EndEnds
<1> QED
  BY <1>1, <1>3 DEF Live

\* What the holder of a pair is entitled to.
LEMMA Holding ==
  ASSUME AccessInv, NEW p \in Pair \cup {Nil},
         NEW accounts \in [User -> [status : {"absent", "active", "deleted"},
                                    roles : RoleList]]
  PROVE  /\ HeldBy(accounts, p) \in SUBSET {"self", Admin}
         /\ \A u \in User : p # Nil /\ subject[p] = Canonical[u] =>
              HeldBy(accounts, p) = Authority(accounts[u])
<1>1. \A u \in User : Authority(accounts[u]) \in SUBSET {"self", Admin}
  BY AccessAssumption DEF Authority
<1>2. ASSUME NEW u \in User, p # Nil, subject[p] = Canonical[u]
      PROVE  HeldBy(accounts, p) = Authority(accounts[u])
  BY <1>2, Ids DEF HeldBy
<1>3. CASE p = Nil
  BY <1>3 DEF HeldBy
<1>4. CASE p # Nil
  <2>1. CASE subject[p] = Nil
    <3>1. HeldBy(accounts, p) = {}
      BY <2>1 DEF HeldBy
    <3> QED
      BY <1>2, <3>1
  <2>2. CASE subject[p] # Nil
    <3>1. PICK u \in User : subject[p] = Canonical[u]
      BY <1>4, <2>2 DEF AccessInv, Claims
    <3> QED
      BY <1>1, <1>2, <1>4, <3>1
  <2> QED
    BY <1>2, <2>1, <2>2
<1> QED
  BY <1>2, <1>3, <1>4

-----------------------------------------------------------------------------
(***************************************************************************)
(* Requests that arrive.                                                   *)
(***************************************************************************)
\* A valid token is that of a session.
LEMMA ValidToken ==
  ASSUME AccessInv, NEW call, call.pair \in Pair, NEW kind, TokenValid(call, kind)
  PROVE  LET s == SessionOf(call) IN
         /\ s \in SessionId /\ store[s] # Nil /\ store[s].pair = call.pair
         /\ store[s].user = subject[call.pair]
<1>1. Holder(call.pair) # {}
  BY DEF TokenValid
<1>2. SessionOf(call) \in Holder(call.pair)
  BY <1>1 DEF SessionOf
<1> QED
  BY <1>2 DEF Holder, AccessInv, Claims

\* A request that passes its first checks is recorded with its session, and
\* leaves everything else alone.
LEMMA Begins ==
  ASSUME AccessInv, NEW c \in Client, NEW kind, NEW pc,
         NEW call \in Calls(Operation, Pair, UserKey \cup {Nil}),
         pc \in {"validate", "row", "end", "revoke", "commit"},
         TokenValid(call, kind), Begin(c, call, pc)
  PROVE  /\ Kept
         /\ subject' = subject /\ subject[call.pair] # Nil
         /\ \E x \in RequestTypes :
              /\ request' = [request EXCEPT ![c] = x]
              /\ x.op = call.op /\ x.pc = pc /\ x.pair = call.pair
              /\ x.sid = SessionOf(call) /\ x.target = call.target
              /\ x.user = Parse[subject[call.pair]] /\ x.user \in User
              /\ x.held = HeldBy(account, call.pair)
<1> DEFINE s == SessionOf(call)
           held == HeldBy(account, call.pair)
           user == Parse[store[s].user]
           x == [op |-> call.op, pc |-> pc, pair |-> call.pair, sid |-> s, user |-> user,
                 target |-> call.target, read |-> {}, held |-> held]
<1>1. /\ call.op \in Operation /\ call.pair \in Pair /\ call.target \in UserKey \cup {Nil}
  BY DEF Calls
<1>2. /\ UNCHANGED <<store, account, subject, lapsed>>
      /\ subject[call.pair] # Nil
      /\ request' = [request EXCEPT ![c] = x]
  BY DEF Begin, vars
<1>3. s \in SessionId /\ store[s] # Nil /\ store[s].user = subject[call.pair]
  BY <1>1, ValidToken
<1>4. user = Parse[subject[call.pair]] /\ user \in User
  <2>1. PICK u \in User : subject[call.pair] = Canonical[u]
    BY <1>1, <1>2 DEF AccessInv, Claims
  <2> QED
    BY <1>3, <2>1, Ids
<1>5. held \in SUBSET {"self", Admin}
  BY <1>1, Holding DEF AccessInv, AccessTypes
<1>6. {} \in RoleList
  BY AccessAssumption
<1> HIDE DEF s, held, user
<1>7. x \in RequestTypes
  BY <1>1, <1>3, <1>4, <1>5, <1>6 DEF RequestTypes
<1>8. Kept
  BY <1>2, EndsKept DEF AccessInv, AccessTypes
<1>9. /\ x.op = call.op /\ x.pc = pc /\ x.pair = call.pair /\ x.sid = s
      /\ x.user = user /\ x.target = call.target /\ x.held = held
  OBVIOUS
<1> HIDE DEF x
<1> QED
  BY <1>2, <1>4, <1>7, <1>8, <1>9 DEF s, held

\* Whoever passes the checks of a change is entitled to it.
LEMMA Admitted ==
  ASSUME AccessInv, NEW via \in {"http", "grpc"},
         NEW call \in Calls(Changing, Pair, UserKey), call.op \in Serves(via),
         TokenValid(call, "access"), Verdict(via, call) = "none",
         subject[call.pair] # Nil
  PROVE  \/ Admin \in HeldBy(account, call.pair)
         \/ /\ "self" \in HeldBy(account, call.pair)
            /\ subject[call.pair] = call.target /\ call.op \in HTTPSelfOrAdmin
         \/ SessionOf(call) \in lapsed
<1> DEFINE s == SessionOf(call)
<1>1. call.op \in Changing /\ call.pair \in Pair
  BY DEF Calls
<1>2. /\ s \in SessionId /\ store[s] # Nil /\ store[s].pair = call.pair
      /\ store[s].user = subject[call.pair]
  BY <1>1, ValidToken
<1> HIDE DEF s
<1> SUFFICES ASSUME s \notin lapsed
             PROVE  \/ Admin \in HeldBy(account, call.pair)
                    \/ /\ "self" \in HeldBy(account, call.pair)
                       /\ subject[call.pair] = call.target /\ call.op \in HTTPSelfOrAdmin
  BY DEF s
<1>3. PICK u \in User : subject[call.pair] = Canonical[u]
  BY <1>1 DEF AccessInv, Claims
<1>4. Covers(u, store[s].roles)
  BY <1>2, <1>3, Ids DEF AccessInv, Current
<1>5. HeldBy(account, call.pair) = {"self"} \cup account[u].roles
  <2>1. call.pair # Nil
    BY <1>1, AccessAssumption
  <2>2. account \in [User -> [status : {"absent", "active", "deleted"}, roles : RoleList]]
    BY DEF AccessInv, AccessTypes
  <2>3. HeldBy(account, call.pair) = Authority(account[u])
    BY <1>1, <1>3, <2>1, <2>2, Holding
  <2> QED
    BY <1>4, <2>3 DEF Covers, Authority
<1>6. Allowed(via, call)
  <2>1. call.op \in Protected(via)
    BY <1>1 DEF Changing, GrantOp, Protected, HTTPProtected, UserOp, RoleOp, Operation,
                SessionOp, GRPCAllowlist
  <2> QED
    BY <2>1 DEF Verdict
<1>7. \/ Requirement(via, call.op) = "selfOrAdmin" /\ call.op \in HTTPSelfOrAdmin
      \/ Requirement(via, call.op) = "admin"
  <2>1. CASE via = "http"
    BY <1>1, <2>1 DEF Changing, GrantOp, Requirement, HTTPSelfOrAdmin, HTTPAdmin
  <2>2. CASE via = "grpc"
    <3>1. call.op \in {"deleteUser", "assignRole", "revokeRole"}
      BY <1>1, <2>2 DEF Changing, GrantOp, Serves
    <3>2. call.op = "deleteUser" => call.op \in HTTPSelfOrAdmin
      BY DEF HTTPSelfOrAdmin
    <3>3. call.op = "deleteUser" => Requirement(via, call.op) = "selfOrAdmin"
      BY <2>2 DEF Requirement, GRPCUserMethods, GRPCSessionMethods, GRPCRoleMethods
    <3>4. call.op \in {"assignRole", "revokeRole"} => Requirement(via, call.op) = "admin"
      BY <2>2 DEF Requirement, GRPCUserMethods, GRPCSessionMethods, GRPCRoleMethods
    <3> QED
      BY <3>1, <3>2, <3>3, <3>4
  <2> QED
    BY <2>1, <2>2
<1>8. CASE IsAdmin(call)
  BY <1>4, <1>5, <1>8 DEF IsAdmin, Covers, s
<1>9. CASE IsSelf(call) /\ call.op \in HTTPSelfOrAdmin
  BY <1>2, <1>5, <1>9 DEF IsSelf, s
<1> QED
  BY <1>6, <1>7, <1>8, <1>9 DEF Allowed

\* An account that is created has no sessions yet.
LEMMA CreateKeeps ==
  ASSUME AccessInv, NEW c \in Client, NEW u \in User, CreateUser(c, u)
  PROVE  AccessInv'
<1>1. /\ UNCHANGED <<store, subject, request, lapsed>>
      /\ account' = [account EXCEPT ![u].status = "active"]
      /\ account \in [User -> [status : {"absent", "active", "deleted"}, roles : RoleList]]
  BY DEF CreateUser, vars, AccessInv, AccessTypes
<1>2. /\ account' \in [User -> [status : {"absent", "active", "deleted"}, roles : RoleList]]
      /\ \A v \in User, roles \in RoleList : Covers(v, roles) => Covers(v, roles)'
  BY <1>1 DEF Covers
<1>3. Claims'
  BY <1>1 DEF AccessInv, Claims
<1>4. Current'
  <2> SUFFICES ASSUME NEW s \in SessionId \ lapsed, store[s] # Nil
               PROVE  Covers(Parse[store[s].user], store[s].roles)'
    BY <1>1 DEF Current, Covers
  <2>1. PICK v \in User : store[s].user = Canonical[v]
    BY SessionFields, AccessAssumption DEF AccessInv, Claims
  <2>2. Covers(v, store[s].roles) /\ store[s].roles \in RoleList
    BY <2>1, Ids, SessionFields DEF AccessInv, Current
  <2> QED
    BY <1>1, <1>2, <2>1, <2>2, Ids DEF Covers
<1>5. ASSUME NEW r \in RequestTypes, Refreshing(r) PROVE Refreshing(r)'
  BY <1>1, <1>5 DEF Refreshing, Covers
<1>6. ASSUME NEW r \in RequestTypes, ChangingNow(r) PROVE ChangingNow(r)'
  BY <1>1, <1>6 DEF ChangingNow, Entitled
<1>7. Kept
  BY <1>1, <1>2, <1>3, <1>4, <1>5, <1>6 DEF Kept, AccessInv, AccessTypes
<1> QED
  BY <1>1, <1>7, NoRequests

\* A login reads the account.
LEMMA LoginArrives ==
  ASSUME AccessInv, NEW c \in Client, NEW u \in User, ArriveLogin(c, u)
  PROVE  AccessInv'
<1>1. UNCHANGED <<store, account, subject, lapsed>>
  BY DEF ArriveLogin, vars
<1>2. account[u].roles \in RoleList
  BY DEF AccessInv, AccessTypes
<1>3. PICK x :
        /\ x = [op |-> "login", pc |-> "store", pair |-> Nil, sid |-> Nil, user |-> u,
                target |-> Nil, read |-> account[u].roles, held |-> {}]
        /\ request' = [request EXCEPT ![c] = x]
  BY DEF ArriveLogin
<1>4. x \in RequestTypes
  BY <1>2, <1>3 DEF RequestTypes, Operation, SessionOp
<1>5. Refreshing(x)' /\ ChangingNow(x)' /\ Reading(x)
  BY <1>3 DEF Refreshing, ChangingNow, Reading
<1>6. Kept
  BY <1>1, EndsKept DEF AccessInv, AccessTypes
<1> QED
  BY <1>3, <1>4, <1>5, <1>6, OneRequest

\* A request with a token arrives.
LEMMA CallsArrive ==
  ASSUME AccessInv, NEW c \in Client, NEW via \in {"http", "grpc"},
         \/ \E call \in Calls(Changing, Pair, UserKey) : ArriveChange(c, via, call)
         \/ \E call \in Calls({"logout", "logoutAll"}, Pair, {Nil}) :
              ArriveLogout(c, via, call)
         \/ \E call \in Calls({"refresh"}, Pair, {Nil}) : ArriveRefresh(c, call)
  PROVE  AccessInv'
<1> USE DEF Operation, UserOp, SessionOp, RoleOp, GrantOp, Changing
<1>1. ASSUME NEW call \in Calls(Changing, Pair, UserKey), ArriveChange(c, via, call)
      PROVE  AccessInv'
  <2> DEFINE pc == IF call.op = "updateUser" THEN "commit" ELSE "revoke"
  <2>1. /\ call.op \in Changing \cap Serves(via) /\ TokenValid(call, "access")
        /\ Verdict(via, call) = "none" /\ Begin(c, call, pc)
    BY <1>1 DEF ArriveChange
  <2>2. call \in Calls(Operation, Pair, UserKey \cup {Nil})
    BY DEF Calls
  <2>3. pc \in {"revoke", "commit"} /\ (pc = "commit" => call.op = "updateUser")
    OBVIOUS
  <2> HIDE DEF pc
  <2>4. Kept /\ subject' = subject /\ subject[call.pair] # Nil
    BY <2>1, <2>2, <2>3, Begins
  <2>5. PICK x \in RequestTypes :
              /\ request' = [request EXCEPT ![c] = x]
              /\ x.op = call.op /\ x.pc = pc /\ x.pair = call.pair
              /\ x.sid = SessionOf(call) /\ x.target = call.target
              /\ x.held = HeldBy(account, call.pair)
    BY <2>1, <2>2, <2>3, Begins
  <2>6. \/ Admin \in HeldBy(account, call.pair)
        \/ /\ "self" \in HeldBy(account, call.pair)
           /\ subject[call.pair] = call.target /\ call.op \in HTTPSelfOrAdmin
        \/ SessionOf(call) \in lapsed
    BY <2>1, <2>4, Admitted
  <2>7. lapsed' = lapsed
    BY <2>1 DEF Begin
  <2>8. ChangingNow(x)'
    <3>1. x.op \in Changing /\ x.target \in UserKey /\ x.pair \in Pair
      BY <2>5 DEF Calls
    <3>2. Entitled(x)'
      BY <2>4, <2>5, <2>6, <2>7 DEF Entitled
    <3> QED
      BY <2>3, <2>4, <2>5, <3>1, <3>2 DEF ChangingNow
  <2>9. Refreshing(x)' /\ Reading(x)
    BY <2>3, <2>5 DEF Refreshing, Reading, Calls
  <2> QED
    BY <2>4, <2>5, <2>8, <2>9, OneRequest
<1>2. ASSUME NEW call \in Calls({"logout", "logoutAll"}, Pair, {Nil}),
             ArriveLogout(c, via, call)
      PROVE  AccessInv'
  <2>1. PICK pc \in {"validate", "end"} : TokenValid(call, "access") /\ Begin(c, call, pc)
    BY <1>2 DEF ArriveLogout
  <2>2. call \in Calls(Operation, Pair, UserKey \cup {Nil})
    BY DEF Calls
  <2>3. Kept /\ \E x \in RequestTypes :
                  /\ request' = [request EXCEPT ![c] = x]
                  /\ x.op = call.op /\ x.pc = pc
    BY <2>1, <2>2, Begins
  <2>4. PICK x \in RequestTypes :
          request' = [request EXCEPT ![c] = x] /\ x.op = call.op /\ x.pc = pc
    BY <2>3
  <2>5. Refreshing(x)' /\ ChangingNow(x)' /\ Reading(x)
    BY <2>4 DEF Refreshing, ChangingNow, Reading, Calls
  <2> QED
    BY <2>3, <2>4, <2>5, OneRequest
<1>3. ASSUME NEW call \in Calls({"refresh"}, Pair, {Nil}), ArriveRefresh(c, call)
      PROVE  AccessInv'
  <2>1. PICK pc \in {"row"} : TokenValid(call, "refresh") /\ Begin(c, call, pc)
    BY <1>3 DEF ArriveRefresh
  <2>2. call \in Calls(Operation, Pair, UserKey \cup {Nil}) /\ call.pair \in Pair
    BY DEF Calls
  <2>3. Kept /\ subject' = subject /\ subject[call.pair] # Nil
    BY <2>1, <2>2, Begins
  <2>4. PICK x \in RequestTypes :
          /\ request' = [request EXCEPT ![c] = x]
          /\ x.op = call.op /\ x.pc = pc /\ x.pair = call.pair
          /\ x.user = Parse[subject[call.pair]] /\ x.user \in User
    BY <2>1, <2>2, Begins
  <2>5. PICK u \in User : subject[call.pair] = Canonical[u]
    BY <2>2, <2>3 DEF AccessInv, Claims
  <2>6. subject'[x.pair] = Canonical[x.user]
    BY <2>3, <2>4, <2>5, Ids
  <2>7. Refreshing(x)' /\ ChangingNow(x)' /\ Reading(x)
    BY <2>2, <2>4, <2>6 DEF Refreshing, ChangingNow, Reading, Calls
  <2> QED
    BY <2>3, <2>4, <2>7, OneRequest
<1> QED
  BY <1>1, <1>2, <1>3

-----------------------------------------------------------------------------
(***************************************************************************)
(* Requests that are served.                                               *)
(***************************************************************************)
\* A request that is answered.
LEMMA Answered ==
  ASSUME AccessInv, Kept, NEW c \in Client, Answer(c)
  PROVE  AccessInv'
BY IdleRequest, OneRequest DEF Answer

\* A request that goes on.
LEMMA GoesOn ==
  ASSUME AccessInv, NEW c \in Client, Goto(c, "end") \/ Goto(c, "commit")
  PROVE  \E x \in RequestTypes :
           /\ request' = [request EXCEPT ![c] = x]
           /\ x.pc = "end" \/ (Goto(c, "commit") /\ x.pc = "commit")
           /\ x.op = request[c].op /\ x.user = request[c].user /\ x.sid = request[c].sid
           /\ x.pair = request[c].pair /\ x.target = request[c].target
           /\ x.held = request[c].held
<1>1. PICK pc \in {"end", "commit"} : Goto(c, pc) /\ (pc = "commit" => Goto(c, "commit"))
  OBVIOUS
<1>2. PICK r \in RequestTypes : r = request[c]
  BY DEF AccessInv, AccessTypes
<1>3. PICK x : x = [r EXCEPT !.pc = pc]
  OBVIOUS
<1>4. /\ x \in RequestTypes /\ x.pc = pc
      /\ x.op = r.op /\ x.user = r.user /\ x.sid = r.sid /\ x.pair = r.pair
      /\ x.target = r.target /\ x.held = r.held
  BY <1>3 DEF RequestTypes
<1>5. request' = [request EXCEPT ![c] = x]
  BY <1>1, <1>2, <1>3 DEF Goto, AccessInv, AccessTypes
<1> QED
  BY <1>1, <1>2, <1>4, <1>5

\* The gRPC server has validated the token once more.
LEMMA ValidateKeeps ==
  ASSUME AccessInv, NEW c \in Client, Validate(c)
  PROVE  AccessInv'
<1>1. Kept
  BY EndsKept DEF Validate, vars, AccessInv, AccessTypes
<1>2. CASE Answer(c)
  BY <1>1, <1>2, Answered
<1>3. CASE Goto(c, "end")
  <2>1. PICK x \in RequestTypes :
          /\ request' = [request EXCEPT ![c] = x]
          /\ x.pc = "end" \/ (Goto(c, "commit") /\ x.pc = "commit")
          /\ x.op = request[c].op
    BY <1>3, GoesOn
  <2>2. x.pc = "end"
    <3>1. request'[c] = x /\ request'[c].pc = "end"
      BY <1>3, <2>1 DEF Goto, AccessInv, AccessTypes, RequestTypes
    <3> QED
      BY <3>1
  <2>3. x.op # "login"
    BY <2>1 DEF Validate, On, AccessInv, Reading
  <2>4. Refreshing(x)' /\ ChangingNow(x)' /\ Reading(x)
    BY <2>2, <2>3 DEF Refreshing, ChangingNow, Reading
  <2> QED
    BY <1>1, <2>1, <2>4, OneRequest
<1> QED
  BY <1>2, <1>3 DEF Validate

\* A refresh reads the account.
LEMMA ReadAccountKeeps ==
  ASSUME AccessInv, NEW c \in Client, ReadAccount(c)
  PROVE  AccessInv'
<1>1. UNCHANGED <<store, account, subject, lapsed>> /\ request[c].pc = "row"
  BY DEF ReadAccount, vars, On
<1>2. Kept
  BY <1>1, EndsKept DEF AccessInv, AccessTypes
<1>3. CASE Answer(c)
  BY <1>2, <1>3, Answered
<1>4. CASE ~Answer(c)
  <2>1. PICK r \in RequestTypes : r = request[c]
    BY DEF AccessInv, AccessTypes
  <2>2. r.pc = "row" /\ r.op = "refresh" /\ Refreshing(r)
    BY <1>1, <2>1 DEF AccessInv, Reading
  <2>3. PICK a : a = account[r.user]
    OBVIOUS
  <2>4. PICK x : x = [r EXCEPT !.pc = "store", !.read = a.roles]
    OBVIOUS
  <2>5. a.status = "active" /\ request' = [request EXCEPT ![c] = x]
    BY <1>4, <2>1, <2>3, <2>4 DEF ReadAccount, AccessInv, AccessTypes
  <2>6. /\ x.pc = "store" /\ x.read = a.roles
        /\ x.op = r.op /\ x.user = r.user /\ x.pair = r.pair
    BY <2>4 DEF RequestTypes
  <2>7. AccessInv'
    <3>1. r.user \in User /\ r.pair \in Pair /\ subject[r.pair] = Canonical[r.user]
      BY <2>2 DEF Refreshing
    <3>2. a.roles \in RoleList
      BY <2>3, <3>1 DEF AccessInv, AccessTypes
    <3>3. x \in RequestTypes
      BY <2>4, <3>2 DEF RequestTypes
    <3>4. Covers(x.user, x.read)'
      BY <1>1, <2>3, <2>5, <2>6 DEF Covers
    <3>5. Refreshing(x)' /\ ChangingNow(x)' /\ Reading(x)
      BY <1>1, <2>2, <2>6, <3>1, <3>4 DEF Refreshing, ChangingNow, Reading, Covers
    <3> QED
      BY <1>2, <2>5, <3>3, <3>5, OneRequest
  <2> QED
    BY <2>7
<1> QED
  BY <1>3, <1>4

\* A login starts a session that says what the account says, or that the
\* revocation it overtook did not see.
LEMMA LoginKeeps ==
  ASSUME AccessInv, NEW c \in Client, NEW s \in SessionId, NEW p \in Pair, Login(c, s, p)
  PROVE  AccessInv'
<1>1. PICK r \in RequestTypes : r = request[c]
  BY DEF AccessInv, AccessTypes
<1>2. r.op = "login" /\ r.user \in User /\ r.read \in RoleList
  BY <1>1 DEF Login, AccessInv, Reading, RequestTypes
<1>3. PICK u \in User, x \in Session :
        u = r.user /\ x = [user |-> Canonical[u], roles |-> r.read, pair |-> p]
  BY <1>2, Ids DEF Session
<1>4. /\ store[s] = Nil /\ store' = [store EXCEPT ![s] = x]
      /\ subject[p] = Nil /\ subject' = [subject EXCEPT ![p] = Canonical[u]]
      /\ account' = account /\ Answer(c)
      /\ lapsed' = IF \/ Revoking(u)
                      \/ ~(account[u].status = "active" /\ account[u].roles = r.read)
                   THEN lapsed \cup {s} ELSE lapsed
  BY <1>1, <1>3 DEF Login, Create, Hand
<1>5. AccessTypes /\ Claims /\ Current
  BY DEF AccessInv
<1>6. x.user = Canonical[u] /\ x.roles = r.read /\ x.pair = p /\ x # Nil
  BY <1>3, AccessAssumption
<1>7. \A t \in SessionId : store[t] # Nil => store[t].pair # p
  BY <1>4, <1>5, SessionFields, AccessAssumption DEF Claims
<1>8. /\ lapsed \subseteq lapsed' /\ lapsed' \subseteq SessionId
      /\ s \notin lapsed' => Covers(u, r.read) /\ ~Revoking(u)
  BY <1>4, <1>5 DEF AccessTypes, Covers
<1>9. /\ store' \in [SessionId -> Session \cup {Nil}]
      /\ subject' \in [Pair -> UserKey \cup {Nil}]
      /\ store'[s] = x /\ \A t \in SessionId \ {s} : store'[t] = store[t]
      /\ subject'[p] = Canonical[u] /\ \A q \in Pair \ {p} : subject'[q] = subject[q]
  BY <1>4, <1>5, Ids DEF AccessTypes
<1>10. Claims'
  <2>1. ASSUME NEW q \in Pair, subject'[q] # Nil
        PROVE  \E v \in User : subject'[q] = Canonical[v]
    BY <1>5, <1>9, <2>1 DEF Claims
  <2>2. ASSUME NEW t \in SessionId, store'[t] # Nil
        PROVE  subject'[store'[t].pair] = store'[t].user
    <3>1. CASE t = s
      BY <1>6, <1>9, <3>1
    <3>2. CASE t # s
      BY <1>5, <1>7, <1>9, <2>2, <3>2, SessionFields DEF Claims
    <3> QED
      BY <3>1, <3>2
  <2> QED
    BY <2>1, <2>2 DEF Claims
<1>11. Current'
  <2> SUFFICES ASSUME NEW t \in SessionId \ lapsed', store'[t] # Nil
               PROVE  Covers(Parse[store'[t].user], store'[t].roles)
    BY <1>4 DEF Current, Covers
  <2>1. CASE t = s
    BY <1>6, <1>8, <1>9, <2>1, Ids
  <2>2. CASE t # s
    BY <1>5, <1>8, <1>9, <2>2 DEF Current
  <2> QED
    BY <2>1, <2>2
<1>12. ASSUME NEW d \in Client, NEW q \in RequestTypes, q = request[d]
       PROVE  Refreshing(q)' /\ ChangingNow(q)'
  <2>1. Refreshing(q) /\ ChangingNow(q)
    BY <1>12 DEF AccessInv
  <2>2. Refreshing(q)'
    <3> SUFFICES ASSUME q.op = "refresh", q.pc \in {"row", "store"}
                 PROVE  Refreshing(q)'
      BY DEF Refreshing
    <3>1. /\ q.pair \in Pair /\ q.user \in User /\ subject[q.pair] = Canonical[q.user]
          /\ q.pair # p
      BY <1>4, <2>1, Ids DEF Refreshing
    <3> QED
      BY <1>4, <1>6, <1>8, <1>9, <2>1, <3>1 DEF Refreshing, Covers
  <2>3. ChangingNow(q)'
    <3> SUFFICES ASSUME q.pc \in {"revoke", "commit"}
                 PROVE  ChangingNow(q)'
      BY DEF ChangingNow
    <3>1. /\ q.op \in Changing /\ q.target \in UserKey /\ q.pair \in Pair
          /\ subject'[q.pair] = subject[q.pair] /\ subject[q.pair] # Nil
          /\ Entitled(q)
      BY <1>4, <1>9, <2>1 DEF ChangingNow
    <3>2. Entitled(q)'
      BY <1>8, <3>1 DEF Entitled
    <3>3. ASSUME q.pc = "commit", q.op # "updateUser", NEW t \in SessionId \ lapsed',
                 store'[t] # Nil
          PROVE  store'[t].user # q.target
      <4>1. CASE t # s
        BY <1>8, <1>9, <2>1, <3>3, <4>1 DEF ChangingNow
      <4>2. CASE t = s
        <5>1. ~Revoking(u) /\ store'[t].user = Canonical[u]
          BY <1>6, <1>8, <1>9, <4>2
        <5>2. Parse[q.target] # u
          BY <1>12, <3>3, <5>1 DEF Revoking
        <5> QED
          BY <5>1, <5>2, Ids
      <4> QED
        BY <4>1, <4>2
    <3> QED
      BY <3>1, <3>2, <3>3 DEF ChangingNow
  <2> QED
    BY <2>2, <2>3
<1>13. Kept
  BY <1>4, <1>5, <1>8, <1>9, <1>10, <1>11, <1>12 DEF Kept, AccessTypes
<1> QED
  BY <1>4, <1>13, Answered

\* A refresh moves a session to what the account says, unless the session was
\* ended meanwhile.
LEMMA RefreshKeeps ==
  ASSUME AccessInv, NEW c \in Client, NEW p \in Pair, Refresh(c, p)
  PROVE  AccessInv'
<1>1. PICK r \in RequestTypes : r = request[c]
  BY DEF AccessInv, AccessTypes
<1>2. /\ r.op = "refresh" /\ r.pc = "store" /\ r.read \in RoleList
      /\ r.user \in User /\ r.pair \in Pair /\ subject[r.pair] = Canonical[r.user]
      /\ \/ Covers(r.user, r.read)
         \/ \A t \in SessionId \ lapsed : store[t] # Nil => store[t].pair # r.pair
  BY <1>1 DEF Refresh, On, AccessInv, Refreshing, RequestTypes
<1>3. account' = account /\ lapsed' = lapsed /\ Answer(c)
  BY DEF Refresh
<1>4. AccessTypes /\ Claims /\ Current
  BY DEF AccessInv
<1>5. CASE Holder(r.pair) # {r.sid}
  <2>1. UNCHANGED <<store, subject>>
    BY <1>1, <1>5 DEF Refresh, vars
  <2>2. Kept
    BY <1>3, <1>4, <2>1, EndsKept DEF AccessTypes
  <2> QED
    BY <1>3, <2>2, Answered
<1>6. CASE Holder(r.pair) = {r.sid}
  <2>1. PICK u \in User, s \in SessionId, x \in Session :
          /\ u = r.user /\ s = r.sid
          /\ x = [user |-> Canonical[u], roles |-> r.read, pair |-> p]
          /\ store[s] # Nil /\ store[s].pair = r.pair
    <3>1. r.sid \in Holder(r.pair)
      BY <1>6
    <3>2. r.sid \in SessionId /\ store[r.sid] # Nil /\ store[r.sid].pair = r.pair
      BY <3>1 DEF Holder
    <3>3. [user |-> Canonical[r.user], roles |-> r.read, pair |-> p] \in Session
      BY <1>2, Ids DEF Session
    <3> QED
      BY <1>2, <3>2, <3>3
  <2>2. /\ store' = [store EXCEPT ![s] = x] /\ x.user = store[s].user
        /\ subject[p] = Nil /\ subject' = [subject EXCEPT ![p] = Canonical[u]]
    BY <1>1, <1>6, <2>1 DEF Refresh, Rotate, Hand
  <2>3. x.user = Canonical[u] /\ x.roles = r.read /\ x.pair = p /\ x # Nil
    BY <2>1, AccessAssumption
  <2>4. \A t \in SessionId : store[t] # Nil => store[t].pair # p
    BY <1>4, <2>2, SessionFields, AccessAssumption DEF Claims
  <2>5. /\ store' \in [SessionId -> Session \cup {Nil}]
        /\ subject' \in [Pair -> UserKey \cup {Nil}]
        /\ store'[s] = x /\ \A t \in SessionId \ {s} : store'[t] = store[t]
        /\ subject'[p] = Canonical[u] /\ \A q \in Pair \ {p} : subject'[q] = subject[q]
    BY <1>4, <2>2, Ids DEF AccessTypes
  <2>6. Claims'
    <3>1. ASSUME NEW q \in Pair, subject'[q] # Nil
          PROVE  \E v \in User : subject'[q] = Canonical[v]
      BY <1>4, <2>5, <3>1 DEF Claims
    <3>2. ASSUME NEW t \in SessionId, store'[t] # Nil
          PROVE  subject'[store'[t].pair] = store'[t].user
      <4>1. CASE t = s
        BY <2>3, <2>5, <4>1
      <4>2. CASE t # s
        BY <1>4, <2>4, <2>5, <3>2, <4>2, SessionFields DEF Claims
      <4> QED
        BY <4>1, <4>2
    <3> QED
      BY <3>1, <3>2 DEF Claims
  <2>7. Current'
    <3> SUFFICES ASSUME NEW t \in SessionId \ lapsed, store'[t] # Nil
                 PROVE  Covers(Parse[store'[t].user], store'[t].roles)
      BY <1>3 DEF Current, Covers
    <3>1. CASE t = s
      <4>1. Covers(u, r.read)
        BY <1>2, <2>1, <3>1
      <4> QED
        BY <2>3, <2>5, <3>1, <4>1, Ids
    <3>2. CASE t # s
      BY <1>4, <2>5, <3>2 DEF Current
    <3> QED
      BY <3>1, <3>2
  <2>8. ASSUME NEW d \in Client, NEW q \in RequestTypes, q = request[d]
        PROVE  Refreshing(q)' /\ ChangingNow(q)'
    <3>1. Refreshing(q) /\ ChangingNow(q)
      BY <2>8 DEF AccessInv
    <3>2. Refreshing(q)'
      <4> SUFFICES ASSUME q.op = "refresh", q.pc \in {"row", "store"}
                   PROVE  Refreshing(q)'
        BY DEF Refreshing
      <4>1. /\ q.pair \in Pair /\ q.user \in User /\ subject[q.pair] = Canonical[q.user]
            /\ q.pair # p
        BY <2>2, <3>1, Ids DEF Refreshing
      <4> QED
        BY <1>3, <2>3, <2>5, <3>1, <4>1 DEF Refreshing, Covers
    <3>3. ChangingNow(q)'
      <4> SUFFICES ASSUME q.pc \in {"revoke", "commit"}
                   PROVE  ChangingNow(q)'
        BY DEF ChangingNow
      <4>1. /\ q.op \in Changing /\ q.target \in UserKey /\ q.pair \in Pair
            /\ subject'[q.pair] = subject[q.pair] /\ subject[q.pair] # Nil
            /\ Entitled(q)
        BY <2>2, <2>5, <3>1 DEF ChangingNow
      <4>2. Entitled(q)'
        BY <1>3, <4>1 DEF Entitled
      <4>3. \A t \in SessionId : store'[t] # Nil =>
              store[t] # Nil /\ store'[t].user = store[t].user
        BY <2>1, <2>2, <2>5
      <4> QED
        BY <1>3, <3>1, <4>1, <4>2, <4>3 DEF ChangingNow
    <3> QED
      BY <3>2, <3>3
  <2>9. Kept
    BY <1>3, <1>4, <2>5, <2>6, <2>7, <2>8 DEF Kept, AccessTypes
  <2> QED
    BY <1>3, <2>9, Answered
<1> QED
  BY <1>5, <1>6

\* Logouts, and failures of the database or the store.
LEMMA LogoutsKeep ==
  ASSUME AccessInv, NEW c \in Client, Logout(c) \/ LogoutAll(c) \/ Fail(c)
  PROVE  AccessInv'
<1>1. UNCHANGED <<account, subject, lapsed>> /\ Answer(c)
  BY DEF Logout, LogoutAll, Fail
<1>2. /\ store' \in [SessionId -> Session \cup {Nil}]
      /\ \A s \in SessionId : store'[s] = store[s] \/ store'[s] = Nil
  <2>1. CASE Logout(c)
    <3>1. PICK k, sid : End(k, {sid})
      BY <2>1 DEF Logout
    <3> QED
      BY <3>1 DEF End, AccessInv, AccessTypes
  <2>2. CASE LogoutAll(c)
    <3>1. PICK k : EndAll(k)
      BY <2>2 DEF LogoutAll
    <3> QED
      BY <3>1, EndAllEnds
  <2>3. CASE Fail(c)
    BY <2>3 DEF Fail, vars, AccessInv, AccessTypes
  <2> QED
    BY <2>1, <2>2, <2>3
<1> QED
  BY <1>1, <1>2, EndsKept, Answered

\* A session expires.
LEMMA ExpiryKeeps ==
  ASSUME AccessInv, NEW s \in SessionId, Expire(s)
  PROVE  AccessInv'
<1>1. UNCHANGED <<account, subject, request, lapsed>> /\ End(store[s].user, {s})
  BY DEF Expire
<1>2. PICK S \in SUBSET SessionId : S = {s}
  OBVIOUS
<1>3. /\ store' \in [SessionId -> Session \cup {Nil}]
      /\ \A t \in SessionId : store'[t] = store[t] \/ store'[t] = Nil
  BY <1>1 DEF End, AccessInv, AccessTypes
<1> QED
  BY <1>1, <1>3, EndsKept, NoRequests

\* After the revocation, no session of the account is left but those missed.
LEMMA RevokeKeeps ==
  ASSUME AccessInv, NEW c \in Client, RevokeSessions(c)
  PROVE  AccessInv'
<1>1. PICK r \in RequestTypes : r = request[c]
  BY DEF AccessInv, AccessTypes
<1>2. r.pc = "revoke" /\ ChangingNow(r) /\ Reading(r)
  BY <1>1 DEF RevokeSessions, On, AccessInv
<1>3. UNCHANGED <<account, subject, lapsed>> /\ EndAll(r.target) /\ Goto(c, "commit")
  BY <1>1 DEF RevokeSessions
<1>4. PICK k : k = r.target
  OBVIOUS
<1>5. /\ store' \in [SessionId -> Session \cup {Nil}]
      /\ \A s \in SessionId : store'[s] = store[s] \/ store'[s] = Nil
      /\ \A s \in SessionId \ lapsed : store'[s] # Nil => store'[s].user # k
  BY <1>3, <1>4, EndAllEnds
<1>6. Kept
  BY <1>3, <1>5, EndsKept
<1>7. PICK x \in RequestTypes : x = [r EXCEPT !.pc = "commit"]
  BY DEF RequestTypes
<1>8. /\ x.pc = "commit" /\ x.op = r.op /\ x.user = r.user /\ x.sid = r.sid
      /\ x.pair = r.pair /\ x.target = r.target /\ x.held = r.held
  BY <1>7 DEF RequestTypes
<1>9. request' = [request EXCEPT ![c] = x]
  BY <1>1, <1>3, <1>7 DEF Goto, AccessInv, AccessTypes
<1>10. Refreshing(x)' /\ Reading(x)
  BY <1>2, <1>8 DEF Refreshing, Reading
<1>11. ChangingNow(x)'
  BY <1>2, <1>3, <1>4, <1>5, <1>8 DEF ChangingNow, Entitled
<1> QED
  BY <1>6, <1>9, <1>10, <1>11, OneRequest

\* A change of an account finds none of its sessions but those missed, and
\* every request under way notes what its caller is entitled to now.
LEMMA CommitKeeps ==
  ASSUME AccessInv, NEW c \in Client, Commit(c)
  PROVE  AccessInv'
<1>1. PICK r \in RequestTypes : r = request[c]
  BY DEF AccessInv, AccessTypes
<1>2. r.pc = "commit" /\ ChangingNow(r)
  BY <1>1 DEF Commit, On, AccessInv
<1>3. PICK u : u = Parse[r.target]
  OBVIOUS
<1>4. CASE ~(u # Nil /\ account[u].status = "active")
  <2>1. UNCHANGED <<store, account, subject, lapsed>> /\ Answer(c)
    BY <1>1, <1>3, <1>4 DEF Commit, Answer, vars
  <2>2. Kept
    BY <2>1, EndsKept DEF AccessInv, AccessTypes
  <2> QED
    BY <2>1, <2>2, Answered
<1>5. CASE u # Nil /\ account[u].status = "active"
  <2>1. u \in User /\ r.op \in Changing /\ r.target \in UserKey
    BY <1>2, <1>3, <1>5, AccessAssumption DEF ChangingNow
  <2>2. PICK new, answered :
          /\ new = [account EXCEPT ![u] = Changed(account[u], r.op)]
          /\ answered = [request EXCEPT ![c] = NoRequest]
          /\ account' = new /\ request' = Note(new, answered)
          /\ lapsed' = lapsed \cup Overlooked(r, u)
          /\ UNCHANGED <<store, subject>>
    BY <1>1, <1>3, <1>5 DEF Commit, vars
  <2>3. /\ new \in [User -> [status : {"absent", "active", "deleted"}, roles : RoleList]]
        /\ \A v \in User \ {u} : new[v] = account[v]
        /\ r.op = "updateUser" => new = account
    <3>1. account \in [User -> [status : {"absent", "active", "deleted"}, roles : RoleList]]
      BY DEF AccessInv, AccessTypes
    <3>2. Changed(account[u], r.op) \in
            [status : {"absent", "active", "deleted"}, roles : RoleList]
      BY <2>1, <3>1, AccessAssumption DEF Changed, Changing, GrantOp
    <3>3. r.op = "updateUser" => Changed(account[u], r.op) = account[u]
      BY DEF Changed
    <3> QED
      BY <2>2, <3>1, <3>2, <3>3
  <2>4. lapsed \subseteq lapsed' /\ lapsed' \subseteq SessionId
    BY <2>2 DEF Overlooked, Live, AccessInv, AccessTypes
  <2>5. ASSUME NEW s \in SessionId \ lapsed', store[s] # Nil, r.op # "updateUser"
        PROVE  store[s].user # Canonical[u]
    <3>1. CASE r.target = Canonical[u]
      BY <1>2, <2>4, <2>5, <3>1 DEF ChangingNow
    <3>2. CASE r.target # Canonical[u]
      BY <2>2, <2>5, <3>2 DEF Overlooked, Live
    <3> QED
      BY <3>1, <3>2
  <2>6. Claims'
    BY <2>2 DEF AccessInv, Claims
  <2>7. ASSUME NEW v \in User, NEW roles, Covers(v, roles), v # u \/ r.op = "updateUser"
        PROVE  Covers(v, roles)'
    BY <2>2, <2>3, <2>7 DEF Covers
  <2>8. Current'
    <3> SUFFICES ASSUME NEW s \in SessionId \ lapsed', store[s] # Nil
                 PROVE  account'[Parse[store[s].user]].status = "active"
                        /\ store[s].roles \subseteq account'[Parse[store[s].user]].roles
      BY <2>2 DEF Current, Covers
    <3>1. PICK v \in User : store[s].user = Canonical[v]
      BY SessionFields, AccessAssumption DEF AccessInv, Claims
    <3>2. Covers(v, store[s].roles) /\ Parse[store[s].user] = v
      BY <2>4, <3>1, Ids DEF AccessInv, Current
    <3>3. v # u \/ r.op = "updateUser"
      BY <2>5, <3>1
    <3> QED
      BY <2>7, <3>2, <3>3 DEF Covers
  <2>9. ASSUME NEW d \in Client
        PROVE  (Refreshing(request[d]) /\ ChangingNow(request[d]) /\ Reading(request[d]))'
               /\ request'[d] \in RequestTypes
    <3>1. PICK q \in RequestTypes : q = answered[d]
      BY <2>2, IdleRequest DEF AccessInv, AccessTypes
    <3>2. Refreshing(q) /\ ChangingNow(q) /\ Reading(q)
      <4>1. q = NoRequest \/ q = request[d]
        BY <2>2, <3>1 DEF AccessInv, AccessTypes
      <4> QED
        BY <4>1, IdleRequest DEF AccessInv, Refreshing, ChangingNow, Reading, Covers, Entitled
    <3>3. PICK held : held = HeldBy(new, q.pair)
      OBVIOUS
    <3>4. held \in SUBSET {"self", Admin}
      <4>1. q.pair \in Pair \cup {Nil}
        BY DEF RequestTypes
      <4> QED
        BY <2>3, <3>3, <4>1, Holding
    <3>5. PICK x : x = [q EXCEPT !.held = @ \cup held]
      OBVIOUS
    <3>6. /\ x \in RequestTypes
          /\ x.op = q.op /\ x.pc = q.pc /\ x.pair = q.pair /\ x.sid = q.sid
          /\ x.user = q.user /\ x.target = q.target /\ x.read = q.read
          /\ x.held = q.held \cup held
      BY <3>4, <3>5 DEF RequestTypes
    <3>7. request'[d] = x
      BY <2>2, <3>1, <3>3, <3>5 DEF Note
    <3>8. Refreshing(x)'
      <4> SUFFICES ASSUME x.op = "refresh", x.pc \in {"row", "store"} PROVE Refreshing(x)'
        BY DEF Refreshing
      <4>1. /\ x.pair \in Pair /\ x.user \in User /\ subject'[x.pair] = Canonical[x.user]
            /\ x.pc = "store" =>
                 \/ Covers(x.user, x.read)
                 \/ \A s \in SessionId \ lapsed : store[s] # Nil => store[s].pair # x.pair
        BY <2>2, <3>2, <3>6 DEF Refreshing, Covers
      <4>2. CASE x.user # u \/ r.op = "updateUser"
        BY <2>2, <2>4, <2>7, <4>1, <4>2 DEF Refreshing, Covers
      <4>3. CASE x.user = u /\ r.op # "updateUser"
        <5>1. \A s \in SessionId \ lapsed' : store[s] # Nil => store[s].pair # x.pair
          BY <2>2, <2>5, <4>1, <4>3 DEF AccessInv, Claims
        <5> QED
          BY <2>2, <4>1, <5>1 DEF Refreshing
      <4> QED
        BY <4>2, <4>3
    <3>9. ChangingNow(x)'
      BY <2>2, <2>4, <3>2, <3>6 DEF ChangingNow, Entitled
    <3>10. Reading(x)
      BY <3>2, <3>6 DEF Reading
    <3> QED
      BY <3>6, <3>7, <3>8, <3>9, <3>10 DEF Refreshing, ChangingNow, Reading, Covers, Entitled
  <2>10. AccessTypes'
    <3>1. request' \in [Client -> RequestTypes]
      <4>1. request' = [d \in Client |-> request'[d]]
        BY <2>2 DEF Note
      <4> QED
        BY <2>9, <4>1
    <3> QED
      BY <2>2, <2>3, <2>4, <3>1 DEF AccessInv, AccessTypes
  <2> QED
    BY <2>6, <2>8, <2>9, <2>10 DEF AccessInv
<1> QED
  BY <1>4, <1>5

\* The invariant holds in every reachable state.
THEOREM AccessInvariance == AccessSpec => []AccessInv
<1>1. AccessInv /\ [AccessNext]_accessVars => AccessInv'
  <2> SUFFICES ASSUME AccessInv, [AccessNext]_accessVars PROVE AccessInv'
    OBVIOUS
  <2>1. CASE UNCHANGED accessVars
    <3>1. UNCHANGED <<store, account, subject, lapsed, request>>
      BY <2>1 DEF accessVars, vars
    <3>2. Kept
      BY <3>1, EndsKept DEF AccessInv, AccessTypes
    <3> QED
      BY <3>1, <3>2, NoRequests
  <2>2. ASSUME NEW c \in Client, Arrive(c) PROVE AccessInv'
    BY <2>2, CreateKeeps, LoginArrives, CallsArrive DEF Arrive
  <2>3. ASSUME NEW c \in Client, Serve(c) PROVE AccessInv'
    BY <2>3, ValidateKeeps, ReadAccountKeeps, LoginKeeps, RefreshKeeps, LogoutsKeep,
       RevokeKeeps, CommitKeeps DEF Serve
  <2>4. ASSUME NEW s \in SessionId, Expire(s) PROVE AccessInv'
    BY <2>4, ExpiryKeeps
  <2> QED
    BY <2>1, <2>2, <2>3, <2>4 DEF AccessNext
<1> QED
  BY <1>1, AccessStarts, PTL DEF AccessSpec

\* Nobody changes an account, nor ends its sessions for that, but its own user
\* and who was an administrator at some moment of the request.
THEOREM EntitledChanges == AccessSpec => []ChangesAreEntitled
<1>1. AccessInv => ChangesAreEntitled
  BY DEF AccessInv, ChangesAreEntitled, ChangingNow
<1> QED
  BY <1>1, AccessInvariance, PTL

\* The part of AccessControl in MCRequestPath's type invariant: requests, sessions
\* and accounts keep their shape whatever requests run together.
THEOREM AccessKeepsTypes == AccessSpec => []AccessTypeOK
<1>1. AccessInv => AccessTypeOK
  BY DEF AccessInv, AccessTypes, RequestTypes, AccessTypeOK
<1> QED
  BY <1>1, AccessInvariance, PTL

-----------------------------------------------------------------------------
(***************************************************************************)
(* AccessControl, TokenLifetime and UserListing side by side.              *)
(***************************************************************************)
\* A step of the three is a step of one of them and leaves the others alone.
LEMMA PathSteps ==
  [PathNext]_pathVars =>
    [AccessNext]_accessVars /\ [LifetimeNext]_lifetimeVars /\ [ListingNext]_listingVars
<1> SUFFICES ASSUME [PathNext]_pathVars
             PROVE  /\ [AccessNext]_accessVars
                    /\ [LifetimeNext]_lifetimeVars
                    /\ [ListingNext]_listingVars
  OBVIOUS
<1>1. CASE AccessNext /\ UNCHANGED <<which, lifetimeVars, listingVars>>
  BY <1>1
<1>2. CASE LifetimeNext /\ UNCHANGED <<which, accessVars, listingVars>>
  BY <1>2
<1>3. CASE ListingNext /\ UNCHANGED <<which, accessVars, lifetimeVars>>
  BY <1>3
<1>4. CASE UNCHANGED pathVars
  BY <1>4 DEF pathVars
<1> QED
  BY <1>1, <1>2, <1>3, <1>4 DEF PathNext

\* The run that explores the three together explores each of them: what is
\* proved of AccessControl, TokenLifetime and UserListing is proved of it.
THEOREM PathImplements == PathSpec => AccessSpec /\ LifetimeSpec /\ ListingSpec
<1>1. PathInit => AccessInit /\ LifetimeInit /\ ListingInit
  BY DEF PathInit
<1> QED
  BY <1>1, PathSteps, PTL DEF PathSpec, AccessSpec, LifetimeSpec, ListingSpec

\* Requests and accounts, tokens and clocks, rows and pages keep their types.
THEOREM PathTypes == PathSpec => []PathTypeOK
<1>1. AccessTypeOK /\ LifetimeTypeOK /\ ListingTypeOK => PathTypeOK
  BY DEF PathTypeOK
<1> QED
  BY <1>1, PathImplements, AccessKeepsTypes, LifetimeKeepsTypes, ListingKeepsTypes, PTL
=============================================================================
