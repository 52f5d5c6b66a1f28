------------------------- MODULE UserService_proofs -------------------------
(***************************************************************************)
(* Proofs about UserService, for any set of requests, users, ids, roles,   *)
(* session ids and token pairs.                                            *)
(*                                                                         *)
(* Every step of the service is a step of the session store or leaves it   *)
(* alone, so whatever SessionCache_proofs shows of the store holds of the  *)
(* service.  Beside IndInv the service keeps ServiceInv, whose conjuncts   *)
(* tie the claims of tokens to the sessions in Redis and on their way      *)
(* there.                                                                  *)
(***************************************************************************)
EXTENDS UserService, SessionCache_proofs

USE DEF At, keyspace, drawn, Rotating, InRotate, Pending, Stored

\* The inductive invariant of the service and the store together.
JointInv == IndInv /\ ServiceTypeOK /\ ServiceInv

\* A session the service stores is a session.
LEMMA SessionForTyped ==
  ASSUME JointInv, NEW u \in User, NEW p \in Pair
  PROVE  SessionFor(u, p) \in Session
BY UserServiceAssumption
DEF JointInv, ServiceTypeOK, Account, SessionFor, Session

\* Claims are claims, and say what the session says.
LEMMA ClaimsForTyped ==
  ASSUME JointInv, NEW u \in User, NEW s \in SessionId
  PROVE  ClaimsFor(u, s) \in Claims
BY UserServiceAssumption
DEF JointInv, ServiceTypeOK, Account, ClaimsFor, Claims

\* A token a request was given is signed.
LEMMA TokenSigned ==
  ASSUME JointInv, NEW p \in released
  PROVE  /\ p \in usedPairs /\ p \in Pair
         /\ claims[p] \in Claims
         /\ claims[p].sid \in usedIds /\ claims[p].sid \in SessionId
         /\ claims[p].user \in UserKey
         /\ \E u \in User : claims[p].user = Canonical[u]
<1>1. p \in usedPairs
  BY DEF JointInv, IndInv, PairLife
<1> QED
  BY <1>1 DEF JointInv, IndInv, TypeOK, ServiceInv, PairsSigned, Claims

\* The token of a request that came with one.
LEMMA RequestToken ==
  ASSUME JointInv, NEW c \in Client, req[c].op \in TokenOp
  PROVE  req[c].token \in released
BY DEF JointInv, ServiceInv, RequestShape

-----------------------------------------------------------------------------
(***************************************************************************)
(* Every step of the service is a step of the session store.               *)
(***************************************************************************)
\* A request arrives and calls the store, or does not.
LEMMA ArriveIsCacheStep ==
  ASSUME JointInv, NEW c \in Client, Arrive(c)
  PROVE  [CacheNext]_cacheVars
<1>1. CASE \E u \in User : CreateUser(c, u) \/ StartLogin(c, u)
  BY <1>1 DEF CreateUser, StartLogin
<1>2. CASE \E op \in TokenOp, p \in Pair : StartWithToken(c, op, p)
  <2>1. PICK p \in released : StartGet(c, claims[p].sid)
    BY <1>2 DEF StartWithToken
  <2> QED
    BY <2>1, TokenSigned DEF CacheNext, Start
<1>3. CASE \E k \in UserKey : StartDeleteAll(c, k)
  BY <1>3 DEF CacheNext, Start
<1> QED
  BY <1>1, <1>2, <1>3 DEF Arrive, StartChange

\* A request goes on: it forgets the answer of its last call or makes the next.
LEMMA ProceedIsCacheStep ==
  ASSUME JointInv, NEW c \in Client, Proceed(c)
  PROVE  [CacheNext]_cacheVars
<1>1. CASE Forget(c)
  BY <1>1 DEF CacheNext
<1>2. CASE UNCHANGED cacheVars
  BY <1>2
<1>3. CASE Login(c)
  <2>1. req[c].user \in User
    BY <1>3 DEF Login, On, JointInv, ServiceInv, RequestShape
  <2>2. PICK s \in SessionId, p \in Pair : StartCreate(c, s, SessionFor(req[c].user, p))
    BY <1>3 DEF Login
  <2> QED
    BY <2>1, <2>2, SessionForTyped DEF CacheNext, Start
<1>4. CASE Refresh(c)
  <2>1. req[c].user \in User /\ req[c].token \in released
    BY <1>4, RequestToken DEF Refresh, On, JointInv, ServiceInv, RequestShape, TokenOp
  <2>2. PICK p \in Pair :
          StartRotate(c, claims[req[c].token].sid, req[c].token, SessionFor(req[c].user, p))
    BY <1>4 DEF Refresh
  <2>3. claims[req[c].token].sid \in SessionId /\ req[c].token \in Pair
    BY <2>1, TokenSigned
  <2> QED
    BY <2>1, <2>2, <2>3, SessionForTyped DEF CacheNext, Start
<1>5. CASE Logout(c)
  <2>1. StartDelete(c, claims[req[c].token].sid) /\ req[c].token \in released
    BY <1>5, RequestToken DEF Logout, Validated, TokenOp
  <2> QED
    BY <2>1, TokenSigned DEF CacheNext, Start
<1>6. CASE LogoutAll(c)
  <2>1. StartDeleteAll(c, claims[req[c].token].user) /\ req[c].token \in released
    BY <1>6, RequestToken DEF LogoutAll, Validated, TokenOp
  <2> QED
    BY <2>1, TokenSigned DEF CacheNext, Start
<1>7. \/ Forget(c) \/ UNCHANGED cacheVars
      \/ Login(c) \/ Refresh(c) \/ Logout(c) \/ LogoutAll(c)
  BY DEF Proceed, ReadRow, Continue, Finish, Refuse, ValidateToken, RefreshToken,
    Answered, Change, CheckRole, CommitRole, RemoveUser, SqlFails
<1> QED
  BY <1>1, <1>2, <1>3, <1>4, <1>5, <1>6, <1>7

\* The two with the commands of the store and the passing of time.
LEMMA ServiceStepIsCacheStep ==
  ASSUME JointInv, [ServiceNext]_serviceVars
  PROVE  [CacheNext]_cacheVars
BY ArriveIsCacheStep, ProceedIsCacheStep
DEF ServiceNext, serviceVars, RunCommand, PassTime, CacheNext

-----------------------------------------------------------------------------
(***************************************************************************)
(* What a command of the store, or time, does to the sessions, the calls   *)
(* and the released pairs.                                                 *)
(***************************************************************************)
Background == (\E c \in Client : Execute(c) \/ CommandFails(c)) \/ Elapse

\* No command draws an id or a pair.
LEMMA CommandsDrawNothing ==
  ASSUME Background PROVE UNCHANGED drawn
BY DEF Background, Execute, CreateTx, Get, DeleteGet, DeleteTx, Watch, RotateGet,
  RotateConflict, RotateExec, SMembers, DelAll, CommandFails, Elapse, Expire,
  Evict, EvictIndex

\* A client on its way to store a session was on it before.
LEMMA CommandsKeepPending ==
  ASSUME IndInv, Background, NEW d \in Client, Pending(d)'
  PROVE  /\ Pending(d) /\ call'[d].next = call[d].next /\ call'[d].sid = call[d].sid
         /\ At(d, "createTx")' => At(d, "createTx")
<1>1. call \in [Client -> Call]
  BY DEF IndInv, TypeOK
<1>2. ASSUME NEW c \in Client, NEW r, NEW x, Return(c, r, x) PROVE d # c
  BY <1>1, <1>2 DEF Return, Idle
<1>3. CASE UNCHANGED call
  BY <1>3
<1>4. ASSUME NEW c \in Client, NEW r, NEW x, Return(c, r, x)
      PROVE  call'[d] = call[d]
  BY <1>1, <1>2, <1>4 DEF Return
<1>5. ASSUME NEW c \in Client,
             Watch(c) \/ RotateConflict(c) \/ RotateGet(c) \/ Get(c) \/ DeleteGet(c)
               \/ SMembers(c),
             \A r, x : ~Return(c, r, x)
      PROVE  /\ Pending(d) /\ call'[d].next = call[d].next /\ call'[d].sid = call[d].sid
             /\ At(d, "createTx")' => At(d, "createTx")
  BY <1>1, <1>5 DEF Watch, RotateConflict, RotateGet, Get, DeleteGet, SMembers, Goto, Call
<1>6. CASE UNCHANGED call \/ \E c \in Client : \E r, x : Return(c, r, x)
  BY <1>3, <1>4, <1>6
<1>7. \/ UNCHANGED call \/ \E c \in Client : \E r, x : Return(c, r, x)
      \/ \E c \in Client : 
          Watch(c) \/ RotateConflict(c) \/ RotateGet(c) \/ Get(c) \/ DeleteGet(c)
               \/ SMembers(c)
  BY DEF Background, Execute, CreateTx, DeleteTx, RotateExec, DelAll, CommandFails,
    Elapse, Expire, Evict, EvictIndex
<1> QED
  BY <1>5, <1>6, <1>7

\* What is stored was stored before or was on its way there.
LEMMA CommandsStorePending ==
  ASSUME IndInv, Background, NEW s \in SessionId, Stored(s)'
  PROVE  \/ Stored(s) /\ sessions'[s] = sessions[s]
         \/ \E d \in Client : /\ Pending(d) /\ call[d].sid = s
                              /\ sessions'[s] = call[d].next
<1>1. CASE \E c \in Client : CreateTx(c) \/ RotateExec(c)
  BY <1>1 DEF CreateTx, RotateExec, Store, IndInv, TypeOK, CallShape
<1>2. CASE \/ \E c \in Client : DeleteTx(c) \/ DelAll(c)
           \/ \E t \in SessionId : Evict(t)
  BY <1>2 DEF DeleteTx, DelAll, Evict, Erase
<1>3. \/ \E c \in Client : CreateTx(c) \/ RotateExec(c)
      \/ \E c \in Client : DeleteTx(c) \/ DelAll(c)
      \/ \E t \in SessionId : Evict(t)
      \/ UNCHANGED sessions
  BY DEF Background, Execute, Get, DeleteGet, Watch, RotateGet, RotateConflict,
    SMembers, CommandFails, Elapse, Expire, EvictIndex
<1> QED
  BY <1>1, <1>2, <1>3

\* A pair is released when its session has been stored, and the Create of
\* that session is over.
LEMMA CommandsReleasePending ==
  ASSUME IndInv, Background, NEW p \in released', p \notin released
  PROVE  \E d \in Client, s \in SessionId :
           Pending(d) /\ call[d].next.pair = p /\ call[d].sid = s /\ ~Creating(s)'
<1>2. ASSUME NEW c \in Client, CreateTx(c), NEW s \in SessionId, s = call[c].sid,
             NEW d \in Client, (At(d, "createTx") /\ call[d].sid = s)'
      PROVE  FALSE
  <2>1. At(d, "createTx") /\ call[d].sid = s
    BY <1>2, CommandsKeepPending
  <2>2. d = c
    BY <1>2, <2>1 DEF CreateTx, IndInv, IdLife
  <2> QED
    BY <1>2, <2>2 DEF CreateTx, Return, Idle, IndInv, TypeOK
<1>3. ASSUME NEW c \in Client, RotateExec(c), NEW s \in SessionId, s = call[c].sid,
             NEW d \in Client, (At(d, "createTx") /\ call[d].sid = s)'
      PROVE  FALSE
  <2>1. At(d, "createTx") /\ call[d].sid = s
    BY <1>3, CommandsKeepPending
  <2>2. ~Stored(s)
    BY <1>3, <2>1 DEF IndInv, IdLife
  <2> QED
    BY <1>3, <2>2 DEF RotateExec, Conflict, IndInv, WatchHolds
<1>4. ASSUME NEW c \in Client, CreateTx(c) \/ RotateExec(c)
      PROVE  Pending(c) /\ call[c].sid \in SessionId
             /\ (p \in released' /\ p \notin released => call[c].next.pair = p)
  BY <1>4 DEF CreateTx, RotateExec, Release, IndInv, CallShape
<1>5. \/ \E c \in Client : CreateTx(c) \/ RotateExec(c)
      \/ UNCHANGED released
  BY DEF Background, Execute, Get, DeleteGet, DeleteTx, Watch, RotateGet,
    RotateConflict, SMembers, DelAll, CommandFails, Elapse, Expire, Evict, EvictIndex
<1>6. PICK c \in Client : CreateTx(c) \/ RotateExec(c)
  BY <1>5
<1> QED
  BY <1>2, <1>3, <1>4, <1>6 DEF Creating

\* Released pairs stay released.
LEMMA ReleasedGrows ==
  ASSUME Background PROVE released \subseteq released'
BY DEF Background, Execute, CreateTx, Release, Get, DeleteGet, DeleteTx, Watch, RotateGet,
  RotateConflict, RotateExec, SMembers, DelAll, CommandFails, Elapse, Expire,
  Evict, EvictIndex

\* A Delete goes on for its session, and answers "ok" only when it is gone; an
\* answer waits until it is used.
LEMMA CommandsEndDelete ==
  ASSUME IndInv, Background, NEW d \in Client
  PROVE  /\ At(d, "idle") => call'[d] = call[d]
         /\ call[d].pc \in {"deleteGet", "deleteTx"} =>
              /\ call'[d].pc \in {"deleteGet", "deleteTx", "idle"}
              /\ ~At(d, "idle")' => call'[d].sid = call[d].sid
              /\ At(d, "idle")' /\ call'[d].res = "ok" =>
                   \A s \in SessionId : s = call[d].sid => sessions'[s] = Nil
<1> DEFINE Claim == /\ At(d, "idle") => call'[d] = call[d]
                    /\ call[d].pc \in {"deleteGet", "deleteTx"} =>
                        /\ call'[d].pc \in {"deleteGet", "deleteTx", "idle"}
                        /\ ~At(d, "idle")' => call'[d].sid = call[d].sid
                        /\ At(d, "idle")' /\ call'[d].res = "ok" =>
                            \A s \in SessionId : s = call[d].sid => sessions'[s] = Nil
<1>1. call \in [Client -> Call]
  BY DEF IndInv, TypeOK
<1>2. CASE call'[d] = call[d]
  BY <1>2
<1>3. ASSUME DeleteGet(d) PROVE Claim
  <2>1. CASE sessions[call[d].sid] = Nil
    <3>1. Return(d, DeleteAnswer(d, "ok"), Nil) /\ UNCHANGED sessions
      BY <1>3, <2>1 DEF DeleteGet
    <3>2. call'[d].pc = "idle"
      BY <1>1, <3>1 DEF Return, Idle
    <3>3. call[d].pc # "idle"
      BY <1>3 DEF DeleteGet
    <3> QED
      BY <2>1, <3>1, <3>2, <3>3
  <2>2. CASE sessions[call[d].sid] # Nil
    BY <1>1, <1>3, <2>2 DEF DeleteGet, Call
  <2> QED
    BY <2>1, <2>2
<1>4. ASSUME DeleteTx(d) PROVE Claim
  <2>1. \A s \in SessionId : s = call[d].sid => sessions'[s] = Nil
    BY <1>4 DEF DeleteTx, Erase
  <2> QED
    BY <1>1, <1>4, <2>1 DEF DeleteTx, Return, Idle
<1>5. ASSUME CommandFails(d) PROVE Claim
  BY <1>1, <1>5 DEF CommandFails, DeleteAnswer, Return, Idle
<1>6. ASSUME call[d].pc \notin {"idle", "deleteGet", "deleteTx"} PROVE Claim
  BY <1>6
<1>7. ASSUME NEW c \in Client, Execute(c) \/ CommandFails(c), c # d PROVE call'[d] = call[d]
  BY <1>1, <1>7 DEF Execute, CreateTx, Get, DeleteGet, DeleteTx, Watch, RotateGet,
    RotateConflict, RotateExec, SMembers, DelAll, CommandFails, Return, Goto
<1>8. ASSUME Elapse PROVE call'[d] = call[d]
  BY <1>8 DEF Elapse, Expire, Evict, EvictIndex
<1>9. ASSUME Execute(d), ~DeleteGet(d), ~DeleteTx(d)
      PROVE  call[d].pc \notin {"idle", "deleteGet", "deleteTx"}
  BY <1>9 DEF Execute, CreateTx, Get, Watch, RotateGet, RotateConflict, RotateExec,
    SMembers, DelAll
<1> QED
  BY <1>2, <1>3, <1>4, <1>5, <1>6, <1>7, <1>8, <1>9 DEF Background

\* Commands and time keep the invariant.
LEMMA BackgroundKeeps ==
  ASSUME JointInv, Background, UNCHANGED <<account, claims, req>>
  PROVE  JointInv'
<1>1. [CacheNext]_cacheVars
  BY DEF Background, CacheNext
<1>2. IndInv'
  BY <1>1, NextKeeps DEF JointInv
<1>3. ServiceTypeOK'
  BY <1>2 DEF JointInv, IndInv, ServiceTypeOK
<1>4. RequestShape'
  BY ReleasedGrows DEF JointInv, ServiceInv, RequestShape
<1>5. PairsSigned'
  BY CommandsDrawNothing DEF JointInv, ServiceInv, PairsSigned
<1>6. TokensMatch'
  <2>1. ASSUME NEW s \in SessionId, Stored(s)' PROVE Says(sessions[s].pair, s, sessions[s])'
    BY <2>1, CommandsStorePending DEF JointInv, ServiceInv, TokensMatch, Says
  <2>2. ASSUME NEW c \in Client, Pending(c)'
        PROVE  Says(call[c].next.pair, call[c].sid, call[c].next)'
    BY <2>2, CommandsKeepPending DEF JointInv, ServiceInv, TokensMatch, Says
  <2> QED
    BY <2>1, <2>2 DEF TokensMatch
<1>7. ASSUME NEW s, Creating(s)' PROVE Creating(s)
  BY <1>7, CommandsKeepPending DEF JointInv, Creating
<1>8. ReleasedOnceStored'
  <2>1. ASSUME NEW p \in released PROVE ~Creating(claims[p].sid)'
    BY <1>7 DEF JointInv, ServiceInv, ReleasedOnceStored, Creating
  <2>2. ASSUME NEW p \in released', p \notin released PROVE ~Creating(claims[p].sid)'
    <3>1. PICK d \in Client, s \in SessionId :
            Pending(d) /\ call[d].next.pair = p /\ call[d].sid = s /\ ~Creating(s)'
      BY <2>2, CommandsReleasePending DEF JointInv
    <3>2. claims[p].sid = s
      BY <3>1 DEF JointInv, ServiceInv, TokensMatch, Says
    <3> QED
      BY <3>1, <3>2 DEF Creating
  <2> QED
    BY <2>1, <2>2 DEF ReleasedOnceStored
<1>9. LogoutDecides'
  <2> SUFFICES ASSUME NEW c \in Client, req[c].op = "logout", req[c].pc = "ending",
                      NEW s, s = claims[req[c].token].sid
               PROVE  /\ call'[c].pc \in {"deleteGet", "deleteTx", "idle"}
                      /\ ~At(c, "idle")' => call'[c].sid = s
                      /\ At(c, "idle")' /\ call'[c].res = "ok" => sessions'[s] = Nil
    BY DEF LogoutDecides
  <2>1. /\ call[c].pc \in {"deleteGet", "deleteTx", "idle"}
        /\ ~At(c, "idle") => call[c].sid = s
        /\ At(c, "idle") /\ call[c].res = "ok" => sessions[s] = Nil
    BY DEF JointInv, ServiceInv, LogoutDecides
  <2>2. s \in SessionId /\ ~Creating(s)
    BY RequestToken, TokenSigned DEF TokenOp, JointInv, ServiceInv, ReleasedOnceStored
  <2>3. sessions[s] = Nil => sessions'[s] = Nil
    BY <1>1, <2>2, OnlyCreateStarts DEF JointInv
  <2> QED
    BY <2>1, <2>2, <2>3, CommandsEndDelete DEF JointInv
<1> QED
  BY <1>2, <1>3, <1>4, <1>5, <1>6, <1>8, <1>9 DEF JointInv, ServiceInv

-----------------------------------------------------------------------------
(***************************************************************************)
(* What a request does between its calls to the store.                     *)
(***************************************************************************)
\* Client c, which waits for no command, moves on; nobody else does.
Moves(c) ==
  /\ At(c, "idle")
  /\ UNCHANGED <<keyspace, released>>
  /\ \A d \in Client \ {c} : call'[d] = call[d] /\ req'[d] = req[d]

\* A step that signs nothing leaves the tokens as they are.
LEMMA MoveKeepsTokens ==
  ASSUME JointInv, NEW c \in Client, Moves(c), ~Pending(c)',
         UNCHANGED <<claims, drawn>>
  PROVE  PairsSigned' /\ TokensMatch' /\ ReleasedOnceStored'
<1>1. PairsSigned'
  BY DEF JointInv, ServiceInv, PairsSigned
<1>2. \A d \in Client : Pending(d)' => d # c /\ call'[d] = call[d]
  BY DEF Moves
<1>3. TokensMatch'
  BY <1>2 DEF Moves, JointInv, ServiceInv, TokensMatch, Says
<1>4. ReleasedOnceStored'
  BY <1>2 DEF Moves, JointInv, ServiceInv, ReleasedOnceStored, Creating
<1> QED
  BY <1>1, <1>3, <1>4

\* issueTokenPair signs what the session it is about to store says.
LEMMA SignKeepsTokens ==
  ASSUME JointInv, NEW c \in Client, Moves(c), NEW u \in User, NEW s \in SessionId,
         NEW p \in Pair, Sign(u, s, p), p \notin usedPairs,
         usedPairs' = usedPairs \cup {p}, usedIds' = usedIds \cup {s},
         call'[c].next = SessionFor(u, p), call'[c].sid = s,
         At(c, "createTx")' => s \notin usedIds
  PROVE  PairsSigned' /\ TokensMatch' /\ ReleasedOnceStored'
<1>1. /\ claims'[p] = ClaimsFor(u, s)
      /\ \A q \in Pair : q # p => claims'[q] = claims[q]
      /\ usedPairs \subseteq Pair
  BY DEF Sign, JointInv, IndInv, TypeOK, ServiceTypeOK
<1>2. PairsSigned'
  BY <1>1, ClaimsForTyped DEF JointInv, ServiceInv, PairsSigned, ClaimsFor
<1>3. TokensMatch'
  <2>1. ASSUME NEW t \in SessionId, Stored(t)' PROVE Says(sessions[t].pair, t, sessions[t])'
    <3>1. sessions[t].pair \in usedPairs /\ sessions'[t] = sessions[t]
      BY <2>1 DEF Moves, JointInv, IndInv, PairLife
    <3> QED
      BY <1>1, <2>1, <3>1 DEF Moves, JointInv, ServiceInv, TokensMatch, Says
  <2>2. ASSUME NEW d \in Client, Pending(d)'
        PROVE  Says(call[d].next.pair, call[d].sid, call[d].next)'
    <3>1. CASE d = c
      BY <1>1, <3>1 DEF Says, ClaimsFor, SessionFor
    <3>2. CASE d # c
      <4>1. call'[d] = call[d] /\ Pending(d)
        BY <2>2, <3>2 DEF Moves
      <4>2. call[d].next.pair \in usedPairs
        BY <4>1 DEF JointInv, IndInv, PairLife
      <4> QED
        BY <1>1, <4>1, <4>2 DEF JointInv, ServiceInv, TokensMatch, Says
    <3> QED
      BY <3>1, <3>2
  <2> QED
    BY <2>1, <2>2 DEF TokensMatch
<1>4. ReleasedOnceStored'
  <2> SUFFICES ASSUME NEW q \in released,
                      NEW d \in Client, At(d, "createTx")', call'[d].sid = claims'[q].sid
               PROVE  FALSE
    BY DEF ReleasedOnceStored, Creating, Moves
  <2>1. q \in usedPairs /\ claims'[q] = claims[q] /\ claims[q].sid \in usedIds
    BY <1>1, TokenSigned
  <2>2. CASE d = c
    BY <2>1, <2>2
  <2>3. CASE d # c
    BY <2>1, <2>3 DEF Moves, JointInv, ServiceInv, ReleasedOnceStored, Creating
  <2> QED
    BY <2>2, <2>3
<1> QED
  BY <1>2, <1>3, <1>4

\* The claims of the tokens callers hold do not change.
LEMMA MoveKeepsLogouts ==
  ASSUME JointInv, NEW c \in Client, Moves(c),
         \A p \in released : claims'[p] = claims[p],
         ~(req'[c].op = "logout" /\ req'[c].pc = "ending")
           \/ (/\ call'[c].pc = "deleteGet"
               /\ call'[c].sid = claims'[req'[c].token].sid)
  PROVE  LogoutDecides'
<1> SUFFICES ASSUME NEW d \in Client, d # c, req[d].op = "logout", req[d].pc = "ending"
             PROVE  LET s == claims'[req[d].token].sid IN
                    /\ call[d].pc \in {"deleteGet", "deleteTx", "idle"}
                    /\ ~At(d, "idle") => call[d].sid = s
                    /\ At(d, "idle") /\ call[d].res = "ok" => sessions[s] = Nil
  BY DEF LogoutDecides, Moves
<1>1. req[d].token \in released
  BY RequestToken DEF TokenOp
<1> QED
  BY <1>1 DEF JointInv, ServiceInv, LogoutDecides

\* What ServiceTypeOK and RequestShape ask of a request.
Fits(r) ==
  /\ r \in Request
  /\ r.op \in TokenOp => r.token \in released
  /\ r.op \in RoleOp => r.role \in Role
  /\ r.pc = "validating" => r.op \in TokenOp
  /\ r.pc \in {"row", "roles", "check", "commit", "remove"} => r.user \in User

\* Every request fits ...
LEMMA RequestFits ==
  ASSUME JointInv, NEW c \in Client PROVE Fits(req[c])
BY DEF JointInv, ServiceTypeOK, ServiceInv, RequestShape, Fits

\* ... and goes on fitting when it becomes one that does.
LEMMA FittingRequest ==
  ASSUME JointInv, NEW c \in Client, NEW r, Fits(r), req' = [req EXCEPT ![c] = r],
         released \subseteq released'
  PROVE  req' \in [Client -> Request] /\ RequestShape'
BY DEF JointInv, ServiceTypeOK, ServiceInv, RequestShape, Fits

\* A request that is over fits.
LEMMA NoRequestFits == Fits(NoReq)
BY DEF Fits, NoReq, Request, TokenOp, ChangeOp, RoleOp

\* Moving on within an operation.
LEMMA NextPlaceFits ==
  ASSUME JointInv, NEW c \in Client, NEW u \in User \cup {Nil},
         NEW pc \in {"row", "roles", "storing", "ending", "check", "commit", "remove"},
         pc \in {"row", "roles", "check", "commit", "remove"} => u \in User
  PROVE  Fits([req[c] EXCEPT !.pc = pc, !.user = u])
BY RequestFits DEF Fits, Request

\* A step of a request that signs nothing keeps the invariant.
LEMMA QuietKeeps ==
  ASSUME JointInv, NEW c \in Client, At(c, "idle"), NEW r, Fits(r),
         req' = [req EXCEPT ![c] = r], claims' = claims,
         account' \in [User -> Account],
         \/ /\ Forget(c) \/ UNCHANGED cacheVars
               \/ (\E s \in SessionId : StartGet(c, s))
               \/ (\E u \in UserKey : StartDeleteAll(c, u))
            /\ ~(r.op = "logout" /\ r.pc = "ending")
         \/ r.op = "logout" /\ StartDelete(c, claims[r.token].sid)
  PROVE  ServiceInv' /\ (TypeOK' => ServiceTypeOK')
<1>0. call \in [Client -> Call] /\ req \in [Client -> Request]
  BY DEF JointInv, ServiceTypeOK, TypeOK
<1>1. Moves(c) /\ ~Pending(c)' /\ UNCHANGED drawn
  <2>1. req' \in [Client -> Request] /\ \A d \in Client \ {c} : req'[d] = req[d]
    BY <1>0 DEF Fits
  <2>2. /\ UNCHANGED <<keyspace, released, drawn>>
        /\ \/ UNCHANGED call
           \/ \E k \in Call : /\ call' = [call EXCEPT ![c] = k]
                             /\ k.pc \in {"idle", "get", "deleteGet", "smembers"}
    <3>1. CASE Forget(c)
      <4>1. Idle \in Call
        BY DEF Idle, Call, Op, PC, Answer
      <4> QED
        BY <3>1, <4>1 DEF Forget, Idle
    <3>2. CASE UNCHANGED cacheVars
      BY <3>2 DEF cacheVars
    <3>3. CASE \E s \in SessionId : StartGet(c, s)
      BY <3>3 DEF StartGet, Idle, Call, Op, PC, Answer
    <3>4. CASE \E u \in UserKey : StartDeleteAll(c, u)
      BY <3>4 DEF StartDeleteAll, Idle, Call, Op, PC, Answer
    <3>5. CASE r.op = "logout" /\ StartDelete(c, claims[r.token].sid)
      <4>1. claims[r.token].sid \in SessionId
        BY <3>5, TokenSigned DEF Fits, TokenOp
      <4> DEFINE k == [Idle EXCEPT !.op = "delete", !.pc = "deleteGet",
                                   !.sid = claims[r.token].sid]
      <4>2. k \in Call /\ k.pc = "deleteGet"
        BY <4>1 DEF Idle, Call, Op, PC, Answer
      <4> QED
        BY <3>5, <4>2 DEF StartDelete
    <3> QED
      BY <3>1, <3>2, <3>3, <3>4, <3>5
  <2> QED
    BY <1>0, <2>1, <2>2 DEF Moves
<1>2. req'[c] = r
  BY <1>0
<1>3. req' \in [Client -> Request] /\ RequestShape'
  BY <1>1, FittingRequest DEF Moves
<1>4. ~(r.op = "logout" /\ r.pc = "ending")
        \/ (call'[c].pc = "deleteGet" /\ call'[c].sid = claims'[r.token].sid)
  BY DEF StartDelete, Idle, JointInv, IndInv, TypeOK
<1>5. LogoutDecides'
  BY <1>1, <1>2, <1>4, MoveKeepsLogouts
<1>6. PairsSigned' /\ TokensMatch' /\ ReleasedOnceStored'
  BY <1>1, MoveKeepsTokens
<1> QED
  BY <1>3, <1>5, <1>6 DEF ServiceInv, JointInv, ServiceTypeOK

\* A step of a request that signs keeps the invariant.
LEMMA SignKeeps ==
  ASSUME JointInv, NEW c \in Client, NEW u \in User, NEW s \in SessionId, NEW p \in Pair,
         Sign(u, s, p), Move(c, "storing"), On(c, "roles"), UNCHANGED account,
         \/ StartCreate(c, s, SessionFor(u, p))
         \/ s \in usedIds /\ \E q \in Pair : StartRotate(c, s, q, SessionFor(u, p))
  PROVE  ServiceInv' /\ (TypeOK' => ServiceTypeOK')
<1>1. SessionFor(u, p).pair = p
  BY DEF SessionFor
<1>2. Moves(c)
  <2>1. call \in [Client -> Call] /\ req \in [Client -> Request]
    BY DEF JointInv, ServiceTypeOK, TypeOK
  <2>2. /\ UNCHANGED <<keyspace, released>>
        /\ \E k : call' = [call EXCEPT ![c] = k]
    <3>1. CASE StartCreate(c, s, SessionFor(u, p))
      BY <3>1 DEF StartCreate
    <3>2. CASE \E q \in Pair : StartRotate(c, s, q, SessionFor(u, p))
      BY <3>2 DEF StartRotate
    <3> QED
      BY <3>1, <3>2
  <2>3. PICK k : call' = [call EXCEPT ![c] = k]
    BY <2>2
  <2>4. \A d \in Client \ {c} : call'[d] = call[d] /\ req'[d] = req[d]
    BY <2>1, <2>3 DEF Move
  <2> QED
    BY <2>2, <2>4 DEF Moves, On
<1>3. /\ p \notin usedPairs /\ usedPairs' = usedPairs \cup {p}
      /\ usedIds' = usedIds \cup {s}
      /\ call'[c].next = SessionFor(u, p) /\ call'[c].sid = s
      /\ At(c, "createTx")' => s \notin usedIds
  <2>0. call \in [Client -> Call]
    BY DEF JointInv, IndInv, TypeOK
  <2>1. CASE StartCreate(c, s, SessionFor(u, p))
    <3>1. /\ p \notin usedPairs /\ usedPairs' = usedPairs \cup {p}
          /\ usedIds' = usedIds \cup {s} /\ s \notin usedIds
      BY <1>1, <2>1 DEF StartCreate
    <3>2. call'[c].next = SessionFor(u, p) /\ call'[c].sid = s
      BY <2>0, <2>1 DEF StartCreate, Idle
    <3> QED
      BY <3>1, <3>2
  <2>2. CASE s \in usedIds /\ \E q \in Pair : StartRotate(c, s, q, SessionFor(u, p))
    <3>1. PICK q \in Pair : StartRotate(c, s, q, SessionFor(u, p))
      BY <2>2
    <3>2. p \notin usedPairs /\ usedPairs' = usedPairs \cup {p} /\ usedIds' = usedIds
      BY <1>1, <3>1 DEF StartRotate
    <3>3. /\ call'[c].next = SessionFor(u, p) /\ call'[c].sid = s
          /\ call'[c].pc = "watch"
      BY <2>0, <3>1 DEF StartRotate, Idle
    <3> QED
      BY <2>2, <3>2, <3>3
  <2> QED
    BY <2>1, <2>2
<1>4. PairsSigned' /\ TokensMatch' /\ ReleasedOnceStored'
  BY <1>2, <1>3, SignKeepsTokens
<1> DEFINE r == [req[c] EXCEPT !.pc = "storing", !.user = req[c].user]
<1>5. Fits(r) /\ req' = [req EXCEPT ![c] = r] /\ r.pc = "storing"
  <2>1. req[c] \in Request
    BY DEF JointInv, ServiceTypeOK
  <2>2. Fits(r)
    BY <2>1, NextPlaceFits DEF Request
  <2> QED
    BY <2>1, <2>2 DEF Move, JointInv, ServiceTypeOK, Request
<1>6. req' \in [Client -> Request] /\ RequestShape'
  BY <1>2, <1>5, FittingRequest DEF Moves
<1>7. LogoutDecides'
  <2>1. \A q \in released : claims'[q] = claims[q]
    BY <1>3, TokenSigned DEF Sign, JointInv, ServiceTypeOK
  <2>2. req'[c].pc = "storing"
    BY <1>5 DEF JointInv, ServiceTypeOK
  <2> QED
    BY <1>2, <2>1, <2>2, MoveKeepsLogouts
<1>8. claims' \in [Pair -> Claims \cup {Nil}]
  BY ClaimsForTyped DEF Sign, JointInv, ServiceTypeOK
<1> QED
  BY <1>4, <1>6, <1>7, <1>8 DEF ServiceInv, JointInv, ServiceTypeOK

-----------------------------------------------------------------------------
(***************************************************************************)
(* One step for each action of a request.                                  *)
(***************************************************************************)
\* What a step of a request must keep, beside the invariant of the store.
Kept == ServiceInv' /\ (TypeOK' => ServiceTypeOK')

\* A request arrives.
LEMMA ArriveKeeps ==
  ASSUME JointInv, NEW c \in Client, Arrive(c)
  PROVE  Kept
<1>0. At(c, "idle") /\ req[c].pc = "idle" /\ req \in [Client -> Request]
  BY DEF Arrive, CreateUser, StartLogin, StartWithToken, StartChange, On, JointInv,
    ServiceTypeOK
<1>1. ASSUME NEW u \in User, CreateUser(c, u) PROVE Kept
  <2>1. req' = [req EXCEPT ![c] = req[c]]
    BY <1>0, <1>1 DEF CreateUser
  <2>2. account' \in [User -> Account]
    <3>1. [status |-> "active", roles |-> {Customer}, revision |-> 0] \in Account
      BY UserServiceAssumption DEF Account, Status
    <3> QED
      BY <1>1, <3>1 DEF CreateUser, JointInv, ServiceTypeOK
  <2>3. UNCHANGED cacheVars /\ claims' = claims
    BY <1>1 DEF CreateUser
  <2> QED
    BY <1>0, <2>1, <2>2, <2>3, RequestFits, QuietKeeps DEF Kept
<1>2. ASSUME NEW u \in User, StartLogin(c, u) PROVE Kept
  <2> DEFINE r == [NoReq EXCEPT !.op = "login", !.pc = "row", !.user = u]
  <2>1. Fits(r) /\ r.op # "logout"
    BY DEF Fits, NoReq, Request, TokenOp, ChangeOp, RoleOp
  <2>2. UNCHANGED cacheVars /\ claims' = claims /\ account' \in [User -> Account]
        /\ req' = [req EXCEPT ![c] = r]
    BY <1>2 DEF StartLogin, JointInv, ServiceTypeOK
  <2> HIDE DEF r
  <2> QED
    BY <1>0, <2>1, <2>2, QuietKeeps DEF Kept
<1>3. ASSUME NEW op \in TokenOp, NEW p \in Pair, StartWithToken(c, op, p) PROVE Kept
  <2> DEFINE r == [NoReq EXCEPT !.op = op, !.pc = "validating", !.token = p]
  <2>1. Fits(r) /\ r.pc # "ending"
    BY <1>3 DEF StartWithToken, Fits, NoReq, Request, TokenOp, ChangeOp, RoleOp
  <2>2. StartGet(c, claims[p].sid) /\ claims' = claims /\ account' \in [User -> Account]
        /\ req' = [req EXCEPT ![c] = r] /\ p \in released
    BY <1>3 DEF StartWithToken, JointInv, ServiceTypeOK
  <2>3. \E s \in SessionId : StartGet(c, s)
    BY <2>2, TokenSigned
  <2> HIDE DEF r
  <2> QED
    BY <1>0, <2>1, <2>2, <2>3, QuietKeeps DEF Kept
<1>4. ASSUME NEW op \in ChangeOp, NEW k \in UserKey, NEW role \in Role \cup {Nil},
             op \in RoleOp => role \in Role, StartChange(c, op, k, role)
      PROVE  Kept
  <2> DEFINE r == [NoReq EXCEPT !.op = op, !.pc = "revoking", !.user = Parse[k],
                                !.role = role]
  <2>1. Fits(r) /\ r.pc # "ending"
    BY <1>4, UserServiceAssumption DEF Fits, NoReq, Request, TokenOp, ChangeOp, RoleOp
  <2>2. StartDeleteAll(c, k) /\ claims' = claims /\ account' \in [User -> Account]
        /\ req' = [req EXCEPT ![c] = r]
    BY <1>4 DEF StartChange, JointInv, ServiceTypeOK
  <2> HIDE DEF r
  <2> QED
    BY <1>0, <2>1, <2>2, QuietKeeps DEF Kept
<1> QED
  BY <1>1, <1>2, <1>3, <1>4 DEF Arrive, ChangeOp, RoleOp

\* A step that only moves the request on, or ends it.
LEMMA OnwardKeeps ==
  ASSUME JointInv, NEW c \in Client, Forget(c), claims' = claims,
         account' \in [User -> Account],
         NEW r, Fits(r), req' = [req EXCEPT ![c] = r],
         ~(r.op = "logout" /\ r.pc = "ending")
  PROVE  Kept
<1>1. At(c, "idle")
  BY DEF Forget
<1> QED
  BY <1>1, QuietKeeps DEF Kept

\* A request ends.
LEMMA FinishKeeps ==
  ASSUME JointInv, NEW c \in Client, Finish(c), claims' = claims,
         account' \in [User -> Account]
  PROVE  Kept
<1>1. Forget(c) /\ req' = [req EXCEPT ![c] = NoReq]
  BY DEF Finish
<1>2. Fits(NoReq) /\ NoReq.op # "logout"
  BY NoRequestFits DEF NoReq
<1> QED
  BY <1>1, <1>2, OnwardKeeps

\* A change of roles or of the account, or a login, goes on.
LEMMA ContinueKeeps ==
  ASSUME JointInv, NEW c \in Client,
         NEW pc \in {"roles", "check", "commit", "remove"}, Continue(c, pc),
         req[c].user \in User, claims' = claims, account' \in [User -> Account]
  PROVE  Kept
<1> DEFINE r == [req[c] EXCEPT !.pc = pc, !.user = req[c].user]
<1>1. req \in [Client -> Request]
  BY DEF JointInv, ServiceTypeOK
<1>2. Fits(r)
  BY NextPlaceFits
<1>3. r.pc # "ending" /\ req' = [req EXCEPT ![c] = r] /\ Forget(c)
  BY <1>1 DEF Continue, Move, Request
<1> HIDE DEF r
<1> QED
  BY <1>2, <1>3, OnwardKeeps

\* A request runs its next statement or its next call.
LEMMA ProceedKeeps ==
  ASSUME JointInv, NEW c \in Client, Proceed(c)
  PROVE  Kept
<1>0. /\ req \in [Client -> Request] /\ req[c] \in Request
      /\ account \in [User -> Account]
  BY DEF JointInv, ServiceTypeOK
<1>1. ASSUME Finish(c), claims' = claims, account' = account PROVE Kept
  BY <1>0, <1>1, FinishKeeps
<1>2. ASSUME ReadRow(c) PROVE Kept
  BY <1>0, <1>1, <1>2, ContinueKeeps, RequestFits DEF ReadRow, On, Fits
<1>3. ASSUME Login(c) PROVE Kept
  <2>1. req[c].user \in User
    BY <1>3, RequestFits DEF Login, On, Fits
  <2>2. PICK s \in SessionId, p \in Pair :
          StartCreate(c, s, SessionFor(req[c].user, p)) /\ Sign(req[c].user, s, p)
    BY <1>3 DEF Login
  <2> QED
    BY <1>3, <2>1, <2>2, SignKeeps DEF Login, Kept
<1>4. ASSUME Refresh(c) PROVE Kept
  <2>1. req[c].user \in User /\ req[c].token \in released
    BY <1>4, RequestFits DEF Refresh, On, Fits, TokenOp
  <2> DEFINE s == claims[req[c].token].sid
  <2>2. s \in SessionId /\ s \in usedIds /\ req[c].token \in Pair
    BY <2>1, TokenSigned
  <2>3. PICK p \in Pair :
          StartRotate(c, s, req[c].token, SessionFor(req[c].user, p)) /\ Sign(req[c].user, s, p)
    BY <1>4 DEF Refresh
  <2> HIDE DEF s
  <2> QED
    BY <1>4, <2>1, <2>2, <2>3, SignKeeps DEF Refresh, Kept
<1>5. ASSUME RefreshToken(c) PROVE Kept
  <2> DEFINE u == Parse[claims[req[c].token].user]
             r == [req[c] EXCEPT !.pc = "row", !.user = u]
  <2>1. u \in User
    BY <1>5, RequestFits, TokenSigned, UserServiceAssumption
    DEF RefreshToken, Validated, Fits, TokenOp
  <2>2. Fits(r)
    BY <2>1, NextPlaceFits
  <2>3. r.pc # "ending" /\ req' = [req EXCEPT ![c] = r] /\ Forget(c)
        /\ claims' = claims /\ account' = account
    BY <1>0, <1>5 DEF RefreshToken, Request
  <2> HIDE DEF r
  <2> QED
    BY <1>0, <2>2, <2>3, OnwardKeeps
<1>6. ASSUME NEW op \in {"logout", "logoutAll"}, Validated(c, op), Move(c, "ending"),
             claims' = claims, account' = account,
             \/ op = "logout" /\ StartDelete(c, claims[req[c].token].sid)
             \/ op = "logoutAll" /\ StartDeleteAll(c, claims[req[c].token].user)
      PROVE  Kept
  <2> DEFINE r == [req[c] EXCEPT !.pc = "ending", !.user = req[c].user]
  <2>1. Fits(r) /\ r.op = op /\ r.token = req[c].token /\ r.token \in released
    <3>1. req[c].user \in User \cup {Nil}
      BY <1>0 DEF Request
    <3>2. Fits(r)
      BY <3>1, NextPlaceFits
    <3>3. r.op = op /\ r.token = req[c].token
      BY <1>0, <1>6 DEF Validated, Request
    <3>4. r.op \in TokenOp
      BY <3>3 DEF TokenOp
    <3> QED
      BY <3>2, <3>3, <3>4 DEF Fits
  <2>2. req' = [req EXCEPT ![c] = r]
    BY <1>0, <1>6 DEF Move, Request
  <2>3. At(c, "idle") /\ claims[r.token].user \in UserKey
    BY <1>6, <2>1, TokenSigned DEF Validated, On
  <2> HIDE DEF r
  <2> QED
    BY <1>0, <1>6, <2>1, <2>2, <2>3, QuietKeeps DEF Kept
<1>7. ASSUME Change(c) PROVE Kept
  <2>1. CASE Finish(c)
    BY <1>1, <1>7, <2>1 DEF Change
  <2>2. CASE req[c].user # Nil /\ (Continue(c, "check") \/ Continue(c, "remove"))
    <3>1. req[c].user \in User
      BY <1>0, <2>2 DEF Request
    <3> QED
      BY <1>0, <1>7, <2>2, <3>1, ContinueKeeps DEF Change
  <2> QED
    BY <1>7, <2>1, <2>2 DEF Change
<1>8. ASSUME CheckRole(c) PROVE Kept
  BY <1>0, <1>1, <1>8, ContinueKeeps, RequestFits DEF CheckRole, On, Fits
<1>9. ASSUME CommitRole(c) PROVE Kept
  <2>1. req[c].user \in User
    BY <1>9, RequestFits DEF CommitRole, On, Fits
  <2>2. account' \in [User -> Account]
    <3>1. CASE account' = account
      BY <1>0, <3>1
    <3>2. CASE account' # account
      <4> DEFINE u == req[c].user
      <4>1. PICK new \in RoleList :
              /\ account[u].revision < MaxRevision
              /\ account' = [account EXCEPT ![u].roles = new, ![u].revision = @ + 1]
        <5>1. account[u].roles \in SUBSET Role /\ account[u] \in Account
          BY <1>0, <2>1, UserServiceAssumption DEF Account
        <5>2. CASE req[c].op = "assign"
          <6>1. req[c].role \in Role
            BY <5>2, RequestFits DEF Fits, RoleOp
          <6>2. account[u].roles \cup {req[c].role} \in RoleList
            BY <5>1, <6>1, UserServiceAssumption
          <6> QED
            BY <1>9, <3>2, <5>2, <6>2 DEF CommitRole
        <5>3. CASE req[c].op # "assign"
          <6>1. account[u].roles \ {req[c].role} \in RoleList
            BY <5>1, UserServiceAssumption
          <6> QED
            BY <1>9, <3>2, <5>3, <6>1 DEF CommitRole
        <5> QED
          BY <5>2, <5>3
      <4> QED
        BY <1>0, <2>1, <4>1, UserServiceAssumption DEF Account
    <3> QED
      BY <3>1, <3>2
  <2> QED
    BY <1>9, <2>2, FinishKeeps DEF CommitRole
<1>10. ASSUME RemoveUser(c) PROVE Kept
  <2>1. account' \in [User -> Account]
    BY <1>0, <1>10 DEF RemoveUser, Account, Status
  <2> QED
    BY <1>10, <2>1, FinishKeeps DEF RemoveUser
<1>11. ASSUME Refuse(c) \/ ValidateToken(c) \/ Answered(c) \/ SqlFails(c) PROVE Kept
  BY <1>1, <1>11 DEF Refuse, ValidateToken, Answered, SqlFails
<1>12. ASSUME Logout(c) \/ LogoutAll(c) PROVE Kept
  BY <1>6, <1>12 DEF Logout, LogoutAll
<1> QED
  BY <1>2, <1>3, <1>4, <1>5, <1>7, <1>8, <1>9, <1>10, <1>11, <1>12 DEF Proceed

-----------------------------------------------------------------------------
\* The service starts in the invariant.
LEMMA ServiceInitEstablishes == ServiceInit => JointInv
<1> SUFFICES ASSUME ServiceInit PROVE JointInv
  OBVIOUS
<1>1. IndInv
  BY InitEstablishes DEF ServiceInit
<1>2. /\ account = [u \in User |-> [status |-> "absent", roles |-> {}, revision |-> 0]]
      /\ claims = [p \in Pair |-> Nil] /\ req = [c \in Client |-> NoReq]
      /\ usedPairs = {} /\ released = {}
      /\ sessions = [s \in SessionId |-> Nil] /\ call = [c \in Client |-> Idle]
  BY DEF ServiceInit, CacheInit
<1>3. ServiceTypeOK
  <2>1. NoReq \in Request
    BY DEF NoReq, Request
  <2>2. [status |-> "absent", roles |-> {}, revision |-> 0] \in Account
    BY UserServiceAssumption DEF Account, Status
  <2> QED
    BY <1>1, <1>2, <2>1, <2>2 DEF ServiceTypeOK, IndInv
<1>4. RequestShape
  BY <1>2 DEF RequestShape, NoReq, TokenOp, RoleOp
<1>5. PairsSigned /\ TokensMatch /\ ReleasedOnceStored
  BY <1>2 DEF PairsSigned, TokensMatch, ReleasedOnceStored, Idle
<1>6. LogoutDecides
  BY <1>2 DEF LogoutDecides, NoReq
<1> QED
  BY <1>1, <1>3, <1>4, <1>5, <1>6 DEF JointInv, ServiceInv

\* Every step keeps the joint invariant.
LEMMA ServiceNextKeeps == JointInv /\ [ServiceNext]_serviceVars => JointInv'
<1> SUFFICES ASSUME JointInv, [ServiceNext]_serviceVars PROVE JointInv'
  OBVIOUS
<1>1. IndInv'
  BY ServiceStepIsCacheStep, NextKeeps DEF JointInv
<1>2. ASSUME NEW c \in Client, Arrive(c) \/ Proceed(c) PROVE JointInv'
  <2>1. Kept
    BY <1>2, ArriveKeeps, ProceedKeeps
  <2> QED
    BY <1>1, <2>1 DEF Kept, JointInv, IndInv
<1>3. CASE (\E c \in Client : RunCommand(c)) \/ PassTime
  <2>1. Background /\ UNCHANGED <<account, claims, req>>
    BY <1>3 DEF RunCommand, PassTime, Background
  <2> QED
    BY <2>1, BackgroundKeeps
<1>4. CASE UNCHANGED serviceVars
  BY <1>4 DEF serviceVars, cacheVars, JointInv, IndInv, TypeOK, CallShape, PairLife,
    WatchHolds, ConflictDecides, IdLife, Owner, IndexedSessionsAreOwn, HoldsToken,
    SameUser, ServiceTypeOK, ServiceInv, RequestShape, PairsSigned, TokensMatch, Says,
    ReleasedOnceStored, Creating, LogoutDecides
<1> QED
  BY <1>2, <1>3, <1>4 DEF ServiceNext

\* The joint invariant holds of every behaviour of the service.
THEOREM ServiceInvariance == ServiceSpec => []JointInv
<1>1. ServiceInit => JointInv
  BY ServiceInitEstablishes
<1>2. JointInv /\ [ServiceNext]_serviceVars => JointInv'
  BY ServiceNextKeeps
<1> QED
  BY <1>1, <1>2, PTL DEF ServiceSpec

\* Its part about the service, which TLC checks too.
THEOREM ServiceInvHolds == ServiceSpec => []ServiceIndInv
<1>1. JointInv => ServiceIndInv
  BY DEF JointInv, ServiceIndInv
<1> QED
  BY <1>1, ServiceInvariance, PTL

\* Type correctness of the service.
THEOREM ServiceTypeCorrect == ServiceSpec => []ServiceTypeOK
<1>1. JointInv => ServiceTypeOK
  BY DEF JointInv
<1> QED
  BY <1>1, ServiceInvariance, PTL

\* The service (user_service.go) uses the session store as its interface
\* demands: it draws fresh ids and pairs, and presents released tokens only.
\* So every behaviour of the service is one of the store ...
THEOREM ServiceUsesStore == ServiceSpec => CacheSpec
<1>1. ServiceInit => CacheInit
  BY DEF ServiceInit
<1>2. JointInv /\ [ServiceNext]_serviceVars => [CacheNext]_cacheVars
  BY ServiceStepIsCacheStep
<1> QED
  BY <1>1, <1>2, ServiceInvariance, PTL DEF ServiceSpec, CacheSpec

\* The requests of the service, served together, use the store as the interface
\* they are written against says (internal/domain/user.go:144-176).
THEOREM ServiceImplementsContract == ServiceSpec => ImplementsContract
BY ServiceUsesStore, Refinement, PTL

\* ... and a refresh token is exchanged at most once, whatever the requests of
\* the service do at the same time.
THEOREM ServiceSingleUse == ServiceSpec => []RefreshSingleUse
BY ServiceUsesStore, SingleUse, PTL

\* Nor does any request of the service bring an ended session back.
THEOREM ServiceNoResurrection == ServiceSpec => NoResurrection
BY ServiceUsesStore, EndedStaysEnded, PTL

\* validateToken (user_service.go:582-647) refuses no caller whose session is
\* alive and holds the pair of the token: what was signed is what was stored.
THEOREM TokensMatchSessions == ServiceSpec => []CurrentTokensMatchSession
<1>1. JointInv => CurrentTokensMatchSession
  <2> SUFFICES ASSUME JointInv, NEW s \in SessionId, Stored(s)
               PROVE  /\ claims[sessions[s].pair] # Nil
                      /\ Says(sessions[s].pair, s, sessions[s])
    BY DEF CurrentTokensMatchSession, Says
  <2>1. sessions[s].pair \in usedPairs
    BY DEF JointInv, IndInv, PairLife
  <2>2. claims[sessions[s].pair] \in Claims
    BY <2>1 DEF JointInv, ServiceInv, PairsSigned
  <2> QED
    BY <2>2, ClaimsAssumption DEF JointInv, ServiceInv, TokensMatch
<1> QED
  BY <1>1, ServiceInvariance, PTL

\* A Logout that answers "ok" has ended the session, although a refresh may
\* have replaced its tokens since Logout validated its own.
THEOREM LogoutIsFinal == ServiceSpec => []LogoutEndsSession
<1>1. JointInv => LogoutEndsSession
  BY DEF JointInv, ServiceInv, LogoutDecides, LogoutEndsSession, On
<1> QED
  BY <1>1, ServiceInvariance, PTL

-----------------------------------------------------------------------------
(***************************************************************************)
(* RolesNeverRegress.                                                      *)
(***************************************************************************)
\* An account that does not exist has no history, and no role is committed
\* to one.
AbsentIsNew ==
  /\ \A u \in User : account[u].status = "absent" => account[u].revision = 0
  /\ \A c \in Client : req[c].pc = "commit" => account[req[c].user].status # "absent"

\* Tokens say what the roles were at some time.
SignedEarlier ==
  \A p \in usedPairs, u \in User :
    claims[p].user = Canonical[u] => claims[p].revision <= account[u].revision

\* A refresh reads the account of the token it was given.
RefreshesOwn ==
  \A c \in Client : req[c].op = "refresh" /\ req[c].pc \in {"row", "roles"} =>
    claims[req[c].token].user = Canonical[req[c].user]

\* The pair a rotation brings was signed after the one it was asked to replace.
RotatesForward ==
  \A c \in Client : InRotate(c) =>
    claims[call[c].expect].revision <= claims[call[c].next.pair].revision

RevisionInv == AbsentIsNew /\ SignedEarlier /\ RefreshesOwn /\ RotatesForward

\* The revision of an account only grows, and accounts stay.
AccountsGrow ==
  \A u \in User :
    /\ account[u].revision <= account'[u].revision
    /\ account'[u].status = "absent" => account'[u] = account[u]

\* A pair on its way to the store, or of a token in a request, is signed.
LEMMA SignedClaims ==
  ASSUME JointInv, NEW p \in usedPairs
  PROVE  p \in Pair /\ claims[p] \in Claims /\ claims[p].revision \in Nat
BY UserServiceAssumption DEF JointInv, IndInv, TypeOK, ServiceInv, PairsSigned, Claims

\* The pairs of a rotation.
LEMMA RotationPairs ==
  ASSUME JointInv, NEW c \in Client, InRotate(c)
  PROVE  call[c].expect \in usedPairs /\ call[c].next.pair \in usedPairs
BY DEF JointInv, IndInv, CallShape, PairLife

\* Requests change accounts in no other way.
LEMMA AccountsChange ==
  ASSUME JointInv, AbsentIsNew, [ServiceNext]_serviceVars
  PROVE  AccountsGrow
<1>1. \A u \in User : account[u] \in Account /\ account[u].revision \in Nat
  BY UserServiceAssumption DEF JointInv, ServiceTypeOK, Account
<1>2. CASE account' = account
  BY <1>1, <1>2 DEF AccountsGrow
<1>3. ASSUME NEW c \in Client, NEW u \in User, CreateUser(c, u) PROVE AccountsGrow
  BY <1>1, <1>3 DEF CreateUser, AccountsGrow, AbsentIsNew, JointInv, ServiceTypeOK
<1>4. ASSUME NEW c \in Client, CommitRole(c) PROVE AccountsGrow
  <2>1. req[c].pc = "commit" /\ req[c].user \in User
    BY <1>4, RequestFits DEF CommitRole, On, Fits
  <2>2. account[req[c].user].status # "absent"
    BY <2>1 DEF AbsentIsNew
  <2>3. ASSUME NEW new, account' = [account EXCEPT ![req[c].user].roles = new,
                                                   ![req[c].user].revision = @ + 1]
        PROVE  AccountsGrow
    BY <1>1, <2>1, <2>2, <2>3 DEF AccountsGrow, JointInv, ServiceTypeOK, Account
  <2> QED
    BY <1>2, <1>4, <2>3 DEF CommitRole
<1>5. ASSUME NEW c \in Client, RemoveUser(c) PROVE AccountsGrow
  BY <1>1, <1>5 DEF RemoveUser, AccountsGrow, JointInv, ServiceTypeOK, Account
<1> QED
  BY <1>2, <1>3, <1>4, <1>5
  DEF ServiceNext, serviceVars, RunCommand, PassTime, Arrive, StartLogin, StartWithToken,
    StartChange, Proceed, ReadRow, Login, Refresh, Refuse, ValidateToken, RefreshToken, Logout,
    LogoutAll, Answered, Change, CheckRole, SqlFails

\* No command changes what a rotation was asked to do.
LEMMA CommandsKeepRotations ==
  ASSUME IndInv, Background, NEW d \in Client, InRotate(d)'
  PROVE  /\ InRotate(d) /\ call'[d].next = call[d].next
         /\ call'[d].expect = call[d].expect
<1>1. call \in [Client -> Call]
  BY DEF IndInv, TypeOK
<1>2. CASE UNCHANGED call
  BY <1>2
<1>3. ASSUME NEW c \in Client, NEW r, NEW x, Return(c, r, x)
      PROVE  call'[d] = call[d]
  BY <1>1, <1>3 DEF Return, Idle
<1>4. ASSUME NEW c \in Client,
             Watch(c) \/ RotateConflict(c) \/ RotateGet(c) \/ Get(c) \/ DeleteGet(c)
               \/ SMembers(c),
             \A r, x : ~Return(c, r, x)
      PROVE  /\ InRotate(d) /\ call'[d].next = call[d].next
             /\ call'[d].expect = call[d].expect
  BY <1>1, <1>4 DEF Watch, RotateConflict, RotateGet, Get, DeleteGet, SMembers, Goto, Call
<1>5. CASE UNCHANGED call \/ \E c \in Client : \E r, x : Return(c, r, x)
  BY <1>2, <1>3, <1>5
<1>6. \/ UNCHANGED call \/ \E c \in Client : \E r, x : Return(c, r, x)
      \/ \E c \in Client :
          Watch(c) \/ RotateConflict(c) \/ RotateGet(c) \/ Get(c) \/ DeleteGet(c)
               \/ SMembers(c)
  BY DEF Background, Execute, CreateTx, DeleteTx, RotateExec, DelAll, CommandFails,
    Elapse, Expire, Evict, EvictIndex
<1> QED
  BY <1>4, <1>5, <1>6

\* A step that signs nothing and starts no rotation keeps what tokens say.
LEMMA QuietKeepsRevisions ==
  ASSUME JointInv, RevisionInv, AccountsGrow, account' \in [User -> Account],
         claims' = claims, usedPairs' = usedPairs,
         \A d \in Client : InRotate(d)' =>
           /\ InRotate(d) /\ call'[d].next = call[d].next
           /\ call'[d].expect = call[d].expect
  PROVE  SignedEarlier' /\ RotatesForward'
<1>1. ASSUME NEW p \in usedPairs, NEW u \in User, claims[p].user = Canonical[u]
      PROVE  claims[p].revision <= account'[u].revision
  <2>1. claims[p].revision <= account[u].revision
    BY <1>1 DEF RevisionInv, SignedEarlier
  <2>2. account[u].revision <= account'[u].revision
    BY DEF AccountsGrow
  <2>3. account[u].revision \in Nat /\ account'[u].revision \in Nat
    BY UserServiceAssumption DEF JointInv, ServiceTypeOK, Account
  <2> QED
    BY <2>1, <2>2, <2>3, SignedClaims
<1>2. RotatesForward'
  BY DEF RevisionInv, RotatesForward
<1> QED
  BY <1>1, <1>2 DEF SignedEarlier

\* A step of a request that goes on, or ends, on its own account.
LEMMA OnwardKeepsRevisions ==
  ASSUME JointInv, RevisionInv, AccountsGrow, account' \in [User -> Account],
         NEW c \in Client, NEW r, req' = [req EXCEPT ![c] = r], claims' = claims,
         r.op = "refresh" /\ r.pc \in {"row", "roles"} =>
           claims[r.token].user = Canonical[r.user],
         r.pc = "commit" => account[r.user].status # "absent",
         r.pc = "commit" => r.user \in User
  PROVE  AbsentIsNew' /\ RefreshesOwn'
<1>1. req \in [Client -> Request]
  BY DEF JointInv, ServiceTypeOK
<1>2. \A d \in Client : req'[d] = IF d = c THEN r ELSE req[d]
  BY <1>1
<1>3. RefreshesOwn'
  BY <1>2 DEF RevisionInv, RefreshesOwn
<1>4. ASSUME NEW d \in Client, req'[d].pc = "commit"
      PROVE  account'[req'[d].user].status # "absent"
  <2>1. req'[d].user \in User /\ account[req'[d].user].status # "absent"
    BY <1>2, <1>4, RequestFits DEF Fits, RevisionInv, AbsentIsNew
  <2> QED
    BY <2>1 DEF AccountsGrow
<1>5. \A u \in User : account'[u].status = "absent" => account'[u].revision = 0
  BY DEF AccountsGrow, RevisionInv, AbsentIsNew
<1> QED
  BY <1>3, <1>4, <1>5 DEF AbsentIsNew

\* What a step of a request that signs nothing does to calls and claims.
LEMMA QuietStep ==
  ASSUME JointInv, NEW c \in Client, Arrive(c) \/ (Proceed(c) /\ ~Login(c) /\ ~Refresh(c))
  PROVE  /\ claims' = claims /\ usedPairs' = usedPairs
         /\ \A d \in Client : InRotate(d)' =>
              /\ InRotate(d) /\ call'[d].next = call[d].next
              /\ call'[d].expect = call[d].expect
<1>1. call \in [Client -> Call]
  BY DEF JointInv, IndInv, TypeOK
<1>2. ASSUME UNCHANGED cacheVars \/ Forget(c) \/ (\E s : StartGet(c, s))
               \/ (\E s : StartDelete(c, s)) \/ (\E u : StartDeleteAll(c, u))
      PROVE  /\ usedPairs' = usedPairs
             /\ \A d \in Client : InRotate(d)' =>
                  /\ InRotate(d) /\ call'[d].next = call[d].next
                  /\ call'[d].expect = call[d].expect
  <2> DEFINE Elsewhere(k) == k.pc \notin Rotating \cup {"watch"}
  <2>1. /\ usedPairs' = usedPairs
        /\ call' = call \/ \E k : call' = [call EXCEPT ![c] = k] /\ Elsewhere(k)
    <3>1. Elsewhere(Idle)
      BY DEF Idle
    <3>2. CASE Forget(c)
      BY <3>1, <3>2 DEF Forget
    <3>3. ASSUME NEW s, StartGet(c, s)
          PROVE  \E k : call' = [call EXCEPT ![c] = k] /\ Elsewhere(k)
      <4> DEFINE k == [Idle EXCEPT !.op = "get", !.pc = "get", !.sid = s]
      <4>1. Elsewhere(k) /\ call' = [call EXCEPT ![c] = k]
        BY <3>3 DEF StartGet, Idle
      <4> QED
        BY <4>1
    <3>4. ASSUME NEW s, StartDelete(c, s)
          PROVE  \E k : call' = [call EXCEPT ![c] = k] /\ Elsewhere(k)
      <4> DEFINE k == [Idle EXCEPT !.op = "delete", !.pc = "deleteGet", !.sid = s]
      <4>1. Elsewhere(k) /\ call' = [call EXCEPT ![c] = k]
        BY <3>4 DEF StartDelete, Idle
      <4> QED
        BY <4>1
    <3>5. ASSUME NEW u, StartDeleteAll(c, u)
          PROVE  \E k : call' = [call EXCEPT ![c] = k] /\ Elsewhere(k)
      <4> DEFINE k == [Idle EXCEPT !.op = "deleteAll", !.pc = "smembers", !.uid = u]
      <4>1. Elsewhere(k) /\ call' = [call EXCEPT ![c] = k]
        BY <3>5 DEF StartDeleteAll, Idle
      <4> QED
        BY <4>1
    <3>6. usedPairs' = usedPairs
      BY <1>2 DEF cacheVars, Forget, StartGet, StartDelete, StartDeleteAll
    <3> HIDE DEF Elsewhere
    <3> QED
      BY <1>2, <3>2, <3>3, <3>4, <3>5, <3>6 DEF cacheVars
  <2>2. CASE call' = call
    BY <2>1, <2>2
  <2>3. ASSUME NEW k, call' = [call EXCEPT ![c] = k], Elsewhere(k),
               NEW d \in Client, InRotate(d)'
        PROVE  /\ InRotate(d) /\ call'[d].next = call[d].next
               /\ call'[d].expect = call[d].expect
    <3>1. call'[c] = k /\ \A e \in Client : e # c => call'[e] = call[e]
      BY <1>1, <2>3
    <3>2. d # c
      BY <2>3, <3>1
    <3> QED
      BY <2>3, <3>1, <3>2
  <2> QED
    BY <2>1, <2>2, <2>3
<1>3. /\ claims' = claims
      /\ UNCHANGED cacheVars \/ Forget(c) \/ (\E s : StartGet(c, s))
           \/ (\E s : StartDelete(c, s)) \/ (\E u : StartDeleteAll(c, u))
  <2>1. CASE Arrive(c)
    BY <2>1 DEF Arrive, CreateUser, StartLogin, StartWithToken, StartChange
  <2>2. CASE Proceed(c) /\ ~Login(c) /\ ~Refresh(c)
    BY <2>2 DEF Proceed, ReadRow, Refuse, ValidateToken, RefreshToken, Logout, LogoutAll,
      Answered, Change, CheckRole, CommitRole, RemoveUser, SqlFails, Continue, Finish
  <2> QED
    BY <2>1, <2>2
<1> QED
  BY <1>2, <1>3

\* What it does to its request.
LEMMA QuietRequest ==
  ASSUME JointInv, RevisionInv, NEW c \in Client,
         Arrive(c) \/ (Proceed(c) /\ ~Login(c) /\ ~Refresh(c))
  PROVE  \E r : /\ req' = [req EXCEPT ![c] = r]
                /\ r.op = "refresh" /\ r.pc \in {"row", "roles"} =>
                     claims[r.token].user = Canonical[r.user]
                /\ r.pc = "commit" => r.user \in User /\ account[r.user].status # "absent"
<1> DEFINE Good(r) ==
      /\ req' = [req EXCEPT ![c] = r]
      /\ r.op = "refresh" /\ r.pc \in {"row", "roles"} =>
           claims[r.token].user = Canonical[r.user]
      /\ r.pc = "commit" => r.user \in User /\ account[r.user].status # "absent"
<1>0. req \in [Client -> Request] /\ req[c] \in Request
  BY DEF JointInv, ServiceTypeOK
<1>1. CASE Finish(c)
  <2>1. Good(NoReq)
    BY <1>1 DEF Finish, NoReq
  <2> QED
    BY <2>1
<1>2. CASE Arrive(c)
  <2>1. CASE \E u \in User : CreateUser(c, u)
    <3>1. Good(req[c])
      BY <1>0, <2>1 DEF CreateUser, On
    <3> QED
      BY <3>1
  <2>2. ASSUME NEW u \in User, StartLogin(c, u) PROVE \E r : Good(r)
    <3>1. Good([NoReq EXCEPT !.op = "login", !.pc = "row", !.user = u])
      BY <2>2 DEF StartLogin, NoReq
    <3> QED
      BY <3>1
  <2>3. ASSUME NEW op, NEW p, StartWithToken(c, op, p) PROVE \E r : Good(r)
    <3>1. Good([NoReq EXCEPT !.op = op, !.pc = "validating", !.token = p])
      BY <2>3 DEF StartWithToken, NoReq
    <3> QED
      BY <3>1
  <2>4. ASSUME NEW op, NEW k, NEW role, StartChange(c, op, k, role) PROVE \E r : Good(r)
    <3>1. Good([NoReq EXCEPT !.op = op, !.pc = "revoking", !.user = Parse[k],
                             !.role = role])
      BY <2>4 DEF StartChange, NoReq
    <3> QED
      BY <3>1
  <2> QED
    BY <1>2, <2>1, <2>2, <2>3, <2>4 DEF Arrive
<1>3. CASE RefreshToken(c)
  <2>1. req[c].token \in released
    BY <1>3, RequestToken DEF RefreshToken, Validated, TokenOp
  <2>2. PICK u \in User : claims[req[c].token].user = Canonical[u]
    BY <2>1, TokenSigned
  <2>3. Parse[claims[req[c].token].user] = u
    BY <2>2, UserServiceAssumption
  <2>4. Good([req[c] EXCEPT !.pc = "row", !.user = u])
    BY <1>0, <1>3, <2>2, <2>3 DEF RefreshToken, Request
  <2> QED
    BY <2>4
<1>4. ASSUME NEW pc \in {"roles", "ending", "check", "commit", "remove"}, Move(c, pc),
             pc = "commit" => req[c].user \in User /\ account[req[c].user].status # "absent",
             pc = "roles" => req[c].pc = "row"
      PROVE  \E r : Good(r)
  <2>1. Good([req[c] EXCEPT !.pc = pc])
    BY <1>0, <1>4 DEF Move, Request, RevisionInv, RefreshesOwn
  <2> QED
    BY <2>1
<1>5. CASE ReadRow(c)
  BY <1>1, <1>4, <1>5 DEF ReadRow, On, Continue
<1>6. CASE CheckRole(c)
  <2>1. req[c].user \in User
    BY <1>6, RequestFits DEF CheckRole, On, Fits
  <2> QED
    BY <1>1, <1>4, <1>6, <2>1 DEF CheckRole, Continue, Active
<1>7. CASE Logout(c) \/ LogoutAll(c)
  BY <1>4, <1>7 DEF Logout, LogoutAll
<1>8. CASE Change(c)
  BY <1>1, <1>4, <1>8 DEF Change, Continue
<1>9. CASE Proceed(c) /\ ~Login(c) /\ ~Refresh(c)
  BY <1>1, <1>3, <1>5, <1>6, <1>7, <1>8, <1>9
  DEF Proceed, Refuse, ValidateToken, Answered, CommitRole, RemoveUser, SqlFails
<1> QED
  BY <1>2, <1>9

\* A rotation asks for the token it was given, and brings a pair that says
\* what the account of its user says now.
LEMMA SignKeepsRevisions ==
  ASSUME JointInv, RevisionInv, NEW c \in Client, NEW u \in User, NEW s \in SessionId,
         NEW p \in Pair, Sign(u, s, p), Move(c, "storing"), account' = account,
         req[c].user = u,
         \/ StartCreate(c, s, SessionFor(u, p))
         \/ /\ StartRotate(c, s, req[c].token, SessionFor(u, p))
            /\ claims[req[c].token].user = Canonical[u]
  PROVE  RevisionInv'
<1>0. /\ call \in [Client -> Call] /\ req \in [Client -> Request]
      /\ account \in [User -> Account] /\ claims \in [Pair -> Claims \cup {Nil}]
      /\ usedPairs \subseteq Pair
  BY DEF JointInv, IndInv, TypeOK, ServiceTypeOK
<1>1. SessionFor(u, p).pair = p
  BY DEF SessionFor
<1>2. /\ p \notin usedPairs /\ usedPairs' = usedPairs \cup {p}
      /\ \A d \in Client : d # c => call'[d] = call[d]
  BY <1>0, <1>1 DEF StartCreate, StartRotate
<1>3. /\ claims'[p] = ClaimsFor(u, s)
      /\ \A q \in usedPairs : claims'[q] = claims[q]
  BY <1>0, <1>2 DEF Sign
<1>4. claims'[p].revision = account[u].revision /\ claims'[p].user = Canonical[u]
  BY <1>3 DEF ClaimsFor
<1>5. \A v \in User : account[v].revision \in Nat
  BY <1>0, UserServiceAssumption DEF Account
<1>6. \A v \in User : Canonical[v] = Canonical[u] => v = u
  BY UserServiceAssumption
<1>7. SignedEarlier'
  BY <1>2, <1>3, <1>4, <1>5, <1>6 DEF RevisionInv, SignedEarlier
<1>8. \A d \in Client : /\ req'[d].op = req[d].op /\ req'[d].user = req[d].user
                        /\ req'[d].token = req[d].token
                        /\ req'[d].pc # req[d].pc => req'[d].pc = "storing"
  BY <1>0 DEF Move, Request
<1>9. AbsentIsNew'
  BY <1>8 DEF RevisionInv, AbsentIsNew
<1>10. RefreshesOwn'
  <2> SUFFICES ASSUME NEW d \in Client, req[d].op = "refresh", req[d].pc \in {"row", "roles"}
               PROVE  claims'[req[d].token].user = Canonical[req[d].user]
    BY <1>8 DEF RefreshesOwn
  <2>1. req[d].token \in usedPairs
    BY RequestToken, TokenSigned DEF TokenOp
  <2> QED
    BY <1>3, <2>1 DEF RevisionInv, RefreshesOwn
<1>11. RotatesForward'
  <2> SUFFICES ASSUME NEW d \in Client, InRotate(d)'
               PROVE  claims'[call'[d].expect].revision <= claims'[call'[d].next.pair].revision
    BY DEF RotatesForward
  <2>1. CASE d # c
    <3>1. call'[d] = call[d] /\ InRotate(d)
      BY <1>2, <2>1
    <3> QED
      BY <1>3, <3>1, RotationPairs DEF RevisionInv, RotatesForward
  <2>2. CASE d = c
    <3>1. StartRotate(c, s, req[c].token, SessionFor(u, p))
      BY <1>0, <2>2 DEF StartCreate, Idle
    <3>2. call'[c].expect = req[c].token /\ call'[c].next.pair = p
      BY <1>0, <1>1, <3>1 DEF StartRotate, Idle
    <3>3. req[c].token \in usedPairs
      BY <3>1, TokenSigned DEF StartRotate
    <3>4. StartCreate(c, s, SessionFor(u, p)) => ~InRotate(c)'
      BY <1>0 DEF StartCreate, Idle
    <3>5. claims[req[c].token].revision <= account[u].revision
      BY <2>2, <3>3, <3>4 DEF RevisionInv, SignedEarlier
    <3> QED
      BY <1>3, <1>4, <2>2, <3>2, <3>3, <3>5
  <2> QED
    BY <2>1, <2>2
<1> QED
  BY <1>7, <1>9, <1>10, <1>11 DEF RevisionInv

\* The invariant holds initially, and every step keeps it.
LEMMA RevisionStarts == ServiceInit => RevisionInv
<1> SUFFICES ASSUME ServiceInit PROVE RevisionInv
  OBVIOUS
<1>1. /\ account = [u \in User |-> [status |-> "absent", roles |-> {}, revision |-> 0]]
      /\ req = [c \in Client |-> NoReq] /\ usedPairs = {} /\ call = [c \in Client |-> Idle]
  BY DEF ServiceInit, CacheInit
<1> QED
  BY <1>1 DEF RevisionInv, AbsentIsNew, SignedEarlier, RefreshesOwn, RotatesForward, NoReq, Idle

LEMMA RevisionKeeps ==
  ASSUME JointInv, RevisionInv, [ServiceNext]_serviceVars
  PROVE  RevisionInv'
<1>1. JointInv' /\ AccountsGrow
  BY ServiceNextKeeps, AccountsChange DEF RevisionInv
<1>2. account' \in [User -> Account]
  BY <1>1 DEF JointInv, ServiceTypeOK
<1>3. ASSUME NEW c \in Client, Login(c) PROVE RevisionInv'
  <2>1. req[c].user \in User
    BY <1>3, RequestFits DEF Login, On, Fits
  <2>2. PICK s \in SessionId, p \in Pair :
          StartCreate(c, s, SessionFor(req[c].user, p)) /\ Sign(req[c].user, s, p)
    BY <1>3 DEF Login
  <2> QED
    BY <1>3, <2>1, <2>2, SignKeepsRevisions DEF Login
<1>4. ASSUME NEW c \in Client, Refresh(c) PROVE RevisionInv'
  <2>1. req[c].user \in User /\ req[c].token \in released
    BY <1>4, RequestFits DEF Refresh, On, Fits, TokenOp
  <2> DEFINE s == claims[req[c].token].sid
  <2>2. s \in SessionId
    BY <2>1, TokenSigned
  <2>3. PICK p \in Pair :
          StartRotate(c, s, req[c].token, SessionFor(req[c].user, p)) /\ Sign(req[c].user, s, p)
    BY <1>4 DEF Refresh
  <2>4. claims[req[c].token].user = Canonical[req[c].user]
    BY <1>4 DEF Refresh, On, RevisionInv, RefreshesOwn
  <2> HIDE DEF s
  <2> QED
    BY <1>4, <2>1, <2>2, <2>3, <2>4, SignKeepsRevisions DEF Refresh
<1>5. ASSUME NEW c \in Client, Arrive(c) \/ (Proceed(c) /\ ~Login(c) /\ ~Refresh(c))
      PROVE  RevisionInv'
  <2>1. SignedEarlier' /\ RotatesForward'
    BY <1>1, <1>2, <1>5, QuietStep, QuietKeepsRevisions
  <2>2. AbsentIsNew' /\ RefreshesOwn'
    BY <1>1, <1>2, <1>5, QuietStep, QuietRequest, OnwardKeepsRevisions
  <2> QED
    BY <2>1, <2>2 DEF RevisionInv
<1>6. CASE Background /\ UNCHANGED <<account, claims, req>>
  <2>1. SignedEarlier' /\ RotatesForward'
    BY <1>1, <1>2, <1>6, CommandsKeepRotations, CommandsDrawNothing, QuietKeepsRevisions
    DEF JointInv
  <2>2. AbsentIsNew' /\ RefreshesOwn'
    BY <1>6 DEF RevisionInv, AbsentIsNew, RefreshesOwn
  <2> QED
    BY <2>1, <2>2 DEF RevisionInv
<1>7. CASE UNCHANGED serviceVars
  BY <1>7 DEF serviceVars, cacheVars, RevisionInv, AbsentIsNew, SignedEarlier, RefreshesOwn,
    RotatesForward
<1> QED
  BY <1>3, <1>4, <1>5, <1>6, <1>7 DEF ServiceNext, RunCommand, PassTime, Background

\* A command replaces a session only by a rotation of the pair it holds.
LEMMA ReplacedByRotation ==
  ASSUME IndInv, Background, NEW s \in SessionId, Stored(s), Stored(s)',
         sessions'[s] # sessions[s]
  PROVE  \E c \in Client : /\ InRotate(c)
                            /\ call[c].expect = sessions[s].pair
                            /\ call[c].next = sessions'[s]
<1>1. CASE \E c \in Client : CreateTx(c)
  BY <1>1 DEF CreateTx, Store, IndInv, TypeOK, IdLife, CallShape
<1>2. CASE \E c \in Client : RotateExec(c)
  BY <1>2 DEF RotateExec, Conflict, Store, HoldsToken, IndInv, TypeOK, CallShape, WatchHolds
<1>3. CASE \/ \E c \in Client : DeleteTx(c) \/ DelAll(c)
           \/ \E t \in SessionId : Evict(t)
  BY <1>3 DEF DeleteTx, DelAll, Evict, Erase
<1>4. \/ \E c \in Client : CreateTx(c)
      \/ \E c \in Client : RotateExec(c)
      \/ \E c \in Client : DeleteTx(c) \/ DelAll(c)
      \/ \E t \in SessionId : Evict(t)
      \/ UNCHANGED sessions
  BY DEF Background, Execute, Get, DeleteGet, Watch, RotateGet, RotateConflict,
    SMembers, CommandFails, Elapse, Expire, EvictIndex
<1> QED
  BY <1>1, <1>2, <1>3, <1>4

\* The calls between two commands leave the sessions alone.
LEMMA RequestsKeepSessions ==
  ASSUME NEW c \in Client, Arrive(c) \/ Proceed(c)
  PROVE  sessions' = sessions
BY DEF Arrive, Proceed, CreateUser, StartLogin, StartWithToken, StartChange, ReadRow, Login,
  Refresh, Refuse, ValidateToken, RefreshToken, Logout, LogoutAll, Answered, Change, CheckRole,
  CommitRole, RemoveUser, SqlFails, Continue, Finish, Forget, StartGet, StartDelete,
  StartDeleteAll, StartCreate, StartRotate, cacheVars

\* Tokens and role changes stay in order in every behaviour.
LEMMA RevisionInvariance == ServiceSpec => []RevisionInv
<1>1. JointInv /\ RevisionInv /\ [ServiceNext]_serviceVars => RevisionInv'
  BY RevisionKeeps
<1> QED
  BY RevisionStarts, <1>1, ServiceInvariance, PTL DEF ServiceSpec

\* RefreshToken (user_service.go:449-494) never takes a session back to an older
\* state of its user's roles: the pair it stores was signed after the one it
\* replaces, whatever refreshes and role changes run at the same time.
THEOREM RefreshesGoForward == ServiceSpec => RolesNeverRegress
<1>1. ASSUME JointInv, RevisionInv, [ServiceNext]_serviceVars, NEW s \in SessionId,
             Stored(s), Stored(s)'
      PROVE  claims[sessions'[s].pair].revision >= claims[sessions[s].pair].revision
  <2>1. CASE sessions'[s] = sessions[s]
    <3>1. sessions[s].pair \in usedPairs
      BY <1>1 DEF JointInv, IndInv, PairLife
    <3>2. claims[sessions[s].pair].revision \in Nat
      BY <1>1, <3>1, SignedClaims
    <3> QED
      BY <2>1, <3>2
  <2>2. CASE sessions'[s] # sessions[s]
    <3>1. Background
      BY <1>1, <2>2, RequestsKeepSessions
      DEF ServiceNext, RunCommand, PassTime, Background, serviceVars, cacheVars
    <3>2. PICK c \in Client : /\ InRotate(c) /\ call[c].expect = sessions[s].pair
                              /\ call[c].next = sessions'[s]
      BY <1>1, <2>2, <3>1, ReplacedByRotation DEF JointInv
    <3>3. /\ claims[call[c].expect].revision \in Nat
          /\ claims[call[c].next.pair].revision \in Nat
      BY <1>1, <3>2, RotationPairs, SignedClaims
    <3> QED
      BY <1>1, <3>2, <3>3 DEF RevisionInv, RotatesForward
  <2> QED
    BY <2>1, <2>2
<1>2. JointInv /\ RevisionInv /\ [ServiceNext]_serviceVars =>
        [\A s \in SessionId : sessions[s] # Nil /\ sessions'[s] # Nil =>
           claims[sessions'[s].pair].revision >= claims[sessions[s].pair].revision]_serviceVars
  BY <1>1
<1> QED
  BY <1>2, ServiceInvariance, RevisionInvariance, PTL DEF ServiceSpec, RolesNeverRegress

-----------------------------------------------------------------------------
(***************************************************************************)
(* Revocation, in the behaviours in which no login races with it, when ids *)
(* are given as the service writes them.                                   *)
(***************************************************************************)
CanonicalIds == \A k \in UserKey, u \in User : Parse[k] = u => k = Canonical[u]

\* The store call a request may be in.
CallFits(r, k) ==
  /\ r.pc \notin {"validating", "storing", "ending", "revoking"} => k.pc = "idle"
  /\ k.pc = "createTx" =>
       r.op = "login" /\ r.user \in User /\ k.next.user = Canonical[r.user]
  /\ k.pc \in {"smembers", "delAll"} =>
       \/ r.op \in ChangeOp /\ r.user = Parse[k.uid]
       \/ r.op = "logoutAll" /\ k.uid = claims[r.token].user
  /\ r.pc = "revoking" => k.pc \in {"smembers", "delAll", "idle"}
  /\ r.pc \in {"check", "commit", "remove"} => r.op \in ChangeOp

RequestCalls == \A c \in Client : CallFits(req[c], call[c])

\* A session that says what the account of its user says now.
Agrees(x) ==
  \A u \in User : x.user = Canonical[u] => Active(u) /\ account[u].roles = x.roles

SessionsCurrent == \A s \in SessionId : Stored(s) => Agrees(sessions[s])

\* A login read its account for the last time, and no change has run since.
LoginsCurrent ==
  \A c \in Client :
    /\ At(c, "createTx") => Agrees(call[c].next)
    /\ req[c].op = "login" /\ req[c].pc = "roles" => Active(req[c].user)

\* So did a refresh, unless its session is gone.
Exchangeable(c) ==
  LET x == sessions[call[c].sid] IN x # Nil /\ HoldsToken(c, x) /\ SameUser(c, x)

RefreshesCurrent == \A c \in Client : InRotate(c) /\ Exchangeable(c) => Agrees(call[c].next)

\* A DeleteAllForUser knows all the sessions of its user.
ListComplete ==
  \A c \in Client, s \in SessionId :
    At(c, "delAll") /\ Stored(s) /\ sessions[s].user = call[c].uid => s \in call[c].list

\* A change of an account whose sessions are ended finds none until it is over.
Revoked(r, k) ==
  /\ r.op \in ChangeOp
  /\ \/ r.pc \in {"check", "commit", "remove"}
     \/ r.pc = "revoking" /\ k.pc = "idle" /\ k.res = "ok"

RevokedHaveNone ==
  \A c \in Client, u \in User, s \in SessionId :
    Revoked(req[c], call[c]) /\ req[c].user = u /\ Stored(s) => sessions[s].user # Canonical[u]

\* What holds however ids are written.
IndexInv == ~LoginRacesRevocation /\ RequestCalls /\ ListComplete /\ IndexComplete

RevocationInv ==
  /\ CanonicalIds
  /\ IndexInv
  /\ SessionsCurrent
  /\ LoginsCurrent
  /\ RefreshesCurrent
  /\ RevokedHaveNone

\* What a command does to a DeleteAllForUser.
LEMMA CommandsEndSessions ==
  ASSUME IndInv, Background, NEW d \in Client
  PROVE  /\ call'[d].pc \in {"smembers", "delAll"} =>
              call[d].pc \in {"smembers", "delAll"} /\ call'[d].uid = call[d].uid
         /\ At(d, "delAll")' =>
              SMembers(d) \/ (At(d, "delAll") /\ call'[d].list = call[d].list)
         /\ call[d].pc \in {"smembers", "delAll"} =>
              /\ call'[d].pc \in {"smembers", "delAll", "idle"}
              /\ call'[d].pc = "idle" /\ call'[d].res = "ok" => DelAll(d)
<1> DEFINE Claim == /\ call'[d].pc \in {"smembers", "delAll"} =>
                         call[d].pc \in {"smembers", "delAll"} /\ call'[d].uid = call[d].uid
                    /\ At(d, "delAll")' =>
                         SMembers(d) \/ (At(d, "delAll") /\ call'[d].list = call[d].list)
                    /\ call[d].pc \in {"smembers", "delAll"} =>
                         /\ call'[d].pc \in {"smembers", "delAll", "idle"}
                         /\ call'[d].pc = "idle" /\ call'[d].res = "ok" => DelAll(d)
<1>1. call \in [Client -> Call]
  BY DEF IndInv, TypeOK
<1>2. CASE call'[d] = call[d]
  BY <1>2
<1>3. ASSUME SMembers(d) PROVE Claim
  BY <1>1, <1>3 DEF SMembers, Call
<1>4. ASSUME DelAll(d) PROVE Claim
  BY <1>1, <1>4 DEF DelAll, Return, Idle
<1>5. ASSUME CommandFails(d) PROVE Claim
  BY <1>1, <1>5 DEF CommandFails, Return, Idle
<1>6. ASSUME call[d].pc \notin {"smembers", "delAll"}, call'[d].pc \notin {"smembers", "delAll"}
      PROVE  Claim
  BY <1>6
<1>7. ASSUME Execute(d), ~SMembers(d), ~DelAll(d)
      PROVE  /\ call[d].pc \notin {"smembers", "delAll"}
             /\ call'[d].pc \notin {"smembers", "delAll"}
  <2>1. call[d].pc \notin {"smembers", "delAll"}
    BY <1>7 DEF Execute, CreateTx, Get, DeleteGet, DeleteTx, Watch, RotateGet, RotateConflict,
      RotateExec
  <2>2. ASSUME NEW r, NEW x, Return(d, r, x) PROVE call'[d].pc = "idle"
    BY <1>1, <2>2 DEF Return, Idle
  <2>3. ASSUME NEW pc, Goto(d, pc) PROVE call'[d].pc = pc
    BY <1>1, <2>3 DEF Goto, Call
  <2>4. CASE CreateTx(d) \/ DeleteTx(d) \/ RotateExec(d)
    BY <2>2, <2>4 DEF CreateTx, DeleteTx, RotateExec
  <2>5. CASE Get(d) \/ Watch(d) \/ RotateGet(d)
    BY <2>2, <2>3, <2>5 DEF Get, Watch, RotateGet
  <2>6. CASE DeleteGet(d) \/ RotateConflict(d)
    BY <1>1, <2>2, <2>6 DEF DeleteGet, RotateConflict, Call
  <2> QED
    BY <1>7, <2>1, <2>4, <2>5, <2>6 DEF Execute
<1>8. ASSUME NEW c \in Client, Execute(c) \/ CommandFails(c), c # d PROVE call'[d] = call[d]
  BY <1>1, <1>8 DEF Execute, CreateTx, Get, DeleteGet, DeleteTx, Watch, RotateGet,
    RotateConflict, RotateExec, SMembers, DelAll, CommandFails, Return, Goto
<1>9. ASSUME Elapse PROVE call'[d] = call[d]
  BY <1>9 DEF Elapse, Expire, Evict, EvictIndex
<1> QED
  BY <1>2, <1>3, <1>4, <1>5, <1>6, <1>7, <1>8, <1>9 DEF Background

\* Where a stored session comes from.
LEMMA CommandsStore ==
  ASSUME IndInv, Background, NEW s \in SessionId, Stored(s)'
  PROVE  \/ Stored(s) /\ sessions'[s] = sessions[s]
         \/ \E c \in Client : /\ At(c, "createTx") /\ call[c].sid = s
                              /\ sessions'[s] = call[c].next
         \/ \E c \in Client : /\ InRotate(c) /\ Exchangeable(c) /\ call[c].sid = s
                              /\ sessions'[s] = call[c].next
<1>1. CASE \E c \in Client : CreateTx(c)
  BY <1>1 DEF CreateTx, Store, IndInv, TypeOK, CallShape
<1>2. ASSUME NEW c \in Client, RotateExec(c)
      PROVE  \/ Stored(s) /\ sessions'[s] = sessions[s]
             \/ InRotate(c) /\ Exchangeable(c) /\ call[c].sid = s /\ sessions'[s] = call[c].next
  <2>1. InRotate(c) /\ Exchangeable(c)
    BY <1>2 DEF RotateExec, Conflict, Exchangeable, IndInv, WatchHolds
  <2>2. sessions' = [sessions EXCEPT ![call[c].sid] = call[c].next]
    BY <1>2 DEF RotateExec, Store
  <2> QED
    BY <2>1, <2>2 DEF IndInv, TypeOK
<1>3. CASE \/ \E c \in Client : DeleteTx(c) \/ DelAll(c)
           \/ \E t \in SessionId : Evict(t)
  BY <1>3 DEF DeleteTx, DelAll, Evict, Erase
<1>4. \/ \E c \in Client : CreateTx(c)
      \/ \E c \in Client : RotateExec(c)
      \/ \E c \in Client : DeleteTx(c) \/ DelAll(c)
      \/ \E t \in SessionId : Evict(t)
      \/ UNCHANGED sessions
  BY DEF Background, Execute, Get, DeleteGet, Watch, RotateGet, RotateConflict,
    SMembers, CommandFails, Elapse, Expire, EvictIndex
<1> QED
  BY <1>1, <1>2, <1>3, <1>4

\* While an account changes, or its sessions are ended, it gets no session.
LEMMA NoNewSession ==
  ASSUME JointInv, IndexInv, Background, NEW s \in SessionId, Stored(s)',
         NEW u \in User, sessions'[s].user = Canonical[u],
         NEW d \in Client,
         \/ req[d].op \in ChangeOp /\ req[d].user = u
         \/ req[d].op = "logoutAll" /\ claims[req[d].token].user = Canonical[u]
  PROVE  Stored(s) /\ sessions[s].user = Canonical[u]
<1>1. ASSUME NEW c \in Client, At(c, "createTx"), call[c].next.user = Canonical[u] PROVE FALSE
  <2>1. req[c].op = "login" /\ req[c].user \in User /\ Canonical[req[c].user] = Canonical[u]
    BY <1>1 DEF IndexInv, RequestCalls, CallFits
  <2>2. req[c].user = u
    BY <2>1, UserServiceAssumption
  <2> QED
    BY <1>1, <2>1, <2>2 DEF IndexInv, LoginRacesRevocation
<1>2. ASSUME NEW c \in Client, Exchangeable(c), call[c].sid = s,
             call[c].next.user = Canonical[u]
      PROVE  Stored(s) /\ sessions[s].user = Canonical[u]
  BY <1>2 DEF Exchangeable, SameUser
<1> QED
  BY <1>1, <1>2, CommandsStore DEF JointInv

-----------------------------------------------------------------------------
\* Commands and time: the sessions in Redis.
LEMMA CommandsKeepSessionsCurrent ==
  ASSUME JointInv, RevocationInv, Background, UNCHANGED <<account, claims, req>>
  PROVE  SessionsCurrent' /\ LoginsCurrent' /\ RefreshesCurrent'
<1>1. \A x : Agrees(x)' <=> Agrees(x)
  BY DEF Agrees, Active
<1>2. ASSUME NEW s \in SessionId, Stored(s)' PROVE Agrees(sessions'[s])
  BY <1>2, CommandsStore
  DEF JointInv, RevocationInv, SessionsCurrent, LoginsCurrent, RefreshesCurrent
<1>3. SessionsCurrent'
  BY <1>1, <1>2 DEF SessionsCurrent
<1>4. LoginsCurrent'
  BY <1>1, CommandsKeepPending DEF JointInv, RevocationInv, LoginsCurrent, Active
<1>5. ASSUME NEW c \in Client, InRotate(c)', Exchangeable(c)' PROVE Agrees(call'[c].next)
  <2>1. /\ InRotate(c) /\ call'[c].next = call[c].next /\ call'[c].expect = call[c].expect
        /\ call'[c].sid = call[c].sid
    BY <1>5, CommandsKeepPending, CommandsKeepRotations DEF JointInv
  <2>0. call[c].sid \in SessionId /\ call[c].expect \in released
    BY <2>1 DEF JointInv, IndInv, CallShape
  <2>2. PICK s \in SessionId : s = call[c].sid
    BY <2>0
  <2>3. /\ Stored(s)' /\ sessions'[s].pair = call[c].expect
        /\ sessions'[s].user = call[c].next.user
    BY <1>5, <2>1, <2>2 DEF Exchangeable, HoldsToken, SameUser
  <2>4. ASSUME NEW d \in Client, Pending(d) PROVE sessions'[s] # call[d].next
    BY <2>0, <2>3, <2>4 DEF JointInv, IndInv, PairLife
  <2>5. Stored(s) /\ sessions'[s] = sessions[s]
    BY <2>3, <2>4, CommandsStore DEF JointInv
  <2>6. Exchangeable(c)
    BY <2>2, <2>3, <2>5 DEF Exchangeable, HoldsToken, SameUser
  <2> QED
    BY <2>1, <2>6 DEF RevocationInv, RefreshesCurrent
<1>6. RefreshesCurrent'
  BY <1>1, <1>5 DEF RefreshesCurrent
<1> QED
  BY <1>3, <1>4, <1>6

\* Commands and time: the calls of the requests, and what a revocation has found.
LEMMA CommandsKeepLists ==
  ASSUME JointInv, IndexInv, Background, UNCHANGED <<account, claims, req>>
  PROVE  RequestCalls' /\ ListComplete'
<1>1. RequestCalls'
  <2> SUFFICES ASSUME NEW d \in Client PROVE CallFits(req[d], call[d])'
    BY DEF RequestCalls
  <2>1. CallFits(req[d], call[d])
    BY DEF IndexInv, RequestCalls
  <2>2. /\ At(d, "idle") => call'[d] = call[d]
        /\ At(d, "createTx")' => At(d, "createTx") /\ call'[d].next = call[d].next
    BY CommandsEndDelete, CommandsKeepPending DEF JointInv
  <2>3. /\ call'[d].pc \in {"smembers", "delAll"} =>
             call[d].pc \in {"smembers", "delAll"} /\ call'[d].uid = call[d].uid
        /\ call[d].pc \in {"smembers", "delAll"} =>
             call'[d].pc \in {"smembers", "delAll", "idle"}
    BY CommandsEndSessions DEF JointInv
  <2> QED
    BY <2>1, <2>2, <2>3 DEF CallFits
<1>2. ASSUME NEW c \in Client, NEW s \in SessionId, At(c, "delAll")', Stored(s)',
             sessions'[s].user = call'[c].uid
      PROVE  s \in call'[c].list
  <2>1. /\ call[c].pc \in {"smembers", "delAll"} /\ call'[c].uid = call[c].uid
        /\ SMembers(c) \/ (At(c, "delAll") /\ call'[c].list = call[c].list)
    BY <1>2, CommandsEndSessions DEF JointInv
  <2>2. CASE SMembers(c)
    <3>1. sessions' = sessions /\ call'[c].list = userSessions[call[c].uid]
      BY <2>2 DEF SMembers, JointInv, IndInv, TypeOK, Call
    <3> QED
      BY <1>2, <2>1, <3>1 DEF IndexInv, IndexComplete
  <2>3. CASE At(c, "delAll") /\ call'[c].list = call[c].list
    <3>1. PICK u \in User : sessions'[s].user = Canonical[u]
      <4>1. Stored(s) => \E u \in User : sessions[s].user = Canonical[u]
        BY DEF JointInv, IndInv, PairLife, ServiceInv, PairsSigned, TokensMatch, Says
      <4>2. ASSUME NEW d \in Client, Pending(d)
            PROVE  \E u \in User : call[d].next.user = Canonical[u]
        BY <4>2 DEF JointInv, IndInv, PairLife, ServiceInv, PairsSigned, TokensMatch, Says
      <4> QED
        BY <1>2, <4>1, <4>2, CommandsStore DEF JointInv
    <3>2. \/ req[c].op \in ChangeOp /\ req[c].user = Parse[call[c].uid]
          \/ req[c].op = "logoutAll" /\ call[c].uid = claims[req[c].token].user
      BY <2>1 DEF IndexInv, RequestCalls, CallFits
    <3>3. Parse[Canonical[u]] = u
      BY UserServiceAssumption
    <3>4. Stored(s) /\ sessions[s].user = Canonical[u]
      BY <1>2, <2>1, <3>1, <3>2, <3>3, NoNewSession
    <3> QED
      BY <1>2, <2>1, <2>3, <3>1, <3>4 DEF IndexInv, ListComplete
  <2> QED
    BY <2>1, <2>2, <2>3
<1> QED
  BY <1>1, <1>2 DEF ListComplete

\* Commands and time: what a revocation has done.
LEMMA CommandsKeepRevocations ==
  ASSUME JointInv, RevocationInv, Background, UNCHANGED <<account, claims, req>>
  PROVE  RevokedHaveNone'
<1>1. ASSUME NEW c \in Client, NEW u \in User, NEW s \in SessionId, Revoked(req[c], call[c])',
             req[c].user = u, Stored(s)', sessions'[s].user = Canonical[u]
      PROVE  FALSE
  <2>1. req[c].op \in ChangeOp
    BY <1>1 DEF Revoked
  <2>2. Stored(s) /\ sessions[s].user = Canonical[u]
    BY <1>1, <2>1, NoNewSession DEF RevocationInv
  <2>3. ~Revoked(req[c], call[c])
    BY <1>1, <2>2 DEF RevocationInv, RevokedHaveNone
  <2>4. /\ req[c].pc = "revoking" /\ call'[c].pc = "idle" /\ call'[c].res = "ok"
        /\ call'[c] # call[c]
    BY <1>1, <2>3 DEF Revoked
  <2>5. call[c].pc \in {"smembers", "delAll"}
    BY <2>4, CommandsEndDelete DEF JointInv, RevocationInv, IndexInv, RequestCalls, CallFits
  <2>6. DelAll(c)
    BY <2>4, <2>5, CommandsEndSessions DEF JointInv
  <2>7. req[c].user = Parse[call[c].uid] /\ call[c].uid \in UserKey
    BY <2>1, <2>5 DEF JointInv, IndInv, CallShape, RevocationInv, IndexInv, RequestCalls,
      CallFits, ChangeOp, RoleOp
  <2>8. call[c].uid = Canonical[u]
    BY <1>1, <2>7 DEF RevocationInv, CanonicalIds
  <2>9. s \in call[c].list
    BY <2>2, <2>6, <2>8 DEF DelAll, RevocationInv, IndexInv, ListComplete
  <2> QED
    BY <1>1, <2>6, <2>9 DEF DelAll, Erase
<1> QED
  BY <1>1 DEF RevokedHaveNone

\* Commands and time: the index.
LEMMA CommandsKeepIndex ==
  ASSUME JointInv, IndexInv, Background
  PROVE  IndexComplete'
<1> SUFFICES ASSUME NEW s \in SessionId, Stored(s)' PROVE s \in userSessions'[sessions'[s].user]
  BY DEF IndexComplete
<1>1. /\ userSessions \in [UserKey -> SUBSET SessionId]
      /\ sessions \in [SessionId -> Session \cup {Nil}]
      /\ Stored(s) => s \in userSessions[sessions[s].user]
  BY DEF JointInv, IndInv, TypeOK, IndexInv, IndexComplete
<1>2. ASSUME NEW c \in Client, CreateTx(c) \/ RotateExec(c)
      PROVE  s \in userSessions'[sessions'[s].user]
  <2>1. call[c].sid \in SessionId /\ call[c].next.user \in UserKey
    BY <1>2, SessionFields DEF CreateTx, RotateExec, JointInv, IndInv, CallShape
  <2>2. Store(call[c].sid, call[c].next)
    BY <1>2 DEF CreateTx, RotateExec
  <2>3. /\ sessions' = [sessions EXCEPT ![call[c].sid] = call[c].next]
        /\ userSessions' = [userSessions EXCEPT ![call[c].next.user] = @ \cup {call[c].sid}]
    BY <2>2 DEF Store, Indexed
  <2>4. CASE s = call[c].sid
    BY <1>1, <2>1, <2>3, <2>4
  <2>5. CASE s # call[c].sid
    <3>1. sessions'[s] = sessions[s] /\ Stored(s)
      BY <1>1, <2>1, <2>3, <2>5
    <3>2. \A k \in UserKey : userSessions[k] \subseteq userSessions'[k]
      BY <1>1, <2>1, <2>3
    <3>3. sessions[s].user \in UserKey
      BY <1>1, <3>1, SessionFields
    <3> QED
      BY <1>1, <3>1, <3>2, <3>3
  <2> QED
    BY <2>4, <2>5
<1>3. ASSUME NEW c \in Client, DeleteTx(c) PROVE s \in userSessions'[sessions'[s].user]
  <2>1. /\ s # call[c].sid /\ sessions'[s] = sessions[s]
        /\ userSessions' = [userSessions EXCEPT ![call[c].uid] = @ \ {call[c].sid}]
    BY <1>3 DEF DeleteTx, Erase
  <2>2. sessions[s].user \in UserKey
    BY <1>1, <2>1, SessionFields
  <2> QED
    BY <1>1, <2>1, <2>2
<1>4. ASSUME NEW c \in Client, DelAll(c) PROVE s \in userSessions'[sessions'[s].user]
  <2>1. /\ s \notin call[c].list /\ sessions'[s] = sessions[s]
        /\ userSessions' = [userSessions EXCEPT ![call[c].uid] = {}]
    BY <1>4 DEF DelAll, Erase
  <2>2. sessions[s].user # call[c].uid
    BY <1>4, <2>1 DEF DelAll, IndexInv, ListComplete
  <2>3. sessions[s].user \in UserKey
    BY <1>1, <2>1, SessionFields
  <2> QED
    BY <1>1, <2>1, <2>2, <2>3
<1>5. ASSUME NEW t \in SessionId, Evict(t) PROVE s \in userSessions'[sessions'[s].user]
  BY <1>1, <1>5 DEF Evict, Erase
<1>6. ASSUME NEW k \in UserKey, EvictIndex(k) PROVE s \in userSessions'[sessions'[s].user]
  BY <1>1, <1>6 DEF EvictIndex
<1>7. \/ \E c \in Client : CreateTx(c) \/ RotateExec(c) \/ DeleteTx(c) \/ DelAll(c)
      \/ \E t \in SessionId : Evict(t)
      \/ \E k \in UserKey : EvictIndex(k)
      \/ UNCHANGED <<sessions, userSessions>>
  BY DEF Background, Execute, Get, DeleteGet, Watch, RotateGet, RotateConflict, SMembers,
    CommandFails, Elapse, Expire
<1> QED
  BY <1>1, <1>2, <1>3, <1>4, <1>5, <1>6, <1>7

\* Commands and time keep what holds however ids are written.
LEMMA CommandsKeepIndexInv ==
  ASSUME JointInv, IndexInv, Background, UNCHANGED <<account, claims, req>>,
         ~LoginRacesRevocation'
  PROVE  IndexInv'
BY CommandsKeepLists, CommandsKeepIndex DEF IndexInv

\* ... and RevocationInv, when ids are written canonically.
LEMMA CommandsKeepInv ==
  ASSUME JointInv, RevocationInv, Background, UNCHANGED <<account, claims, req>>,
         ~LoginRacesRevocation'
  PROVE  RevocationInv'
BY CommandsKeepSessionsCurrent, CommandsKeepRevocations, CommandsKeepIndexInv
DEF RevocationInv, CanonicalIds

-----------------------------------------------------------------------------
(* Requests, when no login races: what holds however ids are written.       *)

\* A request goes on as r with the store call k.
LEMMA IndexGoesOn ==
  ASSUME JointInv, IndexInv, NEW c \in Client, NEW r, NEW k,
         req' = [req EXCEPT ![c] = r], call' = [call EXCEPT ![c] = k],
         UNCHANGED <<sessions, userSessions>>, \A p \in usedPairs : claims'[p] = claims[p],
         ~LoginRacesRevocation', CallFits(r, k), r.op = "logoutAll" => r.token \in usedPairs,
         k.pc # "delAll"
  PROVE  IndexInv'
<1>1. /\ req \in [Client -> Request] /\ call \in [Client -> Call]
      /\ req'[c] = r /\ call'[c] = k
      /\ \A d \in Client : d # c => req'[d] = req[d] /\ call'[d] = call[d]
  BY DEF JointInv, IndInv, TypeOK, ServiceTypeOK
<1>2. RequestCalls'
  <2> SUFFICES ASSUME NEW d \in Client PROVE CallFits(req[d], call[d])'
    BY DEF RequestCalls
  <2>1. CASE d = c
    BY <1>1, <2>1 DEF CallFits, ChangeOp, RoleOp
  <2>2. CASE d # c
    <3>1. CallFits(req[d], call[d])
      BY DEF IndexInv, RequestCalls
    <3>2. req[d].op = "logoutAll" => req[d].token \in usedPairs
      BY RequestToken, TokenSigned DEF TokenOp
    <3> QED
      BY <1>1, <2>2, <3>1, <3>2 DEF CallFits
  <2> QED
    BY <2>1, <2>2
<1>3. ListComplete'
  BY <1>1 DEF ListComplete, IndexInv
<1>4. IndexComplete'
  BY DEF IndexComplete, IndexInv
<1> QED
  BY <1>2, <1>3, <1>4 DEF IndexInv

\* A request that is over calls nothing.
LEMMA IndexEnds ==
  ASSUME JointInv, IndexInv, NEW c \in Client, Finish(c), claims' = claims,
         ~LoginRacesRevocation'
  PROVE  IndexInv'
<1>1. /\ NoReq.op = "none" /\ NoReq.pc = "idle" /\ Idle.pc = "idle"
  BY DEF NoReq, Idle
<1>2. CallFits(NoReq, Idle)
  BY <1>1 DEF CallFits
<1>3. /\ req' = [req EXCEPT ![c] = NoReq] /\ call' = [call EXCEPT ![c] = Idle]
      /\ UNCHANGED <<sessions, userSessions>>
  BY DEF Finish, Forget
<1> HIDE DEF NoReq, Idle
<1> QED
  BY <1>1, <1>2, <1>3, IndexGoesOn

\* A request arrives.
LEMMA ArrivalKeepsIndex ==
  ASSUME JointInv, IndexInv, NEW c \in Client, Arrive(c), ~LoginRacesRevocation'
  PROVE  IndexInv'
<1>1. /\ req \in [Client -> Request] /\ call \in [Client -> Call] /\ CallFits(req[c], call[c])
  BY DEF JointInv, IndInv, TypeOK, ServiceTypeOK, IndexInv, RequestCalls
<1>2. ASSUME NEW u \in User, CreateUser(c, u) PROVE IndexInv'
  <2>1. /\ UNCHANGED <<sessions, userSessions, claims>>
        /\ req' = [req EXCEPT ![c] = req[c]] /\ call' = [call EXCEPT ![c] = call[c]]
        /\ call[c].pc = "idle"
    BY <1>1, <1>2 DEF CreateUser, cacheVars, On
  <2>2. req[c].op = "logoutAll" => req[c].token \in usedPairs
    BY RequestToken, TokenSigned DEF TokenOp
  <2> QED
    BY <1>1, <2>1, <2>2, IndexGoesOn
<1>3. ASSUME NEW u \in User, StartLogin(c, u) PROVE IndexInv'
  <2>1. PICK r : r = [NoReq EXCEPT !.op = "login", !.pc = "row", !.user = u]
    OBVIOUS
  <2>2. /\ r.op = "login" /\ r.pc = "row" /\ req' = [req EXCEPT ![c] = r]
        /\ call[c].pc = "idle" /\ call' = [call EXCEPT ![c] = call[c]]
        /\ UNCHANGED <<sessions, userSessions, claims>>
    BY <1>1, <1>3, <2>1 DEF StartLogin, NoReq, On, cacheVars
  <2>3. CallFits(r, call[c])
    BY <2>2 DEF CallFits
  <2> QED
    BY <2>2, <2>3, IndexGoesOn
<1>4. ASSUME NEW op \in TokenOp, NEW p \in Pair, StartWithToken(c, op, p) PROVE IndexInv'
  <2>1. PICK r : r = [NoReq EXCEPT !.op = op, !.pc = "validating", !.token = p]
    OBVIOUS
  <2>2. PICK k : k = [Idle EXCEPT !.op = "get", !.pc = "get", !.sid = claims[p].sid]
    OBVIOUS
  <2>3. /\ r.pc = "validating" /\ r.token = p /\ k.pc = "get"
        /\ req' = [req EXCEPT ![c] = r] /\ call' = [call EXCEPT ![c] = k]
        /\ UNCHANGED <<sessions, userSessions, claims>>
    BY <1>4, <2>1, <2>2 DEF StartWithToken, StartGet, NoReq, Idle
  <2>4. p \in usedPairs
    BY <1>4, TokenSigned DEF StartWithToken
  <2>5. CallFits(r, k)
    BY <2>3 DEF CallFits
  <2> QED
    BY <2>3, <2>4, <2>5, IndexGoesOn
<1>5. ASSUME NEW op \in ChangeOp, NEW u \in UserKey, NEW role, StartChange(c, op, u, role)
      PROVE  IndexInv'
  <2>1. PICK r : r = [NoReq EXCEPT !.op = op, !.pc = "revoking", !.user = Parse[u],
                                   !.role = role]
    OBVIOUS
  <2>2. PICK k : k = [Idle EXCEPT !.op = "deleteAll", !.pc = "smembers", !.uid = u]
    OBVIOUS
  <2>3. /\ r.op = op /\ r.pc = "revoking" /\ r.user = Parse[u]
        /\ k.pc = "smembers" /\ k.uid = u
        /\ req' = [req EXCEPT ![c] = r] /\ call' = [call EXCEPT ![c] = k]
        /\ UNCHANGED <<sessions, userSessions, claims>>
    BY <1>5, <2>1, <2>2 DEF StartChange, StartDeleteAll, NoReq, Idle
  <2>4. CallFits(r, k) /\ r.op # "logoutAll"
    BY <2>3 DEF CallFits, ChangeOp, RoleOp
  <2> QED
    BY <2>3, <2>4, IndexGoesOn
<1> QED
  BY <1>2, <1>3, <1>4, <1>5 DEF Arrive, ChangeOp

\* A login or a refresh calls the store with the session it signed.
LEMMA SigningKeepsIndex ==
  ASSUME JointInv, IndexInv, NEW c \in Client, Login(c) \/ Refresh(c),
         ~LoginRacesRevocation'
  PROVE  IndexInv'
<1>1. /\ req \in [Client -> Request] /\ call \in [Client -> Call]
      /\ claims \in [Pair -> Claims \cup {Nil}] /\ usedPairs \subseteq Pair
  BY DEF JointInv, IndInv, TypeOK, ServiceTypeOK
<1>2. PICK u \in User : u = req[c].user
  BY RequestFits DEF Login, Refresh, On, Fits
<1>3. PICK r : r = [req[c] EXCEPT !.pc = "storing"]
  OBVIOUS
<1>4. /\ req' = [req EXCEPT ![c] = r] /\ r.op = req[c].op /\ r.pc = "storing" /\ r.user = u
      /\ r.op \in {"login", "refresh"}
  BY <1>1, <1>2, <1>3 DEF Login, Refresh, Move, Request, On
<1>5. ASSUME NEW s, NEW p \in Pair, p \notin usedPairs, Sign(u, s, p)
      PROVE  \A q \in usedPairs : claims'[q] = claims[q]
  BY <1>1, <1>5 DEF Sign
<1>6. ASSUME Login(c) PROVE IndexInv'
  <2>1. PICK s \in SessionId, p \in Pair : StartCreate(c, s, SessionFor(u, p)) /\ Sign(u, s, p)
    BY <1>2, <1>6 DEF Login
  <2>2. PICK x : x = SessionFor(u, p)
    OBVIOUS
  <2>3. PICK k : k = [Idle EXCEPT !.op = "create", !.pc = "createTx", !.sid = s, !.next = x]
    OBVIOUS
  <2>4. /\ p \notin usedPairs /\ call' = [call EXCEPT ![c] = k]
        /\ UNCHANGED <<sessions, userSessions>>
    BY <2>1, <2>2, <2>3 DEF StartCreate, SessionFor
  <2>5. k.pc = "createTx" /\ k.next.user = Canonical[u] /\ r.op = "login"
    BY <1>4, <1>6, <2>2, <2>3 DEF Idle, SessionFor, Login
  <2>6. CallFits(r, k) /\ k.pc # "delAll" /\ r.op # "logoutAll"
    BY <1>2, <1>4, <2>5 DEF CallFits
  <2>7. \A q \in usedPairs : claims'[q] = claims[q]
    BY <1>5, <2>1, <2>4
  <2> QED
    BY <1>4, <2>4, <2>6, <2>7, IndexGoesOn
<1>7. ASSUME Refresh(c) PROVE IndexInv'
  <2>0. PICK s : s = claims[req[c].token].sid
    OBVIOUS
  <2>1. PICK p \in Pair : StartRotate(c, s, req[c].token, SessionFor(u, p)) /\ Sign(u, s, p)
    BY <1>2, <1>7, <2>0 DEF Refresh
  <2>2. PICK k : k = [Idle EXCEPT !.op = "rotate", !.pc = "watch", !.sid = s,
                                  !.expect = req[c].token, !.next = SessionFor(u, p)]
    OBVIOUS
  <2>3. /\ p \notin usedPairs /\ call' = [call EXCEPT ![c] = k] /\ k.pc = "watch"
        /\ UNCHANGED <<sessions, userSessions>>
    BY <2>1, <2>2 DEF StartRotate, SessionFor, Idle
  <2>4. CallFits(r, k) /\ r.op # "logoutAll"
    BY <1>4, <1>7, <2>3 DEF CallFits, Refresh
  <2> QED
    BY <1>4, <1>5, <2>1, <2>3, <2>4, IndexGoesOn
<1> QED
  BY <1>6, <1>7

\* Every step of a request.
LEMMA RequestsKeepIndex ==
  ASSUME JointInv, IndexInv, NEW c \in Client, Proceed(c), ~LoginRacesRevocation'
  PROVE  IndexInv'
<1>1. /\ req[c] \in Request /\ req \in [Client -> Request]
      /\ req[c].op = "logoutAll" => req[c].token \in usedPairs
  <2>1. req[c].op = "logoutAll" => req[c].token \in usedPairs
    BY RequestToken, TokenSigned DEF TokenOp
  <2> QED
    BY <2>1 DEF JointInv, ServiceTypeOK
<1>2. CASE Login(c) \/ Refresh(c)
  BY <1>2, SigningKeepsIndex
<1>3. CASE Finish(c) /\ claims' = claims
  BY <1>3, IndexEnds
<1>4. ASSUME NEW pc \in {"roles", "check", "commit", "remove"}, Continue(c, pc),
             claims' = claims, pc # "roles" => req[c].op \in ChangeOp
      PROVE  IndexInv'
  <2>1. PICK r : r = [req[c] EXCEPT !.pc = pc]
    OBVIOUS
  <2>2. PICK none : none = Idle
    OBVIOUS
  <2>3. /\ req' = [req EXCEPT ![c] = r] /\ call' = [call EXCEPT ![c] = none]
        /\ r.pc = pc /\ r.op = req[c].op /\ r.token = req[c].token /\ none.pc = "idle"
        /\ UNCHANGED <<sessions, userSessions>>
    BY <1>1, <1>4, <2>1, <2>2 DEF Continue, Move, Forget, Request, Idle
  <2>4. CallFits(r, none)
    BY <1>4, <2>3 DEF CallFits
  <2> QED
    BY <1>1, <1>4, <2>3, <2>4, IndexGoesOn
<1>5. ASSUME ReadRow(c) PROVE IndexInv'
  BY <1>3, <1>4, <1>5 DEF ReadRow
<1>6. ASSUME Change(c) PROVE IndexInv'
  BY <1>3, <1>4, <1>6 DEF Change, ChangeOp
<1>7. ASSUME CheckRole(c) PROVE IndexInv'
  <2>1. req[c].op \in ChangeOp
    BY <1>7 DEF CheckRole, On, IndexInv, RequestCalls, CallFits
  <2> QED
    BY <1>3, <1>4, <1>7, <2>1 DEF CheckRole
<1>8. ASSUME RefreshToken(c) PROVE IndexInv'
  <2>1. PICK r : r = [req[c] EXCEPT !.pc = "row", !.user = Parse[claims[req[c].token].user]]
    OBVIOUS
  <2>2. PICK none : none = Idle
    OBVIOUS
  <2>3. /\ req' = [req EXCEPT ![c] = r] /\ call' = [call EXCEPT ![c] = none]
        /\ r.pc = "row" /\ r.op = "refresh" /\ none.pc = "idle"
        /\ UNCHANGED <<sessions, userSessions, claims>>
    BY <1>1, <1>8, <2>1, <2>2 DEF RefreshToken, Validated, Forget, Request, Idle
  <2>4. CallFits(r, none)
    BY <2>3 DEF CallFits
  <2> QED
    BY <2>3, <2>4, IndexGoesOn
<1>9. ASSUME Logout(c) \/ LogoutAll(c) PROVE IndexInv'
  <2>1. PICK r : r = [req[c] EXCEPT !.pc = "ending"]
    OBVIOUS
  <2>2. /\ req' = [req EXCEPT ![c] = r] /\ r.pc = "ending" /\ r.op = req[c].op
        /\ r.token = req[c].token /\ r.op \in {"logout", "logoutAll"} /\ claims' = claims
    BY <1>1, <1>9, <2>1 DEF Logout, LogoutAll, Validated, Move, Request
  <2>3. PICK k : call' = [call EXCEPT ![c] = k] /\ UNCHANGED <<sessions, userSessions>>
                 /\ \/ k.pc = "deleteGet"
                    \/ /\ k.pc = "smembers" /\ r.op = "logoutAll"
                       /\ k.uid = claims[req[c].token].user
    <3>1. CASE Logout(c)
      <4>1. PICK k : k = [Idle EXCEPT !.op = "delete", !.pc = "deleteGet",
                                      !.sid = claims[req[c].token].sid]
        OBVIOUS
      <4>2. call' = [call EXCEPT ![c] = k] /\ k.pc = "deleteGet"
            /\ UNCHANGED <<sessions, userSessions>>
        BY <3>1, <4>1 DEF Logout, StartDelete, Idle
      <4> QED
        BY <4>2
    <3>2. CASE LogoutAll(c)
      <4>1. PICK k : k = [Idle EXCEPT !.op = "deleteAll", !.pc = "smembers",
                                      !.uid = claims[req[c].token].user]
        OBVIOUS
      <4>2. /\ call' = [call EXCEPT ![c] = k] /\ k.pc = "smembers"
            /\ k.uid = claims[req[c].token].user /\ r.op = "logoutAll"
            /\ UNCHANGED <<sessions, userSessions>>
        BY <2>2, <3>2, <4>1 DEF LogoutAll, Validated, StartDeleteAll, Idle
      <4> QED
        BY <4>2
    <3> QED
      BY <1>9, <3>1, <3>2
  <2>4. CallFits(r, k)
    BY <2>2, <2>3 DEF CallFits
  <2> QED
    BY <1>1, <2>2, <2>3, <2>4, IndexGoesOn
<1> QED
  BY <1>2, <1>3, <1>5, <1>6, <1>7, <1>8, <1>9
  DEF Proceed, Refuse, ValidateToken, Answered, CommitRole, RemoveUser, SqlFails

\* Every step of the service in which no login races.
LEMMA IndexKeeps ==
  JointInv /\ IndexInv /\ [ServiceNext /\ ~LoginRacesRevocation']_serviceVars => IndexInv'
<1> SUFFICES ASSUME JointInv, IndexInv,
                    [ServiceNext /\ ~LoginRacesRevocation']_serviceVars
             PROVE  IndexInv'
  OBVIOUS
<1>1. CASE UNCHANGED serviceVars
  BY <1>1
  DEF serviceVars, cacheVars, IndexInv, LoginRacesRevocation, On, RequestCalls, CallFits,
    ListComplete, IndexComplete
<1>2. CASE ~LoginRacesRevocation' /\ \E c \in Client : Arrive(c) \/ Proceed(c)
  BY <1>2, ArrivalKeepsIndex, RequestsKeepIndex
<1>3. CASE ~LoginRacesRevocation' /\ (PassTime \/ \E c \in Client : RunCommand(c))
  BY <1>3, CommandsKeepIndexInv DEF PassTime, RunCommand, Background
<1> QED
  BY <1>1, <1>2, <1>3 DEF ServiceNext

-----------------------------------------------------------------------------
\* Accounts change only when they have no session and no login has read them.
Undisturbed ==
  \A u \in User : account'[u] # account[u] =>
    /\ \A s \in SessionId : Stored(s) => sessions[s].user # Canonical[u]
    /\ \A d \in Client : req[d].op = "login" /\ req[d].user = u =>
         req[d].pc # "roles" /\ ~At(d, "createTx")

\* A request goes on as r with the store call k.
LEMMA RequestGoesOn ==
  ASSUME JointInv, RevocationInv, NEW c \in Client, NEW r, NEW k,
         req' = [req EXCEPT ![c] = r], call' = [call EXCEPT ![c] = k],
         UNCHANGED <<sessions, userSessions>>, \A p \in usedPairs : claims'[p] = claims[p],
         Undisturbed, IndexInv',
         r.op = "login" /\ r.pc = "roles" => r.user \in User /\ Active(r.user)',
         k.pc = "createTx" => Agrees(k.next)',
         k.pc \in Rotating \cup {"watch"} => (Exchangeable(c)' => Agrees(k.next)'),
         Revoked(r, k) => Revoked(req[c], call[c]) /\ r.user = req[c].user
  PROVE  RevocationInv'
<1>1. /\ req \in [Client -> Request] /\ call \in [Client -> Call]
      /\ req'[c] = r /\ call'[c] = k
      /\ \A d \in Client : d # c => req'[d] = req[d] /\ call'[d] = call[d]
  BY DEF JointInv, IndInv, TypeOK, ServiceTypeOK
<1>3. ASSUME NEW x, Agrees(x),
             \A u \in User : x.user = Canonical[u] => account'[u] = account[u]
      PROVE  Agrees(x)'
  BY <1>3 DEF Agrees, Active
<1>4. SessionsCurrent'
  BY <1>3 DEF SessionsCurrent, RevocationInv, Undisturbed
<1>5. LoginsCurrent'
  <2> SUFFICES ASSUME NEW d \in Client, d # c
               PROVE  /\ At(d, "createTx") => Agrees(call[d].next)'
                      /\ req[d].op = "login" /\ req[d].pc = "roles" => Active(req[d].user)'
    BY <1>1 DEF LoginsCurrent, Active
  <2>1. ASSUME At(d, "createTx") PROVE Agrees(call[d].next)'
    <3>1. /\ req[d].op = "login" /\ req[d].user \in User
          /\ call[d].next.user = Canonical[req[d].user]
      BY <2>1 DEF RevocationInv, IndexInv, RequestCalls, CallFits
    <3>2. account'[req[d].user] = account[req[d].user]
      BY <2>1, <3>1 DEF Undisturbed
    <3>3. \A u \in User : Canonical[u] = Canonical[req[d].user] => u = req[d].user
      BY <3>1, UserServiceAssumption
    <3> QED
      BY <1>3, <2>1, <3>1, <3>2, <3>3 DEF RevocationInv, LoginsCurrent
  <2>2. ASSUME req[d].op = "login", req[d].pc = "roles" PROVE Active(req[d].user)'
    BY <1>1, <2>2, RequestFits DEF Fits, Undisturbed, Active, RevocationInv, LoginsCurrent
  <2> QED
    BY <2>1, <2>2
<1>6. RefreshesCurrent'
  <2> SUFFICES ASSUME NEW d \in Client, InRotate(d)', Exchangeable(d)'
               PROVE  Agrees(call[d].next)'
    BY DEF RefreshesCurrent
  <2>1. CASE d = c
    BY <1>1, <2>1
  <2>2. CASE d # c
    <3>1. call'[d] = call[d] /\ InRotate(d) /\ Exchangeable(d)
      BY <1>1, <2>2 DEF Exchangeable, HoldsToken, SameUser
    <3>2. call[d].sid \in SessionId
      BY <3>1 DEF JointInv, IndInv, CallShape
    <3>3. \A u \in User : call[d].next.user = Canonical[u] => account'[u] = account[u]
      BY <3>1, <3>2 DEF Exchangeable, SameUser, Undisturbed
    <3> QED
      BY <1>3, <3>1, <3>3 DEF RevocationInv, RefreshesCurrent
  <2> QED
    BY <2>1, <2>2
<1>8. RevokedHaveNone'
  BY <1>1 DEF RevokedHaveNone, RevocationInv, Revoked
<1> QED
  BY <1>4, <1>5, <1>6, <1>8 DEF RevocationInv, CanonicalIds

\* A request that is over.
LEMMA RequestEnds ==
  ASSUME JointInv, RevocationInv, NEW c \in Client, Finish(c), claims' = claims, Undisturbed,
         IndexInv'
  PROVE  RevocationInv'
<1>1. /\ NoReq.op = "none" /\ NoReq.pc = "idle" /\ Idle.pc = "idle"
  BY DEF NoReq, Idle
<1>2. ~Revoked(NoReq, Idle)
  BY <1>1 DEF Revoked, ChangeOp, RoleOp
<1>3. /\ req' = [req EXCEPT ![c] = NoReq] /\ call' = [call EXCEPT ![c] = Idle]
      /\ UNCHANGED <<sessions, userSessions>>
  BY DEF Finish, Forget
<1> HIDE DEF NoReq, Idle
<1> QED
  BY <1>1, <1>2, <1>3, RequestGoesOn

\* A request arrives.
LEMMA ArrivalKeeps ==
  ASSUME JointInv, RevocationInv, NEW c \in Client, Arrive(c), IndexInv'
  PROVE  RevocationInv'
<1>1. /\ req \in [Client -> Request] /\ call \in [Client -> Call]
      /\ account \in [User -> Account]
  BY DEF JointInv, IndInv, TypeOK, ServiceTypeOK
<1>2. ASSUME NEW u \in User, CreateUser(c, u) PROVE RevocationInv'
  <2>1. /\ UNCHANGED <<sessions, userSessions, claims, call, req>>
        /\ account[u].status = "absent"
        /\ req[c].pc = "idle" /\ call[c].pc = "idle"
        /\ \A v \in User : v # u => account'[v] = account[v]
    BY <1>1, <1>2 DEF CreateUser, cacheVars, On
  <2>2. \A s \in SessionId : Stored(s) => sessions[s].user # Canonical[u]
    BY <2>1 DEF RevocationInv, SessionsCurrent, Agrees, Active
  <2>3. ASSUME NEW d \in Client, req[d].op = "login", req[d].user = u
        PROVE  req[d].pc # "roles" /\ ~At(d, "createTx")
    BY <2>1, <2>3
    DEF RevocationInv, IndexInv, LoginsCurrent, Agrees, Active, RequestCalls, CallFits
  <2>4. Undisturbed
    BY <2>1, <2>2, <2>3 DEF Undisturbed
  <2>5. PICK r, k : r = req[c] /\ k = call[c]
    OBVIOUS
  <2>6. /\ req' = [req EXCEPT ![c] = r] /\ call' = [call EXCEPT ![c] = k]
        /\ r.pc = "idle" /\ k.pc = "idle"
    BY <1>1, <2>1, <2>5
  <2>7. Revoked(r, k) => Revoked(req[c], call[c]) /\ r.user = req[c].user
    BY <2>5
  <2> QED
    BY <2>1, <2>4, <2>6, <2>7, RequestGoesOn
<1>3. ASSUME account' = account, UNCHANGED <<sessions, userSessions, claims>>, NEW r, NEW k,
             req' = [req EXCEPT ![c] = r], call' = [call EXCEPT ![c] = k],
             r.pc \notin {"roles", "check", "commit", "remove"},
             k.pc \in {"idle", "get", "smembers"}, r.pc = "revoking" => k.pc = "smembers"
      PROVE  RevocationInv'
  BY <1>3, RequestGoesOn DEF Undisturbed, Revoked
<1>4. ASSUME NEW u \in User, StartLogin(c, u) PROVE RevocationInv'
  <2> DEFINE r == [NoReq EXCEPT !.op = "login", !.pc = "row", !.user = u]
  <2>1. r.op = "login" /\ r.pc = "row" /\ req' = [req EXCEPT ![c] = r] /\ call[c].pc = "idle"
    BY <1>4 DEF StartLogin, NoReq, On
  <2>2. call' = [call EXCEPT ![c] = call[c]]
        /\ UNCHANGED <<sessions, userSessions, claims, account>>
    BY <1>1, <1>4 DEF StartLogin, cacheVars
  <2> HIDE DEF r
  <2> QED
    BY <1>3, <2>1, <2>2
<1>5. ASSUME NEW op \in TokenOp, NEW p \in Pair, StartWithToken(c, op, p) PROVE RevocationInv'
  <2> DEFINE r == [NoReq EXCEPT !.op = op, !.pc = "validating", !.token = p]
             k == [Idle EXCEPT !.op = "get", !.pc = "get", !.sid = claims[p].sid]
  <2>1. /\ r.pc = "validating" /\ r.token = p /\ k.pc = "get"
        /\ req' = [req EXCEPT ![c] = r] /\ call' = [call EXCEPT ![c] = k]
        /\ UNCHANGED <<sessions, userSessions, claims, account>>
    BY <1>5 DEF StartWithToken, StartGet, NoReq, Idle
  <2> HIDE DEF r, k
  <2> QED
    BY <1>3, <2>1
<1>6. ASSUME NEW op \in ChangeOp, NEW u \in UserKey, NEW role, StartChange(c, op, u, role)
      PROVE  RevocationInv'
  <2> DEFINE r == [NoReq EXCEPT !.op = op, !.pc = "revoking", !.user = Parse[u], !.role = role]
             k == [Idle EXCEPT !.op = "deleteAll", !.pc = "smembers", !.uid = u]
  <2>1. /\ r.op = op /\ r.pc = "revoking" /\ r.user = Parse[u] /\ k.pc = "smembers" /\ k.uid = u
        /\ req' = [req EXCEPT ![c] = r] /\ call' = [call EXCEPT ![c] = k]
        /\ UNCHANGED <<sessions, userSessions, claims, account>>
    BY <1>6 DEF StartChange, StartDeleteAll, NoReq, Idle
  <2> HIDE DEF r, k
  <2> QED
    BY <1>3, <2>1
<1> QED
  BY <1>2, <1>4, <1>5, <1>6 DEF Arrive, ChangeOp

\* A login or a refresh signs what the account says.
LEMMA SigningKeeps ==
  ASSUME JointInv, RevocationInv, NEW c \in Client, Login(c) \/ Refresh(c),
         IndexInv'
  PROVE  RevocationInv'
<1>1. /\ req \in [Client -> Request] /\ call \in [Client -> Call]
      /\ claims \in [Pair -> Claims \cup {Nil}] /\ usedPairs \subseteq Pair
  BY DEF JointInv, IndInv, TypeOK, ServiceTypeOK
<1>2. PICK u \in User : u = req[c].user
  BY RequestFits DEF Login, Refresh, On, Fits
<1>3. PICK r : r = [req[c] EXCEPT !.pc = "storing"]
  OBVIOUS
<1>4. /\ req' = [req EXCEPT ![c] = r] /\ r.op = req[c].op /\ r.pc = "storing" /\ r.user = u
      /\ r.op \in {"login", "refresh"} /\ account' = account /\ req[c].pc = "roles"
  BY <1>1, <1>2, <1>3 DEF Login, Refresh, Move, Request, On
<1>5. /\ Undisturbed
      /\ r.op \notin ChangeOp
  BY <1>4 DEF Undisturbed, ChangeOp, RoleOp
<1>6. ASSUME NEW s, NEW p \in Pair, p \notin usedPairs, Sign(u, s, p)
      PROVE  \A q \in usedPairs : claims'[q] = claims[q]
  BY <1>1, <1>6 DEF Sign
<1>7. ASSUME NEW p, NEW x, x = SessionFor(u, p), account[u].status = "active"
      PROVE Agrees(x)'
  BY <1>2, <1>4, <1>7, UserServiceAssumption DEF Agrees, Active, SessionFor
<1>8. ASSUME NEW k, call' = [call EXCEPT ![c] = k],
             UNCHANGED <<sessions, userSessions>>, \A q \in usedPairs : claims'[q] = claims[q],
             k.pc = "createTx" => Agrees(k.next)',
             k.pc = "watch" => (Exchangeable(c)' => Agrees(k.next)'),
             k.pc \in {"createTx", "watch"}
      PROVE  RevocationInv'
  BY <1>4, <1>5, <1>8, RequestGoesOn DEF Revoked
<1>9. ASSUME Login(c) PROVE RevocationInv'
  <2>1. PICK s \in SessionId, p \in Pair : StartCreate(c, s, SessionFor(u, p)) /\ Sign(u, s, p)
    BY <1>2, <1>9 DEF Login
  <2>2. PICK x : x = SessionFor(u, p)
    OBVIOUS
  <2>3. PICK k : k = [Idle EXCEPT !.op = "create", !.pc = "createTx", !.sid = s, !.next = x]
    OBVIOUS
  <2>4. /\ p \notin usedPairs /\ call' = [call EXCEPT ![c] = k]
        /\ UNCHANGED <<sessions, userSessions>>
    BY <2>1, <2>2, <2>3 DEF StartCreate, SessionFor
  <2>5. k.pc = "createTx" /\ k.next = x /\ x.user = Canonical[u]
    BY <2>2, <2>3 DEF Idle, SessionFor
  <2>6. account[u].status = "active"
    BY <1>2, <1>4, <1>9 DEF Login, RevocationInv, LoginsCurrent, Active
  <2>7. \A q \in usedPairs : claims'[q] = claims[q]
    BY <1>6, <2>1, <2>4
  <2>8. Agrees(k.next)'
    BY <1>7, <2>2, <2>5, <2>6
  <2> QED
    BY <1>8, <2>4, <2>5, <2>7, <2>8
<1>10. ASSUME Refresh(c) PROVE RevocationInv'
  <2>0. PICK s : s = claims[req[c].token].sid
    OBVIOUS
  <2>1. PICK p \in Pair : StartRotate(c, s, req[c].token, SessionFor(u, p)) /\ Sign(u, s, p)
    BY <1>2, <1>10, <2>0 DEF Refresh
  <2>2. PICK x : x = SessionFor(u, p)
    OBVIOUS
  <2>3. PICK k : k = [Idle EXCEPT !.op = "rotate", !.pc = "watch", !.sid = s,
                                  !.expect = req[c].token, !.next = x]
    OBVIOUS
  <2>4. /\ p \notin usedPairs /\ call' = [call EXCEPT ![c] = k]
        /\ UNCHANGED <<sessions, userSessions>> /\ req[c].token \in released
    BY <2>1, <2>2, <2>3 DEF StartRotate, SessionFor
  <2>5. k.pc = "watch" /\ k.next = x /\ x.user = Canonical[u] /\ k.sid = s
    BY <2>2, <2>3 DEF Idle, SessionFor
  <2>6. \A q \in usedPairs : claims'[q] = claims[q]
    BY <1>6, <2>1, <2>4
  <2>7. ASSUME Exchangeable(c)' PROVE Agrees(k.next)'
    <3>1. s \in SessionId /\ call'[c].sid = s /\ call'[c].next = x
      BY <1>1, <2>0, <2>4, <2>5, TokenSigned
    <3>2. Stored(s) /\ sessions[s].user = Canonical[u]
      BY <2>4, <2>5, <2>7, <3>1 DEF Exchangeable, SameUser
    <3>3. account[u].status = "active"
      BY <3>1, <3>2 DEF RevocationInv, SessionsCurrent, Agrees, Active
    <3> QED
      BY <1>7, <2>2, <2>5, <3>3
  <2> QED
    BY <1>8, <2>4, <2>5, <2>6, <2>7
<1> QED
  BY <1>9, <1>10

\* A request that reads or asks: no account and no token changes.
LEMMA RequestMovesOn ==
  ASSUME JointInv, RevocationInv, NEW c \in Client, NEW r, NEW k,
         req' = [req EXCEPT ![c] = r], call' = [call EXCEPT ![c] = k],
         UNCHANGED <<account, claims, sessions, userSessions>>, IndexInv',
         r.op = "login" /\ r.pc = "roles" => r.user \in User /\ Active(r.user),
         k.pc \in {"idle", "deleteGet", "smembers"},
         Revoked(r, k) => Revoked(req[c], call[c]) /\ r.user = req[c].user
  PROVE  RevocationInv'
<1>1. Undisturbed
  BY DEF Undisturbed
<1>2. r.op = "login" /\ r.pc = "roles" => r.user \in User /\ Active(r.user)'
  BY DEF Active
<1> QED
  BY <1>1, <1>2, RequestGoesOn

\* The steps of a request between its calls.
LEMMA ReadingKeeps ==
  ASSUME JointInv, RevocationInv, NEW c \in Client, IndexInv',
         ReadRow(c) \/ RefreshToken(c) \/ Logout(c) \/ LogoutAll(c) \/ Change(c) \/ CheckRole(c)
  PROVE  RevocationInv'
<1>1. /\ req[c] \in Request /\ req \in [Client -> Request]
      /\ UNCHANGED <<account, claims, sessions, userSessions>>
  BY DEF JointInv, ServiceTypeOK, ReadRow, RefreshToken, Logout, LogoutAll, Change,
    CheckRole, Continue, Finish, Forget, StartDelete, StartDeleteAll
<1>2. PICK none : none = Idle
  OBVIOUS
<1>3. none.pc = "idle"
  BY <1>2 DEF Idle
<1>4. CASE Finish(c)
  BY <1>1, <1>4, RequestEnds DEF Undisturbed
<1>5. ASSUME NEW pc \in {"roles", "check", "commit", "remove"}, Continue(c, pc),
             pc # "roles" => req[c].op \in ChangeOp /\ Revoked(req[c], call[c]),
             pc = "roles" => req[c].user \in User /\ Active(req[c].user)
      PROVE  RevocationInv'
  <2>1. PICK r : r = [req[c] EXCEPT !.pc = pc]
    OBVIOUS
  <2>2. /\ req' = [req EXCEPT ![c] = r] /\ call' = [call EXCEPT ![c] = none]
        /\ r.pc = pc /\ r.op = req[c].op /\ r.user = req[c].user
    BY <1>1, <1>2, <1>5, <2>1 DEF Continue, Move, Forget, Request
  <2>3. Revoked(r, none) => Revoked(req[c], call[c])
    BY <1>3, <1>5, <2>2 DEF Revoked
  <2> QED
    BY <1>1, <1>3, <1>5, <2>2, <2>3, RequestMovesOn
<1>6. ASSUME ReadRow(c) PROVE RevocationInv'
  BY <1>4, <1>5, <1>6, RequestFits DEF ReadRow, On, Fits
<1>7. ASSUME RefreshToken(c) PROVE RevocationInv'
  <2>1. PICK r : r = [req[c] EXCEPT !.pc = "row", !.user = Parse[claims[req[c].token].user]]
    OBVIOUS
  <2>2. /\ req' = [req EXCEPT ![c] = r] /\ call' = [call EXCEPT ![c] = none]
        /\ r.pc = "row" /\ r.op = "refresh"
    BY <1>1, <1>2, <1>7, <2>1 DEF RefreshToken, Validated, Forget, Request
  <2>3. ~Revoked(r, none)
    BY <1>3, <2>2 DEF Revoked, ChangeOp, RoleOp
  <2> QED
    BY <1>1, <1>3, <2>2, <2>3, RequestMovesOn
<1>8. ASSUME Logout(c) \/ LogoutAll(c) PROVE RevocationInv'
  <2>1. PICK r : r = [req[c] EXCEPT !.pc = "ending"]
    OBVIOUS
  <2>2. /\ req' = [req EXCEPT ![c] = r] /\ r.pc = "ending" /\ r.op = req[c].op
        /\ r.op \in {"logout", "logoutAll"}
    BY <1>1, <1>8, <2>1 DEF Logout, LogoutAll, Validated, Move, Request
  <2>3. ASSUME NEW k, call' = [call EXCEPT ![c] = k],
               k.pc \in {"deleteGet", "smembers"}
        PROVE  RevocationInv'
    <3>1. ~Revoked(r, k)
      BY <2>2 DEF Revoked, ChangeOp, RoleOp
    <3> QED
      BY <1>1, <2>2, <2>3, <3>1, RequestMovesOn
  <2>4. CASE Logout(c)
    <3>1. PICK k : k = [Idle EXCEPT !.op = "delete", !.pc = "deleteGet",
                                    !.sid = claims[req[c].token].sid]
      OBVIOUS
    <3>2. call' = [call EXCEPT ![c] = k] /\ k.pc = "deleteGet"
      BY <2>4, <3>1 DEF Logout, StartDelete, Idle
    <3> QED
      BY <2>3, <3>2
  <2>5. CASE LogoutAll(c)
    <3>1. PICK k : k = [Idle EXCEPT !.op = "deleteAll", !.pc = "smembers",
                                    !.uid = claims[req[c].token].user]
      OBVIOUS
    <3>2. call' = [call EXCEPT ![c] = k] /\ k.pc = "smembers"
      BY <2>5, <3>1 DEF LogoutAll, StartDeleteAll, Idle
    <3> QED
      BY <2>3, <3>2
  <2> QED
    BY <1>8, <2>4, <2>5
<1>9. ASSUME Change(c) PROVE RevocationInv'
  <2>1. CASE Finish(c)
    BY <1>4, <2>1
  <2>2. CASE ~Finish(c)
    <3>1. Revoked(req[c], call[c]) /\ req[c].op \in ChangeOp
      BY <1>9, <2>2 DEF Change, SessionsRevoked, On, Revoked, ChangeOp
    <3> QED
      BY <1>5, <1>9, <2>2, <3>1 DEF Change
  <2> QED
    BY <2>1, <2>2
<1>10. ASSUME CheckRole(c) PROVE RevocationInv'
  <2>1. CASE Finish(c)
    BY <1>4, <2>1
  <2>2. CASE Continue(c, "commit")
    <3>1. Revoked(req[c], call[c]) /\ req[c].op \in ChangeOp
      BY <1>10 DEF CheckRole, On, Revoked, RevocationInv, IndexInv, RequestCalls,
        CallFits
    <3> QED
      BY <1>5, <2>2, <3>1
  <2> QED
    BY <1>10, <2>1, <2>2 DEF CheckRole
<1> QED
  BY <1>6, <1>7, <1>8, <1>9, <1>10

\* A change commits: no session of the account is left, and no login has read it.
LEMMA CommitKeeps ==
  ASSUME JointInv, RevocationInv, NEW c \in Client, CommitRole(c) \/ RemoveUser(c),
         IndexInv'
  PROVE  RevocationInv'
<1>1. PICK u \in User : u = req[c].user
  BY RequestFits DEF CommitRole, RemoveUser, On, Fits
<1>2. req[c].op \in ChangeOp /\ Revoked(req[c], call[c])
  BY DEF CommitRole, RemoveUser, On, Revoked, RevocationInv, IndexInv, RequestCalls, CallFits
<1>3. \A v \in User : v # u => account'[v] = account[v]
  BY <1>1 DEF CommitRole, RemoveUser, JointInv, ServiceTypeOK
<1>4. \A s \in SessionId : Stored(s) => sessions[s].user # Canonical[u]
  BY <1>1, <1>2 DEF RevocationInv, RevokedHaveNone
<1>5. ASSUME NEW d \in Client, req[d].op = "login", req[d].user = u
      PROVE  req[d].pc # "roles" /\ ~At(d, "createTx")
  <2>1. req[d].pc = "roles" => At(d, "idle")
    BY DEF RevocationInv, IndexInv, RequestCalls, CallFits
  <2> QED
    BY <1>1, <1>2, <1>5, <2>1 DEF RevocationInv, IndexInv, LoginRacesRevocation, On
<1>6. Undisturbed
  BY <1>3, <1>4, <1>5 DEF Undisturbed
<1>7. Finish(c) /\ claims' = claims
  BY DEF CommitRole, RemoveUser
<1> QED
  BY <1>6, <1>7, RequestEnds

\* Every step of a request keeps the invariant.
LEMMA RequestsKeepInv ==
  ASSUME JointInv, RevocationInv, NEW c \in Client, Proceed(c), IndexInv'
  PROVE  RevocationInv'
<1>1. CASE Refuse(c) \/ ValidateToken(c) \/ Answered(c) \/ SqlFails(c)
  BY <1>1, RequestEnds DEF Refuse, ValidateToken, Answered, SqlFails, Undisturbed
<1> QED
  BY <1>1, SigningKeeps, ReadingKeeps, CommitKeeps DEF Proceed

\* Nothing is stored and nobody is served at the start.
LEMMA RevocationStarts == ServiceInit => IndexInv /\ (CanonicalIds => RevocationInv)
<1> SUFFICES ASSUME ServiceInit PROVE IndexInv /\ (CanonicalIds => RevocationInv)
  OBVIOUS
<1>1. /\ \A s \in SessionId : ~Stored(s)
      /\ \A c \in Client : req[c].op = "none" /\ req[c].pc = "idle" /\ call[c].pc = "idle"
  BY DEF ServiceInit, CacheInit, NoReq, Idle
<1>2. ~LoginRacesRevocation
  BY <1>1 DEF LoginRacesRevocation
<1>3. RequestCalls
  BY <1>1 DEF RequestCalls, CallFits
<1>4. SessionsCurrent /\ LoginsCurrent /\ RefreshesCurrent
  BY <1>1 DEF SessionsCurrent, LoginsCurrent, RefreshesCurrent
<1>5. ListComplete /\ RevokedHaveNone /\ IndexComplete
  BY <1>1 DEF ListComplete, RevokedHaveNone, Revoked, IndexComplete, ChangeOp, RoleOp
<1> QED
  BY <1>2, <1>3, <1>4, <1>5 DEF RevocationInv, IndexInv

\* Every step of the service in which no login races keeps it.
LEMMA RevocationKeeps ==
  JointInv /\ RevocationInv /\ [ServiceNext /\ ~LoginRacesRevocation']_serviceVars
    => RevocationInv'
<1> SUFFICES ASSUME JointInv, RevocationInv,
                    [ServiceNext /\ ~LoginRacesRevocation']_serviceVars
             PROVE  RevocationInv'
  OBVIOUS
<1>1. IndexInv /\ IndexInv'
  BY IndexKeeps DEF RevocationInv
<1>2. CASE UNCHANGED serviceVars
  BY <1>1, <1>2
  DEF serviceVars, cacheVars, RevocationInv, CanonicalIds, SessionsCurrent, Agrees, Active,
    LoginsCurrent, RefreshesCurrent, Exchangeable, HoldsToken, SameUser, RevokedHaveNone,
    Revoked
<1>3. CASE \E c \in Client : Arrive(c) \/ Proceed(c)
  BY <1>1, <1>3, ArrivalKeeps, RequestsKeepInv
<1>4. CASE ~LoginRacesRevocation' /\ (PassTime \/ \E c \in Client : RunCommand(c))
  BY <1>4, CommandsKeepInv DEF PassTime, RunCommand, Background
<1> QED
  BY <1>2, <1>3, <1>4 DEF ServiceNext

\* A race-free behaviour is a behaviour of the service.
LEMMA RaceFreeIsService == RaceFreeServiceSpec => ServiceSpec
<1>1. [ServiceNext /\ ~LoginRacesRevocation']_serviceVars => [ServiceNext]_serviceVars
  OBVIOUS
<1> QED
  BY <1>1, PTL DEF RaceFreeServiceSpec, ServiceSpec

\* The index of every user lists all the sessions of the user, so the next
\* revocation misses none: in the behaviours in which no login races with a
\* revocation, however the ids of the requests are written (the SADD of Create and
\* Rotate, and the SMEMBERS and DEL of DeleteAllForUser, redis.go).
THEOREM IndexStaysComplete == RaceFreeServiceSpec => []IndexComplete
<1>1. RaceFreeServiceSpec => []JointInv
  BY RaceFreeIsService, ServiceInvariance, PTL
<1>2. RaceFreeServiceSpec => []IndexInv
  BY <1>1, RevocationStarts, IndexKeeps, PTL DEF RaceFreeServiceSpec
<1>3. IndexInv => IndexComplete
  BY DEF IndexInv
<1> QED
  BY <1>2, <1>3, PTL

\* With ids as the service writes them, RevocationInv holds in every state of
\* the behaviours in which no login races with a revocation.
THEOREM RevocationInvariance == CanonicalIds /\ RaceFreeServiceSpec => []RevocationInv
<1>1. RaceFreeServiceSpec => []JointInv
  BY RaceFreeIsService, ServiceInvariance, PTL
<1> QED
  BY <1>1, RevocationStarts, RevocationKeeps, PTL DEF RaceFreeServiceSpec

\* While no role change of a user is under way, every session carries the roles
\* of its user (AssignRole and RevokeRole, user_service.go:307-362).
THEOREM PermissionsStayCurrent ==
  CanonicalIds /\ RaceFreeServiceSpec => []NoStalePermissions
<1>1. RevocationInv => NoStalePermissions
  BY DEF RevocationInv, SessionsCurrent, Agrees, NoStalePermissions
<1> QED
  BY <1>1, RevocationInvariance, PTL

\* A deleted user has no session (DeleteUser, user_service.go).
THEOREM DeletedHaveNoSession ==
  CanonicalIds /\ RaceFreeServiceSpec => []NoSessionAfterDelete
<1>1. RevocationInv => NoSessionAfterDelete
  BY DEF RevocationInv, SessionsCurrent, Agrees, Active, NoSessionAfterDelete
<1> QED
  BY <1>1, RevocationInvariance, PTL

-----------------------------------------------------------------------------
(***************************************************************************)
(* Every request is short: the safety half of RequestsReturn.  StepsLeft   *)
(* bounds the statements and commands a request still runs, and each of    *)
(* them brings it down, whatever the other requests do meanwhile.          *)
(***************************************************************************)
RequestSteps(r) ==
  CASE r.pc = "idle" -> 0
    [] r.pc \in {"storing", "ending", "commit", "remove"} -> 1
    [] r.pc = "check" -> 2
    [] r.pc = "revoking" -> 3
    [] r.pc = "roles" -> 8
    [] r.pc = "row" -> 9
    [] r.pc = "validating" -> 10

\* A conflict starts the second round of a Rotate, of three commands; the second
\* round meets none.
RoundSteps(k) == 3 * (1 - k.attempt)

CallSteps(k) ==
  CASE k.pc = "idle" -> 0
    [] k.pc \in {"createTx", "deleteTx", "delAll"} -> 1
    [] k.pc \in {"deleteGet", "smembers"} -> 2
    [] k.pc = "get" -> 3
    [] k.pc = "rotateExec" -> 1 + RoundSteps(k)
    [] k.pc = "rotateGet" -> 2 + RoundSteps(k)
    [] k.pc = "watch" -> 3 + RoundSteps(k)

StepsLeft(c) == RequestSteps(req[c]) + CallSteps(call[c])

ShortRequests == \A c \in Client : StepsLeft(c) \in 0 .. 13

\* The numbers are natural.
LEMMA StepsAreNat ==
  ASSUME NEW r \in Request, NEW k \in Call, k.attempt \in {0, 1}
  PROVE  RequestSteps(r) \in 0 .. 10 /\ CallSteps(k) \in 0 .. 6
<1>1. RequestSteps(r) \in 0 .. 10
  BY DEF RequestSteps, Request
<1>2. RoundSteps(k) \in {0, 3}
  BY DEF RoundSteps
<1>3. CallSteps(k) \in 0 .. 6
  BY <1>2 DEF CallSteps, Call, PC
<1> QED
  BY <1>1, <1>3

\* In a reachable state ...
LEMMA StepsBounds ==
  ASSUME JointInv, NEW c \in Client
  PROVE  /\ RequestSteps(req[c]) \in 0 .. 10
         /\ CallSteps(call[c]) \in 0 .. 6
         /\ StepsLeft(c) = RequestSteps(req[c]) + CallSteps(call[c])
BY StepsAreNat DEF JointInv, IndInv, TypeOK, ServiceTypeOK, ConflictDecides, StepsLeft

\* ... and in the next.
LEMMA StepsBoundsNext ==
  ASSUME JointInv', NEW c \in Client
  PROVE  /\ RequestSteps(req'[c]) \in 0 .. 10
         /\ CallSteps(call'[c]) \in 0 .. 6
         /\ StepsLeft(c)' = RequestSteps(req'[c]) + CallSteps(call'[c])
BY StepsAreNat DEF JointInv, IndInv, TypeOK, ServiceTypeOK, ConflictDecides, StepsLeft

\* A step of one request leaves the others where they are.
LEMMA OthersWait ==
  ASSUME JointInv, NEW c \in Client, NEW d \in Client, c # d,
         Arrive(d) \/ Proceed(d) \/ RunCommand(d)
  PROVE  req'[c] = req[c] /\ call'[c] = call[c]
<1>1. req \in [Client -> Request] /\ call \in [Client -> Call]
  BY DEF JointInv, IndInv, TypeOK, ServiceTypeOK
<1>2. CASE Arrive(d)
  BY <1>1, <1>2 DEF Arrive, CreateUser, StartLogin, StartWithToken, StartChange, StartGet,
    StartDeleteAll, cacheVars
<1>3. CASE RunCommand(d)
  BY <1>1, <1>3 DEF RunCommand, Execute, CreateTx, Get, DeleteGet, DeleteTx, Watch, RotateGet,
    RotateConflict, RotateExec, SMembers, DelAll, CommandFails, Return, Goto
<1>4. CASE Login(d) \/ Refresh(d)
  BY <1>1, <1>4 DEF Login, Refresh, Move, StartCreate, StartRotate
<1>5. CASE RefreshToken(d) \/ Logout(d) \/ LogoutAll(d)
  BY <1>1, <1>5 DEF RefreshToken, Logout, LogoutAll, Move, Forget, StartDelete, StartDeleteAll
<1>6. CASE Finish(d) \/ \E pc : Continue(d, pc)
  BY <1>1, <1>6 DEF Finish, Continue, Move, Forget
<1>7. Proceed(d) => \/ Login(d) \/ Refresh(d) \/ RefreshToken(d) \/ Logout(d) \/ LogoutAll(d)
                    \/ Finish(d) \/ \E pc : Continue(d, pc)
  BY DEF Proceed, ReadRow, Refuse, ValidateToken, Answered, Change, CheckRole, CommitRole,
    RemoveUser, SqlFails
<1> QED
  BY <1>2, <1>3, <1>4, <1>5, <1>6, <1>7

\* A command brings its method closer to the return.
LEMMA CommandsGoOn ==
  ASSUME JointInv, JointInv', NEW c \in Client, RunCommand(c)
  PROVE  StepsLeft(c)' < StepsLeft(c)
<1>1. call \in [Client -> Call] /\ call[c].attempt \in {0, 1}
      /\ (At(c, "rotateExec") => call[c].attempt = 0)
  BY DEF JointInv, IndInv, TypeOK, ConflictDecides
<1>2. req' = req
  BY DEF RunCommand
<1>3. SUFFICES CallSteps(call'[c]) < CallSteps(call[c])
  BY <1>2, StepsBounds, StepsBoundsNext DEF StepsLeft
<1>4. call[c].pc # "idle" => CallSteps(call[c]) > 0
  BY <1>1 DEF CallSteps, RoundSteps, Call, PC
<1>5. ASSUME NEW r, NEW x, Return(c, r, x), call[c].pc # "idle"
      PROVE  CallSteps(call'[c]) < CallSteps(call[c])
  <2>1. call'[c].pc = "idle"
    BY <1>1, <1>5 DEF Return, Idle
  <2> QED
    BY <1>4, <1>5, <2>1 DEF CallSteps
<1>6. CASE \/ CreateTx(c) \/ DeleteTx(c) \/ RotateExec(c) \/ DelAll(c)
           \/ CommandFails(c)
  BY <1>5, <1>6 DEF CreateTx, DeleteTx, RotateExec, DelAll, CommandFails
<1>7. CASE Get(c)
  <2>1. CASE Goto(c, "deleteGet")
    BY <1>1, <1>7, <2>1 DEF Get, Goto, CallSteps, Call
  <2> QED
    BY <1>5, <1>7, <2>1 DEF Get
<1>8. CASE DeleteGet(c)
  <2>1. CASE call'[c].pc = "deleteTx"
    BY <1>8, <2>1 DEF DeleteGet, CallSteps
  <2> QED
    BY <1>1, <1>5, <1>8, <2>1 DEF DeleteGet, Call
<1>9. CASE Watch(c)
  BY <1>1, <1>9 DEF Watch, Goto, CallSteps, RoundSteps, Call
<1>10. CASE RotateGet(c)
  <2>1. CASE Goto(c, "rotateExec")
    BY <1>1, <1>10, <2>1 DEF RotateGet, Goto, CallSteps, RoundSteps, Call
  <2> QED
    BY <1>5, <1>10, <2>1 DEF RotateGet
<1>11. CASE RotateConflict(c)
  <2>1. CASE call' = [call EXCEPT ![c].pc = "watch", ![c].attempt = @ + 1]
    BY <1>1, <1>11, <2>1 DEF RotateConflict, CallSteps, RoundSteps, Call
  <2> QED
    BY <1>5, <1>11, <2>1 DEF RotateConflict
<1>12. CASE SMembers(c)
  BY <1>1, <1>12 DEF SMembers, CallSteps, Call
<1> QED
  BY <1>6, <1>7, <1>8, <1>9, <1>10, <1>11, <1>12 DEF RunCommand, Execute

\* So does a step between the commands, which starts the next call if there is one.
LEMMA StepsGoOn ==
  ASSUME JointInv, JointInv', NEW c \in Client, Proceed(c)
  PROVE  StepsLeft(c)' < StepsLeft(c)
<1>1. req \in [Client -> Request] /\ call \in [Client -> Call]
  BY DEF JointInv, IndInv, TypeOK, ServiceTypeOK
<1>2. StepsLeft(c)' = RequestSteps(req'[c]) + CallSteps(call'[c])
  BY DEF StepsLeft
<1>3. call[c].pc = "idle" => StepsLeft(c) = RequestSteps(req[c])
  BY StepsBounds DEF CallSteps
<1>4. ASSUME Finish(c), call[c].pc = "idle", req[c].pc # "idle"
      PROVE  StepsLeft(c)' < StepsLeft(c)
  <2>1. req'[c].pc = "idle" /\ call'[c].pc = "idle"
    BY <1>1, <1>4 DEF Finish, Forget, NoReq, Idle
  <2>2. StepsLeft(c)' = 0
    BY <1>2, <2>1 DEF RequestSteps, CallSteps
  <2>3. RequestSteps(req[c]) > 0
    BY <1>1, <1>4 DEF RequestSteps, Request
  <2> QED
    BY <1>3, <1>4, <2>2, <2>3
<1>5. ASSUME NEW pc, Continue(c, pc), call[c].pc = "idle",
             \/ pc = "roles" /\ req[c].pc = "row"
             \/ pc \in {"check", "remove"} /\ req[c].pc = "revoking"
             \/ pc = "commit" /\ req[c].pc = "check"
      PROVE  StepsLeft(c)' < StepsLeft(c)
  <2>1. req'[c].pc = pc /\ call'[c].pc = "idle"
    BY <1>1, <1>5 DEF Continue, Move, Forget, Idle, Request
  <2>2. StepsLeft(c)' = RequestSteps(req'[c])
    BY <1>2, StepsBoundsNext, <2>1 DEF CallSteps
  <2> QED
    BY <1>3, <1>5, <2>1, <2>2 DEF RequestSteps
<1>6. CASE \/ ReadRow(c) \/ Refuse(c) \/ ValidateToken(c) \/ Answered(c) \/ Change(c)
           \/ CheckRole(c) \/ CommitRole(c) \/ RemoveUser(c) \/ SqlFails(c)
  BY <1>4, <1>5, <1>6
  DEF On, ReadRow, Refuse, ValidateToken, Validated, Answered, Change, CheckRole, CommitRole,
    RemoveUser, SqlFails
<1>7. CASE Login(c) \/ Refresh(c)
  <2>1. req[c].pc = "roles" /\ req'[c].pc = "storing" /\ call[c].pc = "idle"
    BY <1>1, <1>7 DEF Login, Refresh, On, Move, Request
  <2>2. CallSteps(call'[c]) \in 0 .. 6
    BY StepsBoundsNext
  <2> QED
    BY <1>2, <1>3, <2>1, <2>2 DEF RequestSteps
<1>8. CASE RefreshToken(c)
  <2>1. req[c].pc = "validating" /\ req'[c].pc = "row"
        /\ call[c].pc = "idle" /\ call'[c].pc = "idle"
    BY <1>1, <1>8 DEF RefreshToken, Validated, On, Forget, Idle, Request
  <2> QED
    BY <1>2, <1>3, <2>1 DEF RequestSteps, CallSteps
<1>9. CASE Logout(c) \/ LogoutAll(c)
  <2>1. req[c].pc = "validating" /\ req'[c].pc = "ending" /\ call[c].pc = "idle"
    BY <1>1, <1>9 DEF Logout, LogoutAll, Validated, On, Move, Request
  <2>2. CallSteps(call'[c]) \in 0 .. 6
    BY StepsBoundsNext
  <2> QED
    BY <1>2, <1>3, <2>1, <2>2 DEF RequestSteps
<1> QED
  BY <1>6, <1>7, <1>8, <1>9 DEF Proceed

\* A request that arrives has at most 13 of them before it.
LEMMA ArrivalsAreShort ==
  ASSUME JointInv, JointInv', ShortRequests, NEW c \in Client, Arrive(c)
  PROVE  StepsLeft(c)' \in 0 .. 13
<1>1. req \in [Client -> Request] /\ call \in [Client -> Call]
  BY DEF JointInv, IndInv, TypeOK, ServiceTypeOK
<1>2. StepsLeft(c)' = RequestSteps(req'[c]) + CallSteps(call'[c])
  BY DEF StepsLeft
<1>3. ASSUME NEW u \in User, CreateUser(c, u) PROVE StepsLeft(c)' \in 0 .. 13
  <2>1. req'[c] = req[c] /\ call'[c] = call[c]
    BY <1>3 DEF CreateUser, cacheVars
  <2> QED
    BY <1>2, <2>1 DEF ShortRequests, StepsLeft
<1>4. ASSUME NEW u \in User, StartLogin(c, u) PROVE StepsLeft(c)' \in 0 .. 13
  <2>1. req'[c].pc = "row" /\ call'[c].pc = "idle"
    BY <1>1, <1>4 DEF StartLogin, On, NoReq, cacheVars
  <2> QED
    BY <1>2, <2>1 DEF RequestSteps, CallSteps
<1>5. ASSUME NEW op \in TokenOp, NEW p \in Pair, StartWithToken(c, op, p)
      PROVE  StepsLeft(c)' \in 0 .. 13
  <2>1. req'[c].pc = "validating" /\ call'[c].pc = "get"
    BY <1>1, <1>5 DEF StartWithToken, StartGet, NoReq, Idle
  <2> QED
    BY <1>2, <2>1 DEF RequestSteps, CallSteps
<1>6. ASSUME NEW op \in ChangeOp, NEW k \in UserKey, NEW role, StartChange(c, op, k, role)
      PROVE  StepsLeft(c)' \in 0 .. 13
  <2>1. req'[c].pc = "revoking" /\ call'[c].pc = "smembers"
    BY <1>1, <1>6 DEF StartChange, StartDeleteAll, NoReq, Idle
  <2> QED
    BY <1>2, <2>1 DEF RequestSteps, CallSteps
<1> QED
  BY <1>3, <1>4, <1>5, <1>6 DEF Arrive, ChangeOp

\* What a step of the service does to the work of a request.
LEMMA StepsShrink ==
  ASSUME JointInv, JointInv', NEW c \in Client, [ServiceNext]_serviceVars
  PROVE  /\ Proceed(c) \/ RunCommand(c) => StepsLeft(c)' < StepsLeft(c)
         /\ Arrive(c) \/ StepsLeft(c)' <= StepsLeft(c)
<1>0. StepsLeft(c) \in Nat
  BY StepsBounds
<1>1. ASSUME req'[c] = req[c], call'[c] = call[c] PROVE StepsLeft(c)' <= StepsLeft(c)
  BY <1>0, <1>1 DEF StepsLeft
<1>2. CASE PassTime \/ UNCHANGED serviceVars
  <2>1. req'[c] = req[c] /\ call'[c] = call[c]
    BY <1>2 DEF PassTime, Elapse, Expire, Evict, EvictIndex, serviceVars, cacheVars
  <2> QED
    BY <1>1, <2>1, CommandsGoOn, StepsGoOn
<1>3. ASSUME NEW d \in Client, Arrive(d) \/ Proceed(d) \/ RunCommand(d)
      PROVE  Arrive(c) \/ StepsLeft(c)' <= StepsLeft(c)
  <2>1. CASE c # d
    BY <1>1, <1>3, <2>1, OthersWait
  <2>2. CASE c = d
    BY <1>0, <1>3, <2>2, CommandsGoOn, StepsGoOn, StepsBoundsNext
  <2> QED
    BY <2>1, <2>2
<1> QED
  BY <1>2, <1>3, CommandsGoOn, StepsGoOn DEF ServiceNext

\* No request of the service runs more than 13 statements and commands of its own,
\* the retry of Rotate (redis.go:189-253) included, however the others interfere:
\* nothing is left of RequestsReturn but that the goroutine gets to run.
THEOREM RequestsAreShort == ServiceSpec => []ShortRequests
<1>1. ServiceInit => ShortRequests
  <2> SUFFICES ASSUME ServiceInit, NEW c \in Client PROVE StepsLeft(c) \in 0 .. 13
    BY DEF ShortRequests
  <2>1. req[c].pc = "idle" /\ call[c].pc = "idle"
    BY DEF ServiceInit, CacheInit, NoReq, Idle
  <2> QED
    BY <2>1 DEF StepsLeft, RequestSteps, CallSteps
<1>2. JointInv /\ JointInv' /\ ShortRequests /\ [ServiceNext]_serviceVars => ShortRequests'
  <2> SUFFICES ASSUME JointInv, JointInv', ShortRequests, [ServiceNext]_serviceVars,
                      NEW c \in Client
               PROVE  StepsLeft(c)' \in 0 .. 13
    BY DEF ShortRequests
  <2>1. StepsLeft(c)' \in Nat /\ StepsLeft(c) \in 0 .. 13
    BY StepsBounds, StepsBoundsNext DEF ShortRequests
  <2> QED
    BY <2>1, ArrivalsAreShort, StepsShrink
<1> QED
  BY <1>1, <1>2, ServiceInvariance, PTL DEF ServiceSpec

\* Each of them counts: a request never goes back to a step it has taken.
THEOREM RequestsGoOn ==
  ServiceSpec =>
    [][\A c \in Client :
         /\ Proceed(c) \/ RunCommand(c) => StepsLeft(c)' < StepsLeft(c)
         /\ Arrive(c) \/ StepsLeft(c)' <= StepsLeft(c)]_serviceVars
<1>1. JointInv /\ JointInv' /\ [ServiceNext]_serviceVars =>
        [\A c \in Client :
           /\ Proceed(c) \/ RunCommand(c) => StepsLeft(c)' < StepsLeft(c)
           /\ Arrive(c) \/ StepsLeft(c)' <= StepsLeft(c)]_serviceVars
  BY StepsShrink
<1> QED
  BY <1>1, ServiceInvariance, PTL DEF ServiceSpec

-----------------------------------------------------------------------------
(***************************************************************************)
(* Every request is answered: RequestsReturn itself.  ENABLED is beyond    *)
(* the provers: the theorem is about GuardedRequests, which is             *)
(* ServiceFairness with InProgress in place of ENABLED.  That the two      *)
(* agree (RequestsCanGoOn) is left to TLC.                                 *)
(***************************************************************************)
AtMost(c, n) == StepsLeft(c) <= n

\* Fewer and fewer steps are left of a request in progress.
LEMMA WorkRunsOut ==
  ASSUME JointInv, JointInv', [ServiceNext]_serviceVars, NEW c \in Client, NEW n \in Nat,
         AtMost(c, n)
  PROVE  /\ InProgress(c) => AtMost(c, n)'
         /\ Proceed(c) \/ RunCommand(c) => n > 0 /\ AtMost(c, n - 1)'
<1>1. StepsLeft(c) \in Nat
  BY StepsBounds
<1>2. StepsLeft(c)' \in Nat
  BY StepsBoundsNext
<1>3. PICK a \in Nat, b \in Nat : a = StepsLeft(c) /\ b = StepsLeft(c)'
  BY <1>1, <1>2
<1>4. a <= n
  BY <1>3 DEF AtMost
<1>5. Arrive(c) => ~InProgress(c)
  BY DEF Arrive, CreateUser, StartLogin, StartWithToken, StartChange, On, InProgress
<1>6. InProgress(c) => b <= a
  BY <1>3, <1>5, StepsShrink
<1>7. Proceed(c) \/ RunCommand(c) => b < a
  BY <1>3, StepsShrink
<1>8. b <= n => AtMost(c, n)'
  BY <1>3 DEF AtMost
<1>9. b <= n - 1 => AtMost(c, n - 1)'
  BY <1>3 DEF AtMost
<1>10. b < a => n > 0 /\ b <= n - 1
  BY <1>4
<1>11. b <= a => b <= n
  BY <1>4
<1> QED
  BY <1>6, <1>7, <1>8, <1>9, <1>10, <1>11

\* Every request of every client is answered, whatever the others, the clock and
\* the failing commands do.
THEOREM RequestsAreAnswered == GuardedServiceSpec => RequestsReturn
<1> SUFFICES ASSUME NEW c \in Client
             PROVE  GuardedServiceSpec => []<>(req[c].pc = "idle")
  BY DEF RequestsReturn
<1>1. JointInv /\ JointInv' /\ [ServiceNext]_serviceVars /\ InProgress(c) =>
      /\ AtMost(c, 13) => AtMost(c, 13)'
      /\ AtMost(c, 12) => AtMost(c, 12)'
      /\ AtMost(c, 11) => AtMost(c, 11)'
      /\ AtMost(c, 10) => AtMost(c, 10)'
      /\ AtMost(c, 9) => AtMost(c, 9)'
      /\ AtMost(c, 8) => AtMost(c, 8)'
      /\ AtMost(c, 7) => AtMost(c, 7)'
      /\ AtMost(c, 6) => AtMost(c, 6)'
      /\ AtMost(c, 5) => AtMost(c, 5)'
      /\ AtMost(c, 4) => AtMost(c, 4)'
      /\ AtMost(c, 3) => AtMost(c, 3)'
      /\ AtMost(c, 2) => AtMost(c, 2)'
      /\ AtMost(c, 1) => AtMost(c, 1)'
      /\ AtMost(c, 0) => AtMost(c, 0)'
  BY WorkRunsOut
<1>2. JointInv /\ JointInv' /\ [ServiceNext]_serviceVars
        /\ <<Proceed(c) \/ RunCommand(c)>>_serviceVars =>
      /\ AtMost(c, 13) => AtMost(c, 12)'
      /\ AtMost(c, 12) => AtMost(c, 11)'
      /\ AtMost(c, 11) => AtMost(c, 10)'
      /\ AtMost(c, 10) => AtMost(c, 9)'
      /\ AtMost(c, 9) => AtMost(c, 8)'
      /\ AtMost(c, 8) => AtMost(c, 7)'
      /\ AtMost(c, 7) => AtMost(c, 6)'
      /\ AtMost(c, 6) => AtMost(c, 5)'
      /\ AtMost(c, 5) => AtMost(c, 4)'
      /\ AtMost(c, 4) => AtMost(c, 3)'
      /\ AtMost(c, 3) => AtMost(c, 2)'
      /\ AtMost(c, 2) => AtMost(c, 1)'
      /\ AtMost(c, 1) => AtMost(c, 0)'
      /\ ~AtMost(c, 0)
  BY WorkRunsOut
<1>3. ShortRequests => AtMost(c, 13)
  BY DEF ShortRequests, AtMost
<1>4. GuardedRequests => GuardedRequest(c)
  BY DEF GuardedRequests
<1>5. InProgress(c) <=> ~(req[c].pc = "idle")
  BY DEF InProgress
<1> QED
  BY <1>1, <1>2, <1>3, <1>4, <1>5, ServiceInvariance, RequestsAreShort, PTL
     DEF GuardedServiceSpec, ServiceSpec, GuardedRequest

-----------------------------------------------------------------------------
(***************************************************************************)
(* The service and its accounts: every step is a step of AccountStore, or  *)
(* changes none.                                                           *)
(***************************************************************************)
\* One account of the refinement changes.
LEMMA OneAccount ==
  ASSUME NEW u \in User, NEW x, AccountOf(u)' = x,
         \A v \in User \ {u} : AccountOf(v)' = AccountOf(v)
  PROVE  [v \in User |-> AccountOf(v)]' = [[v \in User |-> AccountOf(v)] EXCEPT ![u] = x]
OBVIOUS

\* CreateUser creates the account.
LEMMA CreateUserCreates ==
  ASSUME JointInv, NEW c \in Client, NEW u \in User, CreateUser(c, u)
  PROVE  Accounts!Create(u)
<1>1. AccountOf(u)' = [status |-> "active", roles |-> {Customer}]
  BY DEF CreateUser, AccountOf, JointInv, ServiceTypeOK
<1>2. \A v \in User \ {u} : AccountOf(v)' = AccountOf(v)
  BY DEF CreateUser, AccountOf, JointInv, ServiceTypeOK
<1>3. AccountOf(u).status = "absent"
  BY DEF CreateUser, AccountOf
<1> QED
  BY <1>1, <1>2, <1>3, OneAccount DEF Accounts!Create

\* DeleteUser deletes an account that is active, or nothing.
LEMMA RemoveUserDeletes ==
  ASSUME JointInv, NEW c \in Client, RemoveUser(c)
  PROVE  Accounts!Next \/ account' = account
<1>1. PICK u \in User : u = req[c].user
  BY RequestFits DEF RemoveUser, On, Fits
<1>2. account[u] \in Account /\ account \in [User -> Account]
  BY DEF JointInv, ServiceTypeOK
<1>3. CASE Active(u)
  <2>1. account' = [account EXCEPT ![u].status = "deleted"]
    BY <1>1, <1>3 DEF RemoveUser
  <2>2. AccountOf(u)' = [AccountOf(u) EXCEPT !.status = "deleted"]
    BY <1>2, <2>1 DEF AccountOf, Account
  <2>3. \A v \in User \ {u} : AccountOf(v)' = AccountOf(v)
    BY <1>2, <2>1 DEF AccountOf
  <2>4. AccountOf(u).status = "active"
    BY <1>3 DEF Active, AccountOf
  <2>5. Accounts!Delete(u)
    BY <2>2, <2>3, <2>4, OneAccount DEF Accounts!Delete
  <2> QED
    BY <2>5 DEF Accounts!Next
<1> QED
  BY <1>1, <1>3 DEF RemoveUser

\* A role change adds or removes one role of an account there is, or nothing.
LEMMA CommitRoleChanges ==
  ASSUME JointInv, AbsentIsNew, NEW c \in Client, CommitRole(c)
  PROVE  Accounts!Next \/ account' = account
<1>1. PICK u \in User : u = req[c].user
  BY RequestFits DEF CommitRole, On, Fits
<1>2. PICK r : r = req[c].role
  OBVIOUS
<1>3. account[u] \in Account /\ account \in [User -> Account] /\ account[u].status # "absent"
  BY <1>1 DEF JointInv, ServiceTypeOK, AbsentIsNew, CommitRole, On
<1>4. PICK old : old = account[u].roles
  OBVIOUS
<1>5. old \subseteq Role
  BY <1>3, <1>4, UserServiceAssumption DEF Account
<1>6. ASSUME NEW new,
             account' = [account EXCEPT ![u].roles = new, ![u].revision = @ + 1]
      PROVE  /\ AccountOf(u)' = [AccountOf(u) EXCEPT !.roles = new]
             /\ \A v \in User \ {u} : AccountOf(v)' = AccountOf(v)
  BY <1>3, <1>6 DEF AccountOf, Account
<1>7. AccountOf(u).status # "absent" /\ AccountOf(u).roles = old
  BY <1>3, <1>4 DEF AccountOf
<1>8. CASE req[c].op = "assign" /\ account' # account
  <2>1. r \in Role
    BY <1>2, <1>8, RequestFits DEF Fits, RoleOp
  <2>2. /\ r \notin old
        /\ account' = [account EXCEPT ![u].roles = old \cup {r}, ![u].revision = @ + 1]
    BY <1>1, <1>2, <1>4, <1>8 DEF CommitRole
  <2>3. Accounts!AssignRole(u, r)
    BY <1>6, <1>7, <2>2, OneAccount DEF Accounts!AssignRole
  <2> QED
    BY <2>1, <2>3 DEF Accounts!Next
<1>9. CASE req[c].op # "assign" /\ account' # account
  <2>1. /\ r \in old
        /\ account' = [account EXCEPT ![u].roles = old \ {r}, ![u].revision = @ + 1]
    BY <1>1, <1>2, <1>4, <1>9 DEF CommitRole
  <2>2. Accounts!RevokeRole(u, r)
    BY <1>6, <1>7, <2>1, OneAccount DEF Accounts!RevokeRole
  <2> QED
    BY <1>5, <2>1, <2>2 DEF Accounts!Next
<1> QED
  BY <1>8, <1>9

\* Every other step leaves the accounts alone.
LEMMA StepsAreAccountSteps ==
  ASSUME JointInv, AbsentIsNew, [ServiceNext]_serviceVars
  PROVE  [Accounts!Next]_([u \in User |-> AccountOf(u)])
<1>1. CASE account' = account
  BY <1>1 DEF AccountOf
<1>2. ASSUME NEW c \in Client, NEW u \in User, CreateUser(c, u) PROVE Accounts!Next
  BY <1>2, CreateUserCreates DEF Accounts!Next
<1> QED
  BY <1>1, <1>2, RemoveUserDeletes, CommitRoleChanges
  DEF ServiceNext, serviceVars, RunCommand, PassTime, Arrive, StartLogin, StartWithToken,
    StartChange, Proceed, ReadRow, Login, Refresh, Refuse, ValidateToken, RefreshToken, Logout,
    LogoutAll, Answered, Change, CheckRole, SqlFails

\* CreateUser, AssignRole, RevokeRole and DeleteUser (user_service.go) change
\* accounts as domain.UserRepository lets them: a role is given only to an account
\* there is, and a deleted account is not deleted again.
THEOREM ServiceUsesAccounts == ServiceSpec => UsesAccounts
<1>1. ServiceInit => Accounts!Init
  BY DEF ServiceInit, Accounts!Init, AccountOf
<1>2. JointInv /\ RevisionInv /\ [ServiceNext]_serviceVars
        => [Accounts!Next]_([u \in User |-> AccountOf(u)])
  BY StepsAreAccountSteps DEF RevisionInv
<1> QED
  BY <1>1, <1>2, ServiceInvariance, RevisionInvariance, PTL
  DEF ServiceSpec, UsesAccounts, Accounts!Spec

-----------------------------------------------------------------------------
(***************************************************************************)
(* Refinement of ServiceContract: sessions and accounts together.  A step  *)
(* that shows in the store or in an account has just established           *)
(* RevocationInv again, and that is what the contract asks of it.          *)
(***************************************************************************)
\* The contract calls the same things the same.
LEMMA SameNames ==
  /\ Service!Accounts!Next <=> Accounts!Next
  /\ Service!Init <=> Contract!Init
  /\ Service!Accounts!Init <=> Accounts!Init
BY DEF Service!Accounts!Next, Accounts!Next,
  Service!Accounts!Create, Accounts!Create, Service!Accounts!Delete, Accounts!Delete,
  Service!Accounts!AssignRole, Accounts!AssignRole,
  Service!Accounts!RevokeRole, Accounts!RevokeRole,
  Service!Init, Contract!Init, Service!Accounts!Init, Accounts!Init

\* A session in Redis says what the account of an active user says.
SessionsSayAccounts ==
  \A s \in SessionId : Stored(s) =>
    \E u \in User, p \in Pair : Active(u) /\ sessions[s] = Service!SessionOf(u, p)

\* For it names the user its tokens were signed for.
LEMMA AccountsSaid == JointInv /\ RevocationInv => SessionsSayAccounts
<1> SUFFICES ASSUME JointInv, RevocationInv, NEW s \in SessionId, Stored(s)
             PROVE  \E u \in User, p \in Pair :
                      Active(u) /\ sessions[s] = Service!SessionOf(u, p)
  BY DEF SessionsSayAccounts
<1>1. sessions[s] \in Session /\ sessions[s].pair \in usedPairs /\ usedPairs \subseteq Pair
  BY DEF JointInv, IndInv, TypeOK, PairLife
<1>2. PICK u \in User : sessions[s].user = Canonical[u]
  BY <1>1 DEF JointInv, ServiceInv, PairsSigned, TokensMatch, Says
<1>3. Active(u) /\ account[u].roles = sessions[s].roles
  BY <1>2 DEF RevocationInv, SessionsCurrent, Agrees
<1>4. sessions[s] = Service!SessionOf(u, sessions[s].pair) /\ sessions[s].pair \in Pair
  BY <1>1, <1>2, <1>3 DEF Session, Service!SessionOf, AccountOf
<1> QED
  BY <1>3, <1>4

\* A step that shows in the store only.
LEMMA StoreStepMaps ==
  ASSUME JointInv, Contract!Next, account' = account,
         SessionsSayAccounts'
  PROVE  Service!ServiceNext
<1>1. /\ UNCHANGED [u \in User |-> AccountOf(u)]
      /\ \A u \in User : Active(u) => [v \in User |-> AccountOf(v)][u].status = "active"
  BY DEF AccountOf, Active
<1>2. ASSUME NEW s \in SessionId, NEW x \in Contract!Session,
             Contract!Create(s, x) \/ Contract!Rotate(s, x)
      PROVE  Service!ServiceNext
  <2>1. x \in Session /\ x # Nil /\ sessions' = [sessions EXCEPT ![s] = x]
    BY <1>2, SessionCacheAssumption
    DEF Contract!Session, Session, Contract!Create, Contract!Rotate
  <2>2. sessions'[s] = x
    BY <2>1 DEF JointInv, IndInv, TypeOK
  <2>3. PICK u \in User, p \in Pair : Active(u)' /\ x = Service!SessionOf(u, p)'
    BY <2>1, <2>2 DEF SessionsSayAccounts
  <2>4. Active(u) /\ x = Service!SessionOf(u, p)
    BY <1>1, <2>3 DEF Active, Service!SessionOf
  <2>5. Service!Authenticate(u, s, p) \/ Service!RefreshToken(u, s, p)
    BY <1>1, <1>2, <2>4
    DEF Contract!Create, Contract!Rotate, Contract!Holder, Service!Authenticate,
      Service!RefreshToken, Service!Create, Service!Rotate, Service!Holder
  <2> QED
    BY <2>5 DEF Service!ServiceNext
<1>3. ASSUME NEW k \in UserKey, NEW S \in SUBSET SessionId, Contract!End(k, S)
      PROVE  Service!ServiceNext
  BY <1>1, <1>3 DEF Contract!End, Service!End, Service!EndSessions, Service!ServiceNext
<1> QED
  BY <1>2, <1>3 DEF Contract!Next

\* A step that changes an account: its user has no session, and the store sees
\* the end of a request at most.
LEMMA AccountStepMaps ==
  ASSUME JointInv, RevocationInv, AbsentIsNew, ServiceNext, account' # account
  PROVE  /\ UNCHANGED Contract!vars
         /\ \A u \in User : AccountOf(u)' # AccountOf(u) => ~Service!HasSession(u)
<1>1. PICK c \in Client :
        (\E u \in User : CreateUser(c, u)) \/ CommitRole(c) \/ RemoveUser(c)
  BY DEF ServiceNext, serviceVars, RunCommand, PassTime, Arrive, StartLogin, StartWithToken,
    StartChange, Proceed, ReadRow, Login, Refresh, Refuse, ValidateToken, RefreshToken, Logout,
    LogoutAll, Answered, Change, CheckRole, SqlFails
<1>2. ASSUME NEW u \in User, CreateUser(c, u)
      PROVE  /\ UNCHANGED Contract!vars
             /\ \A v \in User : AccountOf(v)' # AccountOf(v) => ~Service!HasSession(v)
  <2>1. UNCHANGED Contract!vars
    BY <1>2 DEF CreateUser, cacheVars, Contract!vars, Creating
  <2>2. \A v \in User \ {u} : AccountOf(v)' = AccountOf(v)
    BY <1>2 DEF CreateUser, AccountOf, JointInv, ServiceTypeOK
  <2>3. ~Service!HasSession(u)
    BY <1>2 DEF CreateUser, RevocationInv, SessionsCurrent, Agrees, Active, Service!HasSession
  <2> QED
    BY <2>1, <2>2, <2>3
<1>3. ASSUME CommitRole(c) \/ RemoveUser(c)
      PROVE  /\ UNCHANGED Contract!vars
             /\ \A v \in User : AccountOf(v)' # AccountOf(v) => ~Service!HasSession(v)
  <2>1. /\ req[c].pc \in {"commit", "remove"} /\ call[c].pc = "idle"
        /\ Forget(c)
    BY <1>3 DEF CommitRole, RemoveUser, On, Finish
  <2>2. UNCHANGED Contract!vars
    <3>1. /\ call'[c].pc # "createTx"
          /\ \A d \in Client \ {c} : call'[d] = call[d]
          /\ UNCHANGED <<sessions, usedIds, exchanges>>
      BY <2>1 DEF JointInv, IndInv, TypeOK, Forget, Idle
    <3> QED
      BY <2>1, <3>1, SilentMaps DEF JointInv, IndInv
  <2>3. Revoked(req[c], call[c])
    BY <2>1 DEF RevocationInv, IndexInv, RequestCalls, CallFits, Revoked
  <2>4. \A v \in User : v # req[c].user => AccountOf(v)' = AccountOf(v)
    BY <1>3 DEF CommitRole, RemoveUser, AccountOf, JointInv, ServiceTypeOK
  <2>5. \A v \in User : v = req[c].user => ~Service!HasSession(v)
    BY <2>3 DEF RevocationInv, RevokedHaveNone, Service!HasSession
  <2> QED
    BY <2>2, <2>4, <2>5
<1> QED
  BY <1>1, <1>2, <1>3

\* Every step of the service in which no login races maps to a step of the
\* contract, or does not show in it.
LEMMA ServiceStepMaps ==
  ASSUME JointInv, RevocationInv, AbsentIsNew, SessionsSayAccounts',
         [ServiceNext]_serviceVars
  PROVE  [Service!ServiceNext]_(Service!serviceVars)
<1>1. [Contract!Next]_(Contract!vars)
  BY ServiceStepIsCacheStep, StepMaps DEF JointInv
<1>2. CASE account' = account
  <2>1. UNCHANGED [u \in User |-> AccountOf(u)]
    BY <1>2 DEF AccountOf
  <2>2. CASE Contract!Next
    BY <1>2, <2>2, StoreStepMaps
  <2>3. CASE UNCHANGED Contract!vars
    BY <2>1, <2>3 DEF Service!serviceVars, Service!vars, Contract!vars
  <2> QED
    BY <1>1, <2>2, <2>3
<1>3. CASE account' # account
  <2>1. ServiceNext
    BY <1>3 DEF serviceVars
  <2>2. /\ UNCHANGED Contract!vars
        /\ \A u \in User : AccountOf(u)' # AccountOf(u) => ~Service!HasSession(u)
    BY <1>3, <2>1, AccountStepMaps
  <2>3. [Accounts!Next]_([u \in User |-> AccountOf(u)])
    BY StepsAreAccountSteps
  <2> QED
    BY <2>2, <2>3, SameNames
    DEF Service!ServiceNext, Service!ChangeAccount, Service!serviceVars, Service!vars,
      Contract!vars
<1> QED
  BY <1>2, <1>3

\* The requests of the service, one statement and one command at a time, come to
\* methods that take effect at once, each storing a session that is true of its
\* account or changing an account that has no session (user_service.go,
\* user_repository.go and redis.go behind domain.UserService): with ids as the
\* service writes them, in the behaviours in which no login races with a revocation.
THEOREM ServiceIsAtomic == CanonicalIds /\ RaceFreeServiceSpec => ImplementsService
<1>1. ServiceInit => Service!ServiceInit
  <2>1. ServiceInit => Contract!Init /\ Accounts!Init
    BY InitMaps DEF ServiceInit, Accounts!Init, AccountOf
  <2> QED
    BY <2>1, SameNames DEF Service!ServiceInit
<1>2. RaceFreeServiceSpec => []JointInv /\ []RevisionInv
  BY RaceFreeIsService, ServiceInvariance, RevisionInvariance, PTL
<1>3. JointInv /\ RevocationInv /\ RevisionInv /\ SessionsSayAccounts'
        /\ [ServiceNext]_serviceVars
        => [Service!ServiceNext]_(Service!serviceVars)
  BY ServiceStepMaps DEF RevisionInv
<1>4. RaceFreeServiceSpec => ServiceInit /\ [][ServiceNext]_serviceVars
  BY RaceFreeIsService DEF ServiceSpec
<1> QED
  BY <1>1, <1>2, <1>3, <1>4, RevocationInvariance, AccountsSaid, PTL
  DEF ImplementsService, Service!ServiceSpec

\* What ServiceContract promises, of any service that implements it: at every
\* moment a session speaks for an active user with exactly the roles it says.
THEOREM ContractSpeaksTruly == Service!ServiceSpec => []Service!SessionsSpeakTruly
<1> DEFINE Names == sessions = [s \in SessionId |-> sessions[s]]
           True  == Service!SessionsSpeakTruly
<1>1. Service!ServiceInit => Names /\ True
  BY DEF Service!ServiceInit, Service!Init, Service!SessionsSpeakTruly
<1>2. Names /\ True /\ [Service!ServiceNext]_(Service!serviceVars) => Names' /\ True'
  <2> SUFFICES ASSUME Names, True, [Service!ServiceNext]_(Service!serviceVars)
               PROVE  Names' /\ True'
    OBVIOUS
  <2>0. ASSUME NEW t \in SessionId, NEW x, x = sessions[t], x # Nil,
               \A u \in User : AccountOf(u)' # AccountOf(u) => ~Service!HasSession(u)
        PROVE  \E u \in User : /\ AccountOf(u)'.status = "active"
                               /\ x = Service!SessionOf(u, x.pair)'
    <3>1. PICK u \in User : AccountOf(u).status = "active" /\ x = Service!SessionOf(u, x.pair)
      BY <2>0 DEF Service!SessionsSpeakTruly
    <3>2. Service!HasSession(u)
      BY <2>0, <3>1 DEF Service!HasSession, Service!SessionOf
    <3>3. AccountOf(u)' = AccountOf(u)
      BY <2>0, <3>2
    <3>4. x = Service!SessionOf(u, x.pair)'
      BY <3>1, <3>3 DEF Service!SessionOf
    <3> QED
      BY <3>1, <3>3, <3>4
  <2>1. CASE UNCHANGED Service!vars /\ \A u \in User : AccountOf(u)' # AccountOf(u)
                                         => ~Service!HasSession(u)
    <3>1. sessions' = sessions
      BY <2>1 DEF Service!vars
    <3> QED
      BY <2>0, <2>1, <3>1 DEF Service!SessionsSpeakTruly, Service!SessionOf
  <2>2. ASSUME NEW u \in User, NEW s \in SessionId, NEW p \in Pair,
               Service!Authenticate(u, s, p) \/ Service!RefreshToken(u, s, p)
        PROVE  Names' /\ True'
    <3>1. /\ sessions' = [sessions EXCEPT ![s] = Service!SessionOf(u, p)]
          /\ AccountOf(u).status = "active"
          /\ \A v \in User : AccountOf(v)' = AccountOf(v)
      <4>1. UNCHANGED [v \in User |-> AccountOf(v)]
        BY <2>2 DEF Service!Authenticate, Service!RefreshToken
      <4>2. \A v \in User : [w \in User |-> AccountOf(w)]'[v] = [w \in User |-> AccountOf(w)][v]
        BY <4>1
      <4> QED
        BY <2>2, <4>2
        DEF Service!Authenticate, Service!RefreshToken, Service!Create, Service!Rotate
    <3>2. Names'
      BY <3>1
    <3>3. \A v \in User, q \in Pair : Service!SessionOf(v, q)' = Service!SessionOf(v, q)
      BY <3>1 DEF Service!SessionOf
    <3>4. sessions'[s] = Service!SessionOf(u, p) /\ sessions'[s].pair = p
      BY <3>1 DEF Service!SessionOf
    <3> QED
      BY <2>0, <3>1, <3>2, <3>3, <3>4 DEF Service!SessionsSpeakTruly
  <2>3. ASSUME NEW k \in UserKey, NEW S \in SUBSET SessionId, Service!EndSessions(k, S)
        PROVE  Names' /\ True'
    <3>1. /\ sessions' = [s \in SessionId |-> IF s \in S THEN Nil ELSE sessions[s]]
          /\ UNCHANGED [v \in User |-> AccountOf(v)]
      BY <2>3 DEF Service!EndSessions, Service!End
    <3>2. \A v \in User : [w \in User |-> AccountOf(w)]'[v] = [w \in User |-> AccountOf(w)][v]
      BY <3>1
    <3> QED
      BY <2>0, <3>1, <3>2 DEF Service!SessionsSpeakTruly
  <2>4. CASE Service!ChangeAccount
    <3>1. UNCHANGED Service!vars
          /\ \A u \in User :
               [w \in User |-> AccountOf(w)]'[u] # [w \in User |-> AccountOf(w)][u]
                 => ~Service!HasSession(u)
      BY <2>4 DEF Service!ChangeAccount
    <3> QED
      BY <2>1, <3>1
  <2>5. CASE UNCHANGED Service!serviceVars
    <3>1. UNCHANGED Service!vars /\ UNCHANGED [v \in User |-> AccountOf(v)]
      BY <2>5 DEF Service!serviceVars
    <3>2. \A v \in User : [w \in User |-> AccountOf(w)]'[v] = [w \in User |-> AccountOf(w)][v]
      BY <3>1
    <3> QED
      BY <2>1, <3>1, <3>2
  <2> QED
    BY <2>2, <2>3, <2>4, <2>5 DEF Service!ServiceNext
<1> QED
  BY <1>1, <1>2, PTL DEF Service!ServiceSpec
=============================================================================
