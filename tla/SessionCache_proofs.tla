------------------------- MODULE SessionCache_proofs -------------------------
(***************************************************************************)
(* Proofs about SessionCache, for any set of clients, session ids, users   *)
(* and token pairs.                                                        *)
(*                                                                         *)
(* The argument is one inductive invariant, IndInv of SessionCache, and a  *)
(* lemma XKeeps for every action X.  The safety properties are conjuncts   *)
(* or consequences of IndInv; NoResurrection and the refinement of         *)
(* AuthSessionStore follow from IndInv and the step.                       *)
(***************************************************************************)
EXTENDS SessionCache, TLAPS

USE DEF At, keyspace, drawn, Rotating, InRotate, Pending, Stored

\* The fields of a session.
LEMMA SessionFields ==
  \A x \in Session : x.user \in UserKey /\ x.roles \in RoleList /\ x.pair \in Pair
BY DEF Session

\* The frame a returning call leaves behind is a frame.
LEMMA ReturnTyped ==
  ASSUME NEW r \in Answer, NEW x \in Session \cup {Nil}
  PROVE  [Idle EXCEPT !.res = r, !.seen = x] \in Call
BY DEF Idle, Call, Op, PC

\* Where a client is after it returned ...
LEMMA AfterReturn ==
  ASSUME TypeOK, NEW c \in Client, NEW r, NEW x, Return(c, r, x)
  PROVE  call'[c].pc = "idle"
BY DEF TypeOK, Return, Idle

\* ... or moved on.
LEMMA AfterGoto ==
  ASSUME TypeOK, NEW c \in Client, NEW pc, Goto(c, pc)
  PROVE  call'[c].pc = pc
BY DEF TypeOK, Call, Goto

\* A call that returns without a write keeps the invariant: a client that is
\* idle is bound by no conjunct.
LEMMA ReturnKeeps ==
  ASSUME IndInv, NEW c \in Client, NEW r \in Answer, NEW x \in Session \cup {Nil},
         Return(c, r, x), dirty' = dirty \ {c},
         UNCHANGED <<keyspace, drawn, released, exchanges>>
  PROVE  IndInv'
<1>1. TypeOK'
  BY SessionFields, SessionCacheAssumption
  DEF IndInv, Return, Idle, TypeOK, Call, Answer, PC, Op
<1>2. CallShape'
  BY SessionFields, SessionCacheAssumption
  DEF IndInv, Return, Idle, TypeOK, CallShape, Call
<1>3. PairLife'
  BY SessionFields, SessionCacheAssumption
  DEF IndInv, Return, Idle, TypeOK, CallShape, PairLife, Call
<1>4. WatchHolds'
  BY SessionFields, SessionCacheAssumption
  DEF IndInv, Return, Idle, TypeOK, CallShape, WatchHolds, HoldsToken, SameUser
<1>5. ConflictDecides'
  BY SessionFields, SessionCacheAssumption
  DEF IndInv, Return, Idle, TypeOK, CallShape, PairLife, ConflictDecides, HoldsToken
<1>6. IdLife'
  BY SessionFields, SessionCacheAssumption
  DEF IndInv, Return, Idle, TypeOK, CallShape, IdLife, Call
<1>7. Owner'
  BY SessionFields, SessionCacheAssumption
  DEF IndInv, Return, Idle, TypeOK, CallShape, IdLife, Owner, IndexedSessionsAreOwn,
      Call
<1> QED
  BY <1>1, <1>2, <1>3, <1>4, <1>5, <1>6, <1>7 DEF IndInv

\* Create draws an id and a pair nobody holds.
LEMMA StartCreateKeeps ==
  ASSUME IndInv, NEW c \in Client, NEW s \in SessionId, NEW x \in Session, StartCreate(c, s, x)
  PROVE  IndInv'
<1>1. TypeOK'
  BY SessionFields, SessionCacheAssumption
  DEF IndInv, StartCreate, Idle, TypeOK, Call, Answer, PC, Op
<1>2. CallShape'
  BY SessionFields, SessionCacheAssumption
  DEF IndInv, StartCreate, Idle, TypeOK, CallShape, Call
<1>3. PairLife'
  BY SessionFields, SessionCacheAssumption
  DEF IndInv, StartCreate, Idle, TypeOK, CallShape, PairLife, Call
<1>4. WatchHolds'
  BY SessionFields, SessionCacheAssumption
  DEF IndInv, StartCreate, Idle, TypeOK, CallShape, WatchHolds, HoldsToken, SameUser
<1>5. ConflictDecides'
  BY SessionFields, SessionCacheAssumption
  DEF IndInv, StartCreate, Idle, TypeOK, CallShape, PairLife, ConflictDecides,
      HoldsToken
<1>6. IdLife'
  BY SessionFields, SessionCacheAssumption
  DEF IndInv, StartCreate, Idle, TypeOK, CallShape, IdLife, Call
<1>7. Owner'
  BY SessionFields, SessionCacheAssumption
  DEF IndInv, StartCreate, Idle, TypeOK, CallShape, IdLife, Owner,
      IndexedSessionsAreOwn, Call
<1> QED
  BY <1>1, <1>2, <1>3, <1>4, <1>5, <1>6, <1>7 DEF IndInv

\* Get starts.
LEMMA StartGetKeeps ==
  ASSUME IndInv, NEW c \in Client, NEW s \in SessionId, StartGet(c, s)
  PROVE  IndInv'
<1>1. TypeOK'
  BY SessionFields, SessionCacheAssumption
  DEF IndInv, StartGet, Idle, TypeOK, Call, Answer, PC, Op
<1>2. CallShape'
  BY SessionFields, SessionCacheAssumption
  DEF IndInv, StartGet, Idle, TypeOK, CallShape, Call
<1>3. PairLife'
  BY SessionFields, SessionCacheAssumption
  DEF IndInv, StartGet, Idle, TypeOK, CallShape, PairLife, Call
<1>4. WatchHolds'
  BY SessionFields, SessionCacheAssumption
  DEF IndInv, StartGet, Idle, TypeOK, CallShape, WatchHolds, HoldsToken, SameUser
<1>5. ConflictDecides'
  BY SessionFields, SessionCacheAssumption
  DEF IndInv, StartGet, Idle, TypeOK, CallShape, PairLife, ConflictDecides,
      HoldsToken
<1>6. IdLife'
  BY SessionFields, SessionCacheAssumption
  DEF IndInv, StartGet, Idle, TypeOK, CallShape, IdLife, Call
<1>7. Owner'
  BY SessionFields, SessionCacheAssumption
  DEF IndInv, StartGet, Idle, TypeOK, CallShape, IdLife, Owner,
      IndexedSessionsAreOwn, Call
<1> QED
  BY <1>1, <1>2, <1>3, <1>4, <1>5, <1>6, <1>7 DEF IndInv

\* Delete starts.
LEMMA StartDeleteKeeps ==
  ASSUME IndInv, NEW c \in Client, NEW s \in SessionId, StartDelete(c, s)
  PROVE  IndInv'
<1>1. TypeOK'
  BY SessionFields, SessionCacheAssumption
  DEF IndInv, StartDelete, Idle, TypeOK, Call, Answer, PC, Op
<1>2. CallShape'
  BY SessionFields, SessionCacheAssumption
  DEF IndInv, StartDelete, Idle, TypeOK, CallShape, Call
<1>3. PairLife'
  BY SessionFields, SessionCacheAssumption
  DEF IndInv, StartDelete, Idle, TypeOK, CallShape, PairLife, Call
<1>4. WatchHolds'
  BY SessionFields, SessionCacheAssumption
  DEF IndInv, StartDelete, Idle, TypeOK, CallShape, WatchHolds, HoldsToken, SameUser
<1>5. ConflictDecides'
  BY SessionFields, SessionCacheAssumption
  DEF IndInv, StartDelete, Idle, TypeOK, CallShape, PairLife, ConflictDecides,
      HoldsToken
<1>6. IdLife'
  BY SessionFields, SessionCacheAssumption
  DEF IndInv, StartDelete, Idle, TypeOK, CallShape, IdLife, Call
<1>7. Owner'
  BY SessionFields, SessionCacheAssumption
  DEF IndInv, StartDelete, Idle, TypeOK, CallShape, IdLife, Owner,
      IndexedSessionsAreOwn, Call
<1> QED
  BY <1>1, <1>2, <1>3, <1>4, <1>5, <1>6, <1>7 DEF IndInv

\* Rotate draws a pair nobody holds and presents a released one.
LEMMA StartRotateKeeps ==
  ASSUME IndInv, NEW c \in Client, NEW s \in SessionId, NEW p \in Pair,
         NEW x \in Session, StartRotate(c, s, p, x)
  PROVE  IndInv'
<1>1. TypeOK'
  BY SessionFields, SessionCacheAssumption
  DEF IndInv, StartRotate, Idle, TypeOK, Call, Answer, PC, Op
<1>2. CallShape'
  BY SessionFields, SessionCacheAssumption
  DEF IndInv, StartRotate, Idle, TypeOK, CallShape, Call
<1>3. PairLife'
  BY SessionFields, SessionCacheAssumption
  DEF IndInv, StartRotate, Idle, TypeOK, CallShape, PairLife, Call
<1>4. WatchHolds'
  BY SessionFields, SessionCacheAssumption
  DEF IndInv, StartRotate, Idle, TypeOK, CallShape, WatchHolds, HoldsToken, SameUser
<1>5. ConflictDecides'
  BY SessionFields, SessionCacheAssumption
  DEF IndInv, StartRotate, Idle, TypeOK, CallShape, PairLife, ConflictDecides,
      HoldsToken
<1>6. IdLife'
  BY SessionFields, SessionCacheAssumption
  DEF IndInv, StartRotate, Idle, TypeOK, CallShape, IdLife, Call
<1>7. Owner'
  BY SessionFields, SessionCacheAssumption
  DEF IndInv, StartRotate, Idle, TypeOK, CallShape, IdLife, Owner,
      IndexedSessionsAreOwn, Call
<1> QED
  BY <1>1, <1>2, <1>3, <1>4, <1>5, <1>6, <1>7 DEF IndInv

\* DeleteAllForUser starts.
LEMMA StartDeleteAllKeeps ==
  ASSUME IndInv, NEW c \in Client, NEW u \in UserKey, StartDeleteAll(c, u)
  PROVE  IndInv'
<1>1. TypeOK'
  BY SessionFields, SessionCacheAssumption
  DEF IndInv, StartDeleteAll, Idle, TypeOK, Call, Answer, PC, Op
<1>2. CallShape'
  BY SessionFields, SessionCacheAssumption
  DEF IndInv, StartDeleteAll, Idle, TypeOK, CallShape, Call
<1>3. PairLife'
  BY SessionFields, SessionCacheAssumption
  DEF IndInv, StartDeleteAll, Idle, TypeOK, CallShape, PairLife, Call
<1>4. WatchHolds'
  BY SessionFields, SessionCacheAssumption
  DEF IndInv, StartDeleteAll, Idle, TypeOK, CallShape, WatchHolds, HoldsToken,
      SameUser
<1>5. ConflictDecides'
  BY SessionFields, SessionCacheAssumption
  DEF IndInv, StartDeleteAll, Idle, TypeOK, CallShape, PairLife, ConflictDecides,
      HoldsToken
<1>6. IdLife'
  BY SessionFields, SessionCacheAssumption
  DEF IndInv, StartDeleteAll, Idle, TypeOK, CallShape, IdLife, Call
<1>7. Owner'
  BY SessionFields, SessionCacheAssumption
  DEF IndInv, StartDeleteAll, Idle, TypeOK, CallShape, IdLife, Owner,
      IndexedSessionsAreOwn, Call
<1> QED
  BY <1>1, <1>2, <1>3, <1>4, <1>5, <1>6, <1>7 DEF IndInv

\* The MULTI of Create stores a session under an id that is in no index, no
\* list and no pending deletion.
LEMMA CreateTxKeeps ==
  ASSUME IndInv, NEW c \in Client, CreateTx(c)
  PROVE  IndInv'
<1>1. TypeOK'
  <2>1. PICK r \in Reply : Return(c, r, Nil) /\ Release(r, call[c].next.pair)
    BY DEF CreateTx
  <2>2. call' \in [Client -> Call]
    BY <2>1, ReturnTyped DEF IndInv, TypeOK, Return, Reply, Answer
  <2>3. call[c].sid \in SessionId /\ call[c].next \in Session
    BY DEF IndInv, CallShape, CreateTx
  <2>4. call[c].next.pair \in Pair /\ call[c].next.user \in UserKey
    BY <2>3, SessionFields
  <2>5. /\ sessions' \in [SessionId -> Session \cup {Nil}]
        /\ userSessions' \in [UserKey -> SUBSET SessionId]
        /\ expired' \subseteq SessionId /\ dirty' \subseteq Client
        /\ released' \subseteq Pair
    BY <2>1, <2>3, <2>4
    DEF IndInv, TypeOK, CreateTx, Store, Indexed, Watchers, Release
  <2> QED
    BY <2>2, <2>5 DEF IndInv, TypeOK, CreateTx
<1>2. CallShape'
  BY SessionFields, SessionCacheAssumption
  DEF IndInv, CreateTx, Store, Indexed, Watchers, Release, Reply, Return, Idle,
      TypeOK, CallShape, Call
<1>3. PairLife'
  BY SessionFields, SessionCacheAssumption
  DEF IndInv, CreateTx, Store, Indexed, Watchers, Release, Reply, Return, Idle,
      TypeOK, CallShape, PairLife, Call
<1>4. WatchHolds'
  BY SessionFields, SessionCacheAssumption
  DEF IndInv, CreateTx, Store, Indexed, Watchers, Release, Reply, Return, Idle,
      TypeOK, CallShape, WatchHolds, HoldsToken, SameUser
<1>5. ConflictDecides'
  BY SessionFields, SessionCacheAssumption
  DEF IndInv, CreateTx, Store, Indexed, Watchers, Release, Reply, Return, Idle,
      TypeOK, CallShape, PairLife, ConflictDecides, HoldsToken
<1>6. IdLife'
  BY SessionFields, SessionCacheAssumption
  DEF IndInv, CreateTx, Store, Indexed, Watchers, Release, Reply, Return, Idle,
      TypeOK, CallShape, IdLife, Call
<1>7. Owner'
  <2>1. PICK r \in Reply : Return(c, r, Nil)
    BY DEF CreateTx
  <2>2. /\ call[c].sid \in SessionId /\ call[c].next \in Session
        /\ \A v \in UserKey : call[c].sid \notin userSessions[v]
        /\ \A d \in Client : call[c].sid \notin call[d].list
        /\ sessions[call[c].sid] = Nil
    BY DEF IndInv, CallShape, IdLife, CreateTx
  <2>3. /\ sessions' = [sessions EXCEPT ![call[c].sid] = call[c].next]
        /\ userSessions' = [userSessions EXCEPT
             ![call[c].next.user] = @ \cup {call[c].sid}]
    BY DEF CreateTx, Store, Indexed
  <2>4. IndexedSessionsAreOwn'
    BY <2>2, <2>3, SessionFields DEF IndInv, TypeOK, Owner, IndexedSessionsAreOwn
  <2>5. ASSUME NEW d \in Client, At(d, "deleteTx")', Stored(call[d].sid)'
        PROVE  sessions'[call'[d].sid].user = call'[d].uid
    BY <2>1, <2>2, <2>3, <2>5
    DEF IndInv, TypeOK, CallShape, IdLife, Owner, CreateTx, Return, Idle, Call
  <2>6. ASSUME NEW d \in Client, At(d, "delAll")', NEW s \in call'[d].list, Stored(s)'
        PROVE  sessions'[s].user = call'[d].uid
    BY <2>1, <2>2, <2>3, <2>6
    DEF IndInv, TypeOK, Owner, Return, Idle, Call
  <2> QED
    BY <2>4, <2>5, <2>6 DEF Owner
<1> QED
  BY <1>1, <1>2, <1>3, <1>4, <1>5, <1>6, <1>7 DEF IndInv

\* The MULTI of Delete, also when it ends a session rotated since the GET.
LEMMA DeleteTxKeeps ==
  ASSUME IndInv, NEW c \in Client, DeleteTx(c)
  PROVE  IndInv'
<1>1. TypeOK'
  <2>1. PICK r \in Answer : Return(c, r, Nil)
    BY DEF DeleteTx, DeleteAnswer, Reply, Answer
  <2>2. call' \in [Client -> Call]
    BY <2>1, ReturnTyped DEF IndInv, TypeOK, Return
  <2>3. /\ sessions' \in [SessionId -> Session \cup {Nil}]
        /\ userSessions' \in [UserKey -> SUBSET SessionId]
        /\ expired' \subseteq SessionId /\ dirty' \subseteq Client
    BY DEF IndInv, TypeOK, DeleteTx, Erase, Watchers, Present
  <2> QED
    BY <2>2, <2>3 DEF IndInv, TypeOK, DeleteTx
<1>2. CallShape'
  BY SessionFields, SessionCacheAssumption
  DEF IndInv, DeleteTx, Erase, Watchers, Present, DeleteAnswer, Reply, Return, Idle,
      TypeOK, CallShape, Call
<1>3. PairLife'
  BY SessionFields, SessionCacheAssumption
  DEF IndInv, DeleteTx, Erase, Watchers, Present, DeleteAnswer, Reply, Return, Idle,
      TypeOK, CallShape, PairLife, Call
<1>4. WatchHolds'
  BY SessionFields, SessionCacheAssumption
  DEF IndInv, DeleteTx, Erase, Watchers, Present, DeleteAnswer, Reply, Return, Idle,
      TypeOK, CallShape, WatchHolds, HoldsToken, SameUser
<1>5. ConflictDecides'
  BY SessionFields, SessionCacheAssumption
  DEF IndInv, DeleteTx, Erase, Watchers, Present, DeleteAnswer, Reply, Return, Idle,
      TypeOK, CallShape, PairLife, ConflictDecides, HoldsToken
<1>6. IdLife'
  BY SessionFields, SessionCacheAssumption
  DEF IndInv, DeleteTx, Erase, Watchers, Present, DeleteAnswer, Reply, Return, Idle,
      TypeOK, CallShape, IdLife, Call
<1>7. Owner'
  BY SessionFields, SessionCacheAssumption
  DEF IndInv, DeleteTx, Erase, Watchers, Present, DeleteAnswer, Reply, Return, Idle,
      TypeOK, CallShape, IdLife, Owner, IndexedSessionsAreOwn, Call
<1> QED
  BY <1>1, <1>2, <1>3, <1>4, <1>5, <1>6, <1>7 DEF IndInv

\* WATCH: nothing is known of the key yet.
LEMMA WatchKeeps ==
  ASSUME IndInv, NEW c \in Client, Watch(c)
  PROVE  IndInv'
<1>1. TypeOK'
  BY SessionFields, SessionCacheAssumption
  DEF IndInv, Watch, Goto, TypeOK, Call, Answer, PC, Op
<1>2. CallShape'
  BY SessionFields, SessionCacheAssumption
  DEF IndInv, Watch, Goto, TypeOK, CallShape, Call
<1>3. PairLife'
  BY SessionFields, SessionCacheAssumption
  DEF IndInv, Watch, Goto, TypeOK, CallShape, PairLife, Call
<1>4. WatchHolds'
  BY SessionFields, SessionCacheAssumption
  DEF IndInv, Watch, Goto, TypeOK, CallShape, WatchHolds, HoldsToken, SameUser
<1>5. ConflictDecides'
  BY SessionFields, SessionCacheAssumption
  DEF IndInv, Watch, Goto, TypeOK, CallShape, PairLife, ConflictDecides, HoldsToken
<1>6. IdLife'
  BY SessionFields, SessionCacheAssumption
  DEF IndInv, Watch, Goto, TypeOK, CallShape, IdLife, Call
<1>7. Owner'
  BY SessionFields, SessionCacheAssumption
  DEF IndInv, Watch, Goto, TypeOK, CallShape, IdLife, Owner, IndexedSessionsAreOwn,
      Call
<1> QED
  BY <1>1, <1>2, <1>3, <1>4, <1>5, <1>6, <1>7 DEF IndInv

\* EXEC failed: this was the first round, and the token is no longer current.
LEMMA RotateConflictKeeps ==
  ASSUME IndInv, NEW c \in Client, RotateConflict(c)
  PROVE  IndInv'
<1>0. /\ At(c, "rotateExec") /\ c \in dirty /\ dirty' = dirty \ {c}
      /\ call' = [call EXCEPT ![c].pc = "watch", ![c].attempt = @ + 1]
      /\ call[c].attempt = 0
      /\ UNCHANGED <<keyspace, drawn, released, exchanges>>
  BY SessionCacheAssumption
  DEF IndInv, ConflictDecides, RotateConflict, Conflict, LastAttempt
<1>1. TypeOK'
  BY <1>0, SessionFields, SessionCacheAssumption
  DEF IndInv, RotateConflict, TypeOK, Call, Answer, PC, Op
<1>2. CallShape'
  BY <1>0, SessionFields, SessionCacheAssumption
  DEF IndInv, RotateConflict, TypeOK, CallShape, Call
<1>3. PairLife'
  BY <1>0, SessionFields, SessionCacheAssumption
  DEF IndInv, RotateConflict, TypeOK, CallShape, PairLife, Call
<1>4. WatchHolds'
  BY <1>0, SessionFields, SessionCacheAssumption
  DEF IndInv, RotateConflict, TypeOK, CallShape, WatchHolds, HoldsToken, SameUser
<1>5. ConflictDecides'
  BY <1>0, SessionFields, SessionCacheAssumption
  DEF IndInv, RotateConflict, TypeOK, CallShape, PairLife, ConflictDecides,
      HoldsToken
<1>6. IdLife'
  BY <1>0, SessionFields, SessionCacheAssumption
  DEF IndInv, RotateConflict, TypeOK, CallShape, IdLife, Call
<1>7. Owner'
  BY <1>0, SessionFields, SessionCacheAssumption
  DEF IndInv, RotateConflict, TypeOK, CallShape, IdLife, Owner,
      IndexedSessionsAreOwn, Call
<1> QED
  BY <1>1, <1>2, <1>3, <1>4, <1>5, <1>6, <1>7 DEF IndInv

\* EXEC succeeded: the session RotateGet saw is still there, so the rotation
\* exchanges a pair that was never exchanged and keeps the user.
LEMMA RotateExecKeeps ==
  ASSUME IndInv, NEW c \in Client, RotateExec(c)
  PROVE  IndInv'
<1>1. TypeOK'
  <2>1. PICK r \in Reply : Return(c, r, Nil) /\ Release(r, call[c].next.pair)
    BY DEF RotateExec
  <2>2. call' \in [Client -> Call]
    BY <2>1, ReturnTyped DEF IndInv, TypeOK, Return, Reply, Answer
  <2>3. call[c].sid \in SessionId /\ call[c].next \in Session
    BY DEF IndInv, CallShape, RotateExec
  <2>4. call[c].next.pair \in Pair /\ call[c].next.user \in UserKey
    BY <2>3, SessionFields
  <2>5. /\ sessions' \in [SessionId -> Session \cup {Nil}]
        /\ userSessions' \in [UserKey -> SUBSET SessionId]
        /\ expired' \subseteq SessionId /\ dirty' \subseteq Client
        /\ released' \subseteq Pair
    BY <2>1, <2>3, <2>4
    DEF IndInv, TypeOK, RotateExec, Store, Indexed, Watchers, Release
  <2>6. exchanges[call[c].expect] + 1 \in Nat
    BY DEF IndInv, TypeOK, CallShape, RotateExec
  <2>7. exchanges' \in [Pair -> Nat]
    BY <2>6 DEF IndInv, TypeOK, RotateExec
  <2> QED
    BY <2>2, <2>5, <2>7 DEF IndInv, TypeOK, RotateExec
<1>2. CallShape'
  BY SessionFields, SessionCacheAssumption
  DEF IndInv, RotateExec, Conflict, Store, Indexed, Watchers, Release, Reply,
      Return, Idle, TypeOK, CallShape, Call
<1>3. PairLife'
  BY SessionFields, SessionCacheAssumption
  DEF IndInv, RotateExec, Conflict, Store, Indexed, Watchers, Release, Reply,
      Return, Idle, TypeOK, CallShape, PairLife, Call, WatchHolds,
      HoldsToken, SameUser
<1>4. WatchHolds'
  BY SessionFields, SessionCacheAssumption
  DEF IndInv, RotateExec, Conflict, Store, Indexed, Watchers, Release, Reply,
      Return, Idle, TypeOK, CallShape, WatchHolds, HoldsToken,
      SameUser
<1>5. ConflictDecides'
  BY SessionFields, SessionCacheAssumption
  DEF IndInv, RotateExec, Conflict, Store, Indexed, Watchers, Release, Reply,
      Return, Idle, TypeOK, CallShape, PairLife, ConflictDecides,
      HoldsToken, WatchHolds, SameUser
<1>6. IdLife'
  BY SessionFields, SessionCacheAssumption
  DEF IndInv, RotateExec, Conflict, Store, Indexed, Watchers, Release, Reply,
      Return, Idle, TypeOK, CallShape, IdLife, Call, WatchHolds,
      HoldsToken, SameUser
<1>7. Owner'
  BY SessionFields, SessionCacheAssumption
  DEF IndInv, RotateExec, Conflict, Store, Indexed, Watchers, Release, Reply,
      Return, Idle, TypeOK, CallShape, IdLife, Owner,
      IndexedSessionsAreOwn, Call, WatchHolds, HoldsToken, SameUser
<1> QED
  BY <1>1, <1>2, <1>3, <1>4, <1>5, <1>6, <1>7 DEF IndInv

\* SMEMBERS lists sessions of the user only.
LEMMA SMembersKeeps ==
  ASSUME IndInv, NEW c \in Client, SMembers(c)
  PROVE  IndInv'
<1>1. TypeOK'
  <2>1. userSessions[call[c].uid] \in SUBSET SessionId
    BY DEF IndInv, TypeOK, CallShape, SMembers
  <2>2. [call[c] EXCEPT !.pc = "delAll", !.list = userSessions[call[c].uid]] \in Call
    BY <2>1 DEF IndInv, TypeOK, Call, PC
  <2>3. call' = [call EXCEPT ![c] =
          [call[c] EXCEPT !.pc = "delAll", !.list = userSessions[call[c].uid]]]
    BY DEF IndInv, TypeOK, SMembers
  <2>4. call' \in [Client -> Call]
    BY <2>2, <2>3 DEF IndInv, TypeOK
  <2> QED
    BY <2>4 DEF IndInv, TypeOK, SMembers
<1>2. CallShape'
  BY SessionFields, SessionCacheAssumption
  DEF IndInv, SMembers, TypeOK, CallShape, Call
<1>3. PairLife'
  BY SessionFields, SessionCacheAssumption
  DEF IndInv, SMembers, TypeOK, CallShape, PairLife, Call
<1>4. WatchHolds'
  BY SessionFields, SessionCacheAssumption
  DEF IndInv, SMembers, TypeOK, CallShape, WatchHolds, HoldsToken, SameUser
<1>5. ConflictDecides'
  BY SessionFields, SessionCacheAssumption
  DEF IndInv, SMembers, TypeOK, CallShape, PairLife, ConflictDecides, HoldsToken
<1>6. IdLife'
  BY SessionFields, SessionCacheAssumption
  DEF IndInv, SMembers, TypeOK, CallShape, IdLife, Call
<1>7. Owner'
  BY SessionFields, SessionCacheAssumption
  DEF IndInv, SMembers, TypeOK, CallShape, IdLife, Owner, IndexedSessionsAreOwn,
      Call
<1> QED
  BY <1>1, <1>2, <1>3, <1>4, <1>5, <1>6, <1>7 DEF IndInv

\* The DEL of DeleteAllForUser.
LEMMA DelAllKeeps ==
  ASSUME IndInv, NEW c \in Client, DelAll(c)
  PROVE  IndInv'
<1>1. TypeOK'
  <2>1. PICK r \in Answer : Return(c, r, Nil)
    BY DEF DelAll, Reply, Answer
  <2>2. call' \in [Client -> Call]
    BY <2>1, ReturnTyped DEF IndInv, TypeOK, Return
  <2>3. /\ sessions' \in [SessionId -> Session \cup {Nil}]
        /\ userSessions' \in [UserKey -> SUBSET SessionId]
        /\ expired' \subseteq SessionId /\ dirty' \subseteq Client
    BY DEF IndInv, TypeOK, DelAll, Erase, Watchers, Present
  <2> QED
    BY <2>2, <2>3 DEF IndInv, TypeOK, DelAll
<1>2. CallShape'
  BY SessionFields, SessionCacheAssumption
  DEF IndInv, DelAll, Erase, Watchers, Present, Reply, Return, Idle, TypeOK,
      CallShape, Call
<1>3. PairLife'
  BY SessionFields, SessionCacheAssumption
  DEF IndInv, DelAll, Erase, Watchers, Present, Reply, Return, Idle, TypeOK,
      CallShape, PairLife, Call
<1>4. WatchHolds'
  BY SessionFields, SessionCacheAssumption
  DEF IndInv, DelAll, Erase, Watchers, Present, Reply, Return, Idle, TypeOK,
      CallShape, WatchHolds, HoldsToken, SameUser
<1>5. ConflictDecides'
  BY SessionFields, SessionCacheAssumption
  DEF IndInv, DelAll, Erase, Watchers, Present, Reply, Return, Idle, TypeOK,
      CallShape, PairLife, ConflictDecides, HoldsToken
<1>6. IdLife'
  BY SessionFields, SessionCacheAssumption
  DEF IndInv, DelAll, Erase, Watchers, Present, Reply, Return, Idle, TypeOK,
      CallShape, IdLife, Call
<1>7. Owner'
  BY SessionFields, SessionCacheAssumption
  DEF IndInv, DelAll, Erase, Watchers, Present, Reply, Return, Idle, TypeOK,
      CallShape, IdLife, Owner, IndexedSessionsAreOwn, Call
<1> QED
  BY <1>1, <1>2, <1>3, <1>4, <1>5, <1>6, <1>7 DEF IndInv

\* ExpiresAt passes.
LEMMA ExpireKeeps ==
  ASSUME IndInv, NEW s \in SessionId, Expire(s)
  PROVE  IndInv'
<1>1. TypeOK'
  BY SessionFields, SessionCacheAssumption
  DEF IndInv, Expire, TypeOK, Call, Answer, PC, Op
<1>2. CallShape'
  BY SessionFields, SessionCacheAssumption
  DEF IndInv, Expire, TypeOK, CallShape, Call
<1>3. PairLife'
  BY SessionFields, SessionCacheAssumption
  DEF IndInv, Expire, TypeOK, CallShape, PairLife, Call
<1>4. WatchHolds'
  BY SessionFields, SessionCacheAssumption
  DEF IndInv, Expire, TypeOK, CallShape, WatchHolds, HoldsToken, SameUser
<1>5. ConflictDecides'
  BY SessionFields, SessionCacheAssumption
  DEF IndInv, Expire, TypeOK, CallShape, PairLife, ConflictDecides, HoldsToken
<1>6. IdLife'
  BY SessionFields, SessionCacheAssumption
  DEF IndInv, Expire, TypeOK, CallShape, IdLife, Call
<1>7. Owner'
  BY SessionFields, SessionCacheAssumption
  DEF IndInv, Expire, TypeOK, CallShape, IdLife, Owner, IndexedSessionsAreOwn, Call
<1> QED
  BY <1>1, <1>2, <1>3, <1>4, <1>5, <1>6, <1>7 DEF IndInv

\* Redis drops a session key.
LEMMA EvictKeeps ==
  ASSUME IndInv, NEW s \in SessionId, Evict(s)
  PROVE  IndInv'
<1>1. TypeOK'
  BY SessionFields, SessionCacheAssumption
  DEF IndInv, Evict, Erase, Watchers, Present, TypeOK, Call, Answer, PC, Op
<1>2. CallShape'
  BY SessionFields, SessionCacheAssumption
  DEF IndInv, Evict, Erase, Watchers, Present, TypeOK, CallShape, Call
<1>3. PairLife'
  BY SessionFields, SessionCacheAssumption
  DEF IndInv, Evict, Erase, Watchers, Present, TypeOK, CallShape, PairLife, Call
<1>4. WatchHolds'
  BY SessionFields, SessionCacheAssumption
  DEF IndInv, Evict, Erase, Watchers, Present, TypeOK, CallShape, WatchHolds,
      HoldsToken, SameUser
<1>5. ConflictDecides'
  BY SessionFields, SessionCacheAssumption
  DEF IndInv, Evict, Erase, Watchers, Present, TypeOK, CallShape, PairLife,
      ConflictDecides, HoldsToken
<1>6. IdLife'
  BY SessionFields, SessionCacheAssumption
  DEF IndInv, Evict, Erase, Watchers, Present, TypeOK, CallShape, IdLife, Call
<1>7. Owner'
  BY SessionFields, SessionCacheAssumption
  DEF IndInv, Evict, Erase, Watchers, Present, TypeOK, CallShape, IdLife, Owner,
      IndexedSessionsAreOwn, Call
<1> QED
  BY <1>1, <1>2, <1>3, <1>4, <1>5, <1>6, <1>7 DEF IndInv

\* Redis drops an index key.
LEMMA EvictIndexKeeps ==
  ASSUME IndInv, NEW u \in UserKey, EvictIndex(u)
  PROVE  IndInv'
<1>1. TypeOK'
  BY SessionFields, SessionCacheAssumption
  DEF IndInv, EvictIndex, TypeOK, Call, Answer, PC, Op
<1>2. CallShape'
  BY SessionFields, SessionCacheAssumption
  DEF IndInv, EvictIndex, TypeOK, CallShape, Call
<1>3. PairLife'
  BY SessionFields, SessionCacheAssumption
  DEF IndInv, EvictIndex, TypeOK, CallShape, PairLife, Call
<1>4. WatchHolds'
  BY SessionFields, SessionCacheAssumption
  DEF IndInv, EvictIndex, TypeOK, CallShape, WatchHolds, HoldsToken, SameUser
<1>5. ConflictDecides'
  BY SessionFields, SessionCacheAssumption
  DEF IndInv, EvictIndex, TypeOK, CallShape, PairLife, ConflictDecides, HoldsToken
<1>6. IdLife'
  BY SessionFields, SessionCacheAssumption
  DEF IndInv, EvictIndex, TypeOK, CallShape, IdLife, Call
<1>7. Owner'
  BY SessionFields, SessionCacheAssumption
  DEF IndInv, EvictIndex, TypeOK, CallShape, IdLife, Owner, IndexedSessionsAreOwn,
      Call
<1> QED
  BY <1>1, <1>2, <1>3, <1>4, <1>5, <1>6, <1>7 DEF IndInv

\* Get answers, or turns to deleting an expired session.
LEMMA GetKeeps ==
  ASSUME IndInv, NEW c \in Client, Get(c)
  PROVE  IndInv'
<1> DEFINE s == call[c].sid
<1>1. dirty' = dirty \ {c} /\ UNCHANGED <<keyspace, drawn, released, exchanges>>
  BY DEF IndInv, CallShape, Get
<1>2. CASE sessions[s] = Nil /\ Return(c, "notFound", Nil)
  BY <1>1, <1>2, ReturnKeeps DEF Answer
<1>3. CASE sessions[s] # Nil /\ s \notin expired /\ Return(c, "ok", sessions[s])
  <2>1. sessions[s] \in Session \cup {Nil}
    BY DEF IndInv, TypeOK, CallShape, Get
  <2> QED
    BY <1>1, <1>3, <2>1, ReturnKeeps DEF Answer
<1>4. CASE sessions[s] # Nil /\ s \in expired /\ Goto(c, "deleteGet")
  <2>1. TypeOK'
    BY <1>1, <1>4, SessionFields DEF IndInv, Get, Goto, TypeOK, Call, Answer, PC, Op
  <2>2. CallShape'
    BY <1>1, <1>4, SessionFields DEF IndInv, Get, Goto, TypeOK, CallShape, Call
  <2>3. PairLife'
    BY <1>1, <1>4, SessionFields DEF IndInv, Get, Goto, TypeOK, CallShape, PairLife, Call
  <2>4. WatchHolds'
    BY <1>1, <1>4, SessionFields DEF IndInv, Get, Goto, TypeOK, CallShape, WatchHolds,
      HoldsToken, SameUser
  <2>5. ConflictDecides'
    BY <1>1, <1>4, SessionFields DEF IndInv, Get, Goto, TypeOK, CallShape, PairLife,
      ConflictDecides, HoldsToken
  <2>6. IdLife'
    BY <1>1, <1>4, SessionFields DEF IndInv, Get, Goto, TypeOK, CallShape, IdLife, Call
  <2>7. Owner'
    BY <1>1, <1>4, SessionFields DEF IndInv, Get, Goto, TypeOK, CallShape, IdLife, Owner,
      IndexedSessionsAreOwn,
      Call
  <2> QED
    BY <2>1, <2>2, <2>3, <2>4, <2>5, <2>6, <2>7 DEF IndInv
<1> QED
  BY <1>2, <1>3, <1>4 DEF Get

\* The GET of Delete tells the user of the session.
LEMMA DeleteGetKeeps ==
  ASSUME IndInv, NEW c \in Client, DeleteGet(c)
  PROVE  IndInv'
<1> DEFINE s == call[c].sid
<1>1. dirty' = dirty \ {c} /\ UNCHANGED <<keyspace, drawn, released, exchanges>>
  BY DEF IndInv, CallShape, DeleteGet
<1>2. CASE sessions[s] = Nil /\ Return(c, DeleteAnswer(c, "ok"), Nil)
  BY <1>1, <1>2, ReturnKeeps DEF Answer, DeleteAnswer
<1>3. CASE /\ sessions[s] # Nil
           /\ call' = [call EXCEPT ![c].pc = "deleteTx", ![c].uid = sessions[s].user]
  <2>0. s \in SessionId /\ sessions[s] \in Session /\ At(c, "deleteGet")
    BY <1>3 DEF IndInv, TypeOK, CallShape, DeleteGet
  <2>1. TypeOK'
    <3>1. sessions[s].user \in UserKey
      BY <2>0, SessionFields
    <3>2. [call[c] EXCEPT !.pc = "deleteTx", !.uid = sessions[s].user] \in Call
      BY <3>1 DEF IndInv, TypeOK, Call, PC
    <3>3. call' = [call EXCEPT ![c] =
            [call[c] EXCEPT !.pc = "deleteTx", !.uid = sessions[s].user]]
      BY <1>3 DEF IndInv, TypeOK
    <3>4. call' \in [Client -> Call]
      BY <3>2, <3>3 DEF IndInv, TypeOK
    <3> QED
      BY <1>1, <3>4 DEF IndInv, TypeOK
  <2>2. CallShape'
    BY <1>1, <1>3, <2>0, SessionFields DEF IndInv, TypeOK, CallShape, Call
  <2>3. PairLife'
    BY <1>1, <1>3, <2>0, SessionFields DEF IndInv, TypeOK, CallShape, PairLife, Call
  <2>4. WatchHolds'
    BY <1>1, <1>3, <2>0, SessionFields DEF IndInv, TypeOK, CallShape, WatchHolds, HoldsToken,
      SameUser
  <2>5. ConflictDecides'
    BY <1>1, <1>3, <2>0, SessionFields DEF IndInv, TypeOK, CallShape, PairLife,
      ConflictDecides, HoldsToken
  <2>6. IdLife'
    BY <1>1, <1>3, <2>0, SessionFields DEF IndInv, TypeOK, CallShape, IdLife, Call
  <2>7. Owner'
    BY <1>1, <1>3, <2>0, SessionFields DEF IndInv, TypeOK, CallShape, IdLife, Owner,
      IndexedSessionsAreOwn, Call
  <2> QED
    BY <2>1, <2>2, <2>3, <2>4, <2>5, <2>6, <2>7 DEF IndInv
<1> QED
  BY <1>2, <1>3 DEF DeleteGet

\* The GET of Rotate checks token and user.
LEMMA RotateGetKeeps ==
  ASSUME IndInv, NEW c \in Client, RotateGet(c)
  PROVE  IndInv'
<1> DEFINE x == sessions[call[c].sid]
           valid == x # Nil /\ HoldsToken(c, x) /\ SameUser(c, x)
<1>1. UNCHANGED <<keyspace, drawn, released, exchanges>> /\ At(c, "rotateGet")
  BY DEF RotateGet
<1>2. CASE ~valid /\ Return(c, "invalidToken", Nil) /\ dirty' = dirty \ {c}
  BY <1>1, <1>2, ReturnKeeps DEF Answer
<1>3. CASE valid /\ Goto(c, "rotateExec") /\ dirty' = dirty
  <2>1. TypeOK'
    BY <1>1, <1>3, SessionFields DEF IndInv, Goto, TypeOK, Call, Answer, PC, Op
  <2>2. CallShape'
    BY <1>1, <1>3, SessionFields DEF IndInv, Goto, TypeOK, CallShape, Call
  <2>3. PairLife'
    BY <1>1, <1>3, SessionFields DEF IndInv, Goto, TypeOK, CallShape, PairLife, Call
  <2>4. WatchHolds'
    BY <1>1, <1>3, SessionFields DEF IndInv, Goto, TypeOK, CallShape, WatchHolds, HoldsToken,
      SameUser
  <2>5. ConflictDecides'
    BY <1>1, <1>3, SessionFields DEF IndInv, Goto, TypeOK, CallShape, PairLife,
      ConflictDecides, HoldsToken
  <2>6. IdLife'
    BY <1>1, <1>3, SessionFields DEF IndInv, Goto, TypeOK, CallShape, IdLife, Call
  <2>7. Owner'
    BY <1>1, <1>3, SessionFields DEF IndInv, Goto, TypeOK, CallShape, IdLife, Owner,
      IndexedSessionsAreOwn, Call
  <2> QED
    BY <2>1, <2>2, <2>3, <2>4, <2>5, <2>6, <2>7 DEF IndInv
<1> QED
  BY <1>2, <1>3 DEF RotateGet

\* A command fails and the method returns.
LEMMA CommandFailsKeeps ==
  ASSUME IndInv, NEW c \in Client, CommandFails(c)
  PROVE  IndInv'
<1>1. \E r \in Answer : Return(c, r, Nil)
  BY DEF CommandFails, DeleteAnswer, Answer
<1> QED
  BY <1>1, ReturnKeeps DEF CommandFails

\* The caller goes on.
LEMMA ForgetKeeps ==
  ASSUME IndInv, NEW c \in Client, Forget(c)
  PROVE  IndInv'
<1>1. Return(c, "none", Nil)
  BY DEF Forget, Return, Idle
<1>2. dirty' = dirty \ {c}
  BY DEF Forget, IndInv, CallShape
<1> QED
  BY <1>1, <1>2, ReturnKeeps DEF Forget, Answer

\* The empty store satisfies the invariant.
LEMMA InitEstablishes == CacheInit => IndInv
<1> SUFFICES ASSUME CacheInit PROVE IndInv
  OBVIOUS
<1>0. /\ sessions = [s \in SessionId |-> Nil]
      /\ userSessions = [u \in UserKey |-> {}]
      /\ call = [c \in Client |-> Idle]
      /\ exchanges = [p \in Pair |-> 0]
      /\ dirty = {} /\ released = {} /\ expired = {}
      /\ usedIds = {} /\ usedPairs = {}
  BY DEF CacheInit
<1>1. TypeOK
  <2>1. Idle \in Call
    BY DEF Idle, Call, Op, PC, Answer
  <2> QED
    BY <1>0, <2>1 DEF TypeOK
<1>2. CallShape
  BY <1>0 DEF CallShape, Idle
<1>3. PairLife
  BY <1>0 DEF PairLife, Idle
<1>4. WatchHolds /\ ConflictDecides
  BY <1>0 DEF WatchHolds, ConflictDecides, Idle
<1>5. IdLife
  BY <1>0 DEF IdLife, Idle
<1>6. Owner
  BY <1>0 DEF Owner, IndexedSessionsAreOwn, Idle
<1> QED
  BY <1>1, <1>2, <1>3, <1>4, <1>5, <1>6 DEF IndInv

\* Every step keeps the invariant.
LEMMA NextKeeps == IndInv /\ [CacheNext]_cacheVars => IndInv'
<1> SUFFICES ASSUME IndInv, [CacheNext]_cacheVars PROVE IndInv'
  OBVIOUS
<1>1. CASE UNCHANGED cacheVars
  BY <1>1 DEF cacheVars, IndInv, TypeOK, CallShape, PairLife, WatchHolds,
      ConflictDecides, IdLife, Owner, IndexedSessionsAreOwn, HoldsToken, SameUser
<1>2. ASSUME NEW c \in Client, Start(c) PROVE IndInv'
  BY <1>2, StartCreateKeeps, StartGetKeeps, StartDeleteKeeps, StartRotateKeeps,
     StartDeleteAllKeeps DEF Start
<1>3. ASSUME NEW c \in Client, Execute(c) PROVE IndInv'
  BY <1>3, CreateTxKeeps, GetKeeps, DeleteGetKeeps, DeleteTxKeeps, WatchKeeps,
     RotateGetKeeps, RotateConflictKeeps, RotateExecKeeps, SMembersKeeps,
     DelAllKeeps DEF Execute
<1>4. ASSUME NEW c \in Client, CommandFails(c) \/ Forget(c) PROVE IndInv'
  BY <1>4, CommandFailsKeeps, ForgetKeeps
<1>5. CASE Elapse
  BY <1>5, ExpireKeeps, EvictKeeps, EvictIndexKeeps DEF Elapse
<1> QED
  BY <1>1, <1>2, <1>3, <1>4, <1>5 DEF CacheNext

\* The inductive invariant holds of every behaviour of the store.
THEOREM Invariance == CacheSpec => []IndInv
<1>1. CacheInit => IndInv
  BY InitEstablishes
<1>2. IndInv /\ [CacheNext]_cacheVars => IndInv'
  BY NextKeeps
<1> QED
  BY <1>1, <1>2, PTL DEF CacheSpec

\* Type correctness.
THEOREM TypeCorrect == CacheSpec => []TypeOK
<1>1. IndInv => TypeOK
  BY DEF IndInv
<1> QED
  BY <1>1, Invariance, PTL

\* For any number of goroutines racing through Rotate (redis.go:139-276), a
\* refresh token is exchanged at most once.
THEOREM SingleUse == CacheSpec => []RefreshSingleUse
<1>1. IndInv => RefreshSingleUse
  BY DEF IndInv, PairLife, RefreshSingleUse
<1> QED
  BY <1>1, Invariance, PTL

\* The pair stored for a session was never exchanged: after a rotation both
\* tokens of the replaced pair are dead.
THEOREM FreshPairs == CacheSpec => []StoredPairIsFresh
<1>1. IndInv => StoredPairIsFresh
  BY DEF IndInv, PairLife, StoredPairIsFresh
<1> QED
  BY <1>1, Invariance, PTL

\* Rotate decides in its second round: the error "rotate auth session after 3
\* attempts" (redis.go:271-275) is never returned.
THEOREM RetryBounded == CacheSpec => []SecondRoundDecides
<1>1. IndInv => SecondRoundDecides
  BY DEF IndInv, ConflictDecides, SecondRoundDecides
<1> QED
  BY <1>1, Invariance, PTL

\* DeleteAllForUser can only reach sessions of its own user.
THEOREM OwnSessionsOnly == CacheSpec => []IndexedSessionsAreOwn
<1>1. IndInv => IndexedSessionsAreOwn
  BY DEF IndInv, Owner
<1> QED
  BY <1>1, Invariance, PTL

\* A session appears only by the Create that drew its id: RotateExec writes
\* over a session that is still there.
LEMMA OnlyCreateStarts ==
  ASSUME IndInv, [CacheNext]_cacheVars, NEW s \in SessionId,
         sessions[s] = Nil, sessions'[s] # Nil
  PROVE  Creating(s)
<1>1. CASE \E c \in Client : CreateTx(c)
  BY <1>1 DEF CreateTx, Store, Creating, IndInv, TypeOK, CallShape
<1>2. CASE \E c \in Client : RotateExec(c)
  BY <1>2 DEF RotateExec, Conflict, Store, IndInv, TypeOK, CallShape, WatchHolds
<1>3. CASE \/ \E c \in Client : DeleteTx(c) \/ DelAll(c)
           \/ \E t \in SessionId : Evict(t)
  BY <1>3 DEF DeleteTx, DelAll, Evict, Erase
<1>4. CASE UNCHANGED sessions
  BY <1>4
<1>5. \/ \E c \in Client : CreateTx(c)
      \/ \E c \in Client : RotateExec(c)
      \/ \E c \in Client : DeleteTx(c) \/ DelAll(c)
      \/ \E t \in SessionId : Evict(t)
      \/ UNCHANGED sessions
  BY DEF CacheNext, cacheVars, Start, StartCreate, StartGet, StartDelete,
    StartRotate, StartDeleteAll, Execute, Get, DeleteGet, Watch, RotateGet,
    RotateConflict, SMembers, CommandFails, Forget, Elapse, Expire, EvictIndex
<1> QED
  BY <1>1, <1>2, <1>3, <1>4, <1>5

\* No race of Rotate with Delete, DeleteAllForUser or expiry brings a session
\* back.
THEOREM EndedStaysEnded == CacheSpec => NoResurrection
<1>1. IndInv /\ [CacheNext]_cacheVars =>
        [\A s \in SessionId : sessions[s] = Nil /\ sessions'[s] # Nil =>
           Creating(s)]_cacheVars
  BY OnlyCreateStarts
<1> QED
  BY <1>1, Invariance, PTL DEF CacheSpec, NoResurrection

-----------------------------------------------------------------------------
(***************************************************************************)
(* Refinement of AuthSessionStore.                                         *)
(***************************************************************************)
\* The values SessionCache gives to the variables of the contract.
Ended == {s \in usedIds : sessions[s] = Nil /\ ~Creating(s)}
Spent == {p \in Pair : exchanges[p] > 0}

\* The initial states map to an initial state of the contract.
LEMMA InitMaps == CacheInit => Contract!Init
BY DEF CacheInit, Contract!Init

\* The MULTI of Create is the Create of the contract.
LEMMA CreateMaps ==
  ASSUME IndInv, NEW c \in Client, CreateTx(c),
         NEW s \in SessionId, NEW x \in Session, s = call[c].sid, x = call[c].next
  PROVE  Contract!Create(s, x)
<1>1. /\ s \in SessionId /\ x \in Session /\ x.pair \in Pair /\ x.user \in UserKey
      /\ sessions[s] = Nil /\ s \in usedIds /\ Creating(s)
      /\ exchanges[x.pair] = 0
      /\ \A t \in SessionId : Stored(t) => sessions[t].pair # x.pair
  BY SessionFields DEF IndInv, CallShape, PairLife, IdLife, Creating, CreateTx
<1>2. /\ sessions' = [sessions EXCEPT ![s] = x]
      /\ UNCHANGED <<usedIds, exchanges>>
  BY DEF CreateTx, Store
<1>3. x # Nil
  BY <1>1, SessionCacheAssumption
<1>4. \A t \in SessionId \ {s} : Creating(t)' <=> Creating(t)
  BY <1>1 DEF IndInv, TypeOK, Creating, CreateTx, Return, Idle
<1>5. Ended' = Ended
  BY <1>1, <1>2, <1>3, <1>4 DEF Ended, IndInv, TypeOK
<1> QED
  BY <1>1, <1>2, <1>3, <1>5 DEF Contract!Create, Contract!Holder, Ended, IndInv, TypeOK

\* The EXEC of Rotate is the atomic compare-and-swap of the contract.
LEMMA RotateMaps ==
  ASSUME IndInv, NEW c \in Client, RotateExec(c),
         NEW s \in SessionId, NEW x \in Session, s = call[c].sid, x = call[c].next
  PROVE  Contract!Rotate(s, x)
<1> DEFINE p == call[c].expect
<1>1. /\ s \in SessionId /\ x \in Session /\ x.pair \in Pair /\ p \in Pair
      /\ sessions[s] # Nil /\ sessions[s].pair = p /\ sessions[s].user = x.user
      /\ exchanges[x.pair] = 0
      /\ \A t \in SessionId : Stored(t) => sessions[t].pair # x.pair
  BY SessionFields DEF IndInv, TypeOK, CallShape, PairLife, WatchHolds,
    HoldsToken, SameUser, RotateExec, Conflict
<1>2. /\ sessions' = [sessions EXCEPT ![s] = x]
      /\ exchanges' = [exchanges EXCEPT ![p] = @ + 1]
      /\ UNCHANGED usedIds
  BY DEF RotateExec, Store, drawn
<1>3. x # Nil
  BY <1>1, SessionCacheAssumption
<1>4. \A t \in SessionId : Creating(t)' <=> Creating(t)
  BY DEF IndInv, TypeOK, Creating, RotateExec, Return, Idle
<1>5. Ended' = Ended
  BY <1>1, <1>2, <1>3, <1>4 DEF Ended, IndInv, TypeOK
<1>6. Spent' = Spent \cup {sessions[s].pair}
  BY <1>1, <1>2 DEF Spent, IndInv, TypeOK
<1> QED
  BY <1>1, <1>2, <1>5, <1>6
  DEF Contract!Rotate, Contract!Holder, Ended, Spent, IndInv, TypeOK

\* The end of sessions of one user, whatever ended them.
LEMMA EndMaps ==
  ASSUME NEW v \in UserKey, NEW S \in SUBSET usedIds,
         \A s \in S : Stored(s) => sessions[s].user = v,
         sessions' = [s \in SessionId |-> IF s \in S THEN Nil ELSE sessions[s]],
         \A s \in usedIds : Creating(s)' <=> Creating(s),
         \A s \in S : ~Creating(s),
         UNCHANGED <<usedIds, exchanges>>, TypeOK
  PROVE  Contract!End(v, S)
<1>1. Ended' = Ended \cup S
  BY DEF Ended, TypeOK
<1> QED
  BY <1>1 DEF Contract!End, Ended

\* A step of a client that neither is nor gets ready to store a new session.
LEMMA SilentMaps ==
  ASSUME TypeOK, NEW c \in Client,
         call[c].pc # "createTx", call'[c].pc # "createTx",
         \A d \in Client \ {c} : call'[d] = call[d],
         UNCHANGED <<sessions, usedIds, exchanges>>
  PROVE  UNCHANGED Contract!vars
<1>1. \A s \in SessionId : Creating(s)' <=> Creating(s)
  BY DEF Creating
<1>2. Ended' = Ended
  BY <1>1 DEF Ended, TypeOK
<1> QED
  BY <1>2 DEF Ended, Contract!vars

\* Every step is a step of the contract or does not show in it.
LEMMA StepMaps ==
  ASSUME IndInv, [CacheNext]_cacheVars
  PROVE  [Contract!Next]_(Contract!vars)
<1> USE DEF Contract!Next
<1>0. Contract!Session = Session
  BY DEF Contract!Session, Session
<1>1. ASSUME NEW c \in Client, CreateTx(c) PROVE Contract!Next
  <2>1. call[c].sid \in SessionId /\ call[c].next \in Session
    BY <1>1 DEF IndInv, CallShape, CreateTx
  <2>2. PICK s \in SessionId, x \in Session : s = call[c].sid /\ x = call[c].next
    BY <2>1
  <2>3. Contract!Create(s, x)
    BY <1>1, <2>2, CreateMaps
  <2> QED
    BY <1>0, <2>3
<1>2. ASSUME NEW c \in Client, RotateExec(c) PROVE Contract!Next
  <2>1. call[c].sid \in SessionId /\ call[c].next \in Session
    BY <1>2 DEF IndInv, CallShape, RotateExec
  <2>2. PICK s \in SessionId, x \in Session : s = call[c].sid /\ x = call[c].next
    BY <2>1
  <2>3. Contract!Rotate(s, x)
    BY <1>2, <2>2, RotateMaps
  <2> QED
    BY <1>0, <2>3
<1>3. ASSUME NEW c \in Client, DeleteTx(c) PROVE Contract!Next
  <2>0. /\ call[c].uid \in UserKey
        /\ {call[c].sid} \in SUBSET usedIds
    BY <1>3 DEF IndInv, CallShape, IdLife, DeleteTx
  <2>1. PICK v \in UserKey, S \in SUBSET usedIds : v = call[c].uid /\ S = {call[c].sid}
    BY <2>0
  <2>2. /\ \A s \in S : Stored(s) => sessions[s].user = v
        /\ \A s \in S : ~Creating(s)
    BY <1>3, <2>1 DEF IndInv, IdLife, Owner, Creating, DeleteTx
  <2>3. /\ sessions' = [s \in SessionId |-> IF s \in S THEN Nil ELSE sessions[s]]
        /\ UNCHANGED <<usedIds, exchanges>>
    BY <1>3, <2>1 DEF DeleteTx, Erase
  <2>4. \A s \in usedIds : Creating(s)' <=> Creating(s)
    BY <1>3 DEF IndInv, TypeOK, DeleteTx, Creating, Return, Idle
  <2>5. Contract!End(v, S)
    BY <2>2, <2>3, <2>4, EndMaps DEF IndInv
  <2> QED
    BY <2>5 DEF IndInv, TypeOK
<1>4. ASSUME NEW c \in Client, DelAll(c) PROVE Contract!Next
  <2>0. /\ call[c].uid \in UserKey
        /\ call[c].list \in SUBSET usedIds
    BY <1>4 DEF IndInv, CallShape, IdLife, DelAll
  <2>1. PICK v \in UserKey, S \in SUBSET usedIds : v = call[c].uid /\ S = call[c].list
    BY <2>0
  <2>2. /\ \A s \in S : Stored(s) => sessions[s].user = v
        /\ \A s \in S : ~Creating(s)
    BY <1>4, <2>1 DEF IndInv, IdLife, Owner, Creating, DelAll
  <2>3. /\ sessions' = [s \in SessionId |-> IF s \in S THEN Nil ELSE sessions[s]]
        /\ UNCHANGED <<usedIds, exchanges>>
    BY <1>4, <2>1 DEF DelAll, Erase
  <2>4. \A s \in usedIds : Creating(s)' <=> Creating(s)
    BY <1>4 DEF IndInv, TypeOK, DelAll, Creating, Return, Idle
  <2>5. Contract!End(v, S)
    BY <2>2, <2>3, <2>4, EndMaps DEF IndInv
  <2> QED
    BY <2>5 DEF IndInv, TypeOK
<1>5. ASSUME NEW t \in SessionId, Evict(t) PROVE [Contract!Next]_(Contract!vars)
  <2>1. CASE Stored(t)
    <3>1. /\ sessions[t].user \in UserKey /\ {t} \in SUBSET usedIds
          /\ \A s \in {t} : Stored(s) => sessions[s].user = sessions[t].user
          /\ \A s \in {t} : ~Creating(s)
      BY <1>5, <2>1, SessionFields DEF IndInv, TypeOK, IdLife, Creating
    <3>2. /\ sessions' = [s \in SessionId |-> IF s \in {t} THEN Nil ELSE sessions[s]]
          /\ UNCHANGED <<usedIds, exchanges>>
          /\ \A s \in usedIds : Creating(s)' <=> Creating(s)
      BY <1>5 DEF Evict, Erase, Creating
    <3>3. Contract!End(sessions[t].user, {t})
      BY <3>1, <3>2, EndMaps DEF IndInv
    <3> QED
      BY <3>1, <3>3 DEF IndInv, TypeOK
  <2>2. CASE ~Stored(t)
    BY <1>5, <2>2 DEF Evict, Erase, Creating, IndInv, TypeOK, Contract!vars
  <2> QED
    BY <2>1, <2>2
<1>6. ASSUME NEW c \in Client, CommandFails(c), At(c, "createTx") PROVE Contract!Next
  <2>0. /\ call[c].sid \in usedIds /\ call[c].next.user \in UserKey
        /\ ~Stored(call[c].sid)
    BY <1>6, SessionFields DEF IndInv, CallShape, IdLife
  <2>1. PICK v \in UserKey, t \in usedIds : v = call[c].next.user /\ t = call[c].sid
    BY <2>0
  <2>2. UNCHANGED <<sessions, usedIds, exchanges>>
    BY <1>6 DEF CommandFails
  <2>3. call'[c].pc = "idle" /\ \A d \in Client \ {c} : call'[d] = call[d]
    BY <1>6 DEF IndInv, TypeOK, CommandFails, Return, Idle
  <2>4. ~Creating(t)'
    BY <1>6, <2>1, <2>3 DEF IndInv, IdLife, Creating
  <2>5. \A s \in SessionId \ {t} : Creating(s)' <=> Creating(s)
    BY <1>6, <2>1, <2>3 DEF Creating
  <2>6. Ended' = Ended \cup {t}
    BY <2>0, <2>1, <2>2, <2>4, <2>5 DEF Ended, IndInv, TypeOK
  <2>7. Contract!End(v, {t})
    BY <2>0, <2>1, <2>2, <2>6 DEF Contract!End, Ended, IndInv, TypeOK
  <2> QED
    BY <2>7 DEF IndInv, TypeOK
<1>7. ASSUME NEW c \in Client, NEW s \in SessionId, NEW x \in Session,
             StartCreate(c, s, x)
      PROVE  UNCHANGED Contract!vars
  <2>1. UNCHANGED <<sessions, exchanges>> /\ usedIds' = usedIds \cup {s}
    BY <1>7 DEF StartCreate
  <2>2. Creating(s)' /\ \A t \in SessionId \ {s} : Creating(t)' <=> Creating(t)
    BY <1>7 DEF IndInv, TypeOK, StartCreate, Creating, Idle
  <2>3. Ended' = Ended
    BY <1>7, <2>1, <2>2 DEF Ended, StartCreate, IndInv, TypeOK
  <2> QED
    BY <2>1, <2>3 DEF Ended, Contract!vars
<1>8. ASSUME NEW c \in Client, Start(c) PROVE UNCHANGED Contract!vars
  <2>1. CASE \E s \in SessionId, x \in Session : StartCreate(c, s, x)
    BY <1>7, <2>1
  <2>2. CASE \E s \in SessionId : StartGet(c, s) \/ StartDelete(c, s)
    <3>1. call[c].pc # "createTx" /\ call'[c].pc # "createTx"
      BY <2>2 DEF IndInv, TypeOK, StartGet, StartDelete, Idle
    <3>2. \A d \in Client \ {c} : call'[d] = call[d]
      BY <2>2 DEF IndInv, TypeOK, StartGet, StartDelete
    <3>3. UNCHANGED <<sessions, usedIds, exchanges>>
      BY <2>2 DEF StartGet, StartDelete
    <3> QED
      BY <3>1, <3>2, <3>3, SilentMaps DEF IndInv
  <2>3. CASE \E s \in SessionId, p \in Pair, x \in Session : StartRotate(c, s, p, x)
    BY <2>3, SilentMaps DEF IndInv, TypeOK, StartRotate, Idle
  <2>4. CASE \E u \in UserKey : StartDeleteAll(c, u)
    BY <2>4, SilentMaps DEF IndInv, TypeOK, StartDeleteAll, Idle
  <2> QED
    BY <1>8, <2>1, <2>2, <2>3, <2>4 DEF Start
<1>9. ASSUME NEW c \in Client, Get(c) \/ DeleteGet(c) \/ SMembers(c)
      PROVE  UNCHANGED Contract!vars
  <2>1. CASE Get(c)
    <3>0. call[c] \in Call /\ call[c].pc # "createTx"
      BY <2>1 DEF IndInv, TypeOK, Get
    <3>1. call'[c].pc # "createTx"
      BY <2>1, AfterReturn, AfterGoto DEF IndInv, Get
    <3>2. \A d \in Client \ {c} : call'[d] = call[d]
      BY <2>1 DEF IndInv, TypeOK, Get, Goto, Return, Idle
    <3>3. UNCHANGED <<sessions, usedIds, exchanges>>
      BY <2>1 DEF Get
    <3> QED
      BY <3>0, <3>1, <3>2, <3>3, SilentMaps DEF IndInv
  <2>2. CASE DeleteGet(c)
    <3>0. call[c] \in Call /\ call[c].pc # "createTx"
      BY <2>2 DEF IndInv, TypeOK, DeleteGet
    <3>1. call'[c].pc # "createTx"
      BY <2>2, <3>0 DEF IndInv, TypeOK, Call, DeleteGet, Return, Idle
    <3>2. \A d \in Client \ {c} : call'[d] = call[d]
      BY <2>2 DEF IndInv, TypeOK, DeleteGet, Return, Idle
    <3>3. UNCHANGED <<sessions, usedIds, exchanges>>
      BY <2>2 DEF DeleteGet
    <3> QED
      BY <3>0, <3>1, <3>2, <3>3, SilentMaps DEF IndInv
  <2>3. CASE SMembers(c)
    <3>0. call[c] \in Call /\ call[c].pc # "createTx"
      BY <2>3 DEF IndInv, TypeOK, SMembers
    <3>1. call'[c].pc # "createTx"
      BY <2>3, <3>0 DEF IndInv, TypeOK, Call, SMembers
    <3>2. \A d \in Client \ {c} : call'[d] = call[d]
      BY <2>3 DEF IndInv, TypeOK, SMembers
    <3>3. UNCHANGED <<sessions, usedIds, exchanges>>
      BY <2>3 DEF SMembers
    <3> QED
      BY <3>0, <3>1, <3>2, <3>3, SilentMaps DEF IndInv
  <2> QED
    BY <1>9, <2>1, <2>2, <2>3
<1>10. ASSUME NEW c \in Client,
              \/ Watch(c) \/ RotateGet(c) \/ RotateConflict(c)
              \/ Forget(c)
              \/ CommandFails(c) /\ ~At(c, "createTx")
       PROVE  UNCHANGED Contract!vars
  <2>1. CASE Watch(c)
    <3>0. call[c] \in Call /\ call[c].pc # "createTx"
      BY <2>1 DEF IndInv, TypeOK, Watch
    <3>1. call'[c].pc # "createTx"
      BY <2>1, AfterReturn, AfterGoto DEF IndInv, Watch
    <3>2. \A d \in Client \ {c} : call'[d] = call[d]
      BY <2>1 DEF IndInv, TypeOK, Watch, Goto
    <3>3. UNCHANGED <<sessions, usedIds, exchanges>>
      BY <2>1 DEF Watch
    <3> QED
      BY <3>0, <3>1, <3>2, <3>3, SilentMaps DEF IndInv
  <2>2. CASE RotateGet(c)
    <3>0. call[c] \in Call /\ call[c].pc # "createTx"
      BY <2>2 DEF IndInv, TypeOK, RotateGet
    <3>1. call'[c].pc # "createTx"
      BY <2>2, AfterReturn, AfterGoto DEF IndInv, RotateGet
    <3>2. \A d \in Client \ {c} : call'[d] = call[d]
      BY <2>2 DEF IndInv, TypeOK, RotateGet, Goto, Return, Idle
    <3>3. UNCHANGED <<sessions, usedIds, exchanges>>
      BY <2>2 DEF RotateGet
    <3> QED
      BY <3>0, <3>1, <3>2, <3>3, SilentMaps DEF IndInv
  <2>3. CASE RotateConflict(c)
    <3>0. call[c] \in Call /\ call[c].pc # "createTx"
      BY <2>3 DEF IndInv, TypeOK, RotateConflict
    <3>1. call'[c].pc # "createTx"
      BY <2>3, <3>0 DEF IndInv, TypeOK, Call, RotateConflict, Return, Idle
    <3>2. \A d \in Client \ {c} : call'[d] = call[d]
      BY <2>3 DEF IndInv, TypeOK, RotateConflict, Return, Idle
    <3>3. UNCHANGED <<sessions, usedIds, exchanges>>
      BY <2>3 DEF RotateConflict
    <3> QED
      BY <3>0, <3>1, <3>2, <3>3, SilentMaps DEF IndInv
  <2>4. CASE Forget(c)
    <3>0. call[c] \in Call /\ call[c].pc # "createTx"
      BY <2>4 DEF IndInv, TypeOK, Forget
    <3>1. call'[c].pc # "createTx"
      BY <2>4, <3>0 DEF IndInv, TypeOK, Call, Forget, Idle
    <3>2. \A d \in Client \ {c} : call'[d] = call[d]
      BY <2>4 DEF IndInv, TypeOK, Forget, Idle
    <3>3. UNCHANGED <<sessions, usedIds, exchanges>>
      BY <2>4 DEF Forget
    <3> QED
      BY <3>0, <3>1, <3>2, <3>3, SilentMaps DEF IndInv
  <2>5. CASE CommandFails(c) /\ ~At(c, "createTx")
    <3>0. call[c] \in Call /\ call[c].pc # "createTx"
      BY <2>5 DEF IndInv, TypeOK, CommandFails
    <3>1. call'[c].pc # "createTx"
      BY <2>5, AfterReturn, AfterGoto DEF IndInv, CommandFails
    <3>2. \A d \in Client \ {c} : call'[d] = call[d]
      BY <2>5 DEF IndInv, TypeOK, CommandFails, Return, Idle
    <3>3. UNCHANGED <<sessions, usedIds, exchanges>>
      BY <2>5 DEF CommandFails
    <3> QED
      BY <3>0, <3>1, <3>2, <3>3, SilentMaps DEF IndInv
  <2> QED
    BY <1>10, <2>1, <2>2, <2>3, <2>4, <2>5
<1>11. ASSUME \/ \E t \in SessionId : Expire(t)
              \/ \E u \in UserKey : EvictIndex(u)
              \/ UNCHANGED cacheVars
       PROVE  UNCHANGED Contract!vars
  BY <1>11 DEF Expire, EvictIndex, cacheVars, Creating, Contract!vars
<1> QED
  BY <1>1, <1>2, <1>3, <1>4, <1>5, <1>6, <1>8, <1>9, <1>10, <1>11
  DEF CacheNext, Execute, Elapse

\* The methods of SessionCache, one Redis command at a time, implement
\* domain.AuthSessionStore (internal/domain/user.go:144-176).
THEOREM Refinement == CacheSpec => ImplementsContract
<1>1. IndInv /\ [CacheNext]_cacheVars => [Contract!Next]_(Contract!vars)
  BY StepMaps
<1> QED
  BY <1>1, InitMaps, Invariance, PTL DEF CacheSpec, ImplementsContract, Contract!Spec

-----------------------------------------------------------------------------
(***************************************************************************)
(* What the contract itself promises, of any store that implements it.     *)
(***************************************************************************)
ContractInv ==
  /\ sessions \in [SessionId -> Contract!Session \cup {Nil}]
  /\ Contract!PairsAreOwn
  /\ Contract!EndIsFinal

\* Neither a login, a refresh nor the end of sessions lets two sessions share a
\* pair, a pair come back, or an ended session return.
LEMMA ContractSteps == ContractInv /\ [Contract!Next]_(Contract!vars) => ContractInv'
<1> SUFFICES ASSUME ContractInv, [Contract!Next]_(Contract!vars) PROVE ContractInv'
  OBVIOUS
<1> USE DEF ContractInv, Contract!PairsAreOwn, Contract!EndIsFinal, Contract!Holder
<1>0. Nil \notin Contract!Session
  BY SessionCacheAssumption DEF Contract!Session, Session
<1>1. ASSUME NEW s \in SessionId, NEW x \in Contract!Session, Contract!Create(s, x)
      PROVE  ContractInv'
  BY <1>0, <1>1 DEF Contract!Create
<1>2. ASSUME NEW s \in SessionId, NEW x \in Contract!Session, Contract!Rotate(s, x)
      PROVE  ContractInv'
  BY <1>0, <1>2 DEF Contract!Rotate
<1>3. ASSUME NEW u \in UserKey, NEW S \in SUBSET SessionId, Contract!End(u, S)
      PROVE  ContractInv'
  BY <1>0, <1>3 DEF Contract!End
<1>4. CASE UNCHANGED Contract!vars
  BY <1>4 DEF Contract!vars
<1> QED
  BY <1>1, <1>2, <1>3, <1>4 DEF Contract!Next

\* A step of the contract takes nothing off the ended sessions and the exchanged pairs.
LEMMA ContractForgetsNothing ==
  [Contract!Next]_(Contract!vars) => Ended \subseteq Ended' /\ Spent \subseteq Spent'
BY DEF Contract!Next, Contract!Create, Contract!Rotate, Contract!End, Contract!vars,
       Ended, Spent

\* A store that implements domain.AuthSessionStore gives every session a pair of
\* its own that was never exchanged, and what ended or was exchanged stays so:
\* what the service relies on, derived from the interface and not from the code.
THEOREM ContractSuffices ==
  ImplementsContract =>
    /\ [](Contract!PairsAreOwn /\ Contract!EndIsFinal)
    /\ [][Ended \subseteq Ended' /\ Spent \subseteq Spent']_(Contract!vars)
<1>1. Contract!Init => ContractInv
  BY SessionCacheAssumption
  DEF Contract!Init, ContractInv, Contract!PairsAreOwn, Contract!EndIsFinal
<1>2. ContractInv => Contract!PairsAreOwn /\ Contract!EndIsFinal
  BY DEF ContractInv
<1> QED
  BY <1>1, <1>2, ContractSteps, ContractForgetsNothing, PTL
  DEF ImplementsContract, Contract!Spec

\* The Redis store therefore does.
THEOREM StoreKeepsContract ==
  CacheSpec =>
    /\ [](Contract!PairsAreOwn /\ Contract!EndIsFinal)
    /\ [][Ended \subseteq Ended' /\ Spent \subseteq Spent']_(Contract!vars)
BY Refinement, ContractSuffices, PTL
=============================================================================
