------------------------ MODULE UserRepository_proofs ------------------------
(***************************************************************************)
(* Theorems about UserRepository, for any sets of requests, accounts,      *)
(* emails, names, phones and roles.                                        *)
(***************************************************************************)
EXTENDS UserRepository, TLAPS

RoleCall(w) == w.op \in {"assign", "revoke"}

Inserted(w) == w.op = "create" /\ w.pc = "commit"

RoleDecided(w) == RoleCall(w) /\ w.pc = "commit"

\* A row as CreateUser writes it: active and not deleted.
Fresh(x) == x.active /\ ~x.deleted

\* A request has what its next statement needs.
Fits(w) ==
  /\ w \in Work
  /\ w.pc = "insert" => w.op = "create"
  /\ w.pc = "commit" => w.op = "create" \/ RoleCall(w)
  /\ w.op = "create" => w.user \in User /\ w.row \in Row /\ Fresh(w.row)
  /\ w.pc \in {"read", "write"} => w.op = "update"
  /\ w.pc = "write" => w.row \in Row /\ Fresh(w.row)
  /\ w.pc = "remove" => w.op = "delete"
  /\ w.op \in {"update", "delete"} => w.user \in User
  /\ RoleCall(w) => w.user \in User /\ w.role \in Role
  /\ w.pc = "check" => RoleCall(w)
  /\ w.pc \in {"count", "insertRole"} => w.op = "assign"
  /\ w.pc = "deleteRole" => w.op = "revoke"

\* A new account gets a key that nobody has.
KeyIsNew(w) == w.op = "create" => w.user \notin Stored

\* What is inserted and not committed collides with no committed row.
IsFree(w) == Inserted(w) => \A v \in Stored : ~Collide(table[v], w.row)

\* Past its checks a role change names a user and a role there are.
Checked(w) ==
  RoleCall(w) /\ w.pc \in {"count", "insertRole", "deleteRole", "commit"} =>
    w.user \in Stored /\ w.role \in RoleTable

\* What is assigned or revoked and not committed will change something.
Effective(w) ==
  RoleDecided(w) => (<<w.user, w.role>> \in userRole <=> w.op = "revoke")

RequestHolds(w) == Fits(w) /\ KeyIsNew(w) /\ IsFree(w) /\ Checked(w) /\ Effective(w)

\* Two requests never change the same thing at once: the unique indexes keep
\* the second one waiting.
Apart(w, x) ==
  /\ w.op = "create" /\ x.op = "create" => w.user # x.user
  /\ Inserted(w) /\ Inserted(x) => ~Collide(w.row, x.row)
  /\ RoleDecided(w) /\ RoleDecided(x) => <<w.user, w.role>> # <<x.user, x.role>>

\* Only an account has roles.
HoldersStored == \A a \in userRole : a[1] \in Stored

\* Nothing takes the activity of an account away but its deletion.
RowsLive == \A u \in Stored : table[u].deleted \/ table[u].active

RowsHold == HoldersStored /\ RowsLive /\ KeysStayTaken /\ AssignmentsMatchCommits

RequestsHold ==
  /\ \A c \in Client : RequestHolds(work[c])
  /\ \A c, d \in Client : c # d => Apart(work[c], work[d])

RepositoryInv == TypeOK /\ RowsHold /\ RequestsHold

-----------------------------------------------------------------------------
\* A row is no missing one.
LEMMA RowsAreStored == NoRow \notin Row
BY UserRepositoryAssumption DEF NoRow, Row

\* What a stored row is.
LEMMA StoredRows ==
  ASSUME TypeOK, NEW u \in Stored
  PROVE  u \in User /\ table[u] \in Row
BY DEF Stored, TypeOK

\* Colliding goes both ways.
LEMMA CollideBothWays ==
  ASSUME NEW x, NEW y PROVE Collide(x, y) <=> Collide(y, x)
BY DEF Collide

\* A request that is over holds nothing back.
LEMMA NoWorkHolds ==
  /\ NoWork = [op |-> "none", pc |-> "idle", user |-> Nil, role |-> Nil,
               row |-> NoRow, name |-> Nil, phone |-> Nil]
  /\ RequestHolds(NoWork) /\ RequestHolds(NoWork)'
  /\ \A w : Apart(NoWork, w) /\ Apart(w, NoWork)
<1>1. NoWork = [op |-> "none", pc |-> "idle", user |-> Nil, role |-> Nil,
                row |-> NoRow, name |-> Nil, phone |-> Nil]
  BY DEF NoWork
<1> QED
  BY <1>1 DEF RequestHolds, Fits, Work, KeyIsNew, IsFree, Checked, Effective, RoleCall,
    RoleDecided, Inserted, Apart

\* What other requests ask of one that goes on as w.
ApartFromOthers(c, w) == \A d \in Client \ {c} : Apart(w, work[d])

LEMMA ApartBothWays ==
  ASSUME NEW w, NEW x, Apart(w, x) PROVE Apart(x, w)
BY CollideBothWays DEF Apart

\* A step of one request that leaves the tables alone.
LEMMA OneRequest ==
  ASSUME RepositoryInv, NEW c \in Client, NEW w, RequestHolds(w), ApartFromOthers(c, w),
         work' = [work EXCEPT ![c] = w], UNCHANGED <<table, userRole, grants, revokes>>
  PROVE  RepositoryInv'
<1>1. /\ work \in [Client -> Work]
      /\ \A d \in Client : work'[d] = IF d = c THEN w ELSE work[d]
  BY DEF RepositoryInv, TypeOK
<1>2. RequestsHold'
  <2>1. ASSUME NEW d \in Client PROVE RequestHolds(work[d])'
    BY <1>1 DEF RepositoryInv, RequestsHold, RequestHolds, KeyIsNew, IsFree, Checked, Effective,
      Stored
  <2>2. ASSUME NEW d \in Client, NEW e \in Client, d # e PROVE Apart(work'[d], work'[e])
    BY <1>1, <2>2, ApartBothWays DEF RepositoryInv, RequestsHold, ApartFromOthers
  <2> QED
    BY <2>1, <2>2 DEF RequestsHold
<1>3. TypeOK'
  BY <1>1 DEF RepositoryInv, TypeOK, RequestHolds, Fits
<1>4. RowsHold'
  BY DEF RepositoryInv, RowsHold, HoldersStored, RowsLive, KeysStayTaken,
    AssignmentsMatchCommits, Stored
<1> QED
  BY <1>2, <1>3, <1>4 DEF RepositoryInv

\* A request that ends without a change.
LEMMA Ends ==
  ASSUME RepositoryInv, NEW c \in Client, Done(c),
         UNCHANGED <<table, userRole, grants, revokes>>
  PROVE  RepositoryInv'
BY NoWorkHolds, OneRequest DEF Done, ApartFromOthers

\* A request that goes on within its operation.
LEMMA GoesOn ==
  ASSUME RepositoryInv, NEW c \in Client,
         NEW pc \in {"commit", "count", "insertRole", "deleteRole"},
         Goto(c, pc), UNCHANGED <<table, userRole, grants, revokes>>,
         NEW w, w = [work[c] EXCEPT !.pc = pc],
         Fits(w), IsFree(w), Checked(w), Effective(w), ApartFromOthers(c, w)
  PROVE  RepositoryInv'
<1>1. work[c] \in Work /\ work' = [work EXCEPT ![c] = w]
  BY DEF RepositoryInv, TypeOK, Goto
<1>2. KeyIsNew(w)
  BY <1>1 DEF RepositoryInv, RequestsHold, RequestHolds, KeyIsNew, Work
<1> QED
  BY <1>1, <1>2, OneRequest DEF RequestHolds

-----------------------------------------------------------------------------
(***************************************************************************)
(* The actions that leave the tables alone.                                *)
(***************************************************************************)
\* A request arrives.
LEMMA ArriveKeeps ==
  ASSUME RepositoryInv, NEW c \in Client, Arrive(c)
  PROVE  RepositoryInv'
<1>1. ASSUME NEW w, Start(c, w), Fits(w), w.pc \in {"read", "remove", "check"}
      PROVE  RepositoryInv'
  <2>1. RequestHolds(w) /\ ApartFromOthers(c, w)
    BY <1>1 DEF RequestHolds, Fits, KeyIsNew, IsFree, Checked, Effective, RoleCall, RoleDecided,
      Inserted, ApartFromOthers, Apart
  <2> QED
    BY <1>1, <2>1, OneRequest DEF Start
<1>2. ASSUME NEW u \in User, NEW x \in Row, Fresh(x), StartCreate(c, u, x)
      PROVE  RepositoryInv'
  <2> DEFINE w == [NoWork EXCEPT !.op = "create", !.pc = "insert", !.user = u, !.row = x]
  <2>1. Fits(w) /\ w.op = "create" /\ w.pc = "insert" /\ w.user = u
    BY <1>2 DEF NoWork, Fits, Work, RoleCall
  <2> HIDE DEF w
  <2>2. RequestHolds(w)
    BY <1>2, <2>1 DEF StartCreate, RequestHolds, KeyIsNew, IsFree, Checked, Effective,
      RoleCall, RoleDecided, Inserted
  <2>3. ApartFromOthers(c, w)
    BY <1>2, <2>1 DEF StartCreate, ApartFromOthers, Apart, RoleCall, RoleDecided, Inserted
  <2> QED
    BY <1>2, <2>2, <2>3, OneRequest DEF StartCreate, Start, w
<1>3. ASSUME NEW u \in User, NEW name \in Name \cup {Nil}, NEW phone \in Phone \cup {Nil},
             StartUpdate(c, u, name, phone)
      PROVE  RepositoryInv'
  <2> DEFINE w == [NoWork EXCEPT !.op = "update", !.pc = "read", !.user = u,
                                 !.name = name, !.phone = phone]
  <2>1. Fits(w) /\ w.pc = "read"
    BY DEF NoWork, Fits, Work, RoleCall
  <2> HIDE DEF w
  <2> QED
    BY <1>1, <1>3, <2>1 DEF StartUpdate, w
<1>4. ASSUME NEW u \in User, StartDelete(c, u) PROVE RepositoryInv'
  <2> DEFINE w == [NoWork EXCEPT !.op = "delete", !.pc = "remove", !.user = u]
  <2>1. Fits(w) /\ w.pc = "remove"
    BY DEF NoWork, Fits, Work, RoleCall
  <2> HIDE DEF w
  <2> QED
    BY <1>1, <1>4, <2>1 DEF StartDelete, w
<1>5. ASSUME NEW op \in {"assign", "revoke"}, NEW u \in User, NEW r \in Role,
             StartRole(c, op, u, r)
      PROVE  RepositoryInv'
  <2> DEFINE w == [NoWork EXCEPT !.op = op, !.pc = "check", !.user = u, !.role = r]
  <2>1. Fits(w) /\ w.pc = "check"
    BY DEF NoWork, Fits, Work, RoleCall
  <2> HIDE DEF w
  <2> QED
    BY <1>1, <1>5, <2>1 DEF StartRole, w
<1> QED
  BY <1>2, <1>3, <1>4, <1>5 DEF Arrive, Fresh

\* The insert of a new account.
LEMMA InsertRowKeeps ==
  ASSUME RepositoryInv, NEW c \in Client, InsertRow(c)
  PROVE  RepositoryInv'
<1> DEFINE w == [work[c] EXCEPT !.pc = "commit"]
<1>1. Fits(work[c]) /\ KeyIsNew(work[c]) /\ work[c].pc = "insert"
  BY DEF RepositoryInv, RequestsHold, RequestHolds, InsertRow, At
<1>2. CASE ~Duplicate(work[c].user, work[c].row)
  <2>1. Fits(w) /\ Checked(w) /\ Effective(w)
    BY <1>1 DEF Fits, Work, Checked, Effective, RoleCall, RoleDecided
  <2>2. IsFree(w)
    BY <1>1, <1>2 DEF Fits, Work, IsFree, Duplicate, KeyIsNew
  <2>3. ApartFromOthers(c, w)
    <3> SUFFICES ASSUME NEW d \in Client \ {c} PROVE Apart(w, work[d])
      BY DEF ApartFromOthers
    <3>1. Apart(work[c], work[d])
      BY DEF RepositoryInv, RequestsHold
    <3>2. ~(Inserted(work[d]) /\ Collide(w.row, work[d].row))
      BY <1>1, CollideBothWays DEF InsertRow, RowLocked, At, Inserted, Fits, Work
    <3> QED
      BY <1>1, <3>1, <3>2 DEF Apart, Fits, Work, RoleDecided, RoleCall, Inserted
  <2> HIDE DEF w
  <2> QED
    BY <1>2, <2>1, <2>2, <2>3, GoesOn DEF InsertRow, w
<1> QED
  BY <1>2, Ends DEF InsertRow

\* UpdateUser reads the row.
LEMMA ReadRowKeeps ==
  ASSUME RepositoryInv, NEW c \in Client, ReadRow(c)
  PROVE  RepositoryInv'
<1>1. Fits(work[c]) /\ work[c].op = "update" /\ work \in [Client -> Work]
  BY DEF RepositoryInv, TypeOK, RequestsHold, RequestHolds, Fits, ReadRow, At
<1>2. CASE Live(work[c].user)
  <2> DEFINE w == [work[c] EXCEPT !.pc = "write", !.row = table[work[c].user]]
  <2>1. table[work[c].user] \in Row /\ Fresh(table[work[c].user])
    BY <1>2, StoredRows DEF Live, RepositoryInv, RowsHold, RowsLive, Fresh
  <2>2. RequestHolds(w)
    BY <1>1, <2>1 DEF RequestHolds, Fits, Work, KeyIsNew, IsFree, Checked, Effective, RoleCall,
      RoleDecided, Inserted
  <2>3. ApartFromOthers(c, w)
    BY <1>1 DEF ApartFromOthers, Apart, Fits, Work, RoleCall, RoleDecided, Inserted
  <2>4. work' = [work EXCEPT ![c] = w] /\ UNCHANGED <<table, userRole, grants, revokes>>
    BY <1>1, <1>2 DEF ReadRow
  <2> HIDE DEF w
  <2> QED
    BY <2>2, <2>3, <2>4, OneRequest
<1> QED
  BY <1>2, Ends DEF ReadRow

\* A role change that goes on and has decided nothing yet.
LEMMA RoleGoesOn ==
  ASSUME RepositoryInv, NEW c \in Client, NEW pc \in {"count", "insertRole", "deleteRole"},
         Goto(c, pc), UNCHANGED <<table, userRole, grants, revokes>>,
         RoleCall(work[c]), work[c].user \in Stored, work[c].role \in RoleTable,
         IF work[c].op = "assign" THEN pc \in {"count", "insertRole"} ELSE pc = "deleteRole"
  PROVE  RepositoryInv'
<1> DEFINE w == [work[c] EXCEPT !.pc = pc]
<1>1. Fits(work[c])
  BY DEF RepositoryInv, RequestsHold, RequestHolds
<1>2. w.op = work[c].op /\ w.user = work[c].user /\ w.role = work[c].role /\ w.pc = pc
  BY <1>1 DEF Fits, Work
<1>3. Fits(w)
  BY <1>1 DEF Fits, Work, RoleCall
<1>4. IsFree(w) /\ Checked(w) /\ Effective(w)
  BY <1>2 DEF IsFree, Checked, Effective, RoleCall, RoleDecided, Inserted
<1>5. ApartFromOthers(c, w)
  BY <1>2 DEF ApartFromOthers, Apart, RoleCall, RoleDecided, Inserted
<1> HIDE DEF w
<1> QED
  BY <1>3, <1>4, <1>5, GoesOn DEF w

\* A role change whose statement waits for its COMMIT.
LEMMA RoleDecides ==
  ASSUME RepositoryInv, NEW c \in Client,
         Goto(c, "commit"), UNCHANGED <<table, userRole, grants, revokes>>,
         RoleCall(work[c]), work[c].user \in Stored, work[c].role \in RoleTable,
         ~AssignmentLocked(c), Held(c) <=> work[c].op = "revoke"
  PROVE  RepositoryInv'
<1> DEFINE w == [work[c] EXCEPT !.pc = "commit"]
<1>1. Fits(work[c])
  BY DEF RepositoryInv, RequestsHold, RequestHolds
<1>2. w.op = work[c].op /\ w.user = work[c].user /\ w.role = work[c].role /\ w.pc = "commit"
  BY <1>1 DEF Fits, Work
<1>3. Fits(w)
  BY <1>1 DEF Fits, Work, RoleCall
<1>4. IsFree(w) /\ Checked(w) /\ Effective(w)
  BY <1>2 DEF IsFree, Checked, Effective, RoleCall, RoleDecided, Inserted, Held, Assignment
<1>5. ApartFromOthers(c, w)
  BY <1>2 DEF AssignmentLocked, At, ApartFromOthers, Apart, RoleCall, RoleDecided, Inserted
<1> HIDE DEF w
<1> QED
  BY <1>3, <1>4, <1>5, GoesOn DEF w

\* The statements of a role change before its COMMIT.
LEMMA RoleStatementsKeep ==
  ASSUME RepositoryInv, NEW c \in Client,
         CheckUserAndRole(c) \/ CountRole(c) \/ InsertRole(c) \/ DeleteRole(c)
  PROVE  RepositoryInv'
<1>1. Fits(work[c]) /\ Checked(work[c])
  BY DEF RepositoryInv, RequestsHold, RequestHolds
<1>2. CASE Done(c)
  BY <1>2, Ends DEF CheckUserAndRole, CountRole, InsertRole, DeleteRole
<1>3. CASE CheckUserAndRole(c) /\ ~Done(c)
  <2>1. RoleCall(work[c]) /\ work[c].user \in Stored /\ work[c].role \in RoleTable
    BY <1>1, <1>3 DEF CheckUserAndRole, At, Fits, Live
  <2> QED
    BY <1>3, <2>1, RoleGoesOn DEF CheckUserAndRole
<1>4. CASE CountRole(c) /\ ~Done(c)
  BY <1>1, <1>4, RoleGoesOn DEF CountRole, At, Fits, Checked, RoleCall
<1>5. CASE InsertRole(c) /\ ~Done(c)
  BY <1>1, <1>5, RoleDecides DEF InsertRole, At, Fits, Checked, RoleCall
<1>6. CASE DeleteRole(c) /\ ~Done(c)
  BY <1>1, <1>6, RoleDecides DEF DeleteRole, At, Fits, Checked, RoleCall
<1> QED
  BY <1>2, <1>3, <1>4, <1>5, <1>6

-----------------------------------------------------------------------------
(***************************************************************************)
(* The actions that change the tables.                                     *)
(***************************************************************************)
\* The other requests when one of them is over.
LEMMA OthersAfter ==
  ASSUME RepositoryInv, NEW c \in Client, Done(c),
         \A d \in Client \ {c} : RequestHolds(work[d]) => RequestHolds(work[d])'
  PROVE  RequestsHold' /\ work' \in [Client -> Work]
<1>1. /\ work \in [Client -> Work] /\ NoWork \in Work
      /\ \A d \in Client : work'[d] = IF d = c THEN NoWork ELSE work[d]
  BY NoWorkHolds DEF RepositoryInv, TypeOK, Done, RequestHolds, Fits
<1>2. ASSUME NEW d \in Client PROVE RequestHolds(work[d])'
  <2>1. CASE d = c
    BY <1>1, <2>1, NoWorkHolds DEF RequestHolds, KeyIsNew, IsFree, Checked, Effective, Stored
  <2>2. CASE d # c
    BY <2>2 DEF RepositoryInv, RequestsHold
  <2> QED
    BY <2>1, <2>2
<1>3. ASSUME NEW d \in Client, NEW e \in Client, d # e PROVE Apart(work'[d], work'[e])
  BY <1>1, <1>3, NoWorkHolds DEF RepositoryInv, RequestsHold
<1> QED
  BY <1>1, <1>2, <1>3 DEF RequestsHold, Done

\* A row is written over: its user and its keys collide with nobody.
LEMMA WriteKeeps ==
  ASSUME RepositoryInv, NEW c \in Client, Done(c), NEW u \in Stored, NEW y \in Row,
         table' = [table EXCEPT ![u] = y], UNCHANGED <<userRole, grants, revokes>>,
         ~Duplicate(u, y), y.deleted \/ y.active,
         \A d \in Client \ {c} : Inserted(work[d]) => ~Collide(y, work[d].row)
  PROVE  RepositoryInv'
<1>1. /\ u \in User /\ table \in [User -> Row \cup {NoRow}]
      /\ \A v \in User : table'[v] = IF v = u THEN y ELSE table[v]
  BY StoredRows DEF RepositoryInv, TypeOK
<1>2. Stored' = Stored
  BY <1>1, RowsAreStored DEF Stored
<1>3. ASSUME NEW d \in Client \ {c}, RequestHolds(work[d]) PROVE RequestHolds(work[d])'
  <2>1. work'[d] = work[d]
    BY DEF Done, RepositoryInv, TypeOK
  <2>2. IsFree(work[d])'
    BY <1>1, <1>2, <1>3, <2>1 DEF RequestHolds, IsFree, Stored
  <2>3. KeyIsNew(work[d])' /\ Checked(work[d])' /\ Effective(work[d])' /\ Fits(work'[d])
    BY <1>2, <1>3, <2>1 DEF RequestHolds, KeyIsNew, Checked, Effective
  <2> QED
    BY <2>2, <2>3 DEF RequestHolds
<1>4. RequestsHold' /\ work' \in [Client -> Work]
  BY <1>3, OthersAfter
<1>5. KeysStayTaken'
  <2> SUFFICES ASSUME NEW v \in Stored, NEW w \in Stored, v # w
               PROVE  ~Collide(table'[v], table'[w])
    BY <1>2 DEF KeysStayTaken
  <2>1. v \in User /\ w \in User
    BY DEF Stored
  <2>2. CASE v = u
    BY <1>1, <2>1, <2>2, CollideBothWays DEF Duplicate
  <2>3. CASE w = u
    BY <1>1, <2>1, <2>3 DEF Duplicate
  <2>4. CASE v # u /\ w # u
    BY <1>1, <2>1, <2>4 DEF RepositoryInv, RowsHold, KeysStayTaken
  <2> QED
    BY <2>2, <2>3, <2>4
<1>6. HoldersStored' /\ RowsLive' /\ AssignmentsMatchCommits'
  BY <1>1, <1>2
  DEF RepositoryInv, RowsHold, HoldersStored, RowsLive, AssignmentsMatchCommits, Stored
<1>7. TypeOK'
  BY <1>1, <1>4 DEF RepositoryInv, TypeOK
<1> QED
  BY <1>4, <1>5, <1>6, <1>7 DEF RepositoryInv, RowsHold

\* UpdateUser writes the row it read, with the fields it was given.
LEMMA WriteRowKeeps ==
  ASSUME RepositoryInv, NEW c \in Client, WriteRow(c)
  PROVE  RepositoryInv'
<1> DEFINE u == work[c].user
           x == Overlay(work[c])
           y == [x EXCEPT !.deleted = table[u].deleted]
<1>1. CASE ~(Live(u) /\ ~Duplicate(u, x))
  BY <1>1, Ends DEF WriteRow
<1>2. CASE Live(u) /\ ~Duplicate(u, x)
  <2>1. u \in Stored /\ table[u] \in Row /\ table[u].deleted \in BOOLEAN
    BY <1>2, StoredRows DEF Live, RepositoryInv, Row
  <2>2. work[c] \in Work /\ work[c].row \in Row /\ Fresh(work[c].row)
    BY DEF WriteRow, At, RepositoryInv, RequestsHold, RequestHolds, Fits
  <2>3. x \in Row /\ x.active
    BY <2>2 DEF Overlay, Given, Row, Work, Fresh
  <2>4. /\ y \in Row /\ y.active
        /\ \A z : (Collide(y, z) <=> Collide(x, z)) /\ (Collide(z, y) <=> Collide(z, x))
    BY <2>1, <2>3 DEF Row, Collide
  <2>5. ASSUME NEW d \in Client \ {c}, Inserted(work[d]) PROVE ~Collide(x, work[d].row)
    BY <2>5, CollideBothWays DEF WriteRow, RowLocked, At, Inserted
  <2>6. /\ table' = [table EXCEPT ![u] = y] /\ Done(c)
        /\ UNCHANGED <<userRole, grants, revokes>>
    BY <1>2 DEF WriteRow
  <2>7. ~Duplicate(u, y)
    BY <1>2, <2>4 DEF Duplicate
  <2> HIDE DEF u, x, y
  <2> QED
    BY <2>1, <2>4, <2>5, <2>6, <2>7, WriteKeeps
<1> QED
  BY <1>1, <1>2

\* DeleteUser marks the row.
LEMMA RemoveRowKeeps ==
  ASSUME RepositoryInv, NEW c \in Client, RemoveRow(c)
  PROVE  RepositoryInv'
<1> DEFINE u == work[c].user
           y == [table[u] EXCEPT !.deleted = TRUE, !.active = FALSE]
<1>1. CASE ~Live(u)
  BY <1>1, Ends DEF RemoveRow
<1>2. CASE Live(u)
  <2>1. u \in Stored /\ u \in User /\ table[u] \in Row
    BY <1>2, StoredRows DEF Live, RepositoryInv
  <2>2. y \in Row /\ y.deleted /\ y.email = table[u].email /\ y.phone = table[u].phone
    BY <2>1 DEF Row
  <2>3. /\ table' = [table EXCEPT ![u] = y] /\ Done(c)
        /\ UNCHANGED <<userRole, grants, revokes>>
    BY <1>2, <2>1 DEF RemoveRow, RepositoryInv, TypeOK
  <2> HIDE DEF u, y
  <2>4. ~Duplicate(u, y)
    <3>1. \A v \in Stored \ {u} : ~Collide(table[v], table[u])
      BY <2>1 DEF RepositoryInv, RowsHold, KeysStayTaken
    <3> QED
      BY <2>2, <3>1 DEF Duplicate, Collide
  <2>5. ASSUME NEW d \in Client \ {c}, Inserted(work[d]) PROVE ~Collide(y, work[d].row)
    <3>1. ~Collide(table[u], work[d].row)
      BY <2>1, <2>5 DEF RepositoryInv, RequestsHold, RequestHolds, IsFree
    <3> QED
      BY <2>2, <3>1 DEF Collide
  <2> QED
    BY <2>1, <2>2, <2>3, <2>4, <2>5, WriteKeeps
<1> QED
  BY <1>1, <1>2

\* CreateUser commits the row and its customer role.
LEMMA CommitCreateKeeps ==
  ASSUME RepositoryInv, NEW c \in Client, CommitCreate(c)
  PROVE  RepositoryInv'
<1> DEFINE u == work[c].user
           x == work[c].row
           a == <<u, Customer>>
<1>1. /\ RequestHolds(work[c]) /\ Inserted(work[c]) /\ Done(c)
      /\ table' = [table EXCEPT ![u] = x] /\ userRole' = userRole \cup {a}
      /\ grants' = [grants EXCEPT ![a] = @ + 1] /\ revokes' = revokes
  BY DEF CommitCreate, At, Inserted, RepositoryInv, RequestsHold
<1>2. u \in User /\ u \notin Stored /\ x \in Row /\ a \in User \X RoleTable
  BY <1>1, UserRepositoryAssumption DEF RequestHolds, Fits, KeyIsNew, Inserted
<1>3. /\ table \in [User -> Row \cup {NoRow}]
      /\ \A v \in User : table'[v] = IF v = u THEN x ELSE table[v]
  BY <1>1, <1>2 DEF RepositoryInv, TypeOK
<1>4. Stored' = Stored \cup {u}
  BY <1>2, <1>3, RowsAreStored DEF Stored
<1>5. a \notin userRole
  BY <1>2 DEF RepositoryInv, RowsHold, HoldersStored
<1> HIDE DEF u, x, a
<1>6. ASSUME NEW d \in Client \ {c}, RequestHolds(work[d]) PROVE RequestHolds(work[d])'
  <2>1. work'[d] = work[d]
    BY <1>1 DEF Done, RepositoryInv, TypeOK
  <2>2. Apart(work[c], work[d])
    BY DEF RepositoryInv, RequestsHold
  <2>3. KeyIsNew(work[d])'
    BY <1>1, <1>4, <1>6, <2>1, <2>2 DEF RequestHolds, KeyIsNew, Apart, Inserted, u
  <2>4. IsFree(work[d])'
    BY <1>1, <1>2, <1>3, <1>4, <1>6, <2>1, <2>2
    DEF RequestHolds, IsFree, Apart, x, Stored
  <2>5. Checked(work[d])' /\ Fits(work'[d])
    BY <1>4, <1>6, <2>1 DEF RequestHolds, Checked
  <2>6. Effective(work[d])'
    <3>1. RoleDecided(work[d]) => work[d].user \in Stored
      BY <1>6 DEF RequestHolds, Checked, RoleDecided
    <3>2. RoleDecided(work[d]) => <<work[d].user, work[d].role>> # a
      BY <1>2, <3>1 DEF a
    <3>3. RoleDecided(work[d]) =>
            (<<work[d].user, work[d].role>> \in userRole' <=>
             <<work[d].user, work[d].role>> \in userRole)
      BY <1>1, <3>2
    <3>4. Effective(work[d])
      BY <1>6 DEF RequestHolds
    <3> QED
      BY <2>1, <3>3, <3>4 DEF Effective, RoleDecided, RoleCall
  <2> QED
    BY <2>3, <2>4, <2>5, <2>6 DEF RequestHolds
<1>7. RequestsHold' /\ work' \in [Client -> Work]
  BY <1>1, <1>6, OthersAfter
<1>8. KeysStayTaken'
  <2> SUFFICES ASSUME NEW v \in Stored', NEW w \in Stored', v # w
               PROVE  ~Collide(table'[v], table'[w])
    BY DEF KeysStayTaken
  <2>1. v \in User /\ w \in User
    BY DEF Stored
  <2>2. \A t \in Stored : ~Collide(table[t], x) /\ ~Collide(x, table[t])
    BY <1>1, CollideBothWays DEF RequestHolds, IsFree, x
  <2>3. CASE v = u \/ w = u
    BY <1>3, <1>4, <2>1, <2>2, <2>3
  <2>4. CASE v # u /\ w # u
    BY <1>3, <1>4, <2>1, <2>4 DEF RepositoryInv, RowsHold, KeysStayTaken
  <2> QED
    BY <2>3, <2>4
<1>9. HoldersStored'
  BY <1>1, <1>4 DEF RepositoryInv, RowsHold, HoldersStored, a
<1>10. RowsLive'
  <2>1. x.active
    BY <1>1 DEF RequestHolds, Fits, Fresh, Inserted, x
  <2> QED
    BY <1>3, <1>4, <2>1 DEF RepositoryInv, RowsHold, RowsLive, Stored
<1>11. AssignmentsMatchCommits'
  <2> SUFFICES ASSUME NEW v \in User, NEW r \in Role, NEW b, b = <<v, r>>
               PROVE  grants'[b] - revokes'[b] = IF b \in userRole' THEN 1 ELSE 0
    BY DEF AssignmentsMatchCommits
  <2>1. /\ b \in User \X Role /\ grants[b] \in Nat /\ revokes[b] \in Nat
        /\ grants[b] - revokes[b] = IF b \in userRole THEN 1 ELSE 0
        /\ grants'[b] = IF b = a THEN grants[b] + 1 ELSE grants[b]
    BY <1>1 DEF RepositoryInv, TypeOK, RowsHold, AssignmentsMatchCommits
  <2> QED
    BY <1>1, <1>5, <2>1
<1>12. TypeOK'
  <2>1. a \in User \X Role
    BY <1>2, UserRepositoryAssumption
  <2>2. grants' \in [User \X Role -> Nat]
    BY <1>1, <2>1 DEF RepositoryInv, TypeOK
  <2> QED
    BY <1>1, <1>2, <1>7, <2>2 DEF RepositoryInv, TypeOK
<1> QED
  BY <1>7, <1>8, <1>9, <1>11, <1>12, <1>10 DEF RepositoryInv, RowsHold

\* AssignRole or RevokeRole commits.
LEMMA CommitRoleKeeps ==
  ASSUME RepositoryInv, NEW c \in Client, CommitRole(c)
  PROVE  RepositoryInv'
<1> DEFINE a == Assignment(c)
<1>1. /\ RequestHolds(work[c]) /\ RoleDecided(work[c]) /\ Done(c) /\ table' = table
      /\ a = <<work[c].user, work[c].role>>
  BY DEF CommitRole, At, RoleDecided, RoleCall, RepositoryInv, RequestsHold, Assignment
<1>2. /\ work[c].user \in Stored /\ a \in User \X RoleTable
      /\ a \in userRole <=> work[c].op = "revoke"
  BY <1>1 DEF RequestHolds, Fits, Checked, Effective, RoleDecided
<1>3. \/ /\ a \notin userRole /\ userRole' = userRole \cup {a}
         /\ grants' = [grants EXCEPT ![a] = @ + 1] /\ revokes' = revokes
      \/ /\ a \in userRole /\ userRole' = userRole \ {a}
         /\ revokes' = [revokes EXCEPT ![a] = @ + 1] /\ grants' = grants
  BY <1>2 DEF CommitRole
<1> HIDE DEF a
<1>4. ASSUME NEW d \in Client \ {c}, RequestHolds(work[d]) PROVE RequestHolds(work[d])'
  <2>1. work'[d] = work[d]
    BY <1>1 DEF Done, RepositoryInv, TypeOK
  <2>2. Apart(work[c], work[d])
    BY DEF RepositoryInv, RequestsHold
  <2>3. Effective(work[d])'
    BY <1>1, <1>3, <1>4, <2>1, <2>2 DEF RequestHolds, Effective, Apart
  <2>4. KeyIsNew(work[d])' /\ IsFree(work[d])' /\ Checked(work[d])' /\ Fits(work'[d])
    BY <1>1, <1>4, <2>1 DEF RequestHolds, KeyIsNew, IsFree, Checked, Stored
  <2> QED
    BY <2>3, <2>4 DEF RequestHolds
<1>5. RequestsHold' /\ work' \in [Client -> Work]
  BY <1>1, <1>4, OthersAfter
<1>6. KeysStayTaken' /\ HoldersStored' /\ RowsLive'
  BY <1>1, <1>2, <1>3
  DEF RepositoryInv, RowsHold, KeysStayTaken, HoldersStored, RowsLive, Stored
<1>7. AssignmentsMatchCommits'
  <2> SUFFICES ASSUME NEW v \in User, NEW r \in Role, NEW b, b = <<v, r>>
               PROVE  grants'[b] - revokes'[b] = IF b \in userRole' THEN 1 ELSE 0
    BY DEF AssignmentsMatchCommits
  <2>1. /\ b \in User \X Role /\ grants[b] \in Nat /\ revokes[b] \in Nat
        /\ grants[b] - revokes[b] = IF b \in userRole THEN 1 ELSE 0
        /\ grants \in [User \X Role -> Nat] /\ revokes \in [User \X Role -> Nat]
    BY DEF RepositoryInv, TypeOK, RowsHold, AssignmentsMatchCommits
  <2> QED
    BY <1>3, <2>1
<1>8. TypeOK'
  <2>1. a \in User \X Role
    BY <1>2, UserRepositoryAssumption
  <2>2. grants' \in [User \X Role -> Nat] /\ revokes' \in [User \X Role -> Nat]
    BY <1>3, <2>1 DEF RepositoryInv, TypeOK
  <2> QED
    BY <1>1, <1>2, <1>3, <1>5, <2>2 DEF RepositoryInv, TypeOK
<1> QED
  BY <1>5, <1>6, <1>7, <1>8 DEF RepositoryInv, RowsHold

-----------------------------------------------------------------------------
\* The tables are empty at first.
LEMMA RepositoryStarts == Init => RepositoryInv
<1> SUFFICES ASSUME Init PROVE RepositoryInv
  OBVIOUS
<1>1. Stored = {}
  BY DEF Init, Stored
<1>2. TypeOK
  BY NoWorkHolds DEF Init, TypeOK, RequestHolds, Fits
<1>3. RowsHold
  BY <1>1 DEF Init, RowsHold, HoldersStored, RowsLive, KeysStayTaken, AssignmentsMatchCommits
<1>4. RequestsHold
  BY NoWorkHolds DEF Init, RequestsHold
<1> QED
  BY <1>2, <1>3, <1>4 DEF RepositoryInv

\* Every statement, every COMMIT and every failure keeps the invariant.
LEMMA RepositoryKeeps == RepositoryInv /\ [Next]_vars => RepositoryInv'
<1> SUFFICES ASSUME RepositoryInv, [Next]_vars PROVE RepositoryInv'
  OBVIOUS
<1>1. ASSUME NEW c \in Client, Fail(c) PROVE RepositoryInv'
  BY <1>1, Ends DEF Fail
<1>2. ASSUME NEW c \in Client, Proceed(c) PROVE RepositoryInv'
  BY <1>1, <1>2, InsertRowKeeps, CommitCreateKeeps, ReadRowKeeps, WriteRowKeeps, RemoveRowKeeps,
    RoleStatementsKeep, CommitRoleKeeps DEF Proceed
<1>3. CASE UNCHANGED vars
  BY <1>3 DEF vars, RepositoryInv, TypeOK, RowsHold, HoldersStored, RowsLive, KeysStayTaken,
    AssignmentsMatchCommits, RequestsHold, RequestHolds, KeyIsNew, IsFree, Checked, Effective,
    Stored
<1> QED
  BY <1>2, <1>3, ArriveKeeps DEF Next

\* The invariant holds of every behaviour of the repository.
THEOREM RepositoryInvariance == Spec => []RepositoryInv
BY RepositoryStarts, RepositoryKeeps, PTL DEF Spec

\* Every variable of the repository holds a value of its type.
THEOREM RepositoryTypes == Spec => []TypeOK
<1>1. RepositoryInv => TypeOK
  BY DEF RepositoryInv
<1> QED
  BY <1>1, RepositoryInvariance, PTL

\* Create and Update (user_repository.go) give no email and no phone to a second
\* account, whatever transactions run at the same time.
THEOREM OneAccountPerKey == Spec => []KeysStayTaken
<1>1. RepositoryInv => KeysStayTaken
  BY DEF RepositoryInv, RowsHold
<1> QED
  BY <1>1, RepositoryInvariance, PTL

\* AssignRole and RevokeRole (user_repository.go) report a grant or a revocation
\* exactly when it took effect.
THEOREM RoleChangesTakeEffect == Spec => []AssignmentsMatchCommits
<1>1. RepositoryInv => AssignmentsMatchCommits
  BY DEF RepositoryInv, RowsHold
<1> QED
  BY <1>1, RepositoryInvariance, PTL

\* No statement writes a row that DeleteUser has marked.
LEMMA DeletedRowsStay ==
  ASSUME RepositoryInv, [Next]_vars, NEW u \in Stored, table[u].deleted
  PROVE  table'[u] = table[u]
<1>1. u \in User /\ table \in [User -> Row \cup {NoRow}]
  BY DEF RepositoryInv, TypeOK, Stored
<1>2. ASSUME NEW c \in Client, CommitCreate(c) PROVE table'[u] = table[u]
  <2>1. work[c].user \notin Stored
    BY <1>2 DEF CommitCreate, RepositoryInv, RequestsHold, RequestHolds, KeyIsNew
  <2> QED
    BY <1>1, <1>2, <2>1 DEF CommitCreate
<1>3. ASSUME NEW c \in Client, WriteRow(c) \/ RemoveRow(c) PROVE table'[u] = table[u]
  BY <1>1, <1>3 DEF WriteRow, RemoveRow, Live
<1>4. ASSUME NEW c \in Client, CommitRole(c) \/ Fail(c) \/ Arrive(c) PROVE table' = table
  BY <1>4 DEF CommitRole, Fail, Arrive, StartCreate, StartUpdate, StartDelete, StartRole, Start
<1>5. ASSUME NEW c \in Client, InsertRow(c) \/ ReadRow(c) \/ CheckUserAndRole(c) \/ CountRole(c)
               \/ InsertRole(c) \/ DeleteRole(c)
      PROVE  table' = table
  BY <1>5 DEF InsertRow, ReadRow, CheckUserAndRole, CountRole, InsertRole, DeleteRole
<1> QED
  BY <1>2, <1>3, <1>4, <1>5 DEF Next, Proceed, vars

\* A deleted account is never changed or made active again, although UpdateUser
\* may have read it before it was deleted.
THEOREM DeletedStaysDeleted == Spec => DeletedRowFrozen
<1>1. RepositoryInv /\ [Next]_vars =>
        [\A u \in Stored : table[u].deleted => table'[u] = table[u]]_vars
  BY DeletedRowsStay
<1> QED
  BY <1>1, RepositoryInvariance, PTL DEF Spec, DeletedRowFrozen

\* The statements that change the row of an account and leave it live.
LEMMA OnlyUpdatesChange ==
  ASSUME RepositoryInv, [Next]_vars, NEW u \in Stored, table'[u] # table[u],
         ~table'[u].deleted
  PROVE  \E c \in Client : WriteRow(c) /\ work[c].user = u
<1>1. u \in User /\ table \in [User -> Row \cup {NoRow}] /\ table[u] \in Row
  BY StoredRows DEF RepositoryInv, TypeOK
<1>2. ASSUME NEW c \in Client, CommitCreate(c) PROVE FALSE
  <2>1. work[c].user \notin Stored
    BY <1>2 DEF CommitCreate, RepositoryInv, RequestsHold, RequestHolds, KeyIsNew
  <2> QED
    BY <1>1, <1>2, <2>1 DEF CommitCreate
<1>3. ASSUME NEW c \in Client, RemoveRow(c) PROVE FALSE
  <2>1. CASE work[c].user = u
    BY <1>1, <1>3, <2>1 DEF RemoveRow, Row
  <2>2. CASE work[c].user # u
    BY <1>1, <1>3, <2>2 DEF RemoveRow
  <2> QED
    BY <2>1, <2>2
<1>4. ASSUME NEW c \in Client, WriteRow(c) PROVE work[c].user = u
  BY <1>1, <1>4 DEF WriteRow
<1>5. ASSUME NEW c \in Client, CommitRole(c) \/ Fail(c) \/ Arrive(c) PROVE table' = table
  BY <1>5 DEF CommitRole, Fail, Arrive, StartCreate, StartUpdate, StartDelete, StartRole, Start
<1>6. ASSUME NEW c \in Client, InsertRow(c) \/ ReadRow(c) \/ CheckUserAndRole(c) \/ CountRole(c)
               \/ InsertRole(c) \/ DeleteRole(c)
      PROVE  table' = table
  BY <1>6 DEF InsertRow, ReadRow, CheckUserAndRole, CountRole, InsertRole, DeleteRole
<1> QED
  BY <1>2, <1>3, <1>4, <1>5, <1>6 DEF Next, Proceed, vars

\* What UpdateUser writes over a row that is as it read it.
LEMMA UpdateWritesGiven ==
  ASSUME RepositoryInv, NEW c \in Client, WriteRow(c), NEW u \in Stored, work[c].user = u,
         table'[u] # table[u], work[c].row = table[u]
  PROVE  /\ table'[u].name \in {table[u].name, work[c].name}
         /\ table'[u].phone \in {table[u].phone, work[c].phone}
<1>1. u \in User /\ table \in [User -> Row \cup {NoRow}] /\ table[u] \in Row
  BY StoredRows DEF RepositoryInv, TypeOK
<1>2. table'[u] = [Overlay(work[c]) EXCEPT !.deleted = table[u].deleted]
  BY <1>1 DEF WriteRow
<1>3. work[c] \in Work
  BY DEF RepositoryInv, TypeOK
<1> QED
  BY <1>1, <1>2, <1>3 DEF Overlay, Given, Row, Work

\* UpdateUser (user_service.go, user_repository.go) changes no field it was not
\* asked to change, unless another update came between its read and its write.
THEOREM UpdatesChangeWhatIsAsked == Spec => FieldsChangeByRequest
<1>1. ASSUME RepositoryInv, [Next]_vars, NEW u \in Stored, table'[u] # table[u],
             ~table'[u].deleted
      PROVE  \E c \in Client :
               /\ At(c, "write") /\ work[c].user = u
               /\ \/ work[c].row # table[u]
                  \/ /\ table'[u].name \in {table[u].name, work[c].name}
                     /\ table'[u].phone \in {table[u].phone, work[c].phone}
  BY <1>1, OnlyUpdatesChange, UpdateWritesGiven DEF WriteRow
<1>2. RepositoryInv /\ [Next]_vars =>
        [\A u \in Stored : table'[u] # table[u] /\ ~table'[u].deleted =>
           \E c \in Client :
             /\ At(c, "write") /\ work[c].user = u
             /\ \/ work[c].row # table[u]
                \/ /\ table'[u].name \in {table[u].name, work[c].name}
                   /\ table'[u].phone \in {table[u].phone, work[c].phone}]_vars
  BY <1>1
<1> QED
  BY <1>2, RepositoryInvariance, PTL DEF Spec, FieldsChangeByRequest

-----------------------------------------------------------------------------
(***************************************************************************)
(* The tables implement AccountStore: the COMMIT of a call is the moment   *)
(* at which it happens.                                                    *)
(***************************************************************************)
\* One account of the refinement changes.
LEMMA OneAccount ==
  ASSUME NEW u \in User, NEW x, AccountOf(u)' = x,
         \A v \in User \ {u} : AccountOf(v)' = AccountOf(v)
  PROVE  [v \in User |-> AccountOf(v)]' = [[v \in User |-> AccountOf(v)] EXCEPT ![u] = x]
OBVIOUS

\* A statement that leaves both tables alone changes no account.
LEMMA SameTablesSameAccounts ==
  ASSUME UNCHANGED <<table, userRole>>
  PROVE  UNCHANGED [u \in User |-> AccountOf(u)]
BY DEF AccountOf, StatusOf, RolesOf, Stored

\* The COMMIT of CreateUser creates the account.
LEMMA CommitCreateCreates ==
  ASSUME RepositoryInv, NEW c \in Client, CommitCreate(c), NEW u, u = work[c].user
  PROVE  Accounts!Create(u)
<1> DEFINE x == work[c].row
           new == [status |-> "active", roles |-> {Customer}]
<1>1. /\ u \in User /\ u \notin Stored /\ x \in Row /\ Customer \in Role
      /\ table \in [User -> Row \cup {NoRow}]
      /\ table' = [table EXCEPT ![u] = x] /\ userRole' = userRole \cup {<<u, Customer>>}
  BY UserRepositoryAssumption DEF CommitCreate, At, RepositoryInv, TypeOK, RequestsHold,
    RequestHolds, Fits, KeyIsNew
<1>2. x.active /\ ~x.deleted
  BY DEF CommitCreate, At, RepositoryInv, RequestsHold, RequestHolds, Fits, Fresh
<1> HIDE DEF x
<1>3. u \in Stored' /\ \A v \in User \ {u} : table'[v] = table[v]
  BY <1>1, RowsAreStored DEF Stored
<1>4. AccountOf(u)' = new
  <2>1. StatusOf(u)' = "active"
    BY <1>1, <1>2, <1>3 DEF StatusOf
  <2>2. RolesOf(u)' = {Customer}
    BY <1>1 DEF RolesOf, RepositoryInv, RowsHold, HoldersStored
  <2> QED
    BY <2>1, <2>2 DEF AccountOf
<1>5. \A v \in User \ {u} : AccountOf(v)' = AccountOf(v)
  BY <1>1, <1>3 DEF AccountOf, StatusOf, RolesOf, Stored
<1>6. AccountOf(u).status = "absent"
  BY <1>1 DEF AccountOf, StatusOf, RolesOf
<1> QED
  BY <1>1, <1>4, <1>5, <1>6, OneAccount DEF Accounts!Create

\* The statement of DeleteUser deletes a live account, and nothing else changes.
LEMMA RemoveRowDeletes ==
  ASSUME RepositoryInv, NEW c \in Client, RemoveRow(c), NEW u, u = work[c].user, Live(u)
  PROVE  Accounts!Delete(u)
<1> DEFINE y == [table[u] EXCEPT !.deleted = TRUE, !.active = FALSE]
<1>1. /\ u \in Stored /\ u \in User /\ table[u] \in Row /\ ~table[u].deleted
      /\ table \in [User -> Row \cup {NoRow}] /\ y \in Row /\ y.deleted
      /\ table' = [table EXCEPT ![u] = y] /\ userRole' = userRole
  <2>1. u \in Stored /\ ~table[u].deleted
    BY DEF Live
  <2>2. u \in User /\ table[u] \in Row
    BY <2>1, StoredRows DEF RepositoryInv
  <2>3. y \in Row /\ y.deleted
    BY <2>2 DEF Row
  <2>4. table' = [table EXCEPT ![u] = y] /\ userRole' = userRole
    BY DEF RemoveRow
  <2> QED
    BY <2>1, <2>2, <2>3, <2>4 DEF RepositoryInv, TypeOK
<1> HIDE DEF y
<1>2. u \in Stored'
  BY <1>1, RowsAreStored DEF Stored
<1>3. AccountOf(u)' = [AccountOf(u) EXCEPT !.status = "deleted"]
  <2>1. table'[u] = y
    BY <1>1
  <2>2. StatusOf(u)' = "deleted"
    BY <1>1, <1>2, <2>1 DEF StatusOf
  <2>3. RolesOf(u)' = RolesOf(u)
    BY <1>1 DEF RolesOf
  <2> QED
    BY <2>2, <2>3 DEF AccountOf
<1>4. \A v \in User \ {u} : AccountOf(v)' = AccountOf(v)
  BY <1>1 DEF AccountOf, StatusOf, RolesOf, Stored
<1>5. AccountOf(u).status = "active"
  BY <1>1 DEF AccountOf, StatusOf, RepositoryInv, RowsHold, RowsLive, RolesOf
<1> QED
  BY <1>1, <1>3, <1>4, <1>5, OneAccount DEF Accounts!Delete

\* UpdateUser changes neither the status nor the roles of an account.
LEMMA WriteRowChangesNoAccount ==
  ASSUME RepositoryInv, NEW c \in Client, WriteRow(c)
  PROVE  UNCHANGED [u \in User |-> AccountOf(u)]
<1> PICK u : u = work[c].user
  OBVIOUS
<1> DEFINE x == Overlay(work[c])
           y == [x EXCEPT !.deleted = table[u].deleted]
<1>1. CASE Live(u) /\ ~Duplicate(u, x)
  <2>1. u \in Stored /\ u \in User /\ table[u] \in Row
    BY <1>1, StoredRows DEF Live, RepositoryInv
  <2>2. x \in Row /\ x.active
    <3>1. work[c].row \in Row /\ work[c].row.active /\ work[c] \in Work
      BY DEF RepositoryInv, RequestsHold, RequestHolds, Fits, Fresh, WriteRow, At
    <3> QED
      BY <3>1 DEF Overlay, Given, Row, Work
  <2>3. y \in Row /\ y.active /\ ~y.deleted /\ table[u].active /\ ~table[u].deleted
    BY <1>1, <2>1, <2>2 DEF Row, Live, RepositoryInv, RowsHold, RowsLive
  <2>4. table' = [table EXCEPT ![u] = y] /\ userRole' = userRole
    BY <1>1 DEF WriteRow
  <2> HIDE DEF x, y
  <2>5. /\ table \in [User -> Row \cup {NoRow}] /\ Stored' = Stored
        /\ \A v \in User : table'[v] = IF v = u THEN y ELSE table[v]
    BY <2>1, <2>3, <2>4, RowsAreStored DEF Stored, RepositoryInv, TypeOK
  <2>6. \A v \in User : AccountOf(v)' = AccountOf(v)
    BY <2>3, <2>4, <2>5 DEF AccountOf, StatusOf, RolesOf
  <2> QED
    BY <2>6
<1> QED
  BY <1>1, SameTablesSameAccounts DEF WriteRow

\* The COMMIT of AssignRole or RevokeRole changes the one role.
LEMMA CommitRoleChanges ==
  ASSUME RepositoryInv, NEW c \in Client, CommitRole(c),
         NEW u, u = work[c].user, NEW r, r = work[c].role
  PROVE  Accounts!AssignRole(u, r) \/ Accounts!RevokeRole(u, r)
<1> DEFINE a == <<u, r>>
<1>1. /\ u \in User /\ u \in Stored /\ r \in Role /\ table' = table
      /\ Fits(work[c]) /\ RoleDecided(work[c])
      /\ a \in userRole <=> work[c].op = "revoke"
  BY DEF CommitRole, At, RoleDecided, RoleCall, RepositoryInv, RequestsHold, RequestHolds,
    Checked, Effective, Fits
<1>2. \/ a \notin userRole /\ userRole' = userRole \cup {a}
      \/ a \in userRole /\ userRole' = userRole \ {a}
  BY <1>1 DEF CommitRole, Assignment
<1>3. \A v \in User \ {u} : AccountOf(v)' = AccountOf(v)
  BY <1>1, <1>2 DEF AccountOf, StatusOf, RolesOf, Stored
<1>4. AccountOf(u).status # "absent" /\ StatusOf(u)' = StatusOf(u)
  BY <1>1 DEF AccountOf, StatusOf, RolesOf, Stored
<1>5. CASE a \notin userRole /\ userRole' = userRole \cup {a}
  <2>1. RolesOf(u)' = RolesOf(u) \cup {r} /\ r \notin RolesOf(u)
    BY <1>1, <1>5 DEF RolesOf
  <2>2. /\ AccountOf(u)' = [AccountOf(u) EXCEPT !.roles = @ \cup {r}]
        /\ r \notin AccountOf(u).roles
    BY <1>4, <2>1 DEF AccountOf
  <2> QED
    BY <1>1, <1>3, <1>4, <2>2, OneAccount DEF Accounts!AssignRole
<1>6. CASE a \in userRole /\ userRole' = userRole \ {a}
  <2>1. RolesOf(u)' = RolesOf(u) \ {r} /\ r \in RolesOf(u)
    BY <1>1, <1>6 DEF RolesOf
  <2>2. /\ AccountOf(u)' = [AccountOf(u) EXCEPT !.roles = @ \ {r}]
        /\ r \in AccountOf(u).roles
    BY <1>4, <2>1 DEF AccountOf
  <2> QED
    BY <1>1, <1>3, <2>2, OneAccount DEF Accounts!RevokeRole
<1> QED
  BY <1>2, <1>5, <1>6

\* A step of the repository is a step of AccountStore, or changes no account.
LEMMA StepsAreAccountSteps ==
  ASSUME RepositoryInv, [Next]_vars
  PROVE  [Accounts!Next]_([u \in User |-> AccountOf(u)])
<1>1. ASSUME NEW c \in Client, CommitCreate(c) PROVE Accounts!Next
  <2>1. PICK u \in User : u = work[c].user
    BY <1>1 DEF CommitCreate, RepositoryInv, RequestsHold, RequestHolds, Fits
  <2> QED
    BY <1>1, <2>1, CommitCreateCreates DEF Accounts!Next
<1>2. ASSUME NEW c \in Client, RemoveRow(c)
      PROVE  Accounts!Next \/ UNCHANGED [u \in User |-> AccountOf(u)]
  <2>1. CASE Live(work[c].user)
    <3>1. PICK u \in User : u = work[c].user
      BY <2>1 DEF Live, Stored
    <3> QED
      BY <1>2, <2>1, <3>1, RemoveRowDeletes DEF Accounts!Next
  <2>2. CASE ~Live(work[c].user)
    BY <1>2, <2>2, SameTablesSameAccounts DEF RemoveRow
  <2> QED
    BY <2>1, <2>2
<1>3. ASSUME NEW c \in Client, CommitRole(c) PROVE Accounts!Next
  <2>1. PICK u \in User, r \in RoleTable : u = work[c].user /\ r = work[c].role
    BY <1>3 DEF CommitRole, At, RoleCall, RepositoryInv, RequestsHold, RequestHolds,
      Checked, Fits
  <2> QED
    BY <1>3, <2>1, CommitRoleChanges DEF Accounts!Next
<1>4. ASSUME NEW c \in Client, Fail(c) \/ Arrive(c) \/ InsertRow(c) \/ ReadRow(c)
               \/ CheckUserAndRole(c) \/ CountRole(c) \/ InsertRole(c) \/ DeleteRole(c)
      PROVE  UNCHANGED <<table, userRole>>
  BY <1>4 DEF Fail, Arrive, StartCreate, StartUpdate, StartDelete, StartRole, Start, InsertRow,
    ReadRow, CheckUserAndRole, CountRole, InsertRole, DeleteRole
<1>5. CASE UNCHANGED vars
  BY <1>5, SameTablesSameAccounts DEF vars
<1> QED
  BY <1>1, <1>2, <1>3, <1>4, <1>5, WriteRowChangesNoAccount, SameTablesSameAccounts
  DEF Next, Proceed

\* The statements of user_repository.go, however they interleave and whichever
\* of them fail, do to the accounts what domain.UserRepository promises.
THEOREM RepositoryImplements == Spec => ImplementsAccounts
<1>1. Init => Accounts!Init
  BY DEF Init, Accounts!Init, AccountOf, StatusOf, RolesOf, Stored
<1>2. RepositoryInv /\ [Next]_vars => [Accounts!Next]_([u \in User |-> AccountOf(u)])
  BY StepsAreAccountSteps
<1> QED
  BY <1>1, <1>2, RepositoryInvariance, PTL DEF Spec, ImplementsAccounts, Accounts!Spec
==============================================================================
