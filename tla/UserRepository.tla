--------------------------- MODULE UserRepository ---------------------------
(***************************************************************************)
(* The users table and its role assignments:                               *)
(* internal/repository/user_repository.go, with UpdateUser of the service, *)
(* which reads a row and writes all of it back.                            *)
(*                                                                         *)
(* PostgreSQL runs at read committed: a statement sees what is committed   *)
(* when it starts, an uncommitted row blocks a statement that would        *)
(* collide with it in a unique index until its transaction ends.  Each     *)
(* action below is one statement or one COMMIT.                            *)
(*                                                                         *)
(*   Create       insert -> commit                                         *)
(*   UpdateUser   read -> write                                            *)
(*   Delete       remove                                                   *)
(*   AssignRole   check -> count -> insertRole -> commit                   *)
(*   RevokeRole   check -> deleteRole -> commit                            *)
(***************************************************************************)
EXTENDS Integers, FiniteSets

CONSTANTS
  Client,      \* request goroutines
  User,        \* primary keys
  Email, Name, Phone,
  NoPhone,     \* the empty phone: outside the unique index
  Role,        \* role names a request may give
  RoleTable,   \* those the table role holds
  Customer,    \* the role of a new account
  Nil,
  MaxCommits   \* bound: grants, and revocations, of one role to one user

ASSUME UserRepositoryAssumption ==
  /\ RoleTable \subseteq Role
  /\ Customer \in RoleTable
  /\ NoPhone \notin Phone
  /\ Nil \notin Name \cup Phone \cup User \cup Role
  /\ MaxCommits \in Nat

VARIABLES
  table,     \* the committed row of each key
  userRole,  \* the committed rows of user_role
  work,      \* the call each client is executing
  grants,    \* history: committed grants of a role to a user
  revokes    \* history: committed revocations

vars == <<table, userRole, work, grants, revokes>>

Row == [email : Email, name : Name, phone : Phone \cup {NoPhone},
        active : BOOLEAN, deleted : BOOLEAN]

NoRow == [email |-> Nil, name |-> Nil, phone |-> Nil, active |-> FALSE,
          deleted |-> TRUE]

NoWork == [op |-> "none", pc |-> "idle", user |-> Nil, role |-> Nil,
           row |-> NoRow, name |-> Nil, phone |-> Nil]

Work ==
  [op : {"none", "create", "update", "delete", "assign", "revoke"},
   pc : {"idle", "insert", "read", "write", "remove", "check", "count",
         "insertRole", "deleteRole", "commit"},
   user : User \cup {Nil}, role : Role \cup {Nil}, row : Row \cup {NoRow},
   name : Name \cup {Nil}, phone : Phone \cup {Nil}]

At(c, pc) == work[c].pc = pc

Goto(c, pc) == work' = [work EXCEPT ![c].pc = pc]

Done(c) == work' = [work EXCEPT ![c] = NoWork]

Start(c, w) ==
  /\ At(c, "idle")
  /\ work' = [work EXCEPT ![c] = w]
  /\ UNCHANGED <<table, userRole, grants, revokes>>

Stored == {u \in User : table[u] # NoRow}

\* Mutant: the filter deleted = false is missing.
AnyRow(u) == u \in Stored

\* WHERE id = ? AND deleted = false
Live(u) == u \in Stored /\ ~table[u].deleted

(***************************************************************************)
(* The unique indexes on email and on a phone that is not empty cover      *)
(* deleted rows too.                                                       *)
(***************************************************************************)
Collide(x, y) == x.email = y.email \/ (x.phone = y.phone /\ x.phone # NoPhone)

\* Mutant: the indexes leave deleted rows out.
DuplicateOfLive(u, x) ==
  \E v \in Stored \ {u} : ~table[v].deleted /\ Collide(table[v], x)

Duplicate(u, x) == \E v \in Stored \ {u} : Collide(table[v], x)

\* An uncommitted insert of another client holds a key of x.
RowLocked(c, x) ==
  \E d \in Client \ {c} :
    At(d, "commit") /\ work[d].op = "create" /\ Collide(work[d].row, x)

\* An uncommitted insert or delete of this assignment by another client.
AssignmentLocked(c) ==
  \E d \in Client \ {c} :
    /\ At(d, "commit") /\ work[d].op \in {"assign", "revoke"}
    /\ work[d].user = work[c].user /\ work[d].role = work[c].role

(***************************************************************************)
(* Create: the row and its customer role in one transaction.               *)
(***************************************************************************)
StartCreate(c, u, x) ==
  /\ u \notin Stored
  /\ \A d \in Client : work[d].op = "create" => work[d].user # u
  /\ Start(c, [NoWork EXCEPT !.op = "create", !.pc = "insert", !.user = u, !.row = x])

InsertRow(c) ==
  LET w == work[c] IN
  /\ At(c, "insert")
  /\ ~RowLocked(c, w.row)
  /\ IF Duplicate(w.user, w.row) THEN Done(c) ELSE Goto(c, "commit")
  /\ UNCHANGED <<table, userRole, grants, revokes>>

CommitCreate(c) ==
  LET w == work[c] IN
  /\ At(c, "commit")
  /\ w.op = "create"
  /\ table' = [table EXCEPT ![w.user] = w.row]
  /\ userRole' = userRole \cup {<<w.user, Customer>>}
  /\ grants' = [grants EXCEPT ![<<w.user, Customer>>] = @ + 1]
  /\ Done(c)
  /\ UNCHANGED revokes

(***************************************************************************)
(* UpdateUser: GetByID, the given fields over the row, UPDATE of every     *)
(* column.                                                                 *)
(***************************************************************************)
StartUpdate(c, u, name, phone) ==
  Start(c, [NoWork EXCEPT !.op = "update", !.pc = "read", !.user = u,
                          !.name = name, !.phone = phone])

ReadRow(c) ==
  LET w == work[c] IN
  /\ At(c, "read")
  /\ \/ Live(w.user) /\ work' = [work EXCEPT ![c].pc = "write",
                                             ![c].row = table[w.user]]
     \/ ~Live(w.user) /\ Done(c)
  /\ UNCHANGED <<table, userRole, grants, revokes>>

Given(value, old) == IF value = Nil THEN old ELSE value

\* Mutant: a blank phone is not told from one that is not given.
OverlayBlank(w) ==
  [w.row EXCEPT !.name = Given(w.name, @),
                !.phone = IF w.phone = Nil THEN NoPhone ELSE w.phone]

Overlay(w) ==
  [w.row EXCEPT !.name = Given(w.name, @), !.phone = Given(w.phone, @)]

\* A collision in the phone index, or a row that is gone, is an error.
WriteRow(c) ==
  LET u == work[c].user
      x == Overlay(work[c])
  IN
  /\ At(c, "write")
  /\ ~RowLocked(c, x)
  /\ table' = IF Live(u) /\ ~Duplicate(u, x)
              THEN [table EXCEPT ![u] = [x EXCEPT !.deleted = table[u].deleted]]
              ELSE table
  /\ Done(c)
  /\ UNCHANGED <<userRole, grants, revokes>>

(***************************************************************************)
(* Delete: one statement marks the row.                                    *)
(***************************************************************************)
StartDelete(c, u) ==
  Start(c, [NoWork EXCEPT !.op = "delete", !.pc = "remove", !.user = u])

RemoveRow(c) ==
  LET u == work[c].user IN
  /\ At(c, "remove")
  /\ table' = IF Live(u)
              THEN [table EXCEPT ![u].deleted = TRUE, ![u].active = FALSE] ELSE table
  /\ Done(c)
  /\ UNCHANGED <<userRole, grants, revokes>>

(***************************************************************************)
(* AssignRole and RevokeRole: one transaction each, which locks neither    *)
(* the user it checked nor, before its insert or delete, the assignment.   *)
(***************************************************************************)
StartRole(c, op, u, r) ==
  /\ (IF op = "assign" THEN grants ELSE revokes)[<<u, r>>] < MaxCommits
  /\ Start(c, [NoWork EXCEPT !.op = op, !.pc = "check", !.user = u, !.role = r])

Assignment(c) == <<work[c].user, work[c].role>>

Held(c) == Assignment(c) \in userRole

\* Mutant: a role that is not in the table is not refused.
CheckUserOnly(c) ==
  /\ At(c, "check")
  /\ IF Live(work[c].user)
     THEN Goto(c, IF work[c].op = "assign" THEN "count" ELSE "deleteRole")
     ELSE Done(c)
  /\ UNCHANGED <<table, userRole, grants, revokes>>

CheckUserAndRole(c) ==
  /\ At(c, "check")
  /\ IF Live(work[c].user) /\ work[c].role \in RoleTable
     THEN Goto(c, IF work[c].op = "assign" THEN "count" ELSE "deleteRole")
     ELSE Done(c)
  /\ UNCHANGED <<table, userRole, grants, revokes>>

CountRole(c) ==
  /\ At(c, "count")
  /\ IF Held(c) THEN Done(c) ELSE Goto(c, "insertRole")
  /\ UNCHANGED <<table, userRole, grants, revokes>>

\* The primary key refuses what the count did not see.
InsertRole(c) ==
  /\ At(c, "insertRole")
  /\ ~AssignmentLocked(c)
  /\ IF Held(c) THEN Done(c) ELSE Goto(c, "commit")
  /\ UNCHANGED <<table, userRole, grants, revokes>>

\* Mutant: RowsAffected is not looked at.
DeleteRoleAnyway(c) ==
  /\ At(c, "deleteRole")
  /\ ~AssignmentLocked(c)
  /\ Goto(c, "commit")
  /\ UNCHANGED <<table, userRole, grants, revokes>>

DeleteRole(c) ==
  /\ At(c, "deleteRole")
  /\ ~AssignmentLocked(c)
  /\ IF Held(c) THEN Goto(c, "commit") ELSE Done(c)
  /\ UNCHANGED <<table, userRole, grants, revokes>>

CommitRole(c) ==
  LET a == Assignment(c) IN
  /\ At(c, "commit")
  /\ \/ /\ work[c].op = "assign"
        /\ userRole' = userRole \cup {a}
        /\ grants' = [grants EXCEPT ![a] = @ + 1]
        /\ revokes' = revokes
     \/ /\ work[c].op = "revoke"
        /\ userRole' = userRole \ {a}
        /\ revokes' = [revokes EXCEPT ![a] = @ + 1]
        /\ grants' = grants
  /\ Done(c)
  /\ UNCHANGED table

\* A statement or the COMMIT fails: the transaction is rolled back.
Fail(c) ==
  /\ ~At(c, "idle")
  /\ Done(c)
  /\ UNCHANGED <<table, userRole, grants, revokes>>

-----------------------------------------------------------------------------
Init ==
  /\ table = [u \in User |-> NoRow]
  /\ userRole = {}
  /\ work = [c \in Client |-> NoWork]
  /\ grants = [a \in User \X Role |-> 0]
  /\ revokes = [a \in User \X Role |-> 0]

Arrive(c) ==
  \E u \in User :
    \/ \E x \in Row : x.active /\ ~x.deleted /\ StartCreate(c, u, x)
    \/ \E name \in Name \cup {Nil}, phone \in Phone \cup {Nil} :
         StartUpdate(c, u, name, phone)
    \/ StartDelete(c, u)
    \/ \E op \in {"assign", "revoke"}, r \in Role : StartRole(c, op, u, r)

Proceed(c) ==
  \/ InsertRow(c)
  \/ CommitCreate(c)
  \/ ReadRow(c)
  \/ WriteRow(c)
  \/ RemoveRow(c)
  \/ CheckUserAndRole(c)
  \/ CountRole(c)
  \/ InsertRole(c)
  \/ DeleteRole(c)
  \/ CommitRole(c)
  \/ Fail(c)

Next == \E c \in Client : Arrive(c) \/ Proceed(c)

Spec == Init /\ [][Next]_vars

-----------------------------------------------------------------------------
(***************************************************************************)
(* The tables implement AccountStore: a deleted row is a deleted account,  *)
(* whatever roles are assigned to it, and no account is ever suspended.    *)
(***************************************************************************)
StatusOf(u) ==
  CASE u \notin Stored -> "absent"
    [] u \in Stored /\ table[u].deleted -> "deleted"
    [] u \in Stored /\ ~table[u].deleted /\ table[u].active -> "active"
    [] OTHER -> "suspended"

RolesOf(u) == {r \in Role : <<u, r>> \in userRole}

AccountOf(u) == [status |-> StatusOf(u), roles |-> RolesOf(u)]

Accounts == INSTANCE AccountStore WITH
  Role <- RoleTable,
  account <- [u \in User |-> AccountOf(u)]

-----------------------------------------------------------------------------
(***************************************************************************)
(* Properties.                                                             *)
(***************************************************************************)
\* Every variable holds a value of its type.
TypeOK ==
  /\ table \in [User -> Row \cup {NoRow}]
  /\ userRole \subseteq User \X RoleTable
  /\ work \in [Client -> Work]
  /\ grants \in [User \X Role -> Nat]
  /\ revokes \in [User \X Role -> Nat]

\* An UpdateUser that read the row before DeleteUser marked it does not
\* write the row back: a deleted account is never changed or made active.
DeletedRowFrozen ==
  [][\A u \in Stored : table[u].deleted => table'[u] = table[u]]_vars

\* Every grant and every revocation that was reported took effect, once,
\* whatever raced with it: a role is held when it was granted once more than
\* it was revoked, and it is never granted twice or revoked twice in a row.
AssignmentsMatchCommits ==
  \A u \in User, r \in Role :
    grants[<<u, r>>] - revokes[<<u, r>>] = IF <<u, r>> \in userRole THEN 1 ELSE 0

\* The email of a deleted account is not given to a new one, so an email
\* names one account for ever; no two accounts share a phone.
KeysStayTaken ==
  \A u, v \in Stored : u # v => ~Collide(table[u], table[v])

\* The statements of the repository, however they interleave, implement the
\* interface: an account changes as AccountStore says, one call at a time.
ImplementsAccounts == Accounts!Spec

\* An update changes only the fields it asks to change, unless the row was
\* changed after it read it: then it puts back what it read.
FieldsChangeByRequest ==
  [][\A u \in Stored : table'[u] # table[u] /\ ~table'[u].deleted =>
       \E c \in Client :
         /\ At(c, "write") /\ work[c].user = u
         /\ \/ work[c].row # table[u]
            \/ /\ table'[u].name \in {table[u].name, work[c].name}
               /\ table'[u].phone \in {table[u].phone, work[c].phone}]_vars
=============================================================================
