------------------------------- MODULE Seeding -------------------------------
(***************************************************************************)
(* Starting pods against one database: MigrateAndSeed and SeedDemoUsers of *)
(* internal/repository/postgres/database.go, as main calls them.           *)
(*                                                                         *)
(* Each action is one SQL statement; there is no transaction around them.  *)
(* A statement that fails ends the process (log.Fatal), and the pod is     *)
(* started again.  Meanwhile a pod that got through serves requests.       *)
(*                                                                         *)
(*   for every default role:  findRole [-> insertRole]                     *)
(*   for every demo user:     findUser [-> insertUser] -> grant            *)
(***************************************************************************)
EXTENDS Naturals, Sequences, Functions

CONSTANTS
  Pod,
  DefaultRoles,   \* the roles of MigrateAndSeed, in their order
  Environment,    \* what DEMO_* may say when a pod starts: the demo users, in
                  \* their order, as [email, phone, role]
  Customer,       \* the role of a new account
  Email, Phone,   \* of all accounts
  Nil,
  MaxCrashes,     \* bound: crashes that are not the pod's own error
  MaxRequests     \* bound: requests that change a row

ASSUME SeedingAssumption ==
  /\ DefaultRoles \in Seq(Range(DefaultRoles))
  /\ Customer \in Range(DefaultRoles)
  /\ Environment \subseteq
       Seq([email : Email, phone : Phone, role : Range(DefaultRoles)])
  /\ MaxCrashes \in Nat
  /\ MaxRequests \in Nat

Role == Range(DefaultRoles)

VARIABLES
  roles,     \* rows of the table role
  users,     \* the row of each email with its roles, or Nil
  pod,       \* where the start of each pod is
  crashes, requests,
  taken      \* history: <<email, role>> revoked by a request

vars == <<roles, users, pod, crashes, requests, taken>>

\* Who chose the password of a row: the demo configuration or a caller.
Row == [phone : Phone, password : {"demo", "own"}, deleted : BOOLEAN,
        roles : SUBSET Role]

ASSUME RowAssumption == Nil \notin Row

Down == [pc |-> "down", env |-> <<>>, next |-> 1]

PC == {"down", "findRole", "insertRole", "findUser", "insertUser", "grant", "serving"}

Place == [pc : PC, env : Environment \cup {<<>>}, next : Nat]

At(p, pc) == pod[p].pc = pc

Goto(p, pc) == pod' = [pod EXCEPT ![p].pc = pc]

\* log.Fatal: the process is gone, kubelet will start the pod again.
Fatal(p) == pod' = [pod EXCEPT ![p] = Down]

\* Mutant: the next loop starts where this one ended.
AdvanceOn(p, pc, last, after) ==
  pod' = [pod EXCEPT ![p].pc = IF pod[p].next < last THEN pc ELSE after,
                     ![p].next = @ + 1]

\* On to the next role or demo user, then to the next loop, then to serving.
Advance(p, pc, last, after) ==
  pod' = [pod EXCEPT ![p].pc = IF pod[p].next < last THEN pc ELSE after,
                     ![p].next = IF pod[p].next < last THEN @ + 1 ELSE 1]

AfterRoles(p) == IF pod[p].env = <<>> THEN "serving" ELSE "findUser"

\* SeedDemoUsers only runs when every DEMO_* variable is set.
StartPod(p, env) ==
  /\ At(p, "down")
  /\ pod' = [pod EXCEPT ![p] = [pc |-> "findRole", env |-> env, next |-> 1]]
  /\ UNCHANGED <<roles, users, crashes, requests, taken>>

(***************************************************************************)
(* MigrateAndSeed: FirstOrCreate of every default role.                    *)
(***************************************************************************)
SeedRole(p) == DefaultRoles[pod[p].next]

NextRole(p) == Advance(p, "findRole", Len(DefaultRoles), AfterRoles(p))

FindRole(p) ==
  /\ At(p, "findRole")
  /\ IF SeedRole(p) \in roles THEN NextRole(p) ELSE Goto(p, "insertRole")
  /\ UNCHANGED <<roles, users, crashes, requests, taken>>

\* The unique index on the name refuses the second of two inserts.
InsertRole(p) ==
  /\ At(p, "insertRole")
  /\ \/ /\ SeedRole(p) \in roles
        /\ Fatal(p)
        /\ roles' = roles
     \/ /\ SeedRole(p) \notin roles
        /\ roles' = roles \cup {SeedRole(p)}
        /\ NextRole(p)
  /\ UNCHANGED <<users, crashes, requests, taken>>

(***************************************************************************)
(* SeedDemoUsers: the role is there, so its lookup is part of findUser.    *)
(***************************************************************************)
Demo(p) == pod[p].env[pod[p].next]

NextUser(p) == Advance(p, "findUser", Len(pod[p].env), "serving")

\* Mutants: an existing user is taken for a finished one, or not looked for.
FindUserOnly(p) ==
  /\ At(p, "findUser")
  /\ IF users[Demo(p).email] # Nil THEN NextUser(p) ELSE Goto(p, "insertUser")
  /\ UNCHANGED <<roles, users, crashes, requests, taken>>

FindNobody(p) ==
  /\ At(p, "findUser")
  /\ Goto(p, "insertUser")
  /\ UNCHANGED <<roles, users, crashes, requests, taken>>

FindUser(p) ==
  /\ At(p, "findUser")
  /\ Goto(p, IF users[Demo(p).email] # Nil THEN "grant" ELSE "insertUser")
  /\ UNCHANGED <<roles, users, crashes, requests, taken>>

\* The unique indexes on email and phone, deleted rows included.
Duplicate(email, phone) ==
  \/ users[email] # Nil
  \/ \E e \in Email : users[e] # Nil /\ users[e].phone = phone

NewUser(phone, password, rs) ==
  [phone |-> phone, password |-> password, deleted |-> FALSE, roles |-> rs]

\* Mutant: the row is saved, whatever it was.
InsertUserAnyway(p) ==
  LET d == Demo(p) IN
  /\ At(p, "insertUser")
  /\ users' = [users EXCEPT ![d.email] = NewUser(d.phone, "demo", {})]
  /\ Goto(p, "grant")
  /\ UNCHANGED <<roles, crashes, requests, taken>>

InsertUser(p) ==
  LET d == Demo(p) IN
  /\ At(p, "insertUser")
  /\ \/ Duplicate(d.email, d.phone) /\ Fatal(p) /\ users' = users
     \/ /\ ~Duplicate(d.email, d.phone)
        /\ users' = [users EXCEPT ![d.email] = NewUser(d.phone, "demo", {})]
        /\ Goto(p, "grant")
  /\ UNCHANGED <<roles, crashes, requests, taken>>

\* INSERT of the assignment, ON CONFLICT DO NOTHING.
Grant(p) ==
  LET d == Demo(p) IN
  /\ At(p, "grant")
  /\ users' = [users EXCEPT ![d.email].roles = @ \cup {d.role}]
  /\ taken' = taken \ {<<d.email, d.role>>}
  /\ NextUser(p)
  /\ UNCHANGED <<roles, crashes, requests>>

(***************************************************************************)
(* What happens beside the starting pods.                                  *)
(***************************************************************************)
Crash(p) ==
  /\ ~At(p, "down")
  /\ crashes < MaxCrashes
  /\ crashes' = crashes + 1
  /\ Fatal(p)
  /\ UNCHANGED <<roles, users, requests, taken>>

\* A pod that serves executes a request that changes a row.
Serve ==
  /\ \E p \in Pod : At(p, "serving")
  /\ requests < MaxRequests
  /\ requests' = requests + 1
  /\ UNCHANGED <<roles, pod, crashes>>

Register(email, phone) ==
  /\ Serve
  /\ ~Duplicate(email, phone)
  /\ users' = [users EXCEPT ![email] = NewUser(phone, "own", {Customer})]
  /\ taken' = taken

Live(email) == users[email] # Nil /\ ~users[email].deleted

RevokeRole(email, role) ==
  /\ Serve
  /\ Live(email)
  /\ role \in users[email].roles
  /\ users' = [users EXCEPT ![email].roles = @ \ {role}]
  /\ taken' = taken \cup {<<email, role>>}

DeleteUser(email) ==
  /\ Serve
  /\ Live(email)
  /\ users' = [users EXCEPT ![email].deleted = TRUE]
  /\ taken' = taken

-----------------------------------------------------------------------------
Init ==
  /\ roles = {}
  /\ users = [e \in Email |-> Nil]
  /\ pod = [p \in Pod |-> Down]
  /\ crashes = 0
  /\ requests = 0
  /\ taken = {}

PodStep(p) ==
  \/ \E env \in Environment : StartPod(p, env)
  \/ FindRole(p)
  \/ InsertRole(p)
  \/ FindUser(p)
  \/ InsertUser(p)
  \/ Grant(p)

Request ==
  \E e \in Email :
    \/ \E phone \in Phone : Register(e, phone)
    \/ \E r \in Role : RevokeRole(e, r)
    \/ DeleteUser(e)

Next ==
  \/ \E p \in Pod : PodStep(p) \/ Crash(p)
  \/ Request

\* A pod is started again whenever it is down, and runs on.
Fairness == \A p \in Pod : WF_vars(PodStep(p))

Spec == Init /\ [][Next]_vars /\ Fairness

-----------------------------------------------------------------------------
(***************************************************************************)
(* Properties.                                                             *)
(***************************************************************************)
\* Every variable holds a value of its type.
TypeOK ==
  /\ roles \subseteq Role
  /\ users \in [Email -> Row \cup {Nil}]
  /\ pod \in [Pod -> Place]
  /\ \A p \in Pod :
       /\ pod[p].pc \in {"down", "serving"} => pod[p].next = 1
       /\ pod[p].pc \in {"findRole", "insertRole"} => pod[p].next \in DOMAIN DefaultRoles
       /\ pod[p].pc \in {"findUser", "insertUser", "grant"} =>
            pod[p].next \in DOMAIN pod[p].env
  /\ crashes \in 0 .. MaxCrashes
  /\ requests \in 0 .. MaxRequests
  /\ taken \subseteq Email \X Role

\* "Existing users are not overwritten on restart": whatever pods start and
\* crash at once, an account keeps its password, phone and deletion, and
\* loses no role.  (It may be given back the demo role.)
ExistingUsersKept ==
  [][requests' = requests =>
       \A e \in Email : users[e] # Nil =>
         /\ users'[e] = [users[e] EXCEPT !.roles = users'[e].roles]
         /\ users[e].roles \subseteq users'[e].roles]_vars

\* A pod that serves has finished what any pod before it left half done:
\* each demo user has its role, unless a request revoked it.
ServingMeansSeeded ==
  \A p \in Pod : At(p, "serving") =>
    /\ roles = Role
    /\ \A i \in DOMAIN pod[p].env :
         LET d == pod[p].env[i] IN
         /\ users[d.email] # Nil
         /\ d.role \in users[d.email].roles \/ <<d.email, d.role>> \in taken

\* Pods that race to seed fail at most as often as another makes progress:
\* in the end every pod serves ("This makes repeated pod starts safe").
StartsSucceed == \A p \in Pod : <>[]At(p, "serving")
=============================================================================
