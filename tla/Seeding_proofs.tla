---------------------------- MODULE Seeding_proofs ----------------------------
(***************************************************************************)
(* Theorems about Seeding, for any set of pods, any default roles and any  *)
(* configurations of the demo users, which may differ from pod to pod and  *)
(* from start to start.                                                    *)
(***************************************************************************)
EXTENDS Seeding, FiniteSets, SequenceTheorems, FiniteSetTheorems, TLAPS

\* A demo user is there with its role, unless a request took the role away.
Seeded(d) ==
  /\ users[d.email] # Nil
  /\ d.role \in users[d.email].roles \/ <<d.email, d.role>> \in taken

\* What a pod that is this far has found or done, whoever did it.
Reached(w) ==
  /\ w.pc \in {"findRole", "insertRole"} =>
       \A i \in 1 .. w.next - 1 : DefaultRoles[i] \in roles
  /\ w.pc \in {"findUser", "insertUser", "grant", "serving"} => roles = Role
  /\ w.pc \in {"findUser", "insertUser", "grant"} =>
       \A i \in 1 .. w.next - 1 : Seeded(w.env[i])
  /\ w.pc = "grant" => users[w.env[w.next].email] # Nil
  /\ w.pc = "serving" => \A i \in DOMAIN w.env : Seeded(w.env[i])

SeedingInv == TypeOK /\ \A p \in Pod : Reached(pod[p])

-----------------------------------------------------------------------------
\* The configuration of a pod.
LEMMA DemoUsers ==
  ASSUME TypeOK, NEW p \in Pod
  PROVE  /\ pod[p] \in Place /\ pod[p].env \in Seq([email : Email, phone : Phone, role : Role])
         /\ pod[p].next \in Nat /\ Len(pod[p].env) \in Nat
         /\ DOMAIN pod[p].env = 1 .. Len(pod[p].env)
         /\ \A i \in DOMAIN pod[p].env :
              /\ pod[p].env[i].email \in Email /\ pod[p].env[i].phone \in Phone
              /\ pod[p].env[i].role \in Role
<1> DEFINE D == [email : Email, phone : Phone, role : Role]
           env == pod[p].env
<1>1. pod[p] \in Place /\ pod[p].next \in Nat /\ env \in Environment \cup {<<>>}
  BY DEF TypeOK, Place
<1>2. Environment \subseteq Seq(D)
  BY SeedingAssumption DEF Role
<1> HIDE DEF D
<1>3. env \in Seq(D)
  BY <1>1, <1>2, EmptySeq
<1> HIDE DEF env
<1>4. Len(env) \in Nat /\ DOMAIN env = 1 .. Len(env)
  BY <1>3
<1>5. \A i \in DOMAIN env : env[i] \in D
  BY <1>3, <1>4
<1> QED
  BY <1>1, <1>3, <1>4, <1>5 DEF env, D

\* The default roles.
LEMMA Roles ==
  /\ Len(DefaultRoles) \in Nat \ {0} /\ DOMAIN DefaultRoles = 1 .. Len(DefaultRoles)
  /\ \A i \in DOMAIN DefaultRoles : DefaultRoles[i] \in Role
  /\ \A r \in Role : \E i \in DOMAIN DefaultRoles : r = DefaultRoles[i]
  /\ Customer \in Role
<1>1. Role = {DefaultRoles[i] : i \in DOMAIN DefaultRoles}
  BY DEF Role, Range
<1>2. Len(DefaultRoles) \in Nat /\ DOMAIN DefaultRoles = 1 .. Len(DefaultRoles)
  BY SeedingAssumption
<1> QED
  BY <1>1, <1>2, SeedingAssumption DEF Role

\* What nobody takes back: a default role, a row, and the role of a demo user,
\* but for the requests that are remembered in taken.
Kept ==
  /\ roles \subseteq roles' /\ roles' \subseteq Role
  /\ \A e \in Email : users[e] # Nil => users'[e] # Nil
  /\ \A e \in Email, r \in Role :
       users[e] # Nil /\ (r \in users[e].roles \/ <<e, r>> \in taken) =>
         r \in users'[e].roles \/ <<e, r>> \in taken'

\* Where a pod is stays true while nothing is taken back.
LEMMA ReachedStays ==
  ASSUME TypeOK, NEW p \in Pod, Reached(pod[p]), Kept, pod'[p] = pod[p]
  PROVE  Reached(pod[p])'
<1>1. ASSUME NEW i \in DOMAIN pod[p].env, Seeded(pod[p].env[i])
      PROVE  Seeded(pod[p].env[i])'
  BY <1>1, DemoUsers DEF Seeded, Kept
<1>2. pod[p].pc \in {"findUser", "insertUser", "grant"} =>
        \A i \in 1 .. pod[p].next - 1 : i \in DOMAIN pod[p].env
  BY DemoUsers DEF TypeOK
<1>3. pod[p].pc = "grant" => pod[p].env[pod[p].next].email \in Email
  BY DemoUsers DEF TypeOK
<1> QED
  BY <1>1, <1>2, <1>3 DEF Reached, Kept

\* A place a pod can be in.
InPlace(w) ==
  /\ w \in Place
  /\ w.pc \in {"down", "serving"} => w.next = 1
  /\ w.pc \in {"findRole", "insertRole"} => w.next \in DOMAIN DefaultRoles
  /\ w.pc \in {"findUser", "insertUser", "grant"} => w.next \in DOMAIN w.env

\* A step that leaves rows, and counters within their bounds.
Typed ==
  /\ users' \in [Email -> Row \cup {Nil}]
  /\ taken' \subseteq Email \X Role
  /\ crashes' \in 0 .. MaxCrashes /\ requests' \in 0 .. MaxRequests

\* One pod goes on to w.
LEMMA PodGoesOn ==
  ASSUME SeedingInv, NEW p \in Pod, NEW w, pod' = [pod EXCEPT ![p] = w],
         InPlace(w), Reached(w)', Kept, Typed
  PROVE  SeedingInv'
<1>1. \A q \in Pod : pod'[q] = IF q = p THEN w ELSE pod[q]
  BY DEF SeedingInv, TypeOK
<1>2. TypeOK'
  BY <1>1 DEF SeedingInv, TypeOK, InPlace, Kept, Typed
<1>3. ASSUME NEW q \in Pod PROVE Reached(pod[q])'
  <2>1. CASE q = p
    BY <1>1, <2>1 DEF Reached, Seeded
  <2>2. CASE q # p
    BY <1>1, <2>2, ReachedStays DEF SeedingInv
  <2> QED
    BY <2>1, <2>2
<1> QED
  BY <1>2, <1>3 DEF SeedingInv

\* A step that changes no row.
LEMMA NothingTaken ==
  ASSUME TypeOK, UNCHANGED <<roles, users, requests, taken>>, crashes' \in 0 .. MaxCrashes
  PROVE  Kept /\ Typed
BY DEF Kept, Typed, TypeOK

\* A pod that ends is in its first place.
LEMMA DownAgain ==
  ASSUME SeedingInv, NEW p \in Pod, Fatal(p), Kept, Typed
  PROVE  SeedingInv'
<1>1. PICK w : w = Down
  OBVIOUS
<1>2. /\ w.pc = "down" /\ w.env = <<>> /\ w.next = 1
      /\ w \in Place
  BY <1>1 DEF Down, Place, PC
<1>3. pod' = [pod EXCEPT ![p] = w]
  BY <1>1 DEF Fatal
<1>4. InPlace(w) /\ Reached(w)'
  BY <1>2 DEF InPlace, Reached
<1> QED
  BY <1>3, <1>4, PodGoesOn

\* Within the same turn of a loop.
LEMMA SameTurn ==
  ASSUME SeedingInv, NEW p \in Pod, NEW pc \in PC, Goto(p, pc), Kept, Typed,
         \/ pod[p].pc = "findRole" /\ pc = "insertRole"
         \/ pod[p].pc = "findUser" /\ pc = "insertUser"
         \/ /\ pod[p].pc \in {"findUser", "insertUser"} /\ pc = "grant"
            /\ users'[Demo(p).email] # Nil
  PROVE  SeedingInv'
<1>1. PICK w : w = [pod[p] EXCEPT !.pc = pc]
  OBVIOUS
<1>2. /\ pod[p] \in Place /\ pod \in [Pod -> Place] /\ InPlace(pod[p])
  BY DEF SeedingInv, TypeOK, InPlace
<1>3. /\ w \in Place /\ w.pc = pc /\ w.env = pod[p].env /\ w.next = pod[p].next
      /\ pod' = [pod EXCEPT ![p] = w]
  BY <1>1, <1>2 DEF Goto, Place
<1>4. InPlace(w)
  BY <1>2, <1>3 DEF InPlace
<1>5. ASSUME NEW d \in [email : Email, phone : Phone, role : Role], Seeded(d) PROVE Seeded(d)'
  BY <1>5 DEF Seeded, Kept
<1>6. pod[p].pc \in {"findUser", "insertUser"} =>
        \A i \in 1 .. pod[p].next - 1 : i \in DOMAIN pod[p].env
  BY <1>2, DemoUsers DEF SeedingInv, InPlace
<1>7. Reached(pod[p])
  BY DEF SeedingInv
<1>8. Reached(w)'
  <2>1. CASE pc = "insertRole"
    BY <1>3, <1>7, <2>1 DEF Reached, Kept
  <2>2. CASE pc \in {"insertUser", "grant"}
    <3>1. ASSUME NEW i \in 1 .. w.next - 1 PROVE Seeded(w.env[i])'
      <4>1. Seeded(w.env[i])
        BY <1>3, <1>7, <2>2 DEF Reached
      <4>2. w.env[i] \in [email : Email, phone : Phone, role : Role]
        BY <1>3, <1>6, <2>2, DemoUsers, ElementOfSeq DEF SeedingInv
      <4> QED
        BY <1>5, <4>1, <4>2
    <3> QED
      BY <1>3, <1>7, <2>2, <3>1 DEF Reached, Kept, Demo
  <2> QED
    BY <2>1, <2>2
<1> QED
  BY <1>3, <1>4, <1>8, PodGoesOn

\* On to the next turn, or past the loop.
LEMMA NextTurn ==
  ASSUME TypeOK, NEW p \in Pod, NEW pc, NEW last, NEW after, Advance(p, pc, last, after)
  PROVE  \E w : /\ pod' = [pod EXCEPT ![p] = w] /\ w.env = pod[p].env
                /\ pod[p].next < last => w.pc = pc /\ w.next = pod[p].next + 1
                /\ ~(pod[p].next < last) => w.pc = after /\ w.next = 1
                /\ pc \in PC /\ after \in PC => w \in Place
<1>1. PICK w : w = [pod[p] EXCEPT !.pc = IF pod[p].next < last THEN pc ELSE after,
                                  !.next = IF pod[p].next < last THEN @ + 1 ELSE 1]
  OBVIOUS
<1>2. pod[p] \in Place /\ pod \in [Pod -> Place]
  BY DEF TypeOK
<1>3. pod' = [pod EXCEPT ![p] = w]
  BY <1>1, <1>2 DEF Advance, Place
<1>4. /\ w.env = pod[p].env /\ pod[p].next \in Nat
      /\ pod[p].next < last => w.pc = pc /\ w.next = pod[p].next + 1
      /\ ~(pod[p].next < last) => w.pc = after /\ w.next = 1
  BY <1>1, <1>2 DEF Place
<1>5. w = [pod[p] EXCEPT !.pc = w.pc, !.next = w.next]
  BY <1>1, <1>2 DEF Place
<1>6. pc \in PC /\ after \in PC => w \in Place
  <2>1. w.pc \in {pc, after} /\ w.next \in Nat
    BY <1>4
  <2> QED
    BY <1>2, <1>5, <2>1 DEF Place
<1> QED
  BY <1>3, <1>4, <1>6

\* The role of this turn is there: on to the next role, the demo users, or to
\* serving.
LEMMA RoleDone ==
  ASSUME SeedingInv, NEW p \in Pod, pod[p].pc \in {"findRole", "insertRole"}, NextRole(p),
         Kept, Typed, SeedRole(p) \in roles'
  PROVE  SeedingInv'
<1>1. /\ InPlace(pod[p]) /\ Reached(pod[p]) /\ TypeOK
  BY DEF SeedingInv, TypeOK, InPlace
<1>2. AfterRoles(p) \in {"serving", "findUser"} /\ AfterRoles(p) \in PC /\ "findRole" \in PC
  BY DEF AfterRoles, PC
<1>3. PICK w : /\ pod' = [pod EXCEPT ![p] = w] /\ w.env = pod[p].env /\ w \in Place
               /\ pod[p].next < Len(DefaultRoles) =>
                    w.pc = "findRole" /\ w.next = pod[p].next + 1
               /\ ~(pod[p].next < Len(DefaultRoles)) => w.pc = AfterRoles(p) /\ w.next = 1
  BY <1>1, <1>2, NextTurn DEF NextRole
<1>4. /\ pod[p].next \in DOMAIN DefaultRoles /\ pod[p].next \in Nat
      /\ \A i \in 1 .. pod[p].next : DefaultRoles[i] \in roles'
  BY <1>1, Roles DEF InPlace, Reached, Kept, SeedRole, Place
<1>5. CASE pod[p].next < Len(DefaultRoles)
  <2>1. InPlace(w) /\ Reached(w)'
    BY <1>3, <1>4, <1>5, Roles DEF InPlace, Reached
  <2> QED
    BY <1>3, <2>1, PodGoesOn
<1>6. CASE ~(pod[p].next < Len(DefaultRoles))
  <2>1. roles' = Role
    <3>1. \A i \in DOMAIN DefaultRoles : DefaultRoles[i] \in roles'
      BY <1>4, <1>6, Roles
    <3> QED
      BY <3>1, Roles DEF Kept
  <2>2. AfterRoles(p) = "findUser" => 1 \in DOMAIN pod[p].env
    <3>1. pod[p].env # <<>> => Len(pod[p].env) \in Nat \ {0}
      BY <1>1, DemoUsers, EmptySeq
    <3> QED
      BY <1>1, <3>1, DemoUsers DEF AfterRoles
  <2>3. AfterRoles(p) = "serving" => DOMAIN pod[p].env = {}
    BY DEF AfterRoles
  <2>4. InPlace(w) /\ Reached(w)'
    BY <1>2, <1>3, <1>6, <2>1, <2>2, <2>3 DEF InPlace, Reached
  <2> QED
    BY <1>3, <2>4, PodGoesOn
<1> QED
  BY <1>5, <1>6

\* The demo user of this turn is there: on to the next one, or to serving.
LEMMA UserDone ==
  ASSUME SeedingInv, NEW p \in Pod, pod[p].pc = "grant", NextUser(p), Kept, Typed,
         LET d == Demo(p) IN users'[d.email] # Nil /\ d.role \in users'[d.email].roles
  PROVE  SeedingInv'
<1>1. /\ InPlace(pod[p]) /\ Reached(pod[p]) /\ TypeOK
  BY DEF SeedingInv, TypeOK, InPlace
<1>2. PICK w : /\ pod' = [pod EXCEPT ![p] = w] /\ w.env = pod[p].env /\ w \in Place
               /\ pod[p].next < Len(pod[p].env) =>
                    w.pc = "findUser" /\ w.next = pod[p].next + 1
               /\ ~(pod[p].next < Len(pod[p].env)) => w.pc = "serving" /\ w.next = 1
  <2>1. "findUser" \in PC /\ "serving" \in PC
    BY DEF PC
  <2> QED
    BY <1>1, <2>1, NextTurn DEF NextUser
<1>3. ASSUME NEW d \in [email : Email, phone : Phone, role : Role], Seeded(d) PROVE Seeded(d)'
  BY <1>3 DEF Seeded, Kept
<1>4. /\ pod[p].next \in 1 .. Len(w.env) /\ Len(w.env) \in Nat /\ DOMAIN w.env = 1 .. Len(w.env)
  BY <1>1, <1>2, DemoUsers DEF InPlace
<1>5. ASSUME NEW i \in 1 .. pod[p].next PROVE Seeded(w.env[i])'
  <2>1. w.env[i] \in [email : Email, phone : Phone, role : Role]
    <3>1. i \in 1 .. Len(w.env)
      BY <1>4
    <3> QED
      BY <1>1, <1>2, <3>1, DemoUsers, ElementOfSeq
  <2>2. CASE i = pod[p].next
    BY <1>2, <2>2 DEF Demo, Seeded
  <2>3. CASE i # pod[p].next
    <3>1. i \in 1 .. pod[p].next - 1
      BY <1>4, <2>3
    <3> QED
      BY <1>1, <1>2, <1>3, <2>1, <3>1 DEF Reached
  <2> QED
    BY <2>2, <2>3
<1>6. roles' = Role
  BY <1>1 DEF Reached, Kept
<1>7. CASE pod[p].next < Len(pod[p].env)
  <2>1. InPlace(w) /\ Reached(w)'
    BY <1>2, <1>4, <1>5, <1>6, <1>7 DEF InPlace, Reached
  <2> QED
    BY <1>2, <2>1, PodGoesOn
<1>8. CASE ~(pod[p].next < Len(pod[p].env))
  <2>1. \A i \in DOMAIN w.env : Seeded(w.env[i])'
    BY <1>2, <1>4, <1>5, <1>8
  <2>2. InPlace(w) /\ Reached(w)'
    BY <1>2, <1>6, <1>8, <2>1 DEF InPlace, Reached
  <2> QED
    BY <1>2, <2>2, PodGoesOn
<1> QED
  BY <1>7, <1>8

-----------------------------------------------------------------------------
(***************************************************************************)
(* The actions.                                                            *)
(***************************************************************************)
\* A pod starts.
LEMMA StartKeeps ==
  ASSUME SeedingInv, NEW p \in Pod, NEW env \in Environment, StartPod(p, env)
  PROVE  SeedingInv'
<1>1. PICK w : w = [pc |-> "findRole", env |-> env, next |-> 1]
  OBVIOUS
<1>2. w.pc = "findRole" /\ w.next = 1 /\ w \in Place /\ pod' = [pod EXCEPT ![p] = w]
  BY <1>1 DEF StartPod, Place, PC
<1>3. InPlace(w) /\ Reached(w)'
  BY <1>2, Roles DEF InPlace, Reached
<1>4. Kept /\ Typed
  BY NothingTaken DEF StartPod, SeedingInv, TypeOK
<1> QED
  BY <1>2, <1>3, <1>4, PodGoesOn

\* MigrateAndSeed: FirstOrCreate.
LEMMA SeedRolesKeeps ==
  ASSUME SeedingInv, NEW p \in Pod, FindRole(p) \/ InsertRole(p)
  PROVE  SeedingInv'
<1>1. TypeOK
  BY DEF SeedingInv
<1>2. CASE FindRole(p)
  <2>1. Kept /\ Typed
    BY <1>1, <1>2, NothingTaken DEF FindRole, TypeOK
  <2> QED
    BY <1>2, <2>1, RoleDone, SameTurn DEF FindRole, At, PC
<1>3. CASE InsertRole(p)
  <2>1. SeedRole(p) \in Role
    BY <1>1, <1>3, Roles DEF InsertRole, At, SeedRole, TypeOK
  <2>2. Kept /\ Typed
    BY <1>1, <1>3, <2>1 DEF InsertRole, Kept, Typed, TypeOK
  <2> QED
    BY <1>3, <2>2, DownAgain, RoleDone DEF InsertRole, At
<1> QED
  BY <1>2, <1>3

\* SeedDemoUsers: the row.
LEMMA SeedUsersKeeps ==
  ASSUME SeedingInv, NEW p \in Pod, FindUser(p) \/ InsertUser(p)
  PROVE  SeedingInv'
<1>1. TypeOK /\ users \in [Email -> Row \cup {Nil}] /\ "grant" \in PC /\ "insertUser" \in PC
  BY DEF SeedingInv, TypeOK, PC
<1>2. CASE FindUser(p)
  <2>1. Kept /\ Typed
    BY <1>1, <1>2, NothingTaken DEF FindUser, TypeOK
  <2> QED
    BY <1>1, <1>2, <2>1, SameTurn DEF FindUser, At
<1>3. CASE InsertUser(p)
  <2> DEFINE d == Demo(p)
             x == NewUser(d.phone, "demo", {})
  <2>1. d.email \in Email /\ d.phone \in Phone
    BY <1>1, <1>3, DemoUsers DEF InsertUser, At, Demo, TypeOK
  <2>2. x \in Row /\ x # Nil
    <3>1. x \in Row
      BY <2>1 DEF NewUser, Row
    <3> QED
      BY <3>1, RowAssumption
  <2> HIDE DEF x
  <2>3. Kept /\ Typed
    BY <1>1, <1>3, <2>1, <2>2 DEF InsertUser, Duplicate, Kept, Typed, TypeOK, x
  <2>4. CASE Fatal(p)
    BY <2>3, <2>4, DownAgain
  <2>5. CASE ~Fatal(p)
    <3>1. users' = [users EXCEPT ![d.email] = x] /\ Goto(p, "grant") /\ pod[p].pc = "insertUser"
      BY <1>3, <2>5 DEF InsertUser, At, x
    <3>2. users'[Demo(p).email] # Nil
      BY <1>1, <2>1, <2>2, <3>1
    <3> QED
      BY <1>1, <2>3, <3>1, <3>2, SameTurn
  <2> QED
    BY <2>4, <2>5
<1> QED
  BY <1>2, <1>3

\* SeedDemoUsers: the assignment.
LEMMA GrantKeeps ==
  ASSUME SeedingInv, NEW p \in Pod, Grant(p)
  PROVE  SeedingInv'
<1> DEFINE d == Demo(p)
<1>1. TypeOK /\ users \in [Email -> Row \cup {Nil}]
  BY DEF SeedingInv, TypeOK
<1>2. d.email \in Email /\ d.role \in Role
  BY <1>1, DemoUsers DEF Grant, At, Demo, TypeOK
<1>3. users[d.email] \in Row /\ users[d.email] # Nil
  BY <1>1, <1>2, RowAssumption DEF SeedingInv, Reached, Grant, At, Demo
<1>4. PICK x : x = [users[d.email] EXCEPT !.roles = @ \cup {d.role}]
  OBVIOUS
<1>5. /\ x \in Row /\ x # Nil /\ x.roles = users[d.email].roles \cup {d.role}
      /\ users' = [users EXCEPT ![d.email] = x]
  BY <1>1, <1>2, <1>3, <1>4, RowAssumption DEF Grant, Row
<1>6. Kept
  BY <1>1, <1>2, <1>3, <1>5 DEF Kept, Grant, TypeOK
<1>7. Typed
  BY <1>1, <1>2, <1>5 DEF Typed, Grant, TypeOK
<1>8. users'[d.email] # Nil /\ d.role \in users'[d.email].roles
  BY <1>1, <1>2, <1>5
<1> QED
  BY <1>6, <1>7, <1>8, UserDone DEF Grant, At

\* A crash takes nothing but the place of the pod.
LEMMA CrashKeeps ==
  ASSUME SeedingInv, NEW p \in Pod, Crash(p)
  PROVE  SeedingInv'
<1>1. crashes' \in 0 .. MaxCrashes
  BY SeedingAssumption DEF Crash, SeedingInv, TypeOK
<1>2. Kept /\ Typed
  BY <1>1, NothingTaken DEF Crash, SeedingInv
<1> QED
  BY <1>2, DownAgain DEF Crash

\* A request changes a row beside the starting pods.
LEMMA RequestKeeps ==
  ASSUME SeedingInv, Request
  PROVE  SeedingInv'
<1>1. /\ TypeOK /\ users \in [Email -> Row \cup {Nil}] /\ pod' = pod
      /\ roles' = roles /\ crashes' = crashes /\ requests' \in 0 .. MaxRequests
  BY SeedingAssumption DEF SeedingInv, TypeOK, Request, Register, RevokeRole, DeleteUser, Serve
<1>2. Kept /\ Typed
  <2>1. ASSUME NEW e \in Email, NEW x \in Row, users' = [users EXCEPT ![e] = x],
               taken' \subseteq Email \X Role,
               taken \subseteq taken',
               users[e] # Nil => \A r \in users[e].roles : r \in x.roles \/ <<e, r>> \in taken'
        PROVE  Kept /\ Typed
    BY <1>1, <2>1, RowAssumption DEF Kept, Typed, TypeOK
  <2>2. CASE \E e \in Email, phone \in Phone : Register(e, phone)
    <3>1. PICK e \in Email, phone \in Phone : Register(e, phone)
      BY <2>2
    <3>2. NewUser(phone, "own", {Customer}) \in Row
      BY Roles DEF NewUser, Row
    <3> QED
      BY <1>1, <2>1, <3>1, <3>2 DEF Register, Duplicate, TypeOK
  <2>3. CASE \E e \in Email, r \in Role : RevokeRole(e, r)
    <3>1. PICK e \in Email, r \in Role : RevokeRole(e, r)
      BY <2>3
    <3>2. users[e] \in Row
      BY <1>1, <3>1 DEF RevokeRole, Live
    <3>3. PICK x : x = [users[e] EXCEPT !.roles = @ \ {r}]
      OBVIOUS
    <3>4. x \in Row /\ x.roles = users[e].roles \ {r} /\ users' = [users EXCEPT ![e] = x]
      BY <1>1, <3>1, <3>2, <3>3 DEF RevokeRole, Row
    <3>5. /\ taken' = taken \cup {<<e, r>>} /\ <<e, r>> \in Email \X Role
          /\ taken \subseteq Email \X Role
      BY <1>1, <3>1 DEF RevokeRole, TypeOK
    <3> QED
      BY <2>1, <3>4, <3>5
  <2>4. CASE \E e \in Email : DeleteUser(e)
    <3>1. PICK e \in Email : DeleteUser(e)
      BY <2>4
    <3>2. users[e] \in Row
      BY <1>1, <3>1 DEF DeleteUser, Live
    <3>3. PICK x : x = [users[e] EXCEPT !.deleted = TRUE]
      OBVIOUS
    <3>4. x \in Row /\ x.roles = users[e].roles /\ users' = [users EXCEPT ![e] = x]
      BY <1>1, <3>1, <3>2, <3>3 DEF DeleteUser, Row
    <3> QED
      BY <1>1, <2>1, <3>1, <3>4 DEF DeleteUser, TypeOK
  <2> QED
    BY <2>2, <2>3, <2>4 DEF Request
<1>3. TypeOK'
  BY <1>1, <1>2 DEF TypeOK, Typed
<1>4. \A p \in Pod : Reached(pod[p])'
  BY <1>1, <1>2, ReachedStays DEF SeedingInv
<1> QED
  BY <1>3, <1>4 DEF SeedingInv

\* No row, no role, no pod at first.
LEMMA SeedingStarts == Init => SeedingInv
<1> SUFFICES ASSUME Init PROVE SeedingInv
  OBVIOUS
<1>1. Down \in Place /\ Down.pc = "down" /\ Down.next = 1
  BY DEF Down, Place, PC
<1>2. TypeOK
  BY <1>1, SeedingAssumption DEF Init, TypeOK
<1>3. \A p \in Pod : Reached(pod[p])
  BY <1>1 DEF Init, Reached
<1> QED
  BY <1>2, <1>3 DEF SeedingInv

\* Every statement, every crash and every request keeps the invariant.
LEMMA SeedingKeeps == SeedingInv /\ [Next]_vars => SeedingInv'
<1> SUFFICES ASSUME SeedingInv, [Next]_vars PROVE SeedingInv'
  OBVIOUS
<1>1. CASE UNCHANGED vars
  BY <1>1 DEF vars, SeedingInv, TypeOK, Reached, Seeded
<1>2. ASSUME NEW p \in Pod, PodStep(p) PROVE SeedingInv'
  BY <1>2, StartKeeps, SeedRolesKeeps, SeedUsersKeeps, GrantKeeps DEF PodStep
<1> QED
  BY <1>1, <1>2, CrashKeeps, RequestKeeps DEF Next

\* The invariant of every behaviour, whatever pods start, fail and serve at once.
THEOREM SeedingInvariance == Spec => []SeedingInv
BY SeedingStarts, SeedingKeeps, PTL DEF Spec

\* Every variable of Seeding holds a value of its type.
THEOREM SeedingTypes == Spec => []TypeOK
<1>1. SeedingInv => TypeOK
  BY DEF SeedingInv
<1> QED
  BY <1>1, SeedingInvariance, PTL

\* When main goes on to serve, MigrateAndSeed and SeedDemoUsers (database.go)
\* have left every role and every demo user with its role, unless a request took
\* it back, whatever other pods did meanwhile and whatever pods died half way.
THEOREM ServingIsSeeded == Spec => []ServingMeansSeeded
<1>1. SeedingInv => ServingMeansSeeded
  BY DEF SeedingInv, ServingMeansSeeded, Reached, Seeded, At
<1> QED
  BY <1>1, SeedingInvariance, PTL

\* What the steps of a pod do to an account that is there.
LEMMA StartsOnlyGrant ==
  ASSUME SeedingInv, [Next]_vars, requests' = requests, NEW e \in Email, users[e] # Nil
  PROVE  /\ users'[e] = [users[e] EXCEPT !.roles = users'[e].roles]
         /\ users[e].roles \subseteq users'[e].roles
<1>1. /\ TypeOK /\ users \in [Email -> Row \cup {Nil}] /\ users[e] \in Row
      /\ requests \in Nat
  BY SeedingAssumption DEF SeedingInv, TypeOK
<1>2. CASE users'[e] = users[e]
  BY <1>1, <1>2 DEF Row
<1>3. CASE \E p \in Pod : Grant(p)
  <2>1. PICK p \in Pod : Grant(p)
    BY <1>3
  <2>2. CASE Demo(p).email = e
    BY <1>1, <2>1, <2>2 DEF Grant, Row
  <2>3. CASE Demo(p).email # e
    BY <1>1, <1>2, <2>1, <2>3 DEF Grant
  <2> QED
    BY <2>2, <2>3
<1>4. CASE \E p \in Pod : InsertUser(p)
  BY <1>1, <1>2, <1>4 DEF InsertUser, Duplicate
<1>5. ~Request
  BY <1>1 DEF Request, Register, RevokeRole, DeleteUser, Serve
<1>6. ASSUME NEW p \in Pod,
             Crash(p) \/ FindRole(p) \/ InsertRole(p) \/ FindUser(p)
               \/ \E env \in Environment : StartPod(p, env)
      PROVE  users' = users
  BY <1>6 DEF Crash, FindRole, InsertRole, FindUser, StartPod
<1> QED
  BY <1>2, <1>3, <1>4, <1>5, <1>6 DEF Next, PodStep, vars

\* "Existing users are not overwritten on restart" (SeedDemoUsers, database.go):
\* starting pods change nothing of an account but give it the demo role.
THEOREM RestartsOverwriteNothing == Spec => ExistingUsersKept
<1>1. SeedingInv /\ [Next]_vars =>
        [requests' = requests =>
           \A e \in Email : users[e] # Nil =>
             /\ users'[e] = [users[e] EXCEPT !.roles = users'[e].roles]
             /\ users[e].roles \subseteq users'[e].roles]_vars
  BY StartsOnlyGrant
<1> QED
  BY <1>1, SeedingInvariance, PTL DEF Spec, ExistingUsersKept

-----------------------------------------------------------------------------
(***************************************************************************)
(* Starts go forward, when every pod is configured alike and no two demo   *)
(* users share a phone: the safety half of StartsSucceed.  TriesLeft       *)
(* bounds how often a pod can still be ended and StepsLeft the statements  *)
(* of one start; no step of another pod and no request brings either up.   *)
(***************************************************************************)
\* Every DEMO_* variable says the same in all pods, and demo users differ in
\* their phones unless they are the same.
Alike(demo) ==
  /\ Environment = {demo}
  /\ \A i, j \in DOMAIN demo :
       demo[i].phone = demo[j].phone => demo[i].email = demo[j].email

\* A pod that runs has read this configuration, and the phone of a demo user is
\* free as long as the email is.
AlikeInv(demo) ==
  /\ SeedingInv
  /\ \A p \in Pod : ~At(p, "down") => pod[p].env = demo
  /\ \A i \in DOMAIN demo, e \in Email :
       users[demo[i].email] = Nil /\ users[e] # Nil => users[e].phone # demo[i].phone

\* The rows no pod has inserted.
MissingRoles == {i \in DOMAIN DefaultRoles : DefaultRoles[i] \notin roles}
MissingUsers(demo) == {i \in DOMAIN demo : users[demo[i].email] = Nil}

\* The row this pod did not find has been inserted since: the insert will fail.
Late(p) ==
  \/ At(p, "insertRole") /\ SeedRole(p) \in roles
  \/ At(p, "insertUser") /\ users[Demo(p).email] # Nil

TriesLeft(demo, p) ==
  Cardinality(MissingRoles) + Cardinality(MissingUsers(demo))
    + (IF Late(p) THEN 1 ELSE 0) + (MaxCrashes - crashes)

StepsLeft(demo, p) ==
  LET rolesAfter == 2 * (Len(DefaultRoles) - pod[p].next) + 3 * Len(demo)
      usersAfter == 3 * (Len(demo) - pod[p].next)
  IN
  CASE pod[p].pc = "findRole"   -> rolesAfter + 2
    [] pod[p].pc = "insertRole" -> rolesAfter + 1
    [] pod[p].pc = "findUser"   -> usersAfter + 3
    [] pod[p].pc = "insertUser" -> usersAfter + 2
    [] pod[p].pc = "grant"      -> usersAfter + 1
    [] pod[p].pc = "serving"    -> 0
    [] OTHER                    -> 2 * Len(DefaultRoles) + 3 * Len(demo) + 1

\* A step of the pod itself takes one of its tries, or a step of this one.
Forward(demo, p) ==
  \/ TriesLeft(demo, p)' < TriesLeft(demo, p)
  \/ /\ TriesLeft(demo, p)' = TriesLeft(demo, p)
     /\ IF pod'[p] = pod[p] THEN StepsLeft(demo, p)' = StepsLeft(demo, p)
                            ELSE StepsLeft(demo, p)' < StepsLeft(demo, p)

\* The demo users of such a configuration.
LEMMA AlikeDemo ==
  ASSUME NEW demo, Alike(demo)
  PROVE  /\ demo \in Environment /\ Len(demo) \in Nat /\ DOMAIN demo = 1 .. Len(demo)
         /\ \A i \in DOMAIN demo : demo[i].email \in Email /\ demo[i].phone \in Phone
<1> DEFINE D == [email : Email, phone : Phone, role : Role]
<1>1. demo \in Environment /\ Environment \subseteq Seq(D)
  BY SeedingAssumption DEF Alike, Role
<1> HIDE DEF D
<1>2. demo \in Seq(D)
  BY <1>1
<1>3. Len(demo) \in Nat /\ DOMAIN demo = 1 .. Len(demo) /\ \A i \in DOMAIN demo : demo[i] \in D
  BY <1>2
<1> QED
  BY <1>1, <1>3 DEF D

\* Rows come and crashes happen; neither is taken back.
RowsCome ==
  /\ roles \subseteq roles'
  /\ \A e \in Email : users[e] # Nil => users'[e] # Nil
  /\ crashes \in Nat /\ crashes' \in Nat /\ crashes <= crashes' /\ crashes' <= MaxCrashes

LEMMA RowsOnlyCome ==
  ASSUME SeedingInv, [Next]_vars
  PROVE  RowsCome
<1>1. /\ TypeOK /\ TypeOK'
      /\ users \in [Email -> Row \cup {Nil}] /\ users' \in [Email -> Row \cup {Nil}]
  BY SeedingKeeps DEF SeedingInv, TypeOK
<1>2. roles \subseteq roles'
  BY DEF Next, vars, PodStep, StartPod, FindRole, InsertRole, FindUser, InsertUser, Grant,
    Crash, Request, Register, RevokeRole, DeleteUser, Serve
<1>3. ASSUME NEW e \in Email, users[e] # Nil PROVE users'[e] # Nil
  <2>0. users[e] \in Row
    BY <1>1, <1>3
  <2>1. CASE users'[e] = users[e]
    BY <1>3, <2>1
  <2>2. ASSUME NEW x \in Email, NEW r \in SUBSET Role, NEW b \in BOOLEAN,
               \/ users' = [users EXCEPT ![x].roles = r]
               \/ users' = [users EXCEPT ![x].deleted = b]
        PROVE  users'[e] # Nil
    <3>1. \/ users'[e] = users[e]
          \/ users'[e] = [users[e] EXCEPT !.roles = r]
          \/ users'[e] = [users[e] EXCEPT !.deleted = b]
      BY <1>1, <2>2
    <3>2. users'[e] \in Row
      BY <2>0, <3>1 DEF Row
    <3> QED
      BY <3>2, RowAssumption
  <2>3. CASE \E p \in Pod : Grant(p)
    <3>1. PICK p \in Pod : Grant(p)
      BY <2>3
    <3>2. PICK d : d = Demo(p)
      OBVIOUS
    <3>3. d.email \in Email /\ d.role \in Role
      BY <1>1, <3>1, <3>2, DemoUsers DEF Grant, At, Demo, TypeOK
    <3>4. users' = [users EXCEPT ![d.email].roles = @ \cup {d.role}]
      BY <3>1, <3>2 DEF Grant
    <3>5. \/ users'[e] = users[e]
          \/ users'[e] = [users[e] EXCEPT !.roles = @ \cup {d.role}]
      BY <1>1, <3>3, <3>4
    <3>6. users'[e] \in Row
      BY <2>0, <3>3, <3>5 DEF Row
    <3> QED
      BY <3>6, RowAssumption
  <2>4. CASE \E p \in Pod : InsertUser(p)
    BY <1>1, <1>3, <2>1, <2>4 DEF InsertUser, Duplicate
  <2>5. CASE Request
    <3>1. PICK x \in Email : \/ \E phone \in Phone : Register(x, phone)
                             \/ \E r \in Role : RevokeRole(x, r)
                             \/ DeleteUser(x)
      BY <2>5 DEF Request
    <3>2. CASE \E phone \in Phone : Register(x, phone)
      BY <1>1, <1>3, <2>1, <3>2 DEF Register, Duplicate
    <3>3. CASE \E r \in Role : RevokeRole(x, r)
      <4>1. PICK r \in Role : users' = [users EXCEPT ![x].roles = @ \ {r}]
        BY <3>3 DEF RevokeRole
      <4>2. \/ users'[e] = users[e]
            \/ users'[e] = [users[e] EXCEPT !.roles = @ \ {r}]
        BY <1>1, <4>1
      <4>3. users'[e] \in Row
        BY <2>0, <4>2 DEF Row
      <4> QED
        BY <4>3, RowAssumption
    <3>4. CASE DeleteUser(x)
      BY <2>2, <3>4 DEF DeleteUser
    <3> QED
      BY <3>1, <3>2, <3>3, <3>4
  <2>6. ASSUME NEW p \in Pod,
               Crash(p) \/ FindRole(p) \/ InsertRole(p) \/ FindUser(p)
                 \/ \E env \in Environment : StartPod(p, env)
        PROVE  users' = users
    BY <2>6 DEF Crash, FindRole, InsertRole, FindUser, StartPod
  <2> QED
    BY <2>1, <2>3, <2>4, <2>5, <2>6 DEF Next, PodStep, vars
<1>4. crashes \in Nat /\ crashes' \in Nat /\ crashes <= crashes' /\ crashes' <= MaxCrashes
  <2>1. crashes' = crashes \/ crashes' = crashes + 1
    BY DEF Next, vars, PodStep, StartPod, FindRole, InsertRole, FindUser, InsertUser, Grant,
      Crash, Request, Register, RevokeRole, DeleteUser, Serve
  <2> QED
    BY <1>1, <2>1, SeedingAssumption DEF TypeOK
<1> QED
  BY <1>2, <1>3, <1>4 DEF RowsCome

\* What is missing becomes less.
LEMMA MissingShrinks ==
  ASSUME NEW demo, Alike(demo), RowsCome
  PROVE  /\ Cardinality(MissingRoles) \in Nat /\ Cardinality(MissingRoles') \in Nat
         /\ Cardinality(MissingUsers(demo)) \in Nat /\ Cardinality(MissingUsers(demo)') \in Nat
         /\ Cardinality(MissingRoles') <= Cardinality(MissingRoles)
         /\ Cardinality(MissingUsers(demo)') <= Cardinality(MissingUsers(demo))
         /\ MissingRoles' # MissingRoles
              => Cardinality(MissingRoles') < Cardinality(MissingRoles)
         /\ MissingUsers(demo)' # MissingUsers(demo)
              => Cardinality(MissingUsers(demo)') < Cardinality(MissingUsers(demo))
<1>1. IsFiniteSet(DOMAIN DefaultRoles) /\ IsFiniteSet(DOMAIN demo)
  BY AlikeDemo, Roles, FS_Interval
<1>2. IsFiniteSet(MissingRoles) /\ IsFiniteSet(MissingUsers(demo))
  BY <1>1, FS_Subset DEF MissingRoles, MissingUsers
<1>3. MissingRoles' \subseteq MissingRoles /\ MissingUsers(demo)' \subseteq MissingUsers(demo)
  BY AlikeDemo DEF RowsCome, MissingRoles, MissingUsers
<1> DEFINE R == MissingRoles
           S == MissingRoles'
           U == MissingUsers(demo)
           V == MissingUsers(demo)'
<1> HIDE DEF R, S, U, V
<1>4. ASSUME NEW X, NEW Y, IsFiniteSet(X), Y \subseteq X
      PROVE  /\ Cardinality(X) \in Nat /\ Cardinality(Y) \in Nat
             /\ Cardinality(Y) <= Cardinality(X)
             /\ Y # X => Cardinality(Y) < Cardinality(X)
  <2>1. IsFiniteSet(Y) /\ Cardinality(Y) <= Cardinality(X)
        /\ (Cardinality(X) = Cardinality(Y) => X = Y)
    BY <1>4, FS_Subset
  <2>2. Cardinality(X) \in Nat /\ Cardinality(Y) \in Nat
    BY <1>4, <2>1, FS_CardinalityType
  <2> QED
    BY <2>1, <2>2
<1>5. IsFiniteSet(R) /\ IsFiniteSet(U) /\ S \subseteq R /\ V \subseteq U
  BY <1>2, <1>3 DEF R, S, U, V
<1>6. /\ Cardinality(R) \in Nat /\ Cardinality(S) \in Nat
      /\ Cardinality(S) <= Cardinality(R) /\ (S # R => Cardinality(S) < Cardinality(R))
  BY <1>4, <1>5
<1>7. /\ Cardinality(U) \in Nat /\ Cardinality(V) \in Nat
      /\ Cardinality(V) <= Cardinality(U) /\ (V # U => Cardinality(V) < Cardinality(U))
  BY <1>4, <1>5
<1> QED
  BY <1>6, <1>7 DEF R, S, U, V

\* The invariant of such a configuration.
LEMMA AlikeKeeps ==
  ASSUME NEW demo, Alike(demo), AlikeInv(demo), [Next]_vars
  PROVE  AlikeInv(demo)'
<1>1. SeedingInv /\ SeedingInv' /\ TypeOK /\ RowsCome
  BY SeedingKeeps, RowsOnlyCome DEF AlikeInv, SeedingInv
<1>2. ASSUME NEW p \in Pod, ~At(p, "down")' PROVE pod'[p].env = demo
  <2>1. CASE pod' = pod
    BY <1>2, <2>1 DEF AlikeInv, At
  <2>2. ASSUME NEW q \in Pod, NEW env \in Environment, StartPod(q, env) PROVE pod'[p].env = demo
    <3>1. env = demo
      BY <2>2 DEF Alike
    <3> QED
      BY <1>1, <1>2, <2>2, <3>1 DEF StartPod, AlikeInv, At, TypeOK
  <2>3. ASSUME NEW q \in Pod, Fatal(q) PROVE pod'[p].env = demo
    BY <1>1, <1>2, <2>3 DEF Fatal, Down, AlikeInv, At, TypeOK
  <2>4. ASSUME NEW q \in Pod,
               (FindRole(q) \/ InsertRole(q) \/ FindUser(q) \/ InsertUser(q) \/ Grant(q))
                 /\ ~Fatal(q)
        PROVE  pod'[p].env = demo
    <3>1. ~At(q, "down")
      BY <2>4 DEF FindRole, InsertRole, FindUser, InsertUser, Grant, At
    <3>2. \/ \E x : pod' = [pod EXCEPT ![q].pc = x]
          \/ \E x, n : pod' = [pod EXCEPT ![q].pc = x, ![q].next = n]
      BY <2>4 DEF FindRole, InsertRole, FindUser, InsertUser, Grant, NextRole, NextUser, Goto,
        Advance
    <3>3. pod \in [Pod -> Place] /\ pod[q] \in Place
      BY <1>1 DEF TypeOK
    <3>4. \A r \in Pod : pod'[r].env = pod[r].env /\ (r # q => pod'[r] = pod[r])
      <4>1. CASE \E x : pod' = [pod EXCEPT ![q].pc = x]
        <5>1. PICK x : pod' = [pod EXCEPT ![q].pc = x]
          BY <4>1
        <5>2. pod'[q] = [pod[q] EXCEPT !.pc = x] /\ \A r \in Pod \ {q} : pod'[r] = pod[r]
          BY <3>3, <5>1
        <5> QED
          BY <3>3, <5>2 DEF Place
      <4>2. CASE \E x, n : pod' = [pod EXCEPT ![q].pc = x, ![q].next = n]
        <5>1. PICK x, n : pod' = [pod EXCEPT ![q].pc = x, ![q].next = n]
          BY <4>2
        <5>2. pod'[q] = [pod[q] EXCEPT !.pc = x, !.next = n]
              /\ \A r \in Pod \ {q} : pod'[r] = pod[r]
          BY <3>3, <5>1
        <5> QED
          BY <3>3, <5>2 DEF Place
      <4> QED
        BY <3>2, <4>1, <4>2
    <3> QED
      BY <1>2, <3>1, <3>4 DEF AlikeInv, At
  <2> QED
    BY <2>1, <2>2, <2>3, <2>4
    DEF Next, vars, PodStep, Crash, Request, Register, RevokeRole, DeleteUser, Serve
<1>3. ASSUME NEW i \in DOMAIN demo, NEW e \in Email,
             users'[demo[i].email] = Nil, users'[e] # Nil
      PROVE  users'[e].phone # demo[i].phone
  <2>0. /\ users \in [Email -> Row \cup {Nil}]
        /\ demo[i].email \in Email /\ users[demo[i].email] = Nil
    BY <1>1, <1>3, AlikeDemo DEF TypeOK, RowsCome
  <2>1. CASE users'[e] = users[e]
    BY <1>3, <2>0, <2>1 DEF AlikeInv
  <2>2. CASE \E p \in Pod : InsertUser(p)
    <3>1. PICK p \in Pod : InsertUser(p)
      BY <2>2
    <3>2. PICK d : d = Demo(p)
      OBVIOUS
    <3>3. \E j \in DOMAIN demo : d = demo[j]
      BY <1>1, <3>1, <3>2 DEF InsertUser, At, Demo, TypeOK, AlikeInv
    <3>4. d.email \in Email
      BY <3>3, AlikeDemo
    <3>5. \/ users' = users
          \/ users' = [users EXCEPT ![d.email] = NewUser(d.phone, "demo", {})]
      BY <3>1, <3>2 DEF InsertUser
    <3>6. CASE e = d.email /\ users' # users
      <4>1. users'[e].phone = d.phone
        BY <2>0, <3>5, <3>6 DEF NewUser
      <4> QED
        BY <1>3, <3>3, <3>6, <4>1 DEF Alike
    <3>7. CASE e # d.email \/ users' = users
      BY <2>0, <2>1, <3>4, <3>5, <3>7
    <3> QED
      BY <3>6, <3>7
  <2>3. CASE \E p \in Pod : Grant(p)
    <3>1. PICK p \in Pod : Grant(p)
      BY <2>3
    <3>2. PICK d : d = Demo(p)
      OBVIOUS
    <3>3. d.email \in Email /\ users[d.email] # Nil
      BY <1>1, <3>1, <3>2, DemoUsers DEF Grant, At, Demo, TypeOK, SeedingInv, Reached
    <3>4. users' = [users EXCEPT ![d.email].roles = @ \cup {d.role}]
      BY <3>1, <3>2 DEF Grant
    <3>5. users[e] # Nil /\ users'[e].phone = users[e].phone
      <4>1. users[d.email] \in Row
        BY <2>0, <3>3
      <4>2. e = d.email => users'[e].phone = users[e].phone
        BY <2>0, <3>3, <3>4, <4>1 DEF Row
      <4>3. e # d.email => users'[e] = users[e]
        BY <2>0, <3>3, <3>4
      <4> QED
        BY <1>3, <3>3, <4>2, <4>3
    <3> QED
      BY <2>0, <3>5 DEF AlikeInv
  <2>4. CASE Request
    <3>1. PICK q \in Pod : At(q, "serving")
      BY <2>4 DEF Request, Register, RevokeRole, DeleteUser, Serve
    <3>2. pod[q].env = demo
      BY <3>1 DEF AlikeInv, At
    <3>3. users[demo[i].email] # Nil
      BY <1>1, <3>1, <3>2 DEF SeedingInv, Reached, At, Seeded
    <3> QED
      BY <2>0, <3>3
  <2>5. ASSUME NEW p \in Pod,
               Crash(p) \/ FindRole(p) \/ InsertRole(p) \/ FindUser(p)
                 \/ \E env \in Environment : StartPod(p, env)
        PROVE  users' = users
    BY <2>5 DEF Crash, FindRole, InsertRole, FindUser, StartPod
  <2> QED
    BY <2>1, <2>2, <2>3, <2>4, <2>5 DEF Next, PodStep, vars
<1> QED
  BY <1>1, <1>2, <1>3 DEF AlikeInv

\* A step after which the pod is not newly late, unless a row came, takes no try
\* back; one that ends its being late, or is a crash, takes one.
LEMMA TriesOnlyFall ==
  ASSUME NEW demo, Alike(demo), AlikeInv(demo), [Next]_vars, NEW p \in Pod,
         ~Late(p) /\ Late(p)' =>
           MissingRoles' # MissingRoles \/ MissingUsers(demo)' # MissingUsers(demo)
  PROVE  /\ TriesLeft(demo, p) \in Nat /\ TriesLeft(demo, p)' \in Nat
         /\ TriesLeft(demo, p)' <= TriesLeft(demo, p)
         /\ ~Late(p)' /\ (Late(p) \/ crashes' = crashes + 1)
              => TriesLeft(demo, p)' < TriesLeft(demo, p)
<1>1. RowsCome /\ MaxCrashes \in Nat
  BY RowsOnlyCome, SeedingAssumption DEF AlikeInv
<1> DEFINE R == Cardinality(MissingRoles)
           S == Cardinality(MissingRoles')
           U == Cardinality(MissingUsers(demo))
           V == Cardinality(MissingUsers(demo)')
<1>2. /\ R \in Nat /\ S \in Nat /\ U \in Nat /\ V \in Nat /\ S <= R /\ V <= U
      /\ ~Late(p) /\ Late(p)' => S < R \/ V < U
  BY <1>1, MissingShrinks
<1>3. /\ TriesLeft(demo, p) = R + U + (IF Late(p) THEN 1 ELSE 0) + (MaxCrashes - crashes)
      /\ TriesLeft(demo, p)' = S + V + (IF Late(p)' THEN 1 ELSE 0) + (MaxCrashes - crashes')
  BY DEF TriesLeft
<1> DEFINE a == IF Late(p) THEN 1 ELSE 0
           b == IF Late(p)' THEN 1 ELSE 0
           x == TriesLeft(demo, p)
           y == TriesLeft(demo, p)'
           k == crashes
           m == crashes'
<1>4. /\ x = R + U + a + (MaxCrashes - k) /\ y = S + V + b + (MaxCrashes - m)
      /\ a \in 0 .. 1 /\ b \in 0 .. 1 /\ (b <= a \/ S < R \/ V < U)
      /\ k \in Nat /\ m \in Nat /\ k <= m /\ m <= MaxCrashes
  BY <1>1, <1>2, <1>3 DEF RowsCome
<1>5. ~Late(p)' /\ (Late(p) \/ crashes' = crashes + 1) => b < a \/ (b <= a /\ m = k + 1)
  OBVIOUS
<1> HIDE DEF R, S, U, V, a, b, x, y, k, m
<1>6. x \in Nat /\ y \in Nat /\ y <= x /\ (b < a \/ (b <= a /\ m = k + 1) => y < x)
  BY <1>1, <1>2, <1>4
<1> QED
  BY <1>5, <1>6 DEF x, y

\* While the pod waits, others and requests take none of its tries.
LEMMA OthersTakeNothing ==
  ASSUME NEW demo, Alike(demo), AlikeInv(demo), [Next]_vars,
         NEW p \in Pod, pod'[p] = pod[p]
  PROVE  Forward(demo, p)
<1>1. RowsCome /\ TypeOK /\ MaxCrashes \in Nat
  BY RowsOnlyCome, SeedingAssumption DEF AlikeInv, SeedingInv
<1>2. StepsLeft(demo, p)' = StepsLeft(demo, p)
  BY DEF StepsLeft
<1>3. ASSUME ~Late(p), Late(p)'
      PROVE  MissingRoles' # MissingRoles \/ MissingUsers(demo)' # MissingUsers(demo)
  <2>1. CASE At(p, "insertRole") /\ SeedRole(p) \notin roles /\ SeedRole(p)' \in roles'
    BY <1>1, <2>1 DEF At, SeedRole, MissingRoles, TypeOK
  <2>2. CASE At(p, "insertUser") /\ users[Demo(p).email] = Nil /\ users'[Demo(p)'.email] # Nil
    <3>1. pod[p].env = demo /\ pod[p].next \in DOMAIN demo /\ Demo(p)' = Demo(p)
      BY <1>1, <2>2 DEF At, AlikeInv, TypeOK, Demo
    <3> QED
      BY <2>2, <3>1 DEF Demo, MissingUsers
  <2> QED
    BY <1>3, <2>1, <2>2 DEF Late, At
<1>4. TriesLeft(demo, p)' <= TriesLeft(demo, p)
      /\ TriesLeft(demo, p)' \in Nat /\ TriesLeft(demo, p) \in Nat
  BY <1>3, TriesOnlyFall
<1> QED
  BY <1>2, <1>4 DEF Forward

\* Only its own step moves a pod, or a crash.
LEMMA OwnSteps ==
  ASSUME TypeOK, [Next]_vars, NEW p \in Pod, pod'[p] # pod[p]
  PROVE  PodStep(p) \/ Crash(p)
<1>1. ASSUME NEW q \in Pod, q # p, PodStep(q) \/ Crash(q) PROVE pod'[p] = pod[p]
  BY <1>1
  DEF PodStep, StartPod, FindRole, InsertRole, FindUser, InsertUser, Grant, Crash, Fatal, Goto,
    Advance, NextRole, NextUser, TypeOK
<1>2. ASSUME Request PROVE pod' = pod
  BY <1>2 DEF Request, Register, RevokeRole, DeleteUser, Serve
<1> QED
  BY <1>1, <1>2 DEF Next, vars

\* A pod that is ended has lost a try: a crash is one, and an insert that fails
\* had been overtaken.
LEMMA EndingTakesATry ==
  ASSUME NEW demo, Alike(demo), AlikeInv(demo), [Next]_vars,
         NEW p \in Pod, Fatal(p), PodStep(p) \/ Crash(p), ~At(p, "down")
  PROVE  TriesLeft(demo, p)' < TriesLeft(demo, p)
<1>1. RowsCome /\ TypeOK /\ MaxCrashes \in Nat
  BY RowsOnlyCome, SeedingAssumption DEF AlikeInv, SeedingInv
<1>2. pod'[p].pc = "down" /\ ~Late(p)'
  BY <1>1 DEF Fatal, Down, TypeOK, Late, At
<1>3. Crash(p) => crashes' = crashes + 1
  BY DEF Crash
<1>4. ASSUME ~Crash(p) PROVE Late(p)
  <2>1. CASE InsertRole(p)
    <3>1. SeedRole(p) \in roles
      BY <1>1, <1>2, <2>1 DEF InsertRole, NextRole, Advance, AfterRoles, TypeOK, Place
    <3> QED
      BY <2>1, <3>1 DEF InsertRole, Late
  <2>2. CASE InsertUser(p)
    <3>1. Duplicate(Demo(p).email, Demo(p).phone)
      BY <1>1, <1>2, <2>2 DEF InsertUser, Goto, TypeOK, Place
    <3>2. pod[p].env = demo /\ pod[p].next \in DOMAIN demo
      BY <1>1, <2>2 DEF InsertUser, AlikeInv, TypeOK, At
    <3>3. users[Demo(p).email] # Nil
      BY <3>1, <3>2 DEF Duplicate, Demo, AlikeInv
    <3> QED
      BY <2>2, <3>3 DEF InsertUser, Late
  <2>3. CASE FindRole(p) \/ FindUser(p) \/ Grant(p)
    <3>1. pod[p] \in Place /\ pod \in [Pod -> Place]
      BY <1>1 DEF TypeOK
    <3>2. pod'[p].pc # "down"
      BY <2>3, <3>1
      DEF FindRole, FindUser, Grant, NextRole, NextUser, Goto, Advance, AfterRoles, Place
    <3> QED
      BY <1>2, <3>2
  <2>4. ~ \E env \in Environment : StartPod(p, env)
    BY DEF StartPod
  <2> QED
    BY <1>4, <2>1, <2>2, <2>3, <2>4 DEF PodStep
<1> QED
  BY <1>2, <1>3, <1>4, TriesOnlyFall

\* A pod that is not ended goes on to its next statement, and is not late.
LEMMA StatementsRunOut ==
  ASSUME NEW demo, Alike(demo), AlikeInv(demo), [Next]_vars,
         NEW p \in Pod, PodStep(p), At(p, "down") \/ ~Fatal(p)
  PROVE  StepsLeft(demo, p)' < StepsLeft(demo, p) /\ ~Late(p)'
<1>1. RowsCome /\ TypeOK /\ pod[p] \in Place /\ pod \in [Pod -> Place]
  BY RowsOnlyCome DEF AlikeInv, SeedingInv, TypeOK
<1> DEFINE R == Len(DefaultRoles)
           L == Len(demo)
           n == pod[p].next
<1>2. /\ R \in Nat \ {0} /\ L \in Nat /\ n \in Nat
      /\ DOMAIN DefaultRoles = 1 .. R /\ DOMAIN demo = 1 .. L
  BY <1>1, AlikeDemo, Roles DEF Place
<1>3. /\ ~At(p, "down") => pod[p].env = demo
      /\ pod[p].pc \in {"findRole", "insertRole"} => n \in 1 .. R
      /\ pod[p].pc \in {"findUser", "insertUser", "grant"} => n \in 1 .. L
  BY <1>1, <1>2 DEF AlikeInv, TypeOK, At
<1> DEFINE w == pod'[p]
           x == StepsLeft(demo, p)
           y == StepsLeft(demo, p)'
<1>4. CASE \E env \in Environment : StartPod(p, env)
  <2>1. At(p, "down") /\ w.pc = "findRole" /\ w.next = 1
    BY <1>1, <1>4 DEF StartPod
  <2>2. ~Late(p)'
    BY <2>1 DEF Late, At
  <2> QED
    BY <1>2, <2>1, <2>2 DEF StepsLeft, At
<1>5. CASE FindRole(p) /\ SeedRole(p) \notin roles
  <2>1. At(p, "findRole") /\ w.pc = "insertRole" /\ w.next = n
    BY <1>1, <1>5 DEF FindRole, Goto, Place
  <2>2. ~Late(p)'
    BY <1>5, <2>1 DEF FindRole, Late, At, SeedRole
  <2> QED
    BY <1>2, <1>3, <2>1, <2>2 DEF StepsLeft, At
<1>6. CASE (At(p, "findRole") \/ At(p, "insertRole")) /\ NextRole(p)
  <2>1. \/ n < R /\ w.pc = "findRole" /\ w.next = n + 1
        \/ n >= R /\ w.pc \in {"findUser", "serving"} /\ w.next = 1
    BY <1>1, <1>2, <1>6 DEF NextRole, Advance, AfterRoles, Place
  <2>2. ~Late(p)'
    BY <2>1 DEF Late, At
  <2>3. x \in {2 * (R - n) + 3 * L + 2, 2 * (R - n) + 3 * L + 1}
    BY <1>6 DEF StepsLeft, At
  <2>4. \/ n < R /\ y = 2 * (R - (n + 1)) + 3 * L + 2
        \/ n >= R /\ y \in {3 * (L - 1) + 3, 0}
    BY <2>1 DEF StepsLeft
  <2>5. n <= R
    BY <1>2, <1>3, <1>6 DEF At
  <2> HIDE DEF R, L, n, x, y
  <2>6. y < x
    BY <1>2, <2>3, <2>4, <2>5
  <2> QED
    BY <2>2, <2>6 DEF x, y
<1>7. CASE FindUser(p)
  <2>1. /\ At(p, "findUser") /\ w.next = n /\ w.env = pod[p].env
        /\ w.pc = IF users[Demo(p).email] # Nil THEN "grant" ELSE "insertUser"
    BY <1>1, <1>7 DEF FindUser, Goto, Place
  <2>2. ~Late(p)'
    BY <1>7, <2>1 DEF FindUser, Late, At, Demo
  <2> QED
    BY <1>2, <1>3, <2>1, <2>2 DEF StepsLeft, At
<1>8. CASE InsertUser(p) /\ Goto(p, "grant")
  <2>1. At(p, "insertUser") /\ w.pc = "grant" /\ w.next = n
    BY <1>1, <1>8 DEF InsertUser, Goto, Place
  <2>2. ~Late(p)'
    BY <2>1 DEF Late, At
  <2> QED
    BY <1>2, <1>3, <2>1, <2>2 DEF StepsLeft, At
<1>9. CASE Grant(p)
  <2>1. /\ At(p, "grant")
        /\ \/ n < L /\ w.pc = "findUser" /\ w.next = n + 1
           \/ n >= L /\ w.pc = "serving" /\ w.next = 1
    BY <1>1, <1>2, <1>3, <1>9 DEF Grant, NextUser, Advance, Place, At
  <2>2. ~Late(p)'
    BY <2>1 DEF Late, At
  <2>3. x = 3 * (L - n) + 1 /\ n <= L
    BY <1>2, <1>3, <2>1 DEF StepsLeft, At
  <2>4. \/ n < L /\ y = 3 * (L - (n + 1)) + 3
        \/ n >= L /\ y = 0
    BY <2>1 DEF StepsLeft
  <2> HIDE DEF R, L, n, x, y
  <2>5. y < x
    BY <1>2, <2>3, <2>4
  <2> QED
    BY <2>2, <2>5 DEF x, y
<1> QED
  BY <1>4, <1>5, <1>6, <1>7, <1>8, <1>9 DEF PodStep, FindRole, InsertRole, InsertUser, At

\* Neither count can fall forever.
CountsDown(demo, p) == TriesLeft(demo, p) \in Nat /\ StepsLeft(demo, p) \in Nat

LEMMA CountsAreNat ==
  ASSUME NEW demo, Alike(demo), AlikeInv(demo), NEW p \in Pod
  PROVE  CountsDown(demo, p)
<1>1. TypeOK /\ pod[p] \in Place /\ MaxCrashes \in Nat
  BY SeedingAssumption DEF AlikeInv, SeedingInv, TypeOK
<1>2. IsFiniteSet(MissingRoles) /\ IsFiniteSet(MissingUsers(demo))
  <2>1. IsFiniteSet(DOMAIN DefaultRoles) /\ IsFiniteSet(DOMAIN demo)
    BY AlikeDemo, Roles, FS_Interval
  <2> QED
    BY <2>1, FS_Subset DEF MissingRoles, MissingUsers
<1>3. Cardinality(MissingRoles) \in Nat /\ Cardinality(MissingUsers(demo)) \in Nat
  BY <1>2, FS_CardinalityType
<1>4. TriesLeft(demo, p) \in Nat
  BY <1>1, <1>3 DEF TriesLeft, TypeOK
<1> DEFINE R == Len(DefaultRoles)
           L == Len(demo)
           n == pod[p].next
<1>5. /\ R \in Nat /\ L \in Nat /\ n \in Nat
      /\ pod[p].pc \in {"findRole", "insertRole"} => n \in 1 .. R
      /\ pod[p].pc \in {"findUser", "insertUser", "grant"} => n \in 1 .. L
  BY <1>1, AlikeDemo, Roles DEF Place, AlikeInv, TypeOK, At
<1>6. StepsLeft(demo, p) \in Nat
  <2>1. CASE pod[p].pc \in {"findRole", "insertRole"}
    <3>1. PICK k \in Nat : k = R - n
      BY <1>5, <2>1
    <3>2. StepsLeft(demo, p) \in {2 * k + 3 * L + 2, 2 * k + 3 * L + 1}
      BY <2>1, <3>1 DEF StepsLeft
    <3>3. 2 * k \in Nat /\ 3 * L \in Nat
      BY <1>5
    <3> QED
      BY <3>2, <3>3
  <2>2. CASE pod[p].pc \in {"findUser", "insertUser", "grant"}
    <3>1. PICK k \in Nat : k = L - n
      BY <1>5, <2>2
    <3>2. StepsLeft(demo, p) \in {3 * k + 3, 3 * k + 2, 3 * k + 1}
      BY <2>2, <3>1 DEF StepsLeft
    <3>3. 3 * k \in Nat
      OBVIOUS
    <3> QED
      BY <3>2, <3>3
  <2>3. CASE pod[p].pc \in {"serving", "down"}
    <3>1. StepsLeft(demo, p) \in {0, 2 * R + 3 * L + 1}
      BY <2>3 DEF StepsLeft
    <3> QED
      BY <1>5, <3>1
  <2>4. pod[p].pc \in PC
    BY <1>1 DEF Place
  <2> QED
    BY <2>1, <2>2, <2>3, <2>4 DEF PC
<1> QED
  BY <1>4, <1>6 DEF CountsDown

\* "This makes repeated pod starts safe" (SeedDemoUsers, database.go): when all
\* pods are configured alike, every step of a pod takes one of the finitely many
\* times it can be ended or brings the start it is in closer to serving, and no
\* other pod and no request sets it back.
THEOREM StartsGoForward ==
  ASSUME NEW demo, Alike(demo)
  PROVE  Spec => /\ [](\A p \in Pod : CountsDown(demo, p))
                 /\ [][\A p \in Pod : Forward(demo, p)]_vars
<1>1. Init => AlikeInv(demo)
  BY SeedingStarts DEF AlikeInv, Init, At, Down
<1>2. AlikeInv(demo) /\ [Next]_vars => AlikeInv(demo)'
  BY AlikeKeeps
<1>3. AlikeInv(demo) /\ [Next]_vars => [\A p \in Pod : Forward(demo, p)]_vars
  <2> SUFFICES ASSUME AlikeInv(demo), [Next]_vars, NEW p \in Pod
               PROVE  Forward(demo, p)
    OBVIOUS
  <2>1. CASE pod'[p] = pod[p]
    BY <2>1, OthersTakeNothing
  <2>2. CASE pod'[p] # pod[p]
    <3>1. PodStep(p) \/ Crash(p)
      BY <2>2, OwnSteps DEF AlikeInv, SeedingInv
    <3>2. CASE Fatal(p) /\ ~At(p, "down")
      BY <3>1, <3>2, EndingTakesATry DEF Forward
    <3>3. CASE At(p, "down") \/ ~Fatal(p)
      <4>1. PodStep(p)
        BY <3>1, <3>3 DEF Crash
      <4>2. StepsLeft(demo, p)' < StepsLeft(demo, p) /\ ~Late(p)'
        BY <3>3, <4>1, StatementsRunOut
      <4>3. TriesLeft(demo, p)' <= TriesLeft(demo, p)
            /\ TriesLeft(demo, p)' \in Int /\ TriesLeft(demo, p) \in Int
        BY <4>2, TriesOnlyFall
      <4> QED
        BY <2>2, <4>2, <4>3 DEF Forward
    <3> QED
      BY <3>2, <3>3
  <2> QED
    BY <2>1, <2>2
<1>4. AlikeInv(demo) => \A p \in Pod : CountsDown(demo, p)
  BY CountsAreNat
<1> QED
  BY <1>1, <1>2, <1>3, <1>4, PTL DEF Spec
=============================================================================
