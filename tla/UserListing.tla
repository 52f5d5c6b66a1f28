----------------------------- MODULE UserListing -----------------------------
(***************************************************************************)
(* Listing users page by page: List of                                     *)
(* internal/repository/user_repository.go, ListUsers of the service and    *)
(* the page numbers of its two transports.                                 *)
(*                                                                         *)
(* A call counts the users, then reads one page of them in a second        *)
(* statement; nothing holds the table still between the two, nor between   *)
(* one page and the next.  The order is created_at DESC: among users with  *)
(* the same created_at each statement finds an order of its own.           *)
(*                                                                         *)
(* The rows are those the filter admits (deleted = false, is_active as     *)
(* asked for; nothing in the service changes is_active).                   *)
(***************************************************************************)
EXTENDS Integers, FiniteSets

CONSTANTS
  Listed,          \* users
  Stamp,           \* values of created_at: clocks of several pods, any order
  DefaultPerPage,
  MaxPerPage,
  IntMax,          \* the largest Go int
  Int32Max         \* the largest int32

ASSUME ListingAssumption ==
  /\ IsFiniteSet(Listed)
  /\ Stamp \subseteq Nat \ {0}
  /\ {DefaultPerPage, MaxPerPage, IntMax, Int32Max} \subseteq Nat \ {0}
  /\ DefaultPerPage <= MaxPerPage
  /\ Int32Max * MaxPerPage <= IntMax

VARIABLES
  createdAt,   \* created_at of the rows, 0 for none
  walk         \* a caller who walks all the pages

listingVars == <<createdAt, walk>>

Rows == {u \in Listed : createdAt[u] > 0}

Least(a, b) == IF a < b THEN a ELSE b

(***************************************************************************)
(* The arithmetic of a page.                                               *)
(***************************************************************************)
\* What a page number may be: form:"page" is an int, the proto field an int32.
PageNumber(via) ==
  IF via = "http" THEN -IntMax - 1 .. IntMax ELSE -Int32Max - 1 .. Int32Max

\* Go's int multiplication.
Wrapped(n) == ((n + IntMax + 1) % (2 * (IntMax + 1))) - IntMax - 1

ActualPage(page) == IF page <= 0 THEN 1 ELSE page

ActualPerPage(perPage) ==
  IF perPage <= 0 \/ perPage > MaxPerPage THEN DefaultPerPage ELSE perPage

\* Mutant: pages are counted from zero.
OffsetFromZero(page, perPage) == Wrapped(ActualPage(page) * ActualPerPage(perPage))

OffsetOf(page, perPage) ==
  Wrapped((ActualPage(page) - 1) * ActualPerPage(perPage))

\* gorm writes no OFFSET that is not positive.
Skipped(page, perPage, total) ==
  LET n == OffsetOf(page, perPage) IN IF n <= 0 THEN 0 ELSE Least(n, total)

\* Mutant: the last, shorter page does not count.
TotalPagesDown(total, perPage) == total \div ActualPerPage(perPage)

\* math.Ceil
TotalPages(total, perPage) ==
  (total + ActualPerPage(perPage) - 1) \div ActualPerPage(perPage)

(***************************************************************************)
(* The page statement: some order of the rows by created_at, newest first, *)
(* in which the rows in before come first and those in page next.          *)
(***************************************************************************)
InOrder(A, B) == \A a \in A, b \in B : createdAt[a] >= createdAt[b]

IsPage(page, before, n, perPage) ==
  LET skipped == Skipped(n, perPage, Cardinality(Rows)) IN
  /\ Cardinality(before) = skipped
  /\ Cardinality(page) = Least(ActualPerPage(perPage), Cardinality(Rows) - skipped)
  /\ before \cap page = {}
  /\ InOrder(before, Rows \ before)
  /\ InOrder(page, Rows \ (before \cup page))

(***************************************************************************)
(* A caller asks for page 1, 2, ... up to the total_pages of the last      *)
(* answer.  The histories: the users who were there all along, those who   *)
(* were reported, those reported twice, and what happened meanwhile.       *)
(***************************************************************************)
Tied == \E u, v \in Rows : u # v /\ createdAt[u] = createdAt[v]

NoWalk ==
  [pc |-> "idle", perPage |-> 0, next |-> 1, total |-> 0, stayed |-> {}, seen |-> {},
   twice |-> {}, deletions |-> FALSE, insertions |-> FALSE, late |-> FALSE, tied |-> FALSE]

StartWalk(perPage) ==
  /\ walk.pc \in {"idle", "done"}
  /\ walk' = [NoWalk EXCEPT !.pc = "count", !.perPage = perPage, !.stayed = Rows]
  /\ UNCHANGED createdAt

CountUsers ==
  /\ walk.pc = "count"
  /\ walk' = [walk EXCEPT !.pc = "read", !.total = Cardinality(Rows)]
  /\ UNCHANGED createdAt

\* The page is read and answered.  intToInt32 refuses totals that no int32
\* holds: Internal.
ReadPage ==
  /\ walk.pc = "read"
  /\ TotalPages(walk.total, walk.perPage) <= Int32Max
  /\ \E page, before \in SUBSET Rows :
       /\ IsPage(page, before, walk.next, walk.perPage)
       /\ walk' = [walk EXCEPT
            !.pc = IF walk.next >= TotalPages(walk.total, walk.perPage)
                   THEN "done" ELSE "count",
            !.next = @ + 1,
            !.tied = @ \/ Tied,
            !.seen = @ \cup page,
            !.twice = @ \cup (walk.seen \cap page)]
  /\ UNCHANGED createdAt

GiveUpWalk ==
  /\ walk.pc \in {"count", "read"}
  /\ walk' = NoWalk
  /\ UNCHANGED createdAt

\* CreateUser and DeleteUser of other requests.  A user is created once.
Walking == walk.pc \in {"count", "read"}

InsertRow(u, t) ==
  /\ createdAt[u] = 0
  /\ createdAt' = [createdAt EXCEPT ![u] = t]
  /\ walk' = IF Walking
             THEN [walk EXCEPT !.insertions = TRUE, !.late = @ \/ walk.pc = "read"]
             ELSE walk

DeleteRow(u) ==
  /\ createdAt[u] > 0
  /\ createdAt' = [createdAt EXCEPT ![u] = -1]
  /\ walk' = IF Walking
             THEN [walk EXCEPT !.deletions = TRUE, !.stayed = @ \ {u}]
             ELSE walk

-----------------------------------------------------------------------------
ListingInit ==
  /\ createdAt \in [Listed -> Stamp \cup {0}]
  /\ walk = NoWalk

ListingNext ==
  \/ \E n \in 0 .. MaxPerPage + 1 : StartWalk(n)
  \/ CountUsers
  \/ ReadPage
  \/ GiveUpWalk
  \/ \E u \in Listed, t \in Stamp : InsertRow(u, t)
  \/ \E u \in Listed : DeleteRow(u)

ListingSpec == ListingInit /\ [][ListingNext]_listingVars
-----------------------------------------------------------------------------
(***************************************************************************)
(* Properties.                                                             *)
(***************************************************************************)
\* Every variable holds a value of its type.
ListingTypeOK ==
  /\ createdAt \in [Listed -> Stamp \cup {-1, 0}]
  /\ walk.pc \in {"idle", "count", "read", "done"}
  /\ walk.perPage \in 0 .. MaxPerPage + 1
  /\ walk.twice \subseteq walk.seen
  /\ walk.seen \cup walk.stayed \subseteq Listed

\* Whatever page is asked for when the page statement runs, however large or
\* negative, it skips the pages before that and no row more: gRPC pages
\* always, as no int32 overflows the product; HTTP pages unless
\* (page - 1) * perPage is beyond an int, where the offset wraps.
PagesExact ==
  walk.pc = "read" =>
    \A via \in {"http", "grpc"} :
      \A page \in PageNumber(via), perPage \in 0 .. MaxPerPage + 1 :
        LET total == Cardinality(Rows)
            before == (ActualPage(page) - 1) * ActualPerPage(perPage)
        IN  before <= IntMax \/ via = "grpc"
              => Skipped(page, perPage, total) = Least(before, total)

\* A walk over the pages reports every user who was there all along, unless a
\* user was deleted meanwhile (the pages move up), one was created between
\* the count and the page of a call, or two users had the same created_at.
\* If nobody was created either, it reports nobody twice.
WalkSeesEveryone ==
  walk.pc = "done" /\ ~walk.tied /\ ~walk.deletions =>
    /\ ~walk.late => walk.stayed \subseteq walk.seen
    /\ ~walk.insertions => walk.twice = {}
=============================================================================
