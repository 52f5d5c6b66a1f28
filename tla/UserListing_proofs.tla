------------------------- MODULE UserListing_proofs -------------------------
(***************************************************************************)
(* Theorems about UserListing, for any users, clocks and page sizes.       *)
(***************************************************************************)
EXTENDS UserListing, FiniteSetTheorems, TLAPS

\* The users before u in every order the page statement may choose.
Newer(u) == {v \in Rows : createdAt[v] > createdAt[u]}

PerPage == ActualPerPage(walk.perPage)

\* How many rows the pages read so far held, had the table stood still.
Start == (walk.next - 1) * PerPage

ListingTypes ==
  /\ createdAt \in [Listed -> Stamp \cup {-1, 0}]
  /\ walk \in
       [pc : {"idle", "count", "read", "done"}, perPage : 0 .. MaxPerPage + 1,
        next : Nat \ {0}, total : Nat, stayed : SUBSET Listed, seen : SUBSET Listed,
        twice : SUBSET Listed, deletions : BOOLEAN, insertions : BOOLEAN, late : BOOLEAN,
        tied : BOOLEAN]
  /\ walk.twice \subseteq walk.seen

\* Page numbers stay within an int32; who stayed is in the table, and so is who
\* was seen while nobody is deleted; the count is right until a user is created.
WalkBounds ==
  Walking =>
    /\ walk.next <= Int32Max
    /\ walk.stayed \subseteq Rows
    /\ ~walk.deletions => walk.seen \subseteq Rows
    /\ walk.pc = "read" /\ ~walk.deletions /\ ~walk.late => walk.total = Cardinality(Rows)

\* A user who was not reported yet is behind the pages read so far.
UnseenAhead ==
  Walking /\ ~walk.tied /\ ~walk.deletions =>
    \A u \in walk.stayed \ walk.seen : Start <= Cardinality(Newer(u))

\* A user who was reported is among the rows of the pages read so far, unless
\* users were created.
SeenBehind ==
  Walking /\ ~walk.tied /\ ~walk.deletions /\ ~walk.insertions =>
    /\ walk.twice = {}
    /\ \A u \in walk.seen : Cardinality(Newer(u)) < Start

ListingInv == ListingTypes /\ WalkBounds /\ UnseenAhead /\ SeenBehind /\ WalkSeesEveryone

-----------------------------------------------------------------------------
(***************************************************************************)
(* The arithmetic of a page.                                               *)
(***************************************************************************)
\* Multiplication keeps the order of natural numbers.
LEMMA ProductBound ==
  ASSUME NEW a \in Nat, NEW b \in Nat, NEW A \in Nat, NEW B \in Nat, a <= A, b <= B
  PROVE  a * b \in Nat /\ a * b <= A * B
<1>1. a * b \in Nat /\ a * B \in Nat /\ A * B \in Nat
  OBVIOUS
<1>2. a * b <= a * B
  OBVIOUS
<1>3. a * B <= A * B
  OBVIOUS
<1> QED
  BY <1>1, <1>2, <1>3

\* The remainder of a number that is smaller than the divisor.
LEMMA SmallRemainder ==
  ASSUME NEW x \in Nat, NEW n \in Nat, x < n
  PROVE  x % n = x
OBVIOUS

\* The quotient rounded down is within the divisor of the number.
LEMMA QuotientBounds ==
  ASSUME NEW a \in Nat, NEW b \in Nat \ {0}
  PROVE  /\ a \div b \in Nat
         /\ a < b * (a \div b) + b
OBVIOUS

\* What an int holds is not wrapped.
LEMMA NotWrapped ==
  ASSUME NEW n \in Nat, n <= IntMax
  PROVE  Wrapped(n) = n
<1>1. IntMax \in Nat /\ n + IntMax + 1 \in Nat /\ 2 * (IntMax + 1) \in Nat
  BY ListingAssumption
<1>2. n + IntMax + 1 < 2 * (IntMax + 1)
  BY <1>1
<1>3. (n + IntMax + 1) % (2 * (IntMax + 1)) = n + IntMax + 1
  BY <1>1, <1>2, SmallRemainder
<1> QED
  BY <1>1, <1>3 DEF Wrapped

\* The size of a page is between one and the maximum.
LEMMA PageSize ==
  ASSUME NEW n \in Int
  PROVE  ActualPerPage(n) \in Nat \ {0} /\ ActualPerPage(n) <= MaxPerPage
BY ListingAssumption DEF ActualPerPage

\* A page number is taken for a positive one.
LEMMA PageCount ==
  ASSUME NEW n \in Int
  PROVE  ActualPage(n) \in Nat \ {0}
BY DEF ActualPage

\* No page that an int32 can name is out of the reach of an int.
LEMMA Int32Fits ==
  ASSUME NEW page \in Int, page <= Int32Max, NEW perPage \in Int
  PROVE  (ActualPage(page) - 1) * ActualPerPage(perPage) <= IntMax
<1> DEFINE p == ActualPage(page) - 1
           q == ActualPerPage(perPage)
<1>1. p \in Nat /\ q \in Nat /\ q <= MaxPerPage
  BY PageSize, PageCount
<1>2. p <= Int32Max
  BY ListingAssumption DEF ActualPage
<1>3. Int32Max \in Nat /\ MaxPerPage \in Nat /\ IntMax \in Nat
  BY ListingAssumption
<1>4. p * q \in Nat /\ p * q <= Int32Max * MaxPerPage
  BY <1>1, <1>2, <1>3, ProductBound
<1>5. Int32Max * MaxPerPage <= IntMax /\ Int32Max * MaxPerPage \in Nat
  BY <1>3, ListingAssumption
<1> HIDE DEF p, q
<1>6. p * q <= IntMax
  BY <1>3, <1>4, <1>5
<1> QED
  BY <1>6 DEF p, q

\* The pages before hold a natural number of rows.
LEMMA BeforeIsNat ==
  ASSUME NEW page \in Int, NEW perPage \in Int
  PROVE  (ActualPage(page) - 1) * ActualPerPage(perPage) \in Nat
<1>1. ActualPage(page) - 1 \in Nat
  BY PageCount
<1>2. ActualPerPage(perPage) \in Nat
  BY PageSize
<1> QED
  BY <1>1, <1>2

\* The statement skips the rows of the pages before.
LEMMA SkipsExactly ==
  ASSUME NEW page \in Int, NEW perPage \in Int, NEW total \in Nat,
         (ActualPage(page) - 1) * ActualPerPage(perPage) <= IntMax
  PROVE  Skipped(page, perPage, total)
           = Least((ActualPage(page) - 1) * ActualPerPage(perPage), total)
<1> DEFINE before == (ActualPage(page) - 1) * ActualPerPage(perPage)
<1>1. before \in Nat
  BY BeforeIsNat
<1>2. before <= IntMax
  OBVIOUS
<1>3. OffsetOf(page, perPage) = Wrapped(before)
  BY DEF OffsetOf
<1> HIDE DEF before
<1>4. OffsetOf(page, perPage) = before
  BY <1>1, <1>2, <1>3, NotWrapped
<1>5. Skipped(page, perPage, total) = Least(before, total)
  BY <1>1, <1>4 DEF Skipped, Least
<1> QED
  BY <1>5 DEF before

\* The rows are finitely many.
LEMMA FiniteRows ==
  ASSUME NEW S \in SUBSET Rows
  PROVE  IsFiniteSet(S) /\ Cardinality(S) \in Nat /\ Cardinality(S) <= Cardinality(Rows)
         /\ Cardinality(Rows) \in Nat
<1>1. Rows \in SUBSET Listed /\ IsFiniteSet(Listed)
  BY ListingAssumption DEF Rows
<1>2. IsFiniteSet(Rows)
  BY <1>1, FS_Subset
<1> QED
  BY <1>2, FS_Subset, FS_CardinalityType

\* The page statement skips what it should, in any state.
LEMMA ExactInAnyState == PagesExact
<1> SUFFICES ASSUME NEW via \in {"http", "grpc"}, NEW page \in PageNumber(via),
                    NEW perPage \in 0 .. MaxPerPage + 1,
                    (ActualPage(page) - 1) * ActualPerPage(perPage) <= IntMax \/ via = "grpc"
             PROVE  Skipped(page, perPage, Cardinality(Rows))
                      = Least((ActualPage(page) - 1) * ActualPerPage(perPage),
                              Cardinality(Rows))
  BY DEF PagesExact
<1>1. page \in Int /\ (via = "grpc" => page <= Int32Max) /\ perPage \in Int
  BY ListingAssumption DEF PageNumber
<1>2. (ActualPage(page) - 1) * ActualPerPage(perPage) <= IntMax
  BY <1>1, Int32Fits
<1>3. Cardinality(Rows) \in Nat
  BY FiniteRows
<1> QED
  BY <1>1, <1>2, <1>3, SkipsExactly

\* Every page a caller can name skips the pages before it and no row more.
THEOREM ExactPages == ListingSpec => []PagesExact
BY ExactInAnyState, PTL

-----------------------------------------------------------------------------
(***************************************************************************)
(* A page and the users before it.                                         *)
(***************************************************************************)
\* Fewer users are before u than there are rows.
LEMMA NewerBounds ==
  ASSUME NEW u \in Rows
  PROVE  Cardinality(Newer(u)) \in Nat
<1>1. Newer(u) \in SUBSET Rows
  BY DEF Newer
<1> QED
  BY <1>1, FiniteRows

\* A set of rows without u is smaller than one with it.
LEMMA Smaller ==
  ASSUME NEW S \in SUBSET Rows, NEW u \in S, NEW T \in SUBSET S, u \notin T
  PROVE  Cardinality(T) < Cardinality(S)
<1>1. IsFiniteSet(S) /\ IsFiniteSet(T) /\ Cardinality(S) \in Nat /\ Cardinality(T) \in Nat
  BY FiniteRows
<1>2. Cardinality(T) <= Cardinality(S) /\ (Cardinality(S) = Cardinality(T) => S = T)
  BY <1>1, FS_Subset
<1> QED
  BY <1>1, <1>2

\* created_at of a row is a number.
LEMMA RowStamps == ListingTypes => \A v \in Rows : createdAt[v] \in Nat
<1> SUFFICES ASSUME ListingTypes, NEW v \in Rows PROVE createdAt[v] \in Nat
  OBVIOUS
<1>1. v \in Listed /\ createdAt[v] > 0
  BY DEF Rows
<1>2. createdAt[v] \in Stamp \cup {-1, 0}
  BY <1>1 DEF ListingTypes
<1>3. createdAt[v] \in Stamp
  BY <1>1, <1>2
<1> QED
  BY <1>3, ListingAssumption

\* Where a user is in the table says whether a page of k rows behind off others
\* holds it.
LEMMA PageHolds ==
  ASSUME ListingTypes, NEW page \in SUBSET Rows, NEW before \in SUBSET Rows,
         NEW off \in Nat, NEW k \in Nat \ {0}, NEW u \in Rows,
         Cardinality(before) = Least(off, Cardinality(Rows)),
         Cardinality(page) = Least(k, Cardinality(Rows) - Least(off, Cardinality(Rows))),
         before \cap page = {},
         InOrder(before, Rows \ before),
         InOrder(page, Rows \ (before \cup page))
  PROVE  /\ off <= Cardinality(Newer(u)) => u \notin before
         /\ u \notin before \cup page /\ ~Tied => off + k <= Cardinality(Newer(u))
         /\ u \in page /\ ~Tied => off <= Cardinality(Newer(u))
         /\ u \in page => Cardinality(Newer(u)) < off + k
<1> DEFINE n == Cardinality(Newer(u))
           total == Cardinality(Rows)
           both == before \cup page
<1>1. /\ total \in Nat /\ n \in Nat
      /\ Cardinality(before) \in Nat /\ Cardinality(page) \in Nat
  BY FiniteRows, NewerBounds
<1>2. both \in SUBSET Rows /\ Cardinality(both) = Cardinality(before) + Cardinality(page)
  <2>1. IsFiniteSet(before) /\ IsFiniteSet(page) /\ Cardinality(before \cap page) = 0
    BY FiniteRows, FS_EmptySet
  <2>2. Cardinality(both)
          = Cardinality(before) + Cardinality(page) - Cardinality(before \cap page)
    BY <2>1, FS_Union
  <2>3. both \in SUBSET Rows
    OBVIOUS
  <2> HIDE DEF both
  <2> QED
    BY <1>1, <2>1, <2>2, <2>3
<1>3. \A v \in Rows : createdAt[v] \in Nat
  BY RowStamps
<1>4. Newer(u) \in SUBSET Rows /\ u \notin Newer(u)
  BY <1>3 DEF Newer
<1>5. off <= n => u \notin before
  <2> SUFFICES ASSUME u \in before PROVE n < Cardinality(before)
    BY <1>1 DEF Least
  <2>1. \A v \in Rows \ before : createdAt[u] >= createdAt[v]
    BY DEF InOrder
  <2>2. Newer(u) \in SUBSET before
    BY <1>3, <2>1 DEF Newer
  <2> QED
    BY <1>4, <2>2, Smaller
<1>6. ASSUME u \notin both, ~Tied PROVE off + k <= n
  <2>1. \A v \in both : createdAt[v] >= createdAt[u] /\ createdAt[v] # createdAt[u]
    BY <1>6 DEF InOrder, Tied
  <2>2. both \in SUBSET Newer(u)
    BY <1>2, <1>3, <2>1 DEF Newer
  <2>3. Cardinality(both) <= n
    BY <1>4, <2>2, FiniteRows, FS_Subset
  <2>4. Cardinality(both) < total
    BY <1>2, <1>6, Smaller
  <2> HIDE DEF both, n, total
  <2>5. Cardinality(before) + Cardinality(page) <= n
        /\ Cardinality(before) + Cardinality(page) < total
    BY <1>2, <2>3, <2>4
  <2> QED
    BY <1>1, <2>5 DEF Least, total
<1>7. ASSUME u \in page, ~Tied PROVE off <= n
  <2>1. u \notin before
    BY <1>7
  <2>2. \A v \in before : createdAt[v] >= createdAt[u] /\ createdAt[v] # createdAt[u]
    BY <2>1 , <1>7 DEF InOrder, Tied
  <2>3. before \in SUBSET Newer(u)
    BY <1>3, <2>2 DEF Newer
  <2>4. Cardinality(before) <= n
    BY <1>4, <2>3, FiniteRows, FS_Subset
  <2>5. Cardinality(before) < total
    BY <2>1, Smaller
  <2> QED
    BY <1>1, <2>4, <2>5 DEF Least
<1>8. ASSUME u \in page PROVE n < off + k
  <2>1. \A v \in Rows \ both : createdAt[u] >= createdAt[v]
    BY <1>8 DEF InOrder
  <2>2. Newer(u) \in SUBSET both
    BY <1>3, <2>1 DEF Newer
  <2>3. n < Cardinality(both)
    BY <1>2, <1>4, <1>8, <2>2, Smaller
  <2> HIDE DEF both, n, total
  <2>4. n < Cardinality(before) + Cardinality(page)
    BY <1>2, <2>3
  <2> QED
    BY <1>1, <2>4 DEF Least, total
<1> QED
  BY <1>5, <1>6, <1>7, <1>8

-----------------------------------------------------------------------------
(***************************************************************************)
(* The walk.                                                               *)
(***************************************************************************)
\* Where the pages read so far end, before and after one more.
LEMMA StartOfNext ==
  ASSUME ListingTypes
  PROVE  /\ PerPage \in Nat \ {0}
         /\ Start \in Nat
         /\ (walk.next + 1 - 1) * PerPage = Start + PerPage
         /\ Start + PerPage = walk.next * PerPage
<1>1. walk.next \in Nat \ {0} /\ walk.perPage \in Int
  BY DEF ListingTypes
<1>2. PerPage \in Nat \ {0}
  BY <1>1, PageSize DEF PerPage
<1> QED
  BY <1>1, <1>2 DEF Start

\* A page that is the last of all ends behind every row.
LEMMA LastPage ==
  ASSUME ListingTypes, walk.next >= TotalPages(walk.total, walk.perPage)
  PROVE  walk.total <= Start + PerPage
<1> DEFINE a == walk.total + PerPage - 1
           q == a \div PerPage
<1>1. /\ walk.next \in Nat /\ walk.total \in Nat /\ PerPage \in Nat \ {0}
      /\ Start + PerPage = walk.next * PerPage
  BY StartOfNext DEF ListingTypes
<1>2. a \in Nat
  BY <1>1
<1>3. q = TotalPages(walk.total, walk.perPage)
  BY DEF TotalPages, PerPage
<1> HIDE DEF q, a
<1>4. q \in Nat /\ a < PerPage * q + PerPage
  BY <1>1, <1>2, QuotientBounds DEF q
<1>5. q * PerPage <= walk.next * PerPage
  BY <1>1, <1>3, <1>4, ProductBound
<1>6. q * PerPage = PerPage * q /\ q * PerPage \in Nat
  BY <1>1, <1>4
<1>7. walk.total <= q * PerPage
  BY <1>1, <1>4, <1>6 DEF a
<1>8. walk.total <= walk.next * PerPage
  BY <1>1, <1>5, <1>6, <1>7
<1> QED
  BY <1>1, <1>8

\* The invariant holds before the first walk.
LEMMA ListingStarts == ListingInit => ListingInv
<1> SUFFICES ASSUME ListingInit PROVE ListingInv
  OBVIOUS
<1>1. ListingTypes
  BY ListingAssumption DEF ListingInit, ListingTypes, NoWalk
<1>2. WalkBounds /\ UnseenAhead /\ SeenBehind /\ WalkSeesEveryone
  BY DEF ListingInit, NoWalk, WalkBounds, UnseenAhead, SeenBehind, WalkSeesEveryone, Walking
<1> QED
  BY <1>1, <1>2 DEF ListingInv

\* A walk starts with nobody behind it.
LEMMA StartKeeps ==
  ASSUME ListingInv, NEW n \in 0 .. MaxPerPage + 1, StartWalk(n)
  PROVE  ListingInv'
<1>1. /\ walk' = [NoWalk EXCEPT !.pc = "count", !.perPage = n, !.stayed = Rows]
      /\ createdAt' = createdAt
      /\ Rows' = Rows
  BY DEF StartWalk, Rows
<1>2. ListingTypes'
  <2>1. walk' = [pc |-> "count", perPage |-> n, next |-> 1, total |-> 0, stayed |-> Rows,
                 seen |-> {}, twice |-> {}, deletions |-> FALSE, insertions |-> FALSE,
                 late |-> FALSE, tied |-> FALSE]
    BY <1>1 DEF NoWalk
  <2>2. Rows \in SUBSET Listed
    BY DEF Rows
  <2>3. createdAt' \in [Listed -> Stamp \cup {-1, 0}]
    BY <1>1 DEF ListingInv, ListingTypes
  <2>4. n \in 0 .. MaxPerPage + 1 /\ 1 \in Nat \ {0} /\ 0 \in Nat
    OBVIOUS
  <2> HIDE DEF Rows
  <2> QED
    BY <2>1, <2>2, <2>3, <2>4 DEF ListingTypes
<1>3. WalkBounds' /\ WalkSeesEveryone'
  BY <1>1, ListingAssumption DEF WalkBounds, WalkSeesEveryone, NoWalk
<1>4. Start' = 0
  <2>1. ActualPerPage(n) \in Nat
    BY ListingAssumption, PageSize
  <2>2. Start' = (1 - 1) * ActualPerPage(n)
    BY <1>1 DEF Start, PerPage, NoWalk, ActualPerPage
  <2> QED
    BY <2>1, <2>2
<1>5. \A u \in Rows : Cardinality(Newer(u)') \in Nat
  BY <1>1, NewerBounds DEF Newer
<1>6. UnseenAhead' /\ SeenBehind'
  BY <1>1, <1>4, <1>5 DEF UnseenAhead, SeenBehind, NoWalk
<1> QED
  BY <1>2, <1>3, <1>6 DEF ListingInv

\* Counting, and giving up.
LEMMA CountKeeps ==
  ASSUME ListingInv, CountUsers \/ GiveUpWalk
  PROVE  ListingInv'
<1>1. createdAt' = createdAt /\ Rows' = Rows /\ \A u \in Rows : Newer(u)' = Newer(u)
  BY DEF CountUsers, GiveUpWalk, Rows, Newer
<1>2. CASE CountUsers
  <2>1. /\ walk.pc = "count"
        /\ walk' = [walk EXCEPT !.pc = "read", !.total = Cardinality(Rows)]
    BY <1>2 DEF CountUsers
  <2>2. Cardinality(Rows) \in Nat
    BY FiniteRows
  <2>3. ListingTypes'
    BY <1>1, <2>1, <2>2 DEF ListingInv, ListingTypes
  <2>4. WalkBounds' /\ WalkSeesEveryone'
    BY <1>1, <2>1 DEF ListingInv, ListingTypes, WalkBounds, WalkSeesEveryone, Walking
  <2>5. Start' = Start /\ Walking
    BY <2>1 DEF ListingInv, ListingTypes, Start, PerPage, ActualPerPage, Walking
  <2>6. UnseenAhead'
    BY <1>1, <2>1, <2>5 DEF ListingInv, ListingTypes, UnseenAhead, WalkBounds
  <2>7. SeenBehind'
    BY <1>1, <2>1, <2>5 DEF ListingInv, ListingTypes, SeenBehind, WalkBounds
  <2> QED
    BY <2>3, <2>4, <2>6, <2>7 DEF ListingInv
<1>3. CASE GiveUpWalk
  <2>1. walk' = NoWalk
    BY <1>3 DEF GiveUpWalk
  <2>2. ListingTypes'
    BY <1>1, <2>1, ListingAssumption DEF ListingInv, ListingTypes, NoWalk
  <2>3. WalkBounds' /\ UnseenAhead' /\ SeenBehind' /\ WalkSeesEveryone'
    BY <2>1 DEF WalkBounds, UnseenAhead, SeenBehind, WalkSeesEveryone, NoWalk, Walking
  <2> QED
    BY <2>2, <2>3 DEF ListingInv
<1> QED
  BY <1>2, <1>3

\* One page is read.
LEMMA ReadKeeps ==
  ASSUME ListingInv, ReadPage
  PROVE  ListingInv'
<1> USE DEF ListingInv
<1>1. PICK page \in SUBSET Rows, before \in SUBSET Rows :
        /\ IsPage(page, before, walk.next, walk.perPage)
        /\ walk' = [walk EXCEPT
             !.pc = IF walk.next >= TotalPages(walk.total, walk.perPage)
                    THEN "done" ELSE "count",
             !.next = @ + 1,
             !.tied = @ \/ Tied,
             !.seen = @ \cup page,
             !.twice = @ \cup (walk.seen \cap page)]
  BY DEF ReadPage
<1>2. /\ walk.pc = "read" /\ Walking /\ createdAt' = createdAt /\ Rows' = Rows
      /\ TotalPages(walk.total, walk.perPage) <= Int32Max
      /\ \A u \in Rows : Newer(u)' = Newer(u)
  BY DEF ReadPage, Walking, Rows, Newer
<1>3. /\ walk.next \in Nat \ {0} /\ walk.next <= Int32Max /\ walk.perPage \in Int
      /\ walk.total \in Nat
      /\ walk.stayed \subseteq Rows
      /\ ~walk.deletions => walk.seen \subseteq Rows
  BY <1>2 DEF ListingTypes, WalkBounds
<1>4. /\ walk'.pc = IF walk.next >= TotalPages(walk.total, walk.perPage)
                    THEN "done" ELSE "count"
      /\ walk'.next = walk.next + 1
      /\ walk'.tied = (walk.tied \/ Tied)
      /\ walk'.seen = walk.seen \cup page
      /\ walk'.twice = walk.twice \cup (walk.seen \cap page)
      /\ walk'.perPage = walk.perPage /\ walk'.total = walk.total
      /\ walk'.stayed = walk.stayed /\ walk'.deletions = walk.deletions
      /\ walk'.insertions = walk.insertions /\ walk'.late = walk.late
  BY <1>1 DEF ListingTypes
<1>5. ListingTypes'
  <2>1. page \in SUBSET Listed /\ Tied \in BOOLEAN
    BY DEF Rows, Tied
  <2>2. walk'.twice \subseteq walk'.seen
    BY <1>4 DEF ListingTypes
  <2>3. /\ walk.seen \cup page \in SUBSET Listed
        /\ walk.twice \cup (walk.seen \cap page) \in SUBSET Listed
        /\ walk.next + 1 \in Nat \ {0}
        /\ (walk.tied \/ Tied) \in BOOLEAN
        /\ walk'.pc \in {"idle", "count", "read", "done"}
    BY <1>4, <2>1 DEF ListingTypes
  <2> HIDE DEF Tied
  <2> QED
    BY <1>1, <1>2, <2>2, <2>3 DEF ListingTypes
<1>6. /\ Start \in Nat /\ PerPage \in Nat \ {0}
      /\ Start' = Start + PerPage
  <2>1. PerPage' = PerPage
    BY <1>4 DEF PerPage, ActualPerPage
  <2>2. Start' = (walk.next + 1 - 1) * PerPage
    <3>1. Start' = (walk'.next - 1) * PerPage'
      BY DEF Start
    <3>2. walk'.next = walk.next + 1
      BY <1>4
    <3>3. walk'.next - 1 = walk.next + 1 - 1
      BY <1>3, <3>2
    <3> QED
      BY <2>1, <3>1, <3>3
  <2>3. /\ PerPage \in Nat \ {0}
        /\ Start \in Nat
        /\ (walk.next + 1 - 1) * PerPage = Start + PerPage
    BY StartOfNext
  <2> QED
    BY <2>2, <2>3
<1>7. /\ Cardinality(before) = Least(Start, Cardinality(Rows))
      /\ Cardinality(page)
           = Least(PerPage, Cardinality(Rows) - Least(Start, Cardinality(Rows)))
  <2>1. ActualPage(walk.next) = walk.next
    BY <1>3 DEF ActualPage
  <2>2. (ActualPage(walk.next) - 1) * ActualPerPage(walk.perPage) <= IntMax
    BY <1>3, Int32Fits
  <2>3. Cardinality(Rows) \in Nat
    BY FiniteRows
  <2>4. Skipped(walk.next, walk.perPage, Cardinality(Rows)) = Least(Start, Cardinality(Rows))
    BY <1>3, <2>1, <2>2, <2>3, SkipsExactly DEF Start, PerPage
  <2> QED
    BY <1>1, <2>4 DEF IsPage, PerPage
<1>8. ASSUME NEW u \in Rows
      PROVE  /\ Start <= Cardinality(Newer(u)) => u \notin before
             /\ u \notin before \cup page /\ ~Tied
                  => Start + PerPage <= Cardinality(Newer(u))
             /\ u \in page /\ ~Tied => Start <= Cardinality(Newer(u))
             /\ u \in page => Cardinality(Newer(u)) < Start + PerPage
  <2>1. /\ before \cap page = {}
        /\ InOrder(before, Rows \ before)
        /\ InOrder(page, Rows \ (before \cup page))
    BY <1>1 DEF IsPage
  <2> QED
    BY <1>6, <1>7, <2>1, PageHolds
<1>9. ASSUME ~walk'.tied, ~walk.deletions, NEW u \in walk.stayed \ walk'.seen
      PROVE  Start + PerPage <= Cardinality(Newer(u))
  <2>1. Start <= Cardinality(Newer(u)) /\ u \in Rows /\ u \notin page /\ ~Tied
    BY <1>2, <1>3, <1>4, <1>9 DEF UnseenAhead
  <2> QED
    BY <1>8, <2>1
<1>10. ASSUME ~walk'.tied, ~walk.deletions, ~walk.insertions
       PROVE  /\ walk'.twice = {}
              /\ \A u \in walk'.seen : Cardinality(Newer(u)) < Start + PerPage
  <2>1. /\ ~walk.tied /\ ~Tied /\ walk.twice = {}
        /\ \A u \in walk.seen : u \in Rows /\ Cardinality(Newer(u)) < Start
    BY <1>2, <1>3, <1>4, <1>10 DEF SeenBehind
  <2>2. \A u \in Rows : Cardinality(Newer(u)) \in Nat
    BY NewerBounds
  <2>3. walk.seen \cap page = {}
    BY <1>6, <1>8, <2>1, <2>2
  <2>4. \A u \in walk.seen : Cardinality(Newer(u)) < Start + PerPage
    BY <1>6, <2>1, <2>2
  <2>5. \A u \in page : Cardinality(Newer(u)) < Start + PerPage
    BY <1>8
  <2> QED
    BY <1>4, <2>1, <2>3, <2>4, <2>5
<1>11. WalkBounds'
  <2>1. walk'.pc = "count" => walk.next + 1 <= Int32Max
    <3>1. TotalPages(walk.total, walk.perPage) \in Nat
      <4>1. PerPage \in Nat \ {0} /\ walk.total + PerPage - 1 \in Nat
        BY <1>3, <1>6
      <4> QED
        BY <4>1, QuotientBounds DEF TotalPages, PerPage
    <3>2. Int32Max \in Nat
      BY ListingAssumption
    <3> QED
      BY <1>2, <1>3, <1>4, <3>1, <3>2
  <2> QED
    BY <1>2, <1>3, <1>4, <2>1 DEF WalkBounds, Walking
<1>12. UnseenAhead' /\ SeenBehind'
  <2>1. \A u \in walk.stayed : u \in Rows
    BY <1>3
  <2>2. ~walk.deletions => \A u \in walk'.seen : u \in Rows
    BY <1>3, <1>4
  <2>3. UnseenAhead'
    BY <1>2, <1>4, <1>6, <1>9, <2>1 DEF UnseenAhead
  <2>4. SeenBehind'
    BY <1>2, <1>4, <1>6, <1>10, <2>2 DEF SeenBehind
  <2> QED
    BY <2>3, <2>4
<1>13. WalkSeesEveryone'
  <2> SUFFICES ASSUME walk'.pc = "done", ~walk'.tied, ~walk.deletions
               PROVE  /\ ~walk.late => walk.stayed \subseteq walk'.seen
                      /\ ~walk.insertions => walk'.twice = {}
    BY <1>4 DEF WalkSeesEveryone
  <2>1. ASSUME ~walk.late PROVE walk.stayed \subseteq walk'.seen
    <3>1. walk.total = Cardinality(Rows)
      BY <1>2, <2>1 DEF WalkBounds
    <3>2. Cardinality(Rows) <= Start + PerPage
      BY <1>4, <3>1, LastPage
    <3> SUFFICES ASSUME NEW u \in walk.stayed \ walk'.seen PROVE FALSE
      OBVIOUS
    <3>3. u \in Rows /\ Start + PerPage <= Cardinality(Newer(u))
      BY <1>3, <1>9
    <3>4. Newer(u) \in SUBSET Rows /\ u \notin Newer(u)
      <4>1. createdAt[u] \in Nat
        BY <3>3, RowStamps
      <4> QED
        BY <4>1 DEF Newer
    <3>5. Cardinality(Newer(u)) < Cardinality(Rows)
      BY <3>3, <3>4, Smaller
    <3>6. Cardinality(Rows) \in Nat /\ Cardinality(Newer(u)) \in Nat
      BY <3>3, FiniteRows, NewerBounds
    <3> QED
      BY <1>6, <3>2, <3>3, <3>5, <3>6
  <2> QED
    BY <1>10, <2>1
<1> QED
  BY <1>5, <1>11, <1>12, <1>13

\* Users who are created move nobody forward.
LEMMA InsertKeeps ==
  ASSUME ListingInv, NEW w \in Listed, NEW t \in Stamp, InsertRow(w, t)
  PROVE  ListingInv'
<1> USE DEF ListingInv, InsertRow
<1>1. /\ t \in Nat \ {0} /\ createdAt[w] = 0
      /\ createdAt' = [createdAt EXCEPT ![w] = t]
      /\ createdAt \in [Listed -> Stamp \cup {-1, 0}]
  BY ListingAssumption DEF ListingTypes
<1>2. /\ w \notin Rows /\ Rows \subseteq Rows'
      /\ \A u \in Rows : createdAt'[u] = createdAt[u]
  BY <1>1 DEF Rows
<1>3. ASSUME NEW u \in Rows PROVE Cardinality(Newer(u)) <= Cardinality(Newer(u)')
  <2>1. Newer(u) \subseteq Newer(u)'
    BY <1>2 DEF Newer
  <2>2. IsFiniteSet(Newer(u)')
    <3>1. Newer(u)' \in SUBSET Listed /\ IsFiniteSet(Listed)
      BY ListingAssumption DEF Newer, Rows
    <3> QED
      BY <3>1, FS_Subset
  <2> QED
    BY <2>1, <2>2, FS_Subset
<1>4. ListingTypes'
  BY <1>1 DEF ListingTypes
<1>5. CASE Walking
  <2>1. walk' = [walk EXCEPT !.insertions = TRUE, !.late = @ \/ walk.pc = "read"]
    BY <1>5
  <2>2. /\ walk'.insertions /\ walk'.late = (walk.late \/ walk.pc = "read")
        /\ walk'.pc = walk.pc /\ walk'.perPage = walk.perPage /\ walk'.next = walk.next
        /\ walk'.total = walk.total /\ walk'.stayed = walk.stayed
        /\ walk'.seen = walk.seen /\ walk'.twice = walk.twice
        /\ walk'.deletions = walk.deletions /\ walk'.tied = walk.tied
    BY <2>1 DEF ListingTypes
  <2>3. WalkBounds'
    BY <1>2, <1>5, <2>2 DEF WalkBounds, Walking
  <2>4. Start' = Start /\ Start \in Nat
    BY <2>2, StartOfNext DEF Start, PerPage, ActualPerPage
  <2>5. UnseenAhead'
    <3> SUFFICES ASSUME ~walk.tied, ~walk.deletions, NEW u \in walk.stayed \ walk.seen
                 PROVE  Start <= Cardinality(Newer(u)')
      BY <2>2, <2>4 DEF UnseenAhead
    <3>1. u \in Rows /\ Start <= Cardinality(Newer(u))
      BY <1>5 DEF WalkBounds, UnseenAhead
    <3>2. Cardinality(Newer(u)) \in Nat /\ Cardinality(Newer(u)') \in Nat
      <4>1. Newer(u)' \in SUBSET Listed /\ IsFiniteSet(Listed)
        BY ListingAssumption DEF Newer, Rows
      <4> QED
        BY <3>1, <4>1, NewerBounds, FS_Subset, FS_CardinalityType
    <3> QED
      BY <1>3, <2>4, <3>1, <3>2
  <2>6. SeenBehind' /\ WalkSeesEveryone'
    BY <1>5, <2>2 DEF SeenBehind, WalkSeesEveryone, Walking
  <2> QED
    BY <1>4, <2>3, <2>5, <2>6
<1>6. CASE ~Walking
  <2>1. walk' = walk /\ ~Walking'
    BY <1>6 DEF Walking
  <2>2. WalkBounds' /\ UnseenAhead' /\ SeenBehind' /\ WalkSeesEveryone'
    BY <2>1 DEF WalkBounds, UnseenAhead, SeenBehind, WalkSeesEveryone
  <2> QED
    BY <1>4, <2>2
<1> QED
  BY <1>5, <1>6

\* A deletion during the walk is noted.
LEMMA DeleteKeeps ==
  ASSUME ListingInv, NEW w \in Listed, DeleteRow(w)
  PROVE  ListingInv'
<1> USE DEF ListingInv, DeleteRow
<1>1. /\ createdAt' = [createdAt EXCEPT ![w] = -1]
      /\ createdAt \in [Listed -> Stamp \cup {-1, 0}]
  BY DEF ListingTypes
<1>2. Rows \ {w} \subseteq Rows'
  BY <1>1 DEF Rows
<1>3. ListingTypes'
  BY <1>1 DEF ListingTypes
<1>4. CASE Walking
  <2>1. walk' = [walk EXCEPT !.deletions = TRUE, !.stayed = @ \ {w}]
    BY <1>4
  <2>2. /\ walk'.deletions /\ walk'.stayed = walk.stayed \ {w}
        /\ walk'.pc = walk.pc /\ walk'.next = walk.next
    BY <2>1 DEF ListingTypes
  <2>3. WalkBounds'
    BY <1>2, <1>4, <2>2 DEF WalkBounds
  <2>4. UnseenAhead' /\ SeenBehind' /\ WalkSeesEveryone'
    BY <2>2 DEF UnseenAhead, SeenBehind, WalkSeesEveryone
  <2> QED
    BY <1>3, <2>3, <2>4
<1>5. CASE ~Walking
  <2>1. walk' = walk /\ ~Walking'
    BY <1>5 DEF Walking
  <2>2. WalkBounds' /\ UnseenAhead' /\ SeenBehind' /\ WalkSeesEveryone'
    BY <2>1 DEF WalkBounds, UnseenAhead, SeenBehind, WalkSeesEveryone
  <2> QED
    BY <1>3, <2>2
<1> QED
  BY <1>4, <1>5

\* The invariant holds in every reachable state.
THEOREM ListingInvariance == ListingSpec => []ListingInv
<1>1. ListingInv /\ [ListingNext]_listingVars => ListingInv'
  <2> SUFFICES ASSUME ListingInv, [ListingNext]_listingVars PROVE ListingInv'
    OBVIOUS
  <2>1. CASE UNCHANGED listingVars
    <3>1. createdAt' = createdAt /\ walk' = walk
      BY <2>1 DEF listingVars
    <3>2. Rows' = Rows /\ PerPage' = PerPage /\ \A u : Newer(u)' = Newer(u)
      BY <3>1 DEF Rows, PerPage, ActualPerPage, Newer
    <3>3. Start' = Start /\ Walking' = Walking
      BY <3>1, <3>2 DEF Start, Walking
    <3> QED
      BY <3>1, <3>2, <3>3 DEF ListingInv, ListingTypes, WalkBounds, UnseenAhead, SeenBehind,
                              WalkSeesEveryone
  <2> QED
    BY <2>1, StartKeeps, CountKeeps, ReadKeeps, InsertKeeps, DeleteKeeps DEF ListingNext
<1> QED
  BY <1>1, ListingStarts, PTL DEF ListingSpec

\* A walk over the pages misses nobody and reports nobody twice, but for the
\* changes of the table that it names.
THEOREM CompleteWalks == ListingSpec => []WalkSeesEveryone
<1>1. ListingInv => WalkSeesEveryone
  BY DEF ListingInv
<1> QED
  BY <1>1, ListingInvariance, PTL

\* The part of UserListing in MCRequestPath's type invariant; a walk counts and
\* reports users of the table only.
THEOREM ListingKeepsTypes == ListingSpec => []ListingTypeOK
<1>1. ListingInv => ListingTypeOK
  BY DEF ListingInv, ListingTypes, ListingTypeOK
<1> QED
  BY <1>1, ListingInvariance, PTL
=============================================================================
