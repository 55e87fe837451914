------------------------ MODULE DeliveryPagesProofs -------------------------
(***************************************************************************)
(* Theorems about list_deliveries for every page limit and any number of   *)
(* deliveries: a listing returns nothing twice and misses nothing that     *)
(* matched all through it.  A page ends where the cursor says, because     *)
(* the rows of a page are all the matching rows down to its last one       *)
(* (FirstOf); what is created or ceases to match later is on the side of   *)
(* the cursor where it was, because ids never change.                      *)
(***************************************************************************)
EXTENDS DeliveryPages, LedgerEvidenceProofs, FiniteSetTheorems

-----------------------------------------------------------------------------
(* The first rows of an ordered set *)

\* A finite set that is not empty has an element that no other precedes.
LEMMA NoneBefore ==
    ASSUME NEW S, IsFiniteSet(S), S # {}, NEW R,
           \A x \in S : <<x, x>> \notin R,
           \A x, y, z \in S : <<x, y>> \in R /\ <<y, z>> \in R => <<x, z>> \in R
    PROVE  \E m \in S : \A x \in S : <<x, m>> \notin R
<1> DEFINE Before(d) == {x \in S : <<x, d>> \in R}
           Sets == {Before(d) : d \in S}
<1>1. IsWellFoundedOn(StrictSubsetOrdering(S), SUBSET S)
  <2>1. FiniteSubsetsOf(S) = SUBSET S
    BY FS_FiniteSubsetsOfFinite
  <2> QED
    BY <2>1, FS_StrictSubsetOrderingWellFounded
<1>2. Sets \subseteq SUBSET S /\ Sets # {}
  <2>1. \A d \in S : Before(d) \in SUBSET S /\ Before(d) \in Sets
    OBVIOUS
  <2> HIDE DEF Before
  <2> QED
    BY <2>1
<1>3. PICK T \in Sets : \A U \in Sets : ~(<<U, T>> \in StrictSubsetOrdering(S))
  <2> HIDE DEF Sets
  <2> QED
    BY <1>1, <1>2, WFMin
<1>4. PICK m \in S : T = Before(m)
  BY <1>3
<1>5. ASSUME NEW x \in S, <<x, m>> \in R
      PROVE  FALSE
  <2>1. Before(x) \subseteq Before(m)
    BY <1>5
  <2>2. x \in Before(m) /\ x \notin Before(x)
    BY <1>5
  <2>3. Before(x) \in Sets /\ Before(x) \in SUBSET S /\ Before(m) \in SUBSET S
    OBVIOUS
  <2> HIDE DEF Before, Sets
  <2>4. <<Before(x), T>> \in StrictSubsetOrdering(S)
    BY <1>4, <2>1, <2>2, <2>3 DEF StrictSubsetOrdering
  <2> QED
    BY <1>3, <2>3, <2>4
<1> QED
  BY <1>5

LEMMA Largest ==
    ASSUME NEW S, IsFiniteSet(S), S # {}, S \subseteq Nat
    PROVE  \E m \in S : \A x \in S : x <= m
<1> DEFINE R == {p \in Nat \X Nat : p[1] > p[2]}
<1>1. \A x, y \in Nat : <<x, y>> \in R <=> x > y
  OBVIOUS
<1>2. \A x \in S : x \in Nat
  OBVIOUS
<1> HIDE DEF R
<1>3. /\ \A x \in S : <<x, x>> \notin R
      /\ \A x, y, z \in S : <<x, y>> \in R /\ <<y, z>> \in R => <<x, z>> \in R
  BY <1>1, <1>2
<1>4. PICK m \in S : \A x \in S : <<x, m>> \notin R
  BY <1>3, NoneBefore
<1>5. ASSUME NEW x \in S PROVE x <= m
  <2>1. x \in Nat /\ m \in Nat /\ ~(x > m)
    BY <1>1, <1>2, <1>4
  <2> QED
    BY <2>1
<1> QED
  BY <1>5

LEMMA Smallest ==
    ASSUME NEW S, IsFiniteSet(S), S # {}, S \subseteq Nat
    PROVE  LastOf(S) \in S /\ \A x \in S : LastOf(S) <= x
<1> DEFINE R == {p \in Nat \X Nat : p[1] < p[2]}
<1>1. \A x, y \in Nat : <<x, y>> \in R <=> x < y
  OBVIOUS
<1>2. \A x \in S : x \in Nat
  OBVIOUS
<1> HIDE DEF R
<1>3. /\ \A x \in S : <<x, x>> \notin R
      /\ \A x, y, z \in S : <<x, y>> \in R /\ <<y, z>> \in R => <<x, z>> \in R
  BY <1>1, <1>2
<1>4. PICK m \in S : \A x \in S : <<x, m>> \notin R
  BY <1>3, NoneBefore
<1>5. ASSUME NEW x \in S PROVE m <= x
  <2>1. x \in Nat /\ m \in Nat /\ ~(x < m)
    BY <1>1, <1>2, <1>4
  <2> QED
    BY <2>1
<1> QED
  BY <1>5 DEF LastOf

\* The larger elements are counted for each element, and there are fewer of
\* them for a larger one.
LEMMA LargerOnes ==
    ASSUME NEW S, IsFiniteSet(S), S \subseteq Nat, NEW c \in Nat
    PROVE  /\ IsFiniteSet({e \in S : e > c}) /\ Cardinality({e \in S : e > c}) \in Nat
           /\ \A d \in S : c <= d =>
                Cardinality({e \in S : e > d}) <= Cardinality({e \in S : e > c})
<1>1. IsFiniteSet({e \in S : e > c}) /\ Cardinality({e \in S : e > c}) \in Nat
  BY FS_Subset, FS_CardinalityType
<1>2. ASSUME NEW d \in S, c <= d
      PROVE  Cardinality({e \in S : e > d}) <= Cardinality({e \in S : e > c})
  <2>1. \A e \in S : e > d => e > c
    <3> \A x \in S : x \in Int
      OBVIOUS
    <3> QED BY <1>2
  <2>2. {e \in S : e > d} \in SUBSET {e \in S : e > c}
    BY <2>1, Zenon
  <2> QED
    BY <1>1, <2>2, FS_Subset
<1> QED
  BY <1>1, <1>2

\* The first n elements are from the set, with each element all larger ones are
\* among them, and there are some.
LEMMA FirstAreOnTop ==
    ASSUME NEW S, IsFiniteSet(S), S \subseteq Nat, NEW n \in Nat \ {0}
    PROVE  /\ FirstOf(S, n) \subseteq S /\ IsFiniteSet(FirstOf(S, n))
           /\ \A c \in FirstOf(S, n), d \in S : c <= d => d \in FirstOf(S, n)
           /\ S # {} => FirstOf(S, n) # {}
<1>1. FirstOf(S, n) \subseteq S /\ IsFiniteSet(FirstOf(S, n))
  <2>1. FirstOf(S, n) \in SUBSET S
    BY DEF FirstOf
  <2> QED
    BY <2>1, FS_Subset
<1>2. ASSUME NEW c \in FirstOf(S, n), NEW d \in S, c <= d
      PROVE  d \in FirstOf(S, n)
  <2>1. c \in Nat /\ Cardinality({e \in S : e > c}) < n
    BY <1>1 DEF FirstOf
  <2>2. /\ Cardinality({e \in S : e > d}) <= Cardinality({e \in S : e > c})
        /\ Cardinality({e \in S : e > d}) \in Nat /\ Cardinality({e \in S : e > c}) \in Nat
    BY <1>2, <2>1, LargerOnes
  <2>3. Cardinality({e \in S : e > d}) < n
    BY <2>1, <2>2
  <2> QED
    BY <2>3 DEF FirstOf
<1>3. ASSUME S # {} PROVE FirstOf(S, n) # {}
  <2>1. PICK m \in S : \A x \in S : x <= m
    BY <1>3, Largest
  <2>2. \A e \in S : ~(e > m)
    <3> \A x \in S : x \in Int
      OBVIOUS
    <3> QED BY <2>1
  <2>3. {e \in S : e > m} = {}
    BY <2>2, Zenon
  <2>4. Cardinality({e \in S : e > m}) < n
    BY <2>3, FS_EmptySet
  <2> QED
    BY <2>4 DEF FirstOf
<1> QED
  BY <1>1, <1>2, <1>3

\* Fewer than n first elements are all there are: the largest of the others would
\* be among the first.
LEMMA FewAreAll ==
    ASSUME NEW S, IsFiniteSet(S), S \subseteq Nat, NEW n \in Nat \ {0},
           Cardinality(FirstOf(S, n)) < n
    PROVE  FirstOf(S, n) = S
<1>1. FirstOf(S, n) \subseteq S /\ IsFiniteSet(FirstOf(S, n))
  BY FirstAreOnTop
<1> SUFFICES ASSUME S \ FirstOf(S, n) # {} PROVE FALSE
  BY <1>1
<1>2. PICK m \in S \ FirstOf(S, n) : \A x \in S \ FirstOf(S, n) : x <= m
  <2>1. IsFiniteSet(S \ FirstOf(S, n))
    BY FS_Difference
  <2> QED
    BY <2>1, Largest
<1>3. {e \in S : e > m} \in SUBSET FirstOf(S, n)
  <2>1. \A e \in S : e > m => e \in FirstOf(S, n)
    <3> \A x \in S : x \in Int
      OBVIOUS
    <3> QED BY <1>2
  <2> QED
    BY <2>1, Zenon
<1>4. Cardinality({e \in S : e > m}) <= Cardinality(FirstOf(S, n))
  BY <1>1, <1>3, FS_Subset
<1>5. Cardinality({e \in S : e > m}) \in Nat /\ Cardinality(FirstOf(S, n)) \in Nat
  BY <1>1, <1>2, LargerOnes, FS_CardinalityType
<1>6. Cardinality({e \in S : e > m}) < n
  BY <1>4, <1>5
<1> QED
  BY <1>2, <1>6 DEF FirstOf

\* No more than n elements are all among the first n.
LEMMA AllAreFirst ==
    ASSUME NEW S, IsFiniteSet(S), S \subseteq Nat, NEW n \in Nat, Cardinality(S) <= n
    PROVE  FirstOf(S, n) = S
<1> SUFFICES ASSUME NEW d \in S PROVE Cardinality({e \in S : e > d}) < n
  BY DEF FirstOf
<1>1. IsFiniteSet(S \ {d}) /\ Cardinality(S \ {d}) = Cardinality(S) - 1
  BY FS_RemoveElement
<1>2. {e \in S : e > d} \in SUBSET (S \ {d})
  OBVIOUS
<1>3. Cardinality({e \in S : e > d}) <= Cardinality(S \ {d})
  BY <1>1, <1>2, FS_Subset
<1>4. Cardinality({e \in S : e > d}) \in Nat /\ Cardinality(S) \in Nat
  BY LargerOnes, FS_CardinalityType
<1> QED
  BY <1>1, <1>3, <1>4

-----------------------------------------------------------------------------
(* The inductive invariant.                                                  *)

\* The rows of the table.
Stored == {d \in Deliveries : status[d] # "absent"}

PageType ==
    /\ page \in [stage  : {"idle", "open", "done"},
                 filter : Statuses \cup {NoFilter},
                 cursor : Deliveries \cup {NoCursor}]
    /\ listed \in [Deliveries -> 0..1]
    /\ steady \subseteq Deliveries

\* While a listing is open, what was returned is at or above its cursor, and
\* what matched all through it and is there has been returned.
ListingShape ==
    /\ page.stage = "idle" => steady = {} /\ \A d \in Deliveries : listed[d] = 0
    /\ page.stage # "idle" => \A d \in steady : Matches(d, page.filter)
    /\ page.stage = "open" =>
         \A d \in Deliveries :
            /\ listed[d] = 1 => page.cursor # NoCursor /\ page.cursor <= d
            /\ d \in steady /\ page.cursor # NoCursor /\ page.cursor <= d => listed[d] = 1
    /\ page.stage = "done" => \A d \in steady : listed[d] = 1

PageInvariant == IsFiniteSet(Stored) /\ PageType /\ ListingShape

LEMMA PageInitHolds == PageInit => PageInvariant
<1> SUFFICES ASSUME PageInit PROVE PageInvariant
  OBVIOUS
<1>1. Stored = {}
  BY DEF PageInit, Init, Stored
<1>2. IsFiniteSet(Stored)
  BY <1>1, FS_EmptySet
<1>3. page.stage = "idle" /\ steady = {} /\ listed = [d \in Deliveries |-> 0]
  BY DEF PageInit
<1> QED
  BY <1>2, <1>3 DEF PageInit, PageInvariant, PageType, ListingShape

\* The table gains at most one row at a time.
LEMMA StoredStep ==
    ASSUME TypeOK, IsFiniteSet(Stored), [Next]_vars
    PROVE  IsFiniteSet(Stored')
<1>1. ASSUME NEW d \in Deliveries, status'[d] # "absent", status[d] = "absent"
      PROVE  PersistIntent(d)
  <2>1. Moved(d)
    BY <1>1, WhoMoves DEF Unmoved, Row
  <2> QED
    BY <1>1, <2>1, MovesFrom DEF Moved, Waiting
<1>2. CASE \E d \in Deliveries : PersistIntent(d)
  <2> PICK d \in Deliveries : PersistIntent(d)
    BY <1>2
  <2>1. \A e \in Deliveries : status'[e] # "absent" => status[e] # "absent" \/ e = d
    BY DEF PersistIntent, TypeOK
  <2>2. Stored' \in SUBSET (Stored \cup {d})
    BY <2>1 DEF Stored
  <2> QED
    BY <2>2, FS_AddElement, FS_Subset
<1>3. CASE ~(\E d \in Deliveries : PersistIntent(d))
  <2>1. Stored' \in SUBSET Stored
    BY <1>1, <1>3 DEF Stored
  <2> QED
    BY <2>1, FS_Subset
<1> QED
  BY <1>2, <1>3

LEMMA LedgerStepHolds ==
    ASSUME TypeOK, PageInvariant, LedgerStep
    PROVE  PageInvariant'
<1>1. IsFiniteSet(Stored')
  BY StoredStep DEF LedgerStep, PageInvariant
<1>2. steady' \subseteq steady /\ \A d \in steady' : Matches(d, page.filter)'
  BY DEF LedgerStep
<1>3. PageType' /\ page' = page /\ listed' = listed
  BY <1>2 DEF LedgerStep, PageInvariant, PageType
<1>4. ListingShape'
  BY <1>2, <1>3 DEF PageInvariant, ListingShape
<1> QED
  BY <1>1, <1>3, <1>4 DEF PageInvariant

LEMMA StartHolds ==
    ASSUME PageInvariant, NEW filter \in Filters, StartListing(filter)
    PROVE  PageInvariant'
<1>1. Stored' = Stored /\ status' = status
  BY DEF StartListing, Stored, vars, deliveryVars
<1>2. /\ page' = [stage |-> "open", filter |-> filter, cursor |-> NoCursor]
      /\ listed' = listed /\ \A d \in Deliveries : listed[d] = 0
      /\ steady' \subseteq Deliveries /\ \A d \in steady' : Matches(d, filter)
  BY DEF StartListing, PageInvariant, ListingShape
<1>3. filter \in Statuses \cup {NoFilter}
  BY FiltersAssumption
<1>4. PageType'
  BY <1>2, <1>3 DEF PageInvariant, PageType
<1>5. \A d \in steady' : Matches(d, page.filter)'
  BY <1>1, <1>2 DEF Matches
<1>6. ListingShape'
  BY <1>2, <1>5 DEF ListingShape
<1> QED
  BY <1>1, <1>4, <1>6 DEF PageInvariant

-----------------------------------------------------------------------------
(* One page *)

Candidates == {d \in Deliveries : Matches(d, page.filter) /\ Follows(d, page.cursor)}
PageRows == FirstOf(Candidates, PageLimit + 1)
Records == FirstOf(PageRows, PageLimit)

\* A page returns all candidates when there is no further page, and all
\* candidates from the next cursor on otherwise.
LEMMA PageIsComplete ==
    ASSUME PageInvariant, page.stage = "open"
    PROVE  /\ Records \subseteq Candidates
           /\ NextCursor(PageRows) = NoCursor => Records = Candidates
           /\ NextCursor(PageRows) # NoCursor =>
                /\ NextCursor(PageRows) \in Candidates
                /\ \A d \in Candidates : d \in Records <=> NextCursor(PageRows) <= d
<1> DEFINE M == Candidates
<1>1. M \subseteq Nat /\ M \subseteq Deliveries /\ IsFiniteSet(M)
  <2>1. M \in SUBSET Stored
    BY DEF Candidates, Stored, Matches
  <2>2. IsFiniteSet(M)
    BY <2>1, FS_Subset DEF PageInvariant
  <2> QED
    BY <2>2, DeliveriesAssumption DEF Candidates
<1>2. PageLimit \in Nat \ {0} /\ PageLimit + 1 \in Nat \ {0}
  BY PageAssumption
<1> HIDE DEF M
<1> DEFINE rows == FirstOf(M, PageLimit + 1)
<1>3. /\ rows \subseteq M /\ IsFiniteSet(rows) /\ rows \subseteq Nat
      /\ \A c \in rows, d \in M : c <= d => d \in rows
  BY <1>1, <1>2, FirstAreOnTop
<1>4. Cardinality(rows) < PageLimit + 1 => rows = M
  BY <1>1, <1>2, FewAreAll
<1>5. Cardinality(rows) \in Nat
  BY <1>3, FS_CardinalityType
<1> HIDE DEF rows
<1> DEFINE records == FirstOf(rows, PageLimit)
<1>6. /\ records \subseteq rows /\ IsFiniteSet(records)
      /\ \A c \in records, d \in rows : c <= d => d \in records
      /\ rows # {} => records # {}
  BY <1>2, <1>3, FirstAreOnTop
<1>7. Cardinality(rows) <= PageLimit => records = rows
  BY <1>2, <1>3, AllAreFirst
<1> HIDE DEF records
<1>8. CASE Cardinality(rows) <= PageLimit
  <2>1. records = M
    BY <1>2, <1>4, <1>5, <1>7, <1>8
  <2>2. NextCursor(rows) = NoCursor
    BY <1>2, <1>5, <1>8 DEF NextCursor
  <2> QED
    BY <2>1, <2>2 DEF records, rows, M, Records, PageRows
<1>9. CASE ~(Cardinality(rows) <= PageLimit)
  <2> DEFINE cursor == LastOf(records)
  <2>1. Cardinality(rows) > PageLimit
    BY <1>2, <1>5, <1>9
  <2>2. NextCursor(rows) = cursor
    BY <2>1 DEF NextCursor, records
  <2>3. rows # {}
    BY <1>2, <2>1, FS_EmptySet
  <2>4. records # {} /\ records \subseteq Nat
    BY <1>3, <1>6, <2>3
  <2>5. cursor \in records /\ \A x \in records : cursor <= x
    BY <1>6, <2>4, Smallest
  <2> HIDE DEF cursor
  <2>6. cursor \in M /\ cursor # NoCursor
    BY <1>1, <1>3, <1>6, <2>5, PageAssumption
  <2>7. ASSUME NEW d \in M, cursor <= d PROVE d \in records
    <3>1. d \in rows
      BY <1>3, <1>6, <2>5, <2>7
    <3> QED
      BY <1>6, <2>5, <2>7, <3>1
  <2>8. \A d \in M : d \in records <=> cursor <= d
    BY <2>5, <2>7
  <2>9. records \subseteq M
    BY <1>3, <1>6
  <2> QED
    BY <2>2, <2>6, <2>8, <2>9 DEF records, rows, M, Records, PageRows
<1> QED
  BY <1>8, <1>9

LEMMA PageHolds ==
    ASSUME PageInvariant, ListDeliveries
    PROVE  PageInvariant'
<1> DEFINE next == NextCursor(PageRows)
<1>1. /\ page.stage = "open"
      /\ listed' = [d \in Deliveries |->
                      IF d \in Records /\ listed[d] < 2 THEN listed[d] + 1 ELSE listed[d]]
      /\ page' = [page EXCEPT !.stage = IF next = NoCursor THEN "done" ELSE "open",
                              !.cursor = next]
      /\ UNCHANGED <<vars, steady>>
  BY DEF ListDeliveries, Records, PageRows, Candidates
<1>2. /\ Records \subseteq Candidates
      /\ next = NoCursor => Records = Candidates
      /\ next # NoCursor =>
           /\ next \in Candidates
           /\ \A d \in Candidates : d \in Records <=> next <= d
  BY <1>1, PageIsComplete
<1> HIDE DEF next
<1>3. Stored' = Stored /\ status' = status /\ steady' = steady
  BY <1>1 DEF Stored, vars, deliveryVars
<1>4. \A d \in Deliveries : d \in Int /\ d # NoCursor
  BY DeliveriesAssumption, PageAssumption
<1>5. \A d \in Deliveries : d \in Candidates <=>
         Matches(d, page.filter) /\ (page.cursor = NoCursor \/ d < page.cursor)
  BY DEF Candidates, Follows
<1>6. /\ page.cursor \in Deliveries \cup {NoCursor} /\ next \in Deliveries \cup {NoCursor}
      /\ page.filter \in Statuses \cup {NoFilter} /\ listed \in [Deliveries -> 0..1]
      /\ steady \subseteq Deliveries
  BY <1>2 DEF PageInvariant, PageType, Candidates
<1>7. /\ page'.stage = IF next = NoCursor THEN "done" ELSE "open"
      /\ page'.cursor = next /\ page'.filter = page.filter
  BY <1>1 DEF PageInvariant, PageType
<1>8. \A d \in Deliveries : d \in Records => listed[d] = 0
  <2>1. ASSUME NEW d \in Deliveries, d \in Records, listed[d] = 1 PROVE FALSE
    <3>1. page.cursor # NoCursor /\ page.cursor <= d
      BY <1>1, <2>1 DEF PageInvariant, ListingShape
    <3>2. d < page.cursor
      BY <1>2, <1>5, <2>1, <3>1
    <3>3. d \in Int /\ page.cursor \in Int
      BY <1>4, <1>6, <3>1
    <3> QED
      BY <3>1, <3>2, <3>3
  <2> QED
    BY <1>6, <2>1
<1>9. \A d \in Deliveries : listed'[d] = IF d \in Records THEN 1 ELSE listed[d]
  BY <1>1, <1>6, <1>8
<1>10. PageType'
  <2>1. listed' \in [Deliveries -> 0..1]
    BY <1>1, <1>6, <1>9
  <2>2. page' \in [stage  : {"idle", "open", "done"},
                   filter : Statuses \cup {NoFilter},
                   cursor : Deliveries \cup {NoCursor}]
    BY <1>1, <1>6 DEF PageInvariant, PageType
  <2> QED
    BY <1>3, <1>6, <2>1, <2>2 DEF PageType
\* What was returned before is above the cursor of then, and so above the next.
<1>11. ASSUME NEW d \in Deliveries, listed'[d] = 1, next # NoCursor
       PROVE  next <= d
  <2>1. CASE d \in Records
    BY <1>2, <1>11, <2>1
  <2>2. CASE d \notin Records
    <3>1. page.cursor # NoCursor /\ page.cursor <= d
      BY <1>1, <1>9, <1>11, <2>2 DEF PageInvariant, ListingShape
    <3>2. next < page.cursor
      BY <1>2, <1>5, <1>6, <1>11, <3>1
    <3>3. d \in Int /\ page.cursor \in Int /\ next \in Int
      BY <1>4, <1>6, <1>11, <3>1
    <3> QED
      BY <3>1, <3>2, <3>3
  <2> QED
    BY <2>1, <2>2
\* What matched all through the listing is on this page or was on one before.
<1>12. ASSUME NEW d \in steady, next = NoCursor \/ next <= d
       PROVE  listed'[d] = 1
  <2>1. d \in Deliveries /\ Matches(d, page.filter)
    BY <1>1, <1>6 DEF PageInvariant, ListingShape
  <2>2. CASE page.cursor # NoCursor /\ page.cursor <= d
    <3>1. listed[d] = 1
      BY <1>1, <2>1, <2>2 DEF PageInvariant, ListingShape
    <3> QED
      BY <1>9, <2>1, <3>1
  <2>3. CASE ~(page.cursor # NoCursor /\ page.cursor <= d)
    <3>1. page.cursor = NoCursor \/ d < page.cursor
      BY <1>4, <1>6, <2>1, <2>3
    <3>2. d \in Candidates
      BY <1>5, <2>1, <3>1
    <3>3. d \in Records
      BY <1>2, <1>12, <3>2
    <3> QED
      BY <1>9, <2>1, <3>3
  <2> QED
    BY <2>2, <2>3
<1>13. \A d \in steady' : Matches(d, page.filter)'
  BY <1>1, <1>3, <1>7 DEF PageInvariant, ListingShape, Matches
<1>14. ListingShape'
  BY <1>3, <1>7, <1>11, <1>12, <1>13 DEF ListingShape
<1> QED
  BY <1>3, <1>10, <1>14 DEF PageInvariant

-----------------------------------------------------------------------------
(* The theorems *)

LEMMA PageStepHolds == TypeOK /\ PageInvariant /\ [PageNext]_pageVars => PageInvariant'
<1> SUFFICES ASSUME TypeOK, PageInvariant, [PageNext]_pageVars PROVE PageInvariant'
  OBVIOUS
<1>1. CASE UNCHANGED pageVars
  BY <1>1 DEF pageVars, listVars, vars, deliveryVars, PageInvariant, PageType, ListingShape,
              Stored, Matches
<1> QED
  BY <1>1, LedgerStepHolds, StartHolds, PageHolds DEF PageNext

LEMMA PageSpecIsSpec == PageSpec => Spec
<1>1. PageInit => Init
  BY DEF PageInit
<1>2. [PageNext]_pageVars => [Next]_vars
  BY DEF PageNext, LedgerStep, StartListing, ListDeliveries, pageVars
<1> QED BY <1>1, <1>2, PTL DEF PageSpec, Spec

LEMMA PageInvariantHolds == PageSpec => []PageInvariant
<1>1. PageSpec => []TypeOK
  BY PageSpecIsSpec, TypeCorrect, PTL
<1> QED BY <1>1, PageInitHolds, PageStepHolds, PTL DEF PageSpec

\* Whatever is created and changes between the pages, no listing returns a
\* delivery twice (list_deliveries).
THEOREM ListingIsOnce == PageSpec => []ListedOnce
<1>1. PageInvariant => ListedOnce
  BY DEF PageInvariant, PageType, ListedOnce
<1> QED BY <1>1, PageInvariantHolds, PTL

\* A finished listing has returned every delivery that matched all through it
\* (list_deliveries, next_cursor).
THEOREM SteadyIsListed == PageSpec => []SteadyListed
<1>1. PageInvariant => SteadyListed
  BY DEF PageInvariant, ListingShape, SteadyListed
<1> QED BY <1>1, PageInvariantHolds, PTL

=============================================================================
