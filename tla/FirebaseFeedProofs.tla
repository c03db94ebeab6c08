------------------------- MODULE FirebaseFeedProofs -------------------------
(***************************************************************************)
(* Theorems about FirebaseFeed, for every page size, any number of keys    *)
(* and of overlapping queries.                                             *)
(***************************************************************************)
EXTENDS FirebaseFeed, FiniteSetTheorems, SequenceTheorems,
        WellFoundedInduction, TLAPS

-----------------------------------------------------------------------------
(* Sets of keys and their listings.                                        *)

\* A nonempty set of numbers has a least one.
LEMMA LeastKey ==
    ASSUME NEW T \in SUBSET Nat, T # {}
    PROVE  \E x \in T : \A y \in T : x <= y
<1>1. PICK x \in T : \A y \in T : <<y, x>> \notin OpToRel(<, Nat)
  BY NatLessThanWellFounded, WFMin
<1>2. \A y \in T : ~(y < x)
  BY <1>1 DEF OpToRel
<1> QED
  BY <1>2

\* A nonempty set of keys has a greatest one: the least distance to n.
LEMMA GreatestKey ==
    ASSUME NEW n \in Nat, NEW S \in SUBSET (1..n), S # {}
    PROVE  \E x \in S : \A y \in S : x >= y
<1> DEFINE T == {k \in 0..n : n - k \in S}
<1>1. \A j \in S : n - j \in 0..n /\ n - (n - j) = j
  OBVIOUS
<1>2. T # {} /\ T \in SUBSET Nat
  <2>1. PICK j \in S : TRUE
    OBVIOUS
  <2>2. n - j \in T
    BY <1>1, <2>1
  <2>3. \A k \in T : k \in Nat
    OBVIOUS
  <2> HIDE DEF T
  <2> QED
    BY <2>2, <2>3
<1>3. PICK k \in T : \A l \in T : k <= l
  <2> HIDE DEF T
  <2> QED
    BY <1>2, LeastKey
<1>4. \A j \in S : n - k >= j
  <2> SUFFICES ASSUME NEW j \in S PROVE n - k >= j
    OBVIOUS
  <2>1. n - j \in T
    BY <1>1
  <2>2. k <= n - j
    BY <1>3, <2>1
  <2> QED
    BY <1>3, <2>2
<1> QED
  BY <1>3, <1>4

LEMMA MinMaxKeys ==
    ASSUME NEW n \in Nat, NEW S \in SUBSET (1..n), S # {}
    PROVE  /\ Min(S) \in S /\ \A y \in S : Min(S) <= y
           /\ Max(S) \in S /\ \A y \in S : Max(S) >= y
<1>1. \E x \in S : \A y \in S : x <= y
  BY LeastKey
<1>2. \E x \in S : \A y \in S : x >= y
  BY GreatestKey
<1> QED
  BY <1>1, <1>2 DEF Min, Max

\* Sets of keys are finite.
LEMMA KeysFinite ==
    ASSUME NEW n \in Nat, NEW S \in SUBSET (1..n)
    PROVE  IsFiniteSet(S) /\ Cardinality(S) \in Nat
<1>1. IsFiniteSet(1..n)
  BY FS_Interval
<1>2. IsFiniteSet(S)
  BY <1>1, FS_Subset
<1> QED
  BY <1>2, FS_CardinalityType

IsListing(s, S) ==
    /\ s \in [1..Cardinality(S) -> S]
    /\ ToSet(s) = S
    /\ \A i, j \in DOMAIN s : i < j => s[i] < s[j]

\* Every set of keys has a listing.  Otherwise some set among 1..m has none
\* for a least m; then m is in it, and goes below a listing of the others.
LEMMA ListingExists ==
    ASSUME NEW n \in Nat, NEW S \in SUBSET (1..n)
    PROVE  \E s : IsListing(s, S)
<1> DEFINE Listless == {m \in Nat : \E T \in SUBSET (1..m) :
                            ~ \E s : IsListing(s, T)}
<1> SUFFICES ASSUME Listless # {} PROVE FALSE
  OBVIOUS
<1>1. PICK m \in Listless : \A k \in Listless : m <= k
  BY LeastKey
<1>2. PICK T \in SUBSET (1..m) : ~ \E s : IsListing(s, T)
  BY <1>1
<1>3. T # {}
  <2> SUFFICES ASSUME T = {} PROVE FALSE
    OBVIOUS
  <2>1. Cardinality(T) = 0
    BY FS_EmptySet
  <2>2. IsListing([i \in 1..0 |-> 0], T)
    BY <2>1 DEF IsListing, ToSet
  <2> QED
    BY <1>2, <2>2
<1>4. m \in Nat /\ m - 1 \in Nat
  <2>1. m \in Nat
    BY <1>1
  <2>2. m # 0
    <3> SUFFICES ASSUME m = 0 PROVE FALSE
      OBVIOUS
    <3>1. 1..m = {}
      OBVIOUS
    <3> QED
      BY <1>2, <1>3, <3>1
  <2> QED
    BY <2>1, <2>2
<1>5. m - 1 \notin Listless
  BY <1>1, <1>4
<1>6. m \in T
  <2> SUFFICES ASSUME m \notin T PROVE FALSE
    OBVIOUS
  <2>1. T \in SUBSET (1..m - 1)
    BY <1>4
  <2> QED
    BY <1>2, <1>4, <1>5, <2>1
<1>7. T \ {m} \in SUBSET (1..m - 1)
  BY <1>4
<1>8. PICK t : IsListing(t, T \ {m})
  BY <1>4, <1>5, <1>7
<1>9. PICK c \in Nat : c = Cardinality(T \ {m}) /\ Cardinality(T) = c + 1
  <2>1. IsFiniteSet(T) /\ Cardinality(T) \in Nat
    BY <1>4, KeysFinite
  <2>2. Cardinality(T \ {m}) \in Nat
    BY <1>4, <1>7, KeysFinite
  <2>3. Cardinality(T \ {m}) = Cardinality(T) - 1
    BY <1>6, <2>1, FS_RemoveElement
  <2> QED
    BY <2>1, <2>2, <2>3
<1>10. /\ t \in [1..c -> T \ {m}] /\ DOMAIN t = 1..c
       /\ ToSet(t) = T \ {m}
       /\ \A i, j \in 1..c : i < j => t[i] < t[j]
  BY <1>8, <1>9 DEF IsListing
<1> DEFINE s == [i \in 1..c + 1 |-> IF i = c + 1 THEN m ELSE t[i]]
<1>11. \A i \in 1..c : i \in 1..c + 1 /\ s[i] = t[i]
  OBVIOUS
<1>12. DOMAIN s = 1..c + 1 /\ c + 1 \in 1..c + 1 /\ s[c + 1] = m
  OBVIOUS
<1>13. \A i \in 1..c + 1 : i \in 1..c \/ i = c + 1
  OBVIOUS
<1>14. s \in [1..c + 1 -> T]
  BY <1>6, <1>10
<1> HIDE DEF s
<1>15. ToSet(s) = T
  <2>1. \A i \in 1..c + 1 : s[i] \in T
    BY <1>14
  <2>2. ASSUME NEW x \in T PROVE \E i \in 1..c + 1 : s[i] = x
    <3>1. CASE x = m
      BY <1>12, <3>1
    <3>2. CASE x # m
      <4>1. PICK i \in 1..c : t[i] = x
        BY <1>10, <3>2 DEF ToSet
      <4> QED
        BY <1>11, <4>1
    <3> QED
      BY <3>1, <3>2
  <2> QED
    BY <1>12, <2>1, <2>2 DEF ToSet
<1>16. ASSUME NEW i \in 1..c + 1, NEW j \in 1..c + 1, i < j
       PROVE  s[i] < s[j]
  <2>1. i \in 1..c
    BY <1>16
  <2>2. CASE j \in 1..c
    BY <1>10, <1>11, <1>16, <2>1, <2>2
  <2>3. CASE j = c + 1
    <3>1. s[i] \in 1..m - 1
      BY <1>7, <1>10, <1>11, <2>1
    <3> QED
      BY <1>4, <1>12, <2>3, <3>1
  <2> QED
    BY <1>13, <2>2, <2>3
<1>17. IsListing(s, T)
  BY <1>9, <1>12, <1>14, <1>15, <1>16 DEF IsListing
<1> QED
  BY <1>2, <1>17

\* What InKeyOrder returns.
LEMMA InKeyOrderFacts ==
    ASSUME NEW n \in Nat, NEW S \in SUBSET (1..n)
    PROVE  /\ Cardinality(S) \in Nat
           /\ InKeyOrder(S) \in Seq(1..n)
           /\ Len(InKeyOrder(S)) = Cardinality(S)
           /\ ToSet(InKeyOrder(S)) = S
           /\ \A i, j \in 1..Cardinality(S) :
                 i < j => InKeyOrder(S)[i] < InKeyOrder(S)[j]
<1> DEFINE s == InKeyOrder(S)
<1>1. IsListing(s, S)
  BY ListingExists DEF IsListing, InKeyOrder
<1>2. Cardinality(S) \in Nat
  BY KeysFinite
<1> HIDE DEF s
<1>3. s \in [1..Cardinality(S) -> 1..n]
  BY <1>1 DEF IsListing
<1>4. s \in Seq(1..n) /\ Len(s) = Cardinality(S)
  BY <1>2, <1>3
<1> QED
  BY <1>1, <1>2, <1>3, <1>4 DEF IsListing, s

-----------------------------------------------------------------------------
(* Queries.                                                                *)

\* An answer holds every child between its start and any child in it.
LEMMA QueryHasNoGap ==
    ASSUME TypeOK, NEW from \in Nat, NEW n \in Nat,
           NEW x \in Query(from, n), NEW y \in table, from <= y, y <= x
    PROVE  y \in Query(from, n)
<1> DEFINE Before(z) == {w \in table : from <= w /\ w < z}
<1>1. posted \in Nat /\ table \in SUBSET (1..posted)
  BY BoundsAssumption DEF TypeOK
<1>2. x \in table /\ Cardinality(Before(x)) < n
  BY DEF Query
<1>3. Before(y) \subseteq Before(x)
  <2> SUFFICES ASSUME NEW w \in table, from <= w, w < y
               PROVE  w < x
    OBVIOUS
  <2>1. w \in Nat /\ x \in Nat /\ y \in Nat
    BY <1>1, <1>2
  <2> QED
    BY <2>1
<1>4. Before(x) \in SUBSET (1..posted) /\ Before(y) \in SUBSET (1..posted)
  BY <1>1
<1> HIDE DEF Before
<1>5. Cardinality(Before(y)) <= Cardinality(Before(x))
  BY <1>1, <1>3, <1>4, KeysFinite, FS_Subset
<1>6. Cardinality(Before(x)) \in Nat /\ Cardinality(Before(y)) \in Nat
  BY <1>1, <1>4, KeysFinite
<1>7. Cardinality(Before(y)) < n
  BY <1>2, <1>5, <1>6
<1> QED
  BY <1>7 DEF Query, Before

\* An answer has the child it starts at, if that one is still there.
LEMMA QueryHasStart ==
    ASSUME TypeOK, NEW from \in table, NEW n \in Nat \ {0}
    PROVE  from \in Query(from, n)
<1>1. from \in Nat
  BY BoundsAssumption DEF TypeOK
<1>2. {w \in table : from <= w /\ w < from} = {}
  <2> SUFFICES ASSUME NEW w \in table, from <= w, w < from PROVE FALSE
    OBVIOUS
  <2>1. w \in Nat
    BY BoundsAssumption DEF TypeOK
  <2> QED
    BY <1>1, <2>1
<1>3. Cardinality({w \in table : from <= w /\ w < from}) = 0
  BY <1>2, FS_EmptySet
<1> QED
  BY <1>1, <1>3 DEF Query

\* An answer that leaves a child out is as long as it may be.
LEMMA QueryLeavesOut ==
    ASSUME TypeOK, NEW from \in Nat, NEW n \in Nat,
           NEW y \in table, from <= y, y \notin Query(from, n)
    PROVE  Cardinality(Query(from, n)) >= n
<1> DEFINE C == Query(from, n)
           Before(z) == {w \in table : from <= w /\ w < z}
           T == {z \in table : from <= z /\ z \notin C}
<1>1. posted \in Nat /\ table \in SUBSET (1..posted)
  BY BoundsAssumption DEF TypeOK
<1>2. C \in SUBSET (1..posted)
  BY <1>1 DEF Query
<1>3. T # {} /\ T \in SUBSET Nat
  <2>1. y \in T
    OBVIOUS
  <2>2. \A z \in T : z \in Nat
    BY <1>1
  <2> HIDE DEF T
  <2> QED
    BY <2>1, <2>2
<1>4. PICK z \in T : \A w \in T : z <= w
  <2> HIDE DEF T
  <2> QED
    BY <1>3, LeastKey
<1>5. ~(Cardinality(Before(z)) < n)
  <2>1. z \in table /\ z >= from /\ z \notin C
    BY <1>1, <1>4
  <2> QED
    BY <2>1 DEF Query
<1>6. Before(z) \subseteq C
  <2> HIDE DEF C
  <2> SUFFICES ASSUME NEW w \in table, from <= w, w < z PROVE w \in C
    OBVIOUS
  <2>1. w \in Nat /\ z \in Nat
    BY <1>1, <1>4
  <2>2. ~(z <= w)
    BY <2>1
  <2>3. w \notin T
    BY <1>4, <2>2
  <2> QED
    BY <2>3
<1>7. Before(z) \in SUBSET (1..posted)
  BY <1>1
<1> HIDE DEF Before, C
<1>8. /\ IsFiniteSet(C) /\ Cardinality(C) \in Nat
      /\ Cardinality(Before(z)) \in Nat
  BY <1>1, <1>2, <1>7, KeysFinite
<1>9. Cardinality(Before(z)) <= Cardinality(C)
  BY <1>6, <1>8, FS_Subset
<1>10. Cardinality(C) >= n
  BY <1>5, <1>8, <1>9
<1> QED
  BY <1>10 DEF C

-----------------------------------------------------------------------------
(* The invariant.                                                          *)

\* The list jumps over no row up to key, but for what removeFirst dropped.
Covered(key) == \A child \in Rows \cap (1..key) : Accounted(child)

\* How far the list is: rows are counted, and there are rows before there is
\* a query, which needs a key to start at.
PhaseInv ==
    /\ shown = Len(store)
    /\ ~opened \/ firstInFlight =>
          store = <<>> /\ ~didFinishLoadingBottom /\ ~trapped
    /\ ~opened => ~firstInFlight
    /\ store = <<>> => bottoms = <<>>
    /\ store # <<>> => lastFetchedObjectKey # NoKey

\* Where a query started, or may start next, nothing was jumped over.
StartInv ==
    /\ \A i \in DOMAIN bottoms : bottoms[i] \in starts /\ Covered(bottoms[i])
    /\ Covered(lastFetchedObjectKey)

\* Until two queries overlap, rows are ordered and the only query that may be
\* in flight starts at the last key.
OrderInv ==
    ~overlapped =>
        /\ Len(bottoms) <= 1
        /\ \A i \in DOMAIN bottoms : bottoms[i] = lastFetchedObjectKey
        /\ \A i \in DOMAIN store : store[i] <= lastFetchedObjectKey
        /\ \A i, j \in DOMAIN store : i < j => store[i] < store[j]

TrapInv == trapped => \E start \in starts : start \notin Rows

IInv ==
    /\ TypeOK
    /\ PhaseInv
    /\ StartInv
    /\ FinishedMeansAll
    /\ OrderInv
    /\ TrapInv

\* Only keys greater than the old ones become rows.
NewRowsAreLast ==
    /\ table' \subseteq table \cup {posted + 1}
    /\ records \subseteq records' /\ records' \subseteq records \cup {posted + 1}

LEMMA NoOldRows ==
    ASSUME TypeOK, NewRowsAreLast, NEW key \in 0..posted, key \in Rows'
    PROVE  key \in Rows
<1>1. key # posted + 1
  BY BoundsAssumption DEF TypeOK
<1> QED
  BY <1>1 DEF NewRowsAreLast, Rows, Parsed

\* What is accounted for stays so while rows, queries and keys are only added.
LEMMA StaysAccounted ==
    ASSUME TypeOK, NewRowsAreLast, NEW key \in 0..posted, Accounted(key),
           ToSet(store) \subseteq ToSet(store'), starts \subseteq starts'
    PROVE  Accounted(key)'
<1>1. CASE key \in ToSet(store)
  BY <1>1 DEF Accounted
<1>2. ASSUME NEW start \in starts, DroppedAt(start, key)
      PROVE  Accounted(key)'
  <2>1. start < key /\ Rows \cap (start..key - 1) = {}
    BY <1>2 DEF DroppedAt
  <2>2. posted \in Nat /\ start \in 1..posted
    BY BoundsAssumption DEF TypeOK
  <2>3. \A k \in start..key - 1 : k \in 0..posted
    BY <2>2
  <2>4. Rows' \cap (start..key - 1) = {}
    BY <2>1, <2>3, NoOldRows
  <2> QED
    BY <2>1, <2>4 DEF Accounted, DroppedAt
<1> QED
  BY <1>1, <1>2 DEF Accounted

LEMMA StaysCovered ==
    ASSUME TypeOK, NewRowsAreLast, NEW key \in 0..posted, Covered(key),
           ToSet(store) \subseteq ToSet(store'), starts \subseteq starts'
    PROVE  Covered(key)'
<1> SUFFICES ASSUME NEW child \in Rows' \cap (1..key)
             PROVE  Accounted(child)'
  BY DEF Covered
<1>1. child \in 0..posted
  BY BoundsAssumption DEF TypeOK
<1>2. child \in Rows
  BY <1>1, NoOldRows
<1>3. Accounted(child)
  BY <1>2 DEF Covered
<1> QED
  BY <1>1, <1>3, StaysAccounted

\* The rows of a list that has finished stay accounted for while it does not
\* move its last key.
LEMMA StaysFinished ==
    ASSUME TypeOK, NewRowsAreLast, FinishedMeansAll,
           ToSet(store) \subseteq ToSet(store'), starts \subseteq starts',
           UNCHANGED <<tableAtOpen, lastFetchedObjectKey, didFinishLoadingBottom>>
    PROVE  FinishedMeansAll'
<1>1. /\ posted \in Nat /\ lastFetchedObjectKey \in 0..posted
      /\ tableAtOpen \in SUBSET (1..posted)
  BY BoundsAssumption DEF TypeOK
<1> SUFFICES ASSUME didFinishLoadingBottom, NEW key \in tableAtOpen \cap Rows'
             PROVE  \/ Accounted(key)'
                    \/ key > lastFetchedObjectKey' /\ HiddenPage'
  BY DEF FinishedMeansAll
<1>2. key \in 0..posted
  BY <1>1
<1>3. key \in Rows
  BY <1>2, NoOldRows
<1>4. Accounted(key) \/ (key > lastFetchedObjectKey /\ HiddenPage)
  BY <1>3 DEF FinishedMeansAll
<1>5. (1..lastFetchedObjectKey') \ records' = (1..lastFetchedObjectKey) \ records
  <2>1. posted + 1 \notin 1..lastFetchedObjectKey
    BY <1>1
  <2> QED
    BY <2>1 DEF NewRowsAreLast
<1>6. HiddenPage => HiddenPage'
  BY <1>5 DEF HiddenPage
<1> QED
  BY <1>2, <1>4, <1>6, StaysAccounted

\* So everything that the invariant says of the list stays true when neither
\* the data source nor its queries change.
LEMMA ServerStep ==
    ASSUME IInv, TypeOK', NewRowsAreLast,
           UNCHANGED <<sourceVars, openVars, queryVars, shown, trapped>>
    PROVE  IInv'
<1> USE DEF IInv, sourceVars, openVars, queryVars
<1>1. posted \in Nat /\ lastFetchedObjectKey \in 0..posted
  BY BoundsAssumption DEF TypeOK
<1>2. ToSet(store) \subseteq ToSet(store') /\ starts \subseteq starts'
  OBVIOUS
<1>3. PhaseInv' /\ OrderInv'
  BY DEF PhaseInv, OrderInv
<1>4. StartInv'
  <2>1. \A i \in DOMAIN bottoms : bottoms[i] \in 0..posted
    BY <1>1 DEF TypeOK
  <2>2. ASSUME NEW key \in 0..posted, Covered(key)
        PROVE  Covered(key)'
    BY <1>2, <2>2, StaysCovered
  <2>3. \A i \in DOMAIN bottoms : Covered(bottoms[i])'
    BY <2>1, <2>2 DEF StartInv
  <2>4. Covered(lastFetchedObjectKey)'
    BY <1>1, <2>2 DEF StartInv
  <2> QED
    BY <2>3, <2>4 DEF StartInv
<1>5. FinishedMeansAll'
  BY <1>2, StaysFinished
<1>6. TrapInv'
  <2> SUFFICES ASSUME trapped
               PROVE  \E start \in starts : start \notin Rows'
    BY DEF TrapInv
  <2>1. PICK start \in starts : start \notin Rows
    BY DEF TrapInv
  <2>2. start \in 0..posted
    BY <1>1 DEF TypeOK
  <2> QED
    BY <2>1, <2>2, NoOldRows
<1> QED
  BY <1>3, <1>4, <1>5, <1>6

-----------------------------------------------------------------------------
(* Steps.                                                                  *)

\* The children of an answer and the rows parsed from it.
LEMMA ParsedFacts ==
    ASSUME TypeOK, NEW C \in SUBSET table
    PROVE  /\ C \in SUBSET (1..posted)
           /\ Parsed(C) \in SUBSET C
           /\ \A x \in C : x \in Rows <=> x \in Parsed(C)
BY DEF TypeOK, Parsed, Rows

\* Rows and the listing of an answer below them.
LEMMA ListBelow ==
    ASSUME NEW n \in Nat, NEW s \in Seq(1..n), NEW S \in SUBSET (1..n)
    PROVE  /\ s \o InKeyOrder(S) \in Seq(1..n)
           /\ Len(s) \in Nat /\ Cardinality(S) \in Nat
           /\ Len(s \o InKeyOrder(S)) = Len(s) + Cardinality(S)
           /\ \A i \in 1..Len(s) : (s \o InKeyOrder(S))[i] = s[i]
           /\ ToSet(s \o InKeyOrder(S)) = ToSet(s) \cup S
<1> DEFINE t == InKeyOrder(S)
           r == s \o t
<1>1. /\ Cardinality(S) \in Nat
      /\ t \in Seq(1..n)
      /\ Len(t) = Cardinality(S)
      /\ ToSet(t) = S
  BY InKeyOrderFacts
<1> HIDE DEF t
<1>2. /\ r \in Seq(1..n)
      /\ Len(r) = Len(s) + Len(t)
      /\ \A i \in 1..Len(s) + Len(t) :
            r[i] = IF i <= Len(s) THEN s[i] ELSE t[i - Len(s)]
  BY <1>1, ConcatProperties, Zenon
<1>3. Len(s) \in Nat /\ DOMAIN s = 1..Len(s) /\ DOMAIN t = 1..Len(t)
  BY <1>1
<1> HIDE DEF r
<1>4. DOMAIN r = 1..Len(s) + Len(t)
  BY <1>2
<1>5. \A i \in 1..Len(s) : i \in DOMAIN r /\ r[i] = s[i]
  BY <1>1, <1>2, <1>3, <1>4
<1>6. ASSUME NEW i \in 1..Len(t)
      PROVE  i + Len(s) \in DOMAIN r /\ r[i + Len(s)] = t[i]
  <2>1. /\ i + Len(s) \in 1..Len(s) + Len(t)
        /\ ~(i + Len(s) <= Len(s))
        /\ i + Len(s) - Len(s) = i
    BY <1>1, <1>3
  <2> QED
    BY <1>2, <1>4, <2>1
<1>7. ASSUME NEW i \in DOMAIN r
      PROVE  r[i] \in ToSet(s) \cup ToSet(t)
  <2>1. CASE i <= Len(s)
    BY <1>2, <1>3, <1>4, <2>1 DEF ToSet
  <2>2. CASE ~(i <= Len(s))
    <3>1. i \in 1..Len(s) + Len(t) /\ r[i] = t[i - Len(s)]
      BY <1>2, <1>4, <2>2
    <3>2. i - Len(s) \in 1..Len(t)
      BY <1>1, <1>3, <2>2, <3>1
    <3> QED
      BY <1>3, <3>1, <3>2 DEF ToSet
  <2> QED
    BY <2>1, <2>2
<1>8. ToSet(r) = ToSet(s) \cup ToSet(t)
  <2>1. ToSet(s) \subseteq ToSet(r)
    BY <1>3, <1>5 DEF ToSet
  <2>2. ToSet(t) \subseteq ToSet(r)
    BY <1>3, <1>6 DEF ToSet
  <2>3. ToSet(r) \subseteq ToSet(s) \cup ToSet(t)
    BY <1>7 DEF ToSet
  <2> QED
    BY <2>1, <2>2, <2>3
<1> QED
  BY <1>1, <1>2, <1>3, <1>5, <1>8 DEF t, r

\* When the rows do not go past any key below them the listing keeps order.
LEMMA ListBelowInOrder ==
    ASSUME NEW n \in Nat, NEW s \in Seq(1..n), NEW S \in SUBSET (1..n),
           \A i, j \in 1..Len(s) : i < j => s[i] < s[j],
           \A i \in 1..Len(s) : \A x \in S : s[i] < x
    PROVE  \A i, j \in 1..Len(s \o InKeyOrder(S)) :
              i < j => (s \o InKeyOrder(S))[i] < (s \o InKeyOrder(S))[j]
<1> DEFINE t == InKeyOrder(S)
           r == s \o t
<1>1. /\ Cardinality(S) \in Nat
      /\ t \in Seq(1..n)
      /\ Len(t) = Cardinality(S)
      /\ ToSet(t) = S
      /\ \A i, j \in 1..Len(t) : i < j => t[i] < t[j]
  BY InKeyOrderFacts
<1> HIDE DEF t
<1>2. /\ Len(r) = Len(s) + Len(t)
      /\ \A i \in 1..Len(s) + Len(t) :
            r[i] = IF i <= Len(s) THEN s[i] ELSE t[i - Len(s)]
  BY <1>1, ConcatProperties, Zenon
<1>3. Len(s) \in Nat /\ DOMAIN t = 1..Len(t) /\ Len(t) \in Nat
  BY <1>1
<1> HIDE DEF r
<1> SUFFICES ASSUME NEW i \in 1..Len(r), NEW j \in 1..Len(r), i < j
             PROVE  r[i] < r[j]
  BY DEF r, t
<1>4. CASE j <= Len(s)
  BY <1>2, <1>3, <1>4
<1>5. CASE i <= Len(s) /\ ~(j <= Len(s))
  <2>1. j - Len(s) \in 1..Len(t) /\ r[j] = t[j - Len(s)]
    BY <1>2, <1>3, <1>5
  <2>2. r[j] \in S
    BY <1>1, <1>3, <2>1 DEF ToSet
  <2>3. i \in 1..Len(s) /\ r[i] = s[i]
    BY <1>2, <1>3, <1>5
  <2> QED
    BY <2>2, <2>3
<1>6. CASE ~(i <= Len(s))
  <2>1. j - Len(s) \in 1..Len(t) /\ r[j] = t[j - Len(s)]
    BY <1>2, <1>3, <1>6
  <2>2. i - Len(s) \in 1..Len(t) /\ r[i] = t[i - Len(s)]
    BY <1>2, <1>3, <1>6
  <2>3. i - Len(s) < j - Len(s)
    BY <1>3
  <2> QED
    BY <1>1, <2>1, <2>2, <2>3
<1> QED
  BY <1>4, <1>5, <1>6

\* Taking off one query leaves the others.
LEMMA OtherQueries ==
    ASSUME NEW S, NEW s \in Seq(S), NEW i \in 1..Len(s)
    PROVE  /\ RemoveAt(s, i) \in Seq(S)
           /\ Len(RemoveAt(s, i)) = Len(s) - 1
           /\ \A k \in DOMAIN RemoveAt(s, i) :
                 \E l \in DOMAIN s : RemoveAt(s, i)[k] = s[l]
<1> DEFINE p == SubSeq(s, 1, i - 1)
           q == SubSeq(s, i + 1, Len(s))
           r == p \o q
<1>1. /\ p \in Seq(S) /\ Len(p) = i - 1
      /\ \A k \in 1..i - 1 : p[k] = s[k]
  OBVIOUS
<1>2. /\ q \in Seq(S) /\ Len(q) = Len(s) - i
      /\ \A k \in 1..Len(s) - i : q[k] = s[k + i]
  OBVIOUS
<1> HIDE DEF p, q
<1>3. p \in Seq(S) /\ q \in Seq(S)
  BY <1>1, <1>2
<1>4. /\ r \in Seq(S)
      /\ Len(r) = Len(p) + Len(q)
      /\ \A k \in 1..Len(p) + Len(q) :
            r[k] = IF k <= Len(p) THEN p[k] ELSE q[k - Len(p)]
  BY <1>3, ConcatProperties, Zenon
<1> HIDE DEF r
<1>5. Len(s) \in Nat /\ DOMAIN s = 1..Len(s)
  OBVIOUS
<1>6. Len(r) = Len(s) - 1 /\ DOMAIN r = 1..Len(s) - 1
  BY <1>1, <1>2, <1>4, <1>5
<1>7. ASSUME NEW k \in DOMAIN r
      PROVE  \E l \in DOMAIN s : r[k] = s[l]
  <2>1. CASE k <= i - 1
    <3>1. /\ k \in 1..i - 1 /\ k \in DOMAIN s
          /\ k \in 1..Len(p) + Len(q) /\ k <= Len(p)
      BY <1>1, <1>2, <1>5, <1>6, <2>1
    <3>2. r[k] = p[k]
      BY <1>4, <3>1
    <3> QED
      BY <1>1, <3>1, <3>2
  <2>2. CASE ~(k <= i - 1)
    <3>1. k - (i - 1) \in 1..Len(s) - i /\ k - (i - 1) + i \in DOMAIN s
      BY <1>5, <1>6, <2>2
    <3>2. r[k] = q[k - (i - 1)]
      BY <1>1, <1>2, <1>4, <1>5, <1>6, <2>2
    <3> QED
      BY <1>2, <3>1, <3>2
  <2> QED
    BY <2>1, <2>2
<1> QED
  BY <1>4, <1>6, <1>7 DEF RemoveAt, p, q, r

LEMMA FirstLoadedStep ==
    ASSUME IInv, FirstLoaded
    PROVE  IInv'
<1> USE DEF IInv
<1> DEFINE C == Query(NoKey, PageSize)
           P == Parsed(C)
<1>1. posted \in Nat /\ table \in SUBSET (1..posted) /\ PageSize \in Nat \ {0}
  BY BoundsAssumption, PageSizeAssumption DEF TypeOK
<1>2. C \in SUBSET (1..posted) /\ C \in SUBSET table
  BY <1>1 DEF Query
<1>3. /\ store = <<>> /\ bottoms = <<>> /\ opened /\ ~didFinishLoadingBottom
      /\ ~trapped
  BY DEF PhaseInv, FirstLoaded
<1>4. /\ store' = store \o InKeyOrder(P)
      /\ lastFetchedObjectKey' = IF C = {} THEN NoKey ELSE Max(C)
      /\ shown' = Len(store')
      /\ firstInFlight' = FALSE
      /\ UNCHANGED <<serverVars, openVars, didFinishLoadingBottom, bottoms,
                     starts, overlapped, trapped>>
  BY DEF FirstLoaded
<1>5. C # {} => Max(C) \in C /\ \A y \in C : Max(C) >= y
  BY <1>1, <1>2, MinMaxKeys
<1>6. ASSUME NEW x \in C, NEW y \in table, y <= x
      PROVE  y \in C
  <2>1. NoKey \in Nat /\ NoKey <= y
    BY <1>1 DEF NoKey
  <2> QED
    BY <1>1, <1>6, <2>1, QueryHasNoGap
<1>7. P \in SUBSET C /\ \A x \in C : x \in Rows <=> x \in P
  <2> HIDE DEF C
  <2> QED
    BY <1>2, ParsedFacts
<1> HIDE DEF C, P
<1>8. store \in Seq(1..posted) /\ Len(store) = 0 /\ ToSet(store) = {}
  BY <1>3 DEF TypeOK, ToSet
<1>9. /\ store' \in Seq(1..posted)
      /\ Len(store') = Cardinality(P) /\ Cardinality(P) \in Nat
      /\ ToSet(store') = P
  <2>3. store \in Seq(1..posted)
    BY <1>8
  <2>4. P \in SUBSET (1..posted)
    BY <1>2, <1>7
  <2> DEFINE r == store \o InKeyOrder(P)
  <2>1. /\ r \in Seq(1..posted)
        /\ Cardinality(P) \in Nat
        /\ Len(r) = Len(store) + Cardinality(P)
        /\ ToSet(r) = ToSet(store) \cup P
    BY <1>1, <2>3, <2>4, ListBelow, Zenon
  <2>2. store' = r
    BY <1>4
  <2> HIDE DEF r
  <2> QED
    BY <1>8, <2>1, <2>2
<1>10. \A i, j \in 1..Len(store') : i < j => store'[i] < store'[j]
  <2>1. /\ \A i, j \in 1..Len(store) : i < j => store[i] < store[j]
        /\ \A i \in 1..Len(store) : \A x \in P : store[i] < x
    BY <1>8
  <2>2. P \in SUBSET (1..posted)
    BY <1>2, <1>7
  <2> QED
    BY <1>1, <1>4, <1>8, <2>1, <2>2, ListBelowInOrder
<1>11. DOMAIN store' = 1..Len(store')
  BY <1>9
<1>12. store' # <<>> => C # {}
  <2>1. C = {} => P = {}
    BY <1>7
  <2>2. P = {} => Len(store') = 0
    BY <1>9, FS_EmptySet
  <2> QED
    BY <1>9, <2>1, <2>2
<1>13. TypeOK'
  <2>1. lastFetchedObjectKey' \in 0..posted
    BY <1>1, <1>2, <1>4, <1>5 DEF NoKey
  <2>2. shown' \in Nat
    BY <1>4, <1>9
  <2> QED
    BY <1>4, <1>9, <2>1, <2>2 DEF TypeOK, serverVars, openVars
<1>14. PhaseInv'
  <2>1. C # {} => Max(C) # NoKey
    BY <1>1, <1>2, <1>5 DEF NoKey
  <2> QED
    BY <1>3, <1>4, <1>12, <2>1 DEF PhaseInv, openVars
<1>15. StartInv'
  <2>1. Covered(lastFetchedObjectKey)'
    <3> SUFFICES ASSUME NEW child \in Rows' \cap (1..lastFetchedObjectKey')
                 PROVE  child \in ToSet(store')
      BY DEF Covered, Accounted
    <3>1. child \in Rows /\ child \in table
      BY <1>4 DEF Rows, Parsed, serverVars
    <3>2. C # {}
      BY <1>4 DEF NoKey
    <3>3. child \in C
      BY <1>4, <1>5, <1>6, <3>1, <3>2
    <3> QED
      BY <1>7, <1>9, <3>1, <3>3
  <2>2. bottoms' = <<>>
    BY <1>3, <1>4
  <2> QED
    BY <2>1, <2>2 DEF StartInv
<1>16. FinishedMeansAll' /\ TrapInv'
  BY <1>3, <1>4 DEF FinishedMeansAll, TrapInv
<1>17. OrderInv'
  <2>1. bottoms' = <<>> /\ Len(bottoms') <= 1
    BY <1>3, <1>4
  <2>2. ASSUME NEW i \in DOMAIN store'
        PROVE  store'[i] <= lastFetchedObjectKey'
    <3>1. store'[i] \in C
      BY <1>7, <1>9, <2>2 DEF ToSet
    <3>2. /\ Max(C) \in C /\ Max(C) >= store'[i]
          /\ lastFetchedObjectKey' = Max(C)
      BY <1>4, <1>5, <3>1
    <3>4. \A x \in C : x \in Nat
      BY <1>1, <1>2
    <3>3. Max(C) \in Nat /\ store'[i] \in Nat
      BY <3>1, <3>2, <3>4
    <3> QED
      BY <3>2, <3>3
  <2> QED
    BY <1>10, <1>11, <2>1, <2>2 DEF OrderInv
<1> QED
  BY <1>13, <1>14, <1>15, <1>16, <1>17

LEMMA LoadBottomStep ==
    ASSUME IInv, LoadBottom
    PROVE  IInv'
<1> USE DEF IInv
<1>1. /\ bottoms' = Append(bottoms, lastFetchedObjectKey)
      /\ starts' = starts \cup {lastFetchedObjectKey}
      /\ overlapped' = (overlapped \/ bottoms # <<>>)
      /\ UNCHANGED <<serverVars, sourceVars, openVars, firstInFlight, shown,
                     trapped>>
      /\ ~trapped
  BY DEF LoadBottom
<1>2. store # <<>> /\ opened /\ ~firstInFlight
  BY DEF LoadBottom, PhaseInv
<1>3. /\ posted \in Nat
      /\ lastFetchedObjectKey \in 1..posted
  BY <1>2, BoundsAssumption DEF TypeOK, PhaseInv, NoKey
<1>4. bottoms \in Seq(1..posted) /\ Len(bottoms) \in Nat
  BY DEF TypeOK
<1>5. /\ bottoms' \in Seq(1..posted)
      /\ Len(bottoms') = Len(bottoms) + 1
      /\ DOMAIN bottoms' = 1..Len(bottoms) + 1
      /\ \A i \in DOMAIN bottoms : bottoms'[i] = bottoms[i]
      /\ bottoms'[Len(bottoms) + 1] = lastFetchedObjectKey
  BY <1>1, <1>3, <1>4
<1>6. \A i \in DOMAIN bottoms' :
         \/ i \in DOMAIN bottoms /\ bottoms'[i] = bottoms[i]
         \/ i = Len(bottoms) + 1 /\ bottoms'[i] = lastFetchedObjectKey
  BY <1>4, <1>5
<1>7. TypeOK'
  BY <1>1, <1>3, <1>5 DEF TypeOK, serverVars, sourceVars, openVars
<1>8. PhaseInv'
  BY <1>1, <1>2 DEF PhaseInv, sourceVars, openVars
<1>9. NewRowsAreLast /\ ToSet(store) \subseteq ToSet(store') /\ starts \subseteq starts'
  BY <1>1 DEF NewRowsAreLast, serverVars, sourceVars
<1>10. StartInv'
  <2>1. ASSUME NEW i \in DOMAIN bottoms'
        PROVE  /\ bottoms'[i] \in starts' /\ bottoms'[i] \in 0..posted
               /\ Covered(bottoms'[i])
    <3>1. CASE i \in DOMAIN bottoms /\ bottoms'[i] = bottoms[i]
      BY <1>1, <1>3, <3>1 DEF StartInv, TypeOK
    <3>2. CASE bottoms'[i] = lastFetchedObjectKey
      BY <1>1, <1>3, <3>2 DEF StartInv
    <3> QED
      BY <1>6, <3>1, <3>2
  <2>2. ASSUME NEW key \in 0..posted, Covered(key)
        PROVE  \A child \in Rows' \cap (1..key) : Accounted(child)'
    BY <1>9, <2>2, StaysCovered DEF Covered
  <2>3. \A i \in DOMAIN bottoms' : Covered(bottoms[i])'
    BY <2>1, <2>2 DEF Covered
  <2>4. Covered(lastFetchedObjectKey)'
    BY <1>1, <1>3, <2>2 DEF StartInv, Covered, sourceVars
  <2> QED
    BY <2>1, <2>3, <2>4 DEF StartInv
<1>11. FinishedMeansAll'
  BY <1>1, <1>9, StaysFinished DEF sourceVars, openVars
<1>12. TrapInv'
  BY <1>1 DEF TrapInv
<1>13. OrderInv'
  <2> SUFFICES ASSUME ~overlapped'
               PROVE  /\ Len(bottoms') <= 1
                      /\ \A i \in DOMAIN bottoms' :
                            bottoms'[i] = lastFetchedObjectKey
    BY <1>1 DEF OrderInv, sourceVars
  <2>1. bottoms = <<>>
    BY <1>1
  <2>2. Len(bottoms) = 0 /\ DOMAIN bottoms = {}
    BY <2>1
  <2> QED
    BY <1>5, <1>6, <2>2
<1> QED
  BY <1>7, <1>8, <1>10, <1>11, <1>12, <1>13

LEMMA BottomLoadedStep ==
    ASSUME IInv, NEW i \in DOMAIN bottoms, BottomLoaded(i)
    PROVE  IInv'
<1> USE DEF IInv
<1> DEFINE from == bottoms[i]
           C == Query(from, PageSize + 1)
           P == Parsed(C)
<1>1. posted \in Nat /\ table \in SUBSET (1..posted) /\ PageSize \in Nat \ {0}
  BY BoundsAssumption, PageSizeAssumption DEF TypeOK
<1>2. /\ bottoms \in Seq(1..posted) /\ DOMAIN bottoms = 1..Len(bottoms)
      /\ Len(bottoms) \in Nat
  BY DEF TypeOK
<1>3. from \in 1..posted /\ from \in Nat
  BY <1>1, <1>2
<1>4. from \in starts /\ Covered(from)
  BY DEF StartInv
<1>5. C \in SUBSET (1..posted) /\ C \in SUBSET table /\ \A x \in C : from <= x
  BY <1>1 DEF Query
<1>6. ~trapped /\ opened /\ ~firstInFlight /\ store # <<>>
  <2>1. bottoms # <<>>
    BY <1>2
  <2> QED
    BY <2>1 DEF PhaseInv, BottomLoaded
<1>7. /\ bottoms' = RemoveAt(bottoms, i)
      /\ IF P = {}
         THEN trapped' = TRUE /\ UNCHANGED <<sourceVars, shown>>
         ELSE Extend(C) /\ UNCHANGED trapped
      /\ UNCHANGED <<serverVars, openVars, firstInFlight, starts, overlapped>>
  BY DEF BottomLoaded
<1>8. from \in table => from \in C
  <2>1. PageSize + 1 \in Nat \ {0}
    BY <1>1
  <2> QED
    BY <2>1, QueryHasStart
<1>9. ASSUME NEW x \in C, NEW y \in table, from <= y, y <= x
      PROVE  y \in C
  BY <1>1, <1>3, <1>9, QueryHasNoGap
<1>10. ASSUME NEW y \in table, from <= y, y \notin C
       PROVE  Cardinality(C) >= PageSize + 1
  <2>1. PageSize + 1 \in Nat
    BY <1>1
  <2> QED
    BY <1>3, <1>10, <2>1, QueryLeavesOut
<1>11. P \in SUBSET C /\ \A x \in C : x \in Rows <=> x \in P
  <2> HIDE DEF C
  <2> QED
    BY <1>5, ParsedFacts
<1> HIDE DEF from
<1>12. /\ bottoms' \in Seq(1..posted)
       /\ Len(bottoms') = Len(bottoms) - 1
       /\ \A k \in DOMAIN bottoms' : \E l \in DOMAIN bottoms : bottoms'[k] = bottoms[l]
  <2> DEFINE S == 1..posted
  <2>1. bottoms \in Seq(S)
    BY <1>2
  <2>3. i \in 1..Len(bottoms)
    BY <1>2
  <2> HIDE DEF S, C, P
  <2>2. /\ RemoveAt(bottoms, i) \in Seq(S)
        /\ Len(RemoveAt(bottoms, i)) = Len(bottoms) - 1
        /\ \A k \in DOMAIN RemoveAt(bottoms, i) :
              \E l \in DOMAIN bottoms : RemoveAt(bottoms, i)[k] = bottoms[l]
    BY <2>1, <2>3, OtherQueries
  <2> QED
    BY <1>7, <2>2 DEF S
<1>13. OrderInv /\ ~overlapped => from = lastFetchedObjectKey /\ DOMAIN bottoms' = {}
  <2> SUFFICES ASSUME OrderInv, ~overlapped
               PROVE  from = lastFetchedObjectKey /\ DOMAIN bottoms' = {}
    OBVIOUS
  <2>1. from = lastFetchedObjectKey /\ Len(bottoms) <= 1
    BY DEF OrderInv, from
  <2>2. Len(bottoms) = 1
    BY <1>2, <2>1
  <2>3. DOMAIN bottoms' = 1..0
    BY <1>12, <2>2
  <2> QED
    BY <2>1, <2>3
<1>14. /\ NewRowsAreLast
       /\ UNCHANGED <<posted, table, records, opened, tableAtOpen, firstInFlight,
                      starts, overlapped, Rows>>
  BY <1>7 DEF NewRowsAreLast, Rows, Parsed, serverVars, openVars
<1>15. ASSUME ToSet(store) \subseteq ToSet(store')
       PROVE  \A k \in DOMAIN bottoms' :
                 bottoms'[k] \in starts' /\ Covered(bottoms[k])'
  <2>1. ASSUME NEW key \in 0..posted, Covered(key)
        PROVE  \A child \in Rows' \cap (1..key) : Accounted(child)'
    BY <1>14, <1>15, <2>1, StaysCovered DEF Covered
  <2>2. ASSUME NEW k \in DOMAIN bottoms'
        PROVE  /\ bottoms'[k] \in starts' /\ bottoms'[k] \in 0..posted
               /\ Covered(bottoms'[k])
    <3>1. PICK l \in DOMAIN bottoms : bottoms'[k] = bottoms[l]
      BY <1>12
    <3>2. bottoms[l] \in 0..posted
      BY <1>1, <1>2
    <3> QED
      BY <1>14, <3>1, <3>2 DEF StartInv
  <2> QED
    BY <2>1, <2>2 DEF Covered
<1>16. CASE P = {}
  <2>1. trapped' /\ UNCHANGED <<sourceVars, shown>>
    BY <1>7, <1>16
  <2> HIDE DEF C, P
  <2>2. TypeOK'
    BY <1>12, <1>14, <2>1 DEF TypeOK, sourceVars
  <2>3. PhaseInv'
    BY <1>6, <1>14, <2>1 DEF PhaseInv, sourceVars
  <2>4. ToSet(store) \subseteq ToSet(store') /\ starts \subseteq starts'
    BY <1>14, <2>1 DEF sourceVars
  <2>5. StartInv'
    <3>1. Covered(lastFetchedObjectKey)'
      <4>1. lastFetchedObjectKey \in 0..posted /\ Covered(lastFetchedObjectKey)
        BY DEF TypeOK, StartInv
      <4>2. \A child \in Rows' \cap (1..lastFetchedObjectKey) : Accounted(child)'
        BY <1>14, <2>4, <4>1, StaysCovered DEF Covered
      <4> QED
        BY <2>1, <4>2 DEF Covered, sourceVars
    <3> QED
      BY <1>15, <2>4, <3>1 DEF StartInv
  <2>6. FinishedMeansAll'
    BY <1>14, <2>1, <2>4, StaysFinished DEF sourceVars
  <2>7. OrderInv'
    BY <1>12, <1>13, <1>14, <2>1 DEF OrderInv, sourceVars
  <2>8. TrapInv'
    <3>1. from \notin Rows
      BY <1>8, <1>11, <1>16 DEF Rows, Parsed
    <3> QED
      BY <1>4, <1>14, <3>1 DEF TrapInv
  <2> QED
    BY <2>2, <2>3, <2>5, <2>6, <2>7, <2>8
<1>17. CASE P # {}
  <2> DEFINE D == AfterFirst(P)
  <2>1. /\ store' = store \o InKeyOrder(D)
        /\ didFinishLoadingBottom' = (D = {})
        /\ lastFetchedObjectKey' = Max(C)
        /\ shown' = shown + Cardinality(D)
        /\ UNCHANGED trapped
    BY <1>7, <1>17 DEF Extend
  <2> HIDE DEF C, P
  <2>2. /\ Min(P) \in P /\ \A y \in P : Min(P) <= y
        /\ Max(C) \in C /\ \A y \in C : Max(C) >= y
    <3>1. P \in SUBSET (1..posted) /\ C # {}
      BY <1>5, <1>11, <1>17
    <3> QED
      BY <1>1, <1>5, <1>17, <3>1, MinMaxKeys
  <2>3. D = P \ {Min(P)} /\ D \in SUBSET (1..posted) /\ D \subseteq C
    BY <1>5, <1>11 DEF AfterFirst
  <2> HIDE DEF D
  <2>4. store \in Seq(1..posted)
    BY DEF TypeOK
  <2> DEFINE r == store \o InKeyOrder(D)
  <2>5. /\ r \in Seq(1..posted)
        /\ Len(store) \in Nat /\ Cardinality(D) \in Nat
        /\ Len(r) = Len(store) + Cardinality(D)
        /\ \A k \in 1..Len(store) : r[k] = store[k]
        /\ ToSet(r) = ToSet(store) \cup D
    BY <1>1, <2>3, <2>4, ListBelow, Zenon
  <2>6. store' = r
    BY <2>1
  <2> HIDE DEF r
  <2>7. store' # <<>>
    <3>1. Len(store) # 0
      BY <1>6, <2>4
    <3>2. Len(r) # 0
      BY <2>5, <3>1
    <3> QED
      BY <2>6, <3>2
  <2>8. /\ ToSet(store) \subseteq ToSet(store') /\ starts \subseteq starts'
        /\ D \subseteq ToSet(store')
    BY <1>14, <2>5, <2>6
  <2>9. Max(C) \in 1..posted /\ from <= Max(C)
    BY <1>5, <2>2
  <2>10. TypeOK'
    <3>1. shown' \in Nat
      BY <2>1, <2>5 DEF TypeOK
    <3>2. lastFetchedObjectKey' \in 0..posted
      BY <1>1, <2>1, <2>9
    <3>3. didFinishLoadingBottom' \in BOOLEAN
      BY <2>1
    <3> QED
      BY <1>12, <1>14, <2>1, <2>5, <2>6, <3>1, <3>2, <3>3 DEF TypeOK
  <2>11. PhaseInv'
    <3>1. shown' = Len(store')
      BY <2>1, <2>5, <2>6 DEF PhaseInv
    <3>2. Max(C) # NoKey
      BY <2>9 DEF NoKey
    <3> QED
      BY <1>6, <1>14, <2>1, <2>7, <3>1, <3>2 DEF PhaseInv
  \* The child that removeFirst drops is the one the query started at, which
  \* is accounted for, or the first row after it.
  <2>12. ASSUME NEW child \in Rows, child <= Max(C)
         PROVE  Accounted(child)'
    <3>1. child \in table /\ child \in 1..posted /\ child \in 0..posted
      BY <1>1 DEF Rows, Parsed
    <3>2. CASE child <= from
      <4>1. Accounted(child)
        BY <1>4, <3>1, <3>2 DEF Covered
      <4> QED
        BY <1>14, <2>8, <3>1, <4>1, StaysAccounted
    <3>3. CASE ~(child <= from)
      <4>1. from < child /\ from <= child
        BY <1>3, <3>1, <3>3
      <4>2. child \in P
        <5>1. child \in C
          BY <1>9, <2>2, <2>12, <3>1, <4>1
        <5> QED
          BY <1>11, <2>12, <5>1
      <4>3. CASE child \in D
        BY <2>8, <4>3 DEF Accounted
      <4>4. CASE child \notin D
        <5>1. child = Min(P)
          BY <2>3, <4>2, <4>4
        <5>2. Rows \cap (from..child - 1) = {}
          <6> SUFFICES ASSUME NEW y \in Rows, from <= y, y <= child - 1
                       PROVE  FALSE
            OBVIOUS
          <6>1. y \in table /\ y \in Nat
            BY <1>1 DEF Rows, Parsed
          <6>2. y <= child /\ ~(child <= y)
            BY <3>1, <6>1
          <6>3. y \in P
            BY <1>9, <1>11, <4>2, <6>1, <6>2
          <6> QED
            BY <2>2, <5>1, <6>2, <6>3
        <5>3. DroppedAt(from, child)
          BY <4>1, <5>2 DEF DroppedAt
        <5>4. Accounted(child)
          BY <1>4, <5>3 DEF Accounted
        <5> QED
          BY <1>14, <2>8, <3>1, <5>4, StaysAccounted
      <4> QED
        BY <4>3, <4>4
    <3> QED
      BY <3>2, <3>3
  <2>13. StartInv'
    <3>1. Covered(lastFetchedObjectKey)'
      <4> SUFFICES ASSUME NEW child \in Rows' \cap (1..lastFetchedObjectKey')
                   PROVE  Accounted(child)'
        BY DEF Covered
      <4>1. child \in Rows /\ child <= Max(C)
        BY <1>14, <2>1
      <4> QED
        BY <2>12, <4>1
    <3> QED
      BY <1>15, <2>8, <3>1 DEF StartInv
  \* An answer that parses one child and leaves others out holds a whole page
  \* of children that are no dictionaries.
  <2>14. FinishedMeansAll'
    <3> SUFFICES ASSUME D = {}, NEW child \in tableAtOpen \cap Rows,
                        ~(child <= Max(C))
                 PROVE  child > Max(C) /\ HiddenPage'
      BY <1>14, <2>1, <2>12 DEF FinishedMeansAll
    <3>1. child \in table /\ child \in 1..posted
      BY <1>1 DEF Rows, Parsed
    <3>2. child > Max(C) /\ from <= child /\ child \notin C
      BY <1>3, <2>2, <2>9, <3>1
    <3>3. Cardinality(C) >= PageSize + 1
      BY <1>10, <3>1, <3>2
    <3> DEFINE N == C \ {Min(P)}
               H == (1..Max(C)) \ records
    <3>4. N \subseteq H
      <4> SUFFICES ASSUME NEW x \in C, x # Min(P)
                   PROVE  x \in 1..Max(C) /\ x \notin records
        OBVIOUS
      <4>1. x \notin P
        BY <2>3
      <4>2. x \notin Rows /\ x \in table
        BY <1>5, <1>11, <4>1
      <4> QED
        BY <1>5, <2>2, <2>9, <4>2 DEF Rows, Parsed
    <3>5. IsFiniteSet(C) /\ Cardinality(C) \in Nat
      BY <1>1, <1>5, KeysFinite
    <3>6. Cardinality(N) = Cardinality(C) - 1
      BY <1>11, <2>2, <3>5, FS_RemoveElement
    <3>7. IsFiniteSet(H) /\ Cardinality(H) \in Nat
      <4>1. H \in SUBSET (1..posted)
        BY <1>1, <2>9
      <4> HIDE DEF H
      <4> QED
        BY <1>1, <4>1, KeysFinite
    <3> HIDE DEF N, H
    <3>8. Cardinality(N) <= Cardinality(H)
      BY <3>4, <3>7, FS_Subset
    <3>9. Cardinality(H) >= PageSize
      BY <1>1, <3>3, <3>5, <3>6, <3>7, <3>8
    <3> QED
      BY <1>14, <2>1, <3>2, <3>9 DEF HiddenPage, H
  <2>15. TrapInv'
    BY <1>6, <2>1 DEF TrapInv
  <2>16. OrderInv'
    <3> SUFFICES ASSUME ~overlapped PROVE OrderInv'
      BY <1>14 DEF OrderInv
    <3>1. /\ from = lastFetchedObjectKey
          /\ DOMAIN bottoms' = {}
      BY <1>13
    <3>2. /\ \A k \in DOMAIN store : store[k] <= from
          /\ \A k, l \in DOMAIN store : k < l => store[k] < store[l]
      BY <3>1 DEF OrderInv
    <3>3. DOMAIN store = 1..Len(store) /\ \A k \in DOMAIN store : store[k] \in Nat
      BY <1>1, <2>4
    <3>4. \A k \in 1..Len(store) : \A x \in D : store[k] < x
      <4> SUFFICES ASSUME NEW k \in 1..Len(store), NEW x \in D
                   PROVE  store[k] < x
        OBVIOUS
      <4>1. /\ x \in P /\ x # Min(P) /\ Min(P) <= x
            /\ from <= Min(P) /\ Min(P) \in C
        BY <1>5, <1>11, <2>2, <2>3
      <4>2. store[k] \in Nat /\ store[k] <= from
        BY <3>2, <3>3
      <4>3. x \in Nat /\ Min(P) \in Nat
        <5>1. \A y \in P : y \in Nat
          BY <1>1, <1>5, <1>11
        <5> QED
          BY <2>2, <4>1, <5>1
      <4> QED
        BY <1>3, <4>1, <4>2, <4>3
    <3>5. \A k, l \in 1..Len(r) : k < l => r[k] < r[l]
      BY <1>1, <2>3, <2>4, <3>2, <3>3, <3>4, ListBelowInOrder DEF r
    <3>6. DOMAIN store' = 1..Len(r) /\ store' = r
      BY <2>5, <2>6
    <3>7. ASSUME NEW k \in DOMAIN store'
          PROVE  store'[k] <= lastFetchedObjectKey'
      <4>1. store'[k] \in ToSet(store) \cup D
        BY <2>5, <2>6, <3>7 DEF ToSet
      <4>2. CASE store'[k] \in D
        <5>1. Max(C) >= store'[k] /\ store'[k] \in Nat /\ Max(C) \in Nat
          BY <1>1, <1>5, <2>2, <2>3, <2>9, <4>2
        <5> QED
          BY <2>1, <5>1
      <4>3. CASE store'[k] \in ToSet(store)
        <5>1. store'[k] \in Nat /\ store'[k] <= from
          BY <3>2, <3>3, <4>3 DEF ToSet
        <5>2. from <= Max(C) /\ Max(C) \in Nat
          BY <2>9
        <5> QED
          BY <1>3, <2>1, <5>1, <5>2
      <4> QED
        BY <4>1, <4>2, <4>3
    <3>8. Len(bottoms') <= 1
      <4>1. Len(bottoms') = 0
        BY <1>12, <3>1
      <4> QED
        BY <4>1
    <3> QED
      BY <3>1, <3>5, <3>6, <3>7, <3>8 DEF OrderInv
  <2> QED
    BY <2>10, <2>11, <2>13, <2>14, <2>15, <2>16
<1> QED
  BY <1>16, <1>17

-----------------------------------------------------------------------------
(* The invariant holds at first and is kept by every step.                 *)

LEMMA InitHasInvariant == Init => IInv
<1> SUFFICES ASSUME Init PROVE IInv
  OBVIOUS
<1> USE DEF Init, NoKey
<1>1. posted \in Nat /\ 1..0 = {} /\ ToSet(store) = {}
  BY BoundsAssumption DEF ToSet
<1>2. TypeOK
  <2>1. posted \in 0..MaxPosted /\ table = 1..posted /\ tableAtOpen = {}
    OBVIOUS
  <2>2. store \in Seq(1..posted) /\ bottoms \in Seq(1..posted)
    OBVIOUS
  <2>3. lastFetchedObjectKey \in 0..posted /\ shown \in Nat
    BY <1>1
  <2> QED
    BY <2>1, <2>2, <2>3 DEF TypeOK
<1>3. PhaseInv /\ FinishedMeansAll /\ OrderInv /\ TrapInv
  BY DEF PhaseInv, FinishedMeansAll, OrderInv, TrapInv
<1>4. StartInv
  BY <1>1 DEF StartInv, Covered
<1> QED
  BY <1>2, <1>3, <1>4 DEF IInv

LEMMA LoadFirstStep ==
    ASSUME IInv, LoadFirst
    PROVE  IInv'
<1> USE DEF IInv, LoadFirst, serverVars, sourceVars
<1>1. TypeOK'
  BY DEF TypeOK
<1>2. PhaseInv' /\ FinishedMeansAll'
  BY DEF PhaseInv, FinishedMeansAll
<1>3. UNCHANGED Rows
  BY DEF Rows, Parsed
<1>4. StartInv' /\ OrderInv' /\ TrapInv'
  BY <1>3 DEF StartInv, Covered, Accounted, DroppedAt, OrderInv, TrapInv
<1> QED
  BY <1>1, <1>2, <1>4

LEMMA StepKeepsInvariant == IInv /\ [Next]_vars => IInv'
<1> SUFFICES ASSUME IInv, [Next]_vars PROVE IInv'
  OBVIOUS
<1>1. TypeOK /\ posted \in Nat
  BY BoundsAssumption DEF IInv, TypeOK
<1>2. CASE Push
  <2>1. /\ posted' = posted + 1 /\ posted' \in 0..MaxPosted
        /\ table' = table \cup {posted + 1}
        /\ records' \in {records, records \cup {posted + 1}}
        /\ UNCHANGED <<sourceVars, openVars, queryVars, shown, trapped>>
    BY <1>1, <1>2, BoundsAssumption DEF Push
  <2>2. 1..posted \subseteq 1..posted' /\ posted' \in 1..posted'
    BY <1>1, <2>1
  <2>3. /\ table' \in SUBSET (1..posted') /\ tableAtOpen' \in SUBSET (1..posted')
        /\ records' \in SUBSET (1..posted') /\ starts' \in SUBSET (1..posted')
    BY <1>1, <2>1, <2>2 DEF TypeOK, openVars, queryVars
  <2>4. store' \in Seq(1..posted') /\ bottoms' \in Seq(1..posted')
    <3>1. store \in Seq(1..posted) /\ bottoms \in Seq(1..posted)
      BY <1>1 DEF TypeOK
    <3>2. Seq(1..posted) \subseteq Seq(1..posted')
      BY <2>2, SeqMonotonic
    <3> QED
      BY <2>1, <3>1, <3>2 DEF sourceVars, queryVars
  <2>5. lastFetchedObjectKey' \in 0..posted'
    BY <1>1, <2>1 DEF TypeOK, sourceVars
  <2>6. TypeOK'
    BY <1>1, <2>1, <2>3, <2>4, <2>5 DEF TypeOK, sourceVars, openVars, queryVars
  <2>7. NewRowsAreLast
    BY <2>1 DEF NewRowsAreLast
  <2> QED
    BY <2>1, <2>6, <2>7, ServerStep
<1>3. CASE (\E key \in table : RemoveChild(key)) \/ UNCHANGED vars
  <2>1. /\ UNCHANGED <<posted, records, sourceVars, openVars, queryVars, shown,
                       trapped>>
        /\ table' \subseteq table
    BY <1>3 DEF RemoveChild, vars, serverVars
  <2>2. TypeOK'
    BY <1>1, <2>1 DEF TypeOK, sourceVars, openVars, queryVars
  <2>3. NewRowsAreLast
    BY <2>1 DEF NewRowsAreLast
  <2> QED
    BY <2>1, <2>2, <2>3, ServerStep
<1> QED
  BY <1>2, <1>3, LoadFirstStep, FirstLoadedStep, LoadBottomStep,
     BottomLoadedStep DEF Next

-----------------------------------------------------------------------------
(* The theorems.                                                           *)

\* The invariant the others follow from.
THEOREM AlwaysInvariant == Spec => []IInv
<1> QED
  BY InitHasInvariant, StepKeepsInvariant, PTL DEF Spec

\* Rows, keys of queries and the last key are always keys that were pushed.
THEOREM FirebaseTypeCorrect == Spec => []TypeOK
<1>1. IInv => TypeOK
  BY DEF IInv
<1> QED
  BY <1>1, AlwaysInvariant, PTL

\* Down to its last key the list jumps over no row of the table, but for the
\* first one after a child that a query started at and that is no row.
THEOREM FirebaseNothingSkipped == Spec => []NothingSkipped
<1>1. IInv => NothingSkipped
  BY DEF IInv, StartInv, Covered, NothingSkipped
<1> QED
  BY <1>1, AlwaysInvariant, PTL

\* When the list says it is finished no row of the table it was opened on is
\* missing, but for those dropped in the same way and those beyond a page of
\* children that are no dictionaries.
THEOREM FinishedAlwaysMeansAll == Spec => []FinishedMeansAll
<1>1. IInv => FinishedMeansAll
  BY DEF IInv
<1> QED
  BY <1>1, AlwaysInvariant, PTL

\* The collection view always counts the rows of the data source, and
\* removeFirst meets an empty array only if a query started at a child that
\* was removed or whose value is no dictionary.
THEOREM NeverTraps == Spec => []NoTrap
<1>1. IInv => NoTrap
  BY DEF IInv, PhaseInv, TrapInv, NoTrap
<1> QED
  BY <1>1, AlwaysInvariant, PTL

\* As long as every child that a query started at holds a dictionary and stays
\* in the table, however queries overlap and whatever else is removed or holds
\* no dictionary: no trap, no row missing down to the last key, and, where the
\* other children cannot fill a page, none of those there at the start once
\* the list has finished.
CompleteList ==
    starts \subseteq Rows =>
        /\ ~trapped
        /\ Rows \cap (1..lastFetchedObjectKey) \subseteq ToSet(store)
        /\ didFinishLoadingBottom /\ ~HiddenPage =>
              tableAtOpen \cap Rows \subseteq ToSet(store)

\* So only a page that ends in a child that is no row, or becomes none, costs
\* the list its next row or the app its life.
THEOREM CompleteWhileStartsAreRows == Spec => []CompleteList
<1>1. TypeOK /\ NothingSkipped /\ FinishedMeansAll /\ NoTrap => CompleteList
  <2> SUFFICES ASSUME TypeOK, NothingSkipped, FinishedMeansAll, NoTrap,
                      starts \subseteq Rows
               PROVE  /\ ~trapped
                      /\ Rows \cap (1..lastFetchedObjectKey) \subseteq ToSet(store)
                      /\ didFinishLoadingBottom /\ ~HiddenPage =>
                            tableAtOpen \cap Rows \subseteq ToSet(store)
    BY DEF CompleteList
  <2>1. \A x \in Rows : x \in Nat
    BY BoundsAssumption DEF TypeOK, Rows, Parsed
  <2>2. ASSUME NEW key \in Rows, Accounted(key)
        PROVE  key \in ToSet(store)
    <3> SUFFICES ASSUME NEW start \in starts, start < key,
                        Rows \cap (start..key - 1) = {}
                 PROVE  FALSE
      BY <2>2 DEF Accounted, DroppedAt
    <3>1. start \in Nat /\ key \in Nat
      BY <2>1
    <3>2. start \in start..key - 1
      BY <3>1
    <3> QED
      BY <3>2
  <2>3. ~trapped
    BY DEF NoTrap
  <2>4. Rows \cap (1..lastFetchedObjectKey) \subseteq ToSet(store)
    BY <2>2 DEF NothingSkipped
  <2>5. didFinishLoadingBottom /\ ~HiddenPage =>
           tableAtOpen \cap Rows \subseteq ToSet(store)
    BY <2>2 DEF FinishedMeansAll
  <2> QED
    BY <2>3, <2>4, <2>5
<1> QED
  BY <1>1, FirebaseTypeCorrect, FirebaseNothingSkipped, FinishedAlwaysMeansAll,
     NeverTraps, PTL

\* While no two queries overlap no child is shown twice or out of order.
THEOREM AlwaysInOrder == Spec => []EachOnceInOrder
<1>1. IInv => EachOnceInOrder
  BY DEF IInv, OrderInv, EachOnceInOrder
<1> QED
  BY <1>1, AlwaysInvariant, PTL

\* Whatever overlaps and whatever is removed, the list is a Feed that may
\* repeat rows: no row on screen ever moves or goes.
THEOREM FirebaseFeedImplementsFeed == Spec => ImplementsFeed
<1>1. Init => AbstractFeed!Init
  BY BoundsAssumption DEF Init, AbstractFeed!Init
<1>2. IInv /\ [Next]_vars => [AbstractFeed!Next]_AbstractFeed!vars
  <2> SUFFICES ASSUME IInv, [Next]_vars
               PROVE  [AbstractFeed!Next]_AbstractFeed!vars
    OBVIOUS
  <2> USE DEF AbstractFeed!vars, AbstractFeed!Next, serverVars, sourceVars
  <2>1. posted \in Nat /\ table \in SUBSET (1..posted) /\ store \in Seq(1..posted)
    BY BoundsAssumption DEF IInv, TypeOK
  <2>2. ASSUME NEW S \in SUBSET (1..posted), store' = store \o InKeyOrder(S),
               UNCHANGED posted
        PROVE  AbstractFeed!Extend
    <3>1. store \in Seq(1..posted)
      BY <2>1
    <3> DEFINE r == store \o InKeyOrder(S)
    <3>2. /\ r \in Seq(1..posted)
          /\ Len(store) \in Nat /\ Cardinality(S) \in Nat
          /\ Len(r) = Len(store) + Cardinality(S)
          /\ \A i \in 1..Len(store) : r[i] = store[i]
      BY <2>1, <3>1, ListBelow, Zenon
    <3>3. store' = r
      BY <2>2
    <3> HIDE DEF r
    <3>4. Len(store) <= Len(r) /\ DOMAIN store = 1..Len(store)
      BY <3>1, <3>2
    <3> QED
      BY <2>2, <3>2, <3>3, <3>4 DEF AbstractFeed!Extend
  <2>3. CASE Push
    BY <2>3 DEF Push, AbstractFeed!Post
  <2>4. CASE (\E key \in table : RemoveChild(key)) \/ LoadFirst \/ LoadBottom
             \/ UNCHANGED vars
    BY <2>4 DEF RemoveChild, LoadFirst, LoadBottom, vars
  <2>5. CASE FirstLoaded
    <3>1. Parsed(Query(NoKey, PageSize)) \in SUBSET (1..posted)
      BY <2>1 DEF Query, Parsed
    <3> QED
      BY <2>2, <2>5, <3>1 DEF FirstLoaded
  <2>6. ASSUME NEW i \in DOMAIN bottoms, BottomLoaded(i)
        PROVE  AbstractFeed!Extend \/ UNCHANGED AbstractFeed!vars
    <3> DEFINE C == Query(bottoms[i], PageSize + 1)
    <3>1. AfterFirst(Parsed(C)) \in SUBSET (1..posted)
      BY <2>1 DEF Query, AfterFirst, Parsed
    <3>2. \/ UNCHANGED <<store, posted>>
          \/ store' = store \o InKeyOrder(AfterFirst(Parsed(C))) /\ UNCHANGED posted
      BY <2>6 DEF BottomLoaded, Extend
    <3> HIDE DEF C
    <3> QED
      BY <2>2, <3>1, <3>2
  <2> QED
    BY <2>3, <2>4, <2>5, <2>6 DEF Next
<1> QED
  BY <1>1, <1>2, AlwaysInvariant, PTL DEF Spec, ImplementsFeed, AbstractFeed!Spec
=============================================================================
