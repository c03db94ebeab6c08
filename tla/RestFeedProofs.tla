--------------------------- MODULE RestFeedProofs ---------------------------
(***************************************************************************)
(* Theorems about RestFeed: its type, its rows, its paging and that it is  *)
(* a Feed, for every page size and any number of published items.          *)
(***************************************************************************)
EXTENDS RestFeed, FiniteSetTheorems, SequenceTheorems, WellFoundedInduction, TLAPS

-----------------------------------------------------------------------------
(* Listing a finite set newest first.                                      *)

\* A nonempty set of numbers has a least one.
LEMMA LeastElement ==
  ASSUME NEW T \in SUBSET Nat, T # {}
  PROVE  \E x \in T : \A y \in T : x <= y
<1>1. PICK x \in T : \A y \in T : <<y, x>> \notin OpToRel(<, Nat)
  BY NatLessThanWellFounded, WFMin
<1>2. \A y \in T : ~(y < x)
  BY <1>1 DEF OpToRel
<1>. QED
  BY <1>2

IsListing(s, S) ==
    /\ s \in [1..Cardinality(S) -> S]
    /\ S = Range(s)
    /\ \A i, j \in DOMAIN s : i < j => s[i] > s[j]

\* Every finite set of numbers has a listing: by induction on its size, the
\* least element goes last.
LEMMA ListingExists ==
  ASSUME NEW S \in SUBSET Nat, IsFiniteSet(S)
  PROVE  \E s : IsListing(s, S)
<1>. DEFINE Listless == {n \in Nat : \E T \in SUBSET Nat :
                            /\ IsFiniteSet(T)
                            /\ Cardinality(T) = n
                            /\ ~ \E s : IsListing(s, T)}
<1>1. SUFFICES Listless = {}
  BY <1>1, FS_CardinalityType
<1>2. SUFFICES ASSUME Listless # {} PROVE FALSE
  OBVIOUS
<1>3. PICK n \in Listless : \A k \in Listless : n <= k
  BY <1>2, LeastElement
<1>4. PICK T \in SUBSET Nat : /\ IsFiniteSet(T)
                              /\ Cardinality(T) = n
                              /\ ~ \E s : IsListing(s, T)
  BY <1>3
<1>5. CASE T = {}
  <2>1. n = 0
    BY <1>4, <1>5, FS_EmptySet
  <2>2. IsListing([i \in 1..0 |-> 0], T)
    BY <1>4, <1>5, <2>1 DEF IsListing, Range
  <2>. QED
    BY <1>4, <2>2
<1>6. CASE T # {}
  <2>1. PICK m \in T : \A y \in T : m <= y
    BY <1>4, <1>6, LeastElement
  <2>2. /\ T \ {m} \in SUBSET Nat
        /\ IsFiniteSet(T \ {m})
        /\ Cardinality(T \ {m}) = n - 1
        /\ n \in Nat
        /\ n - 1 \in Nat
    <3>1. IsFiniteSet(T \ {m}) /\ Cardinality(T \ {m}) = n - 1
      BY <1>4, <2>1, FS_RemoveElement
    <3>2. Cardinality(T \ {m}) \in Nat
      BY <3>1, FS_CardinalityType
    <3>. QED
      BY <3>1, <3>2, <1>4
  <2>3. n - 1 \notin Listless
    BY <1>3, <2>2
  <2>4. PICK t : IsListing(t, T \ {m})
    BY <2>2, <2>3
  <2>. DEFINE s == [i \in 1..n |-> IF i = n THEN m ELSE t[i]]
  <2>5. t \in [1..n - 1 -> T \ {m}] /\ DOMAIN t = 1..n - 1
    BY <2>2, <2>4 DEF IsListing
  <2>6. s \in [1..Cardinality(T) -> T]
    BY <1>4, <2>1, <2>2, <2>5
  <2>7. T = Range(s)
    <3>1. ASSUME NEW x \in T PROVE x \in Range(s)
      <4>1. CASE x = m
        <5>1. n \in DOMAIN s /\ s[n] = m /\ n \in 1..n
          BY <2>2
        <5>. QED
          BY <4>1, <5>1 DEF Range
      <4>2. CASE x # m
        <5>1. PICK i \in 1..n - 1 : t[i] = x
          BY <4>2, <2>4, <2>5 DEF IsListing, Range
        <5>2. i \in 1..n /\ i # n /\ s[i] = x
          BY <5>1, <2>2
        <5>. QED
          BY <5>2 DEF Range
      <4>. QED
        BY <4>1, <4>2
    <3>. QED
      BY <3>1, <2>6 DEF Range
  <2>8. \A i, j \in DOMAIN s : i < j => s[i] > s[j]
    <3>1. SUFFICES ASSUME NEW i \in 1..n, NEW j \in 1..n, i < j
                   PROVE  s[i] > s[j]
      OBVIOUS
    <3>0. i \in 1..n - 1 /\ i # n
      BY <3>1, <2>2
    <3>2. s[i] = t[i] /\ t[i] \in T \ {m}
      BY <3>0, <3>1, <2>5
    <3>3. CASE j = n
      <4>1. s[j] = m /\ m \in Nat /\ t[i] \in Nat
        BY <3>1, <3>2, <3>3, <2>1
      <4>2. m <= t[i] /\ m # t[i]
        BY <3>2, <2>1
      <4>. QED
        BY <3>2, <4>1, <4>2
    <3>4. CASE j # n
      <4>1. j \in 1..n - 1 /\ s[j] = t[j]
        BY <3>1, <3>4, <2>2
      <4>2. t[i] > t[j]
        BY <3>0, <3>1, <4>1, <2>4, <2>5 DEF IsListing
      <4>. QED
        BY <3>2, <4>1, <4>2
    <3>. QED
      BY <3>3, <3>4
  <2>9. IsListing(s, T)
    BY <2>6, <2>7, <2>8 DEF IsListing
  <2>. QED
    BY <1>4, <2>9
<1>. QED
  BY <1>5, <1>6

\* What Fresh appends: the objects that are not in the store, once each.
LEMMA FreshFacts ==
  ASSUME NEW objects \in SUBSET Nat, IsFiniteSet(objects)
  PROVE  /\ Fresh(objects) \in Seq(objects)
         /\ Range(Fresh(objects)) = objects \ Range(store)
         /\ \A i, j \in 1..Len(Fresh(objects)) :
               Fresh(objects)[i] = Fresh(objects)[j] => i = j
<1>. DEFINE new == objects \ Range(store)
<1>1. IsFiniteSet(new) /\ new \in SUBSET Nat
  BY FS_Subset
<1>2. IsListing(NewestFirst(new), new)
  BY <1>1, ListingExists DEF IsListing, NewestFirst
<1>3. Cardinality(new) \in Nat
  BY <1>1, FS_CardinalityType
<1>4. NewestFirst(new) \in Seq(new) /\ Len(NewestFirst(new)) = Cardinality(new)
  <2>1. ASSUME NEW k \in Nat, NEW f \in [1..k -> new]
        PROVE  f \in Seq(new) /\ Len(f) = k
    OBVIOUS
  <2>2. NewestFirst(new) \in [1..Cardinality(new) -> new]
    BY <1>2 DEF IsListing
  <2>. QED
    BY <1>3, <2>1, <2>2
<1>5. ASSUME NEW i \in 1..Cardinality(new), NEW j \in 1..Cardinality(new),
             NewestFirst(new)[i] = NewestFirst(new)[j]
      PROVE  i = j
  <2>1. NewestFirst(new)[i] \in Nat /\ DOMAIN NewestFirst(new) = 1..Cardinality(new)
    BY <1>1, <1>2 DEF IsListing
  <2>2. \A a, b \in 1..Cardinality(new) : a < b => NewestFirst(new)[a] > NewestFirst(new)[b]
    BY <1>2, <2>1 DEF IsListing
  <2>3. ~(i < j) /\ ~(j < i)
    <3>1. ~(NewestFirst(new)[i] > NewestFirst(new)[j])
      BY <1>5, <2>1
    <3>2. ~(NewestFirst(new)[j] > NewestFirst(new)[i])
      BY <1>5, <2>1
    <3>. QED
      BY <2>2, <3>1, <3>2
  <2>. QED
    BY <1>3, <2>3
<1>6. NewestFirst(new) \in Seq(objects)
  BY <1>4, SeqMonotonic
<1>. QED
  BY <1>2, <1>4, <1>5, <1>6 DEF Fresh, IsListing

\* What an answer appends to a store of distinct items.
LEMMA AppendFacts ==
  ASSUME NEW n \in Nat, store \in Seq(1..n), AbstractFeed!Distinct(store),
         NEW objects \in SUBSET (1..n)
  PROVE  /\ Fresh(objects) \in Seq(1..n)
         /\ Len(Fresh(objects)) \in Nat
         /\ store \o Fresh(objects) \in Seq(1..n)
         /\ Len(store \o Fresh(objects)) = Len(store) + Len(Fresh(objects))
         /\ \A i \in DOMAIN store : (store \o Fresh(objects))[i] = store[i]
         /\ Range(store \o Fresh(objects)) = Range(store) \cup objects
         /\ AbstractFeed!Distinct(store \o Fresh(objects))
<1>. DEFINE new == Fresh(objects)
            all == store \o new
<1>1. IsFiniteSet(objects) /\ objects \in SUBSET Nat
  <2>1. IsFiniteSet(1..n)
    BY FS_Interval, 1 \in Int, n \in Int
  <2>2. IsFiniteSet(objects)
    BY <2>1, FS_Subset
  <2>. QED
    BY <2>2
<1>2. /\ new \in Seq(objects)
      /\ Range(new) = objects \ Range(store)
      /\ \A i, j \in 1..Len(new) : new[i] = new[j] => i = j
  BY <1>1, FreshFacts
<1>3. new \in Seq(1..n)
  BY <1>2, SeqMonotonic
<1>. HIDE DEF new
<1>4. /\ Len(new) \in Nat
      /\ Len(store) \in Nat
      /\ all \in Seq(1..n)
      /\ Len(all) = Len(store) + Len(new)
      /\ \A i \in 1..Len(store) + Len(new) :
            all[i] = IF i <= Len(store) THEN store[i] ELSE new[i - Len(store)]
  BY <1>3, LenProperties, ConcatProperties
<1>5. /\ DOMAIN store = 1..Len(store)
      /\ DOMAIN new = 1..Len(new)
      /\ DOMAIN all = 1..Len(store) + Len(new)
  BY <1>3, <1>4
<1>6. \A i \in DOMAIN store : all[i] = store[i]
  BY <1>4, <1>5
<1>7. \A i \in 1..Len(new) : i + Len(store) \in DOMAIN all /\ all[i + Len(store)] = new[i]
  BY <1>4, <1>5
<1>8. \A i \in DOMAIN all :
         \/ i \in DOMAIN store /\ all[i] = store[i]
         \/ i - Len(store) \in DOMAIN new /\ all[i] = new[i - Len(store)]
  BY <1>4, <1>5
<1>. HIDE DEF all
<1>9. Range(all) = Range(store) \cup objects
  <2>1. Range(all) \subseteq Range(store) \cup Range(new)
    BY <1>8 DEF Range
  <2>2. Range(store) \subseteq Range(all)
    <3>1. DOMAIN store \subseteq DOMAIN all
      BY <1>4, <1>5
    <3>. QED
      BY <1>6, <3>1 DEF Range
  <2>3. Range(new) \subseteq Range(all)
    BY <1>5, <1>7 DEF Range
  <2>. QED
    BY <1>2, <2>1, <2>2, <2>3
<1>10. AbstractFeed!Distinct(all)
  <2>1. SUFFICES ASSUME NEW i \in DOMAIN all, NEW j \in DOMAIN all, all[i] = all[j]
                 PROVE  i = j
    BY DEF AbstractFeed!Distinct
  <2>2. CASE i \in DOMAIN store /\ j \in DOMAIN store
    BY <1>6, <2>1, <2>2 DEF AbstractFeed!Distinct
  <2>3. CASE i \notin DOMAIN store /\ j \notin DOMAIN store
    <3>1. /\ i - Len(store) \in DOMAIN new /\ all[i] = new[i - Len(store)]
          /\ j - Len(store) \in DOMAIN new /\ all[j] = new[j - Len(store)]
      BY <1>8, <2>3
    <3>2. i - Len(store) = j - Len(store)
      BY <1>2, <1>5, <2>1, <3>1
    <3>. QED
      BY <1>4, <1>5, <3>2
  <2>4. \A k \in DOMAIN all : k \in DOMAIN store => all[k] \in Range(store)
    BY <1>6 DEF Range
  <2>5. \A k \in DOMAIN all : k \notin DOMAIN store => all[k] \notin Range(store)
    BY <1>2, <1>8 DEF Range
  <2>. QED
    BY <2>1, <2>2, <2>3, <2>4, <2>5
<1>. QED
  BY <1>3, <1>4, <1>6, <1>9, <1>10 DEF all, new

-----------------------------------------------------------------------------
(* The inductive invariant.                                                *)

\* Before the first answer the list is as it was created, and the first
\* request is alone: nothing can be pulled or scrolled yet.
FirstInv ==
    /\ ~opened => /\ inFlight = {}
                  /\ store = <<>>
                  /\ currentPage = 0
                  /\ ~bottomStreamLoadingEnded
    /\ \A r \in inFlight : r.kind = "first" =>
          /\ inFlight = {r}
          /\ store = <<>>
          /\ currentPage = 0
          /\ ~bottomStreamLoadingEnded
          /\ r.page = 0
          /\ postedAtOpen <= r.since

\* One bottom request at a time, and none once the end was met.
BottomInv ==
    /\ BottomAsksNextPage
    /\ \A r \in inFlight : r.kind = "bottom" => ~bottomStreamLoadingEnded
    /\ \A r, q \in inFlight : r.kind = "bottom" /\ q.kind = "bottom" => r = q

StoreInv ==
    /\ store \in Seq(1..posted)
    /\ AbstractFeed!Distinct(store)
    /\ RowsMatch

PageInv ==
    /\ \A r \in inFlight : r.since <= posted
    /\ ~bottomStreamLoadingEnded => currentPage <= MaxPosted

\* What was published before the list was opened and is not in it yet lies
\* at or below the next page, now and when a bottom request was sent.
CoverInv ==
    "notAList" \notin Faults =>
        /\ EndReached
        /\ \A x \in 1..postedAtOpen : x \notin Range(store) =>
              /\ currentPage * PageSize <= posted - x
              /\ \A r \in inFlight : r.kind = "bottom" => r.page * PageSize <= r.since - x

IInv == TypeOK /\ FirstInv /\ BottomInv /\ StoreInv /\ PageInv /\ CoverInv

\* What an answer may hold.
LEMMA AnswerFacts ==
  ASSUME TypeOK, NEW r \in inFlight, NEW objects \in Answers(r)
  PROVE  /\ objects \in SUBSET (1..posted)
         /\ \/ \E n \in r.since..posted : objects = Page(n, r.page)
            \/ "notAList" \in Faults /\ objects = {}
<1>1. r \in Request /\ posted \in 0..MaxPosted /\ r.since \in 0..MaxPosted
  BY DEF TypeOK, Request
<1>2. \/ \E n \in r.since..posted : objects = Page(n, r.page)
      \/ "notAList" \in Faults /\ objects = {}
  BY DEF Answers
<1>3. \A n \in r.since..posted : Page(n, r.page) \subseteq 1..posted
  BY <1>1, MaxPostedAssumption DEF Page
<1>. QED
  BY <1>2, <1>3

\* An item that a page does not show is above it or below it.
LEMMA PageFacts ==
  ASSUME NEW n \in Nat, NEW page \in Nat
  PROVE  /\ \A x \in 1..n : page * PageSize <= n - x /\ x \notin Page(n, page)
                => (page + 1) * PageSize <= n - x
         /\ Page(n, page) # {} => page < n
         /\ page * PageSize \in Nat
<1>1. PageSize \in Nat /\ PageSize >= 1
  BY PageSizeAssumption
<1>2. page * PageSize \in Nat /\ (page + 1) * PageSize = page * PageSize + PageSize
  BY <1>1
<1>3. page <= page * PageSize
  BY <1>1
<1>4. \A x \in 1..n : page * PageSize <= n - x /\ x \notin Page(n, page)
         => (page + 1) * PageSize <= n - x
  BY <1>1, <1>2 DEF Page
<1>5. Page(n, page) # {} => page < n
  BY <1>2, <1>3 DEF Page
<1>. QED
  BY <1>2, <1>4, <1>5

LEMMA InvInit == Init => IInv
<1>. SUFFICES ASSUME Init PROVE IInv
  OBVIOUS
<1>. USE MaxPostedAssumption DEF Init
<1>1. TypeOK
  <2>1. store \in Seq(Items)
    BY EmptySeq
  <2>2. posted \in 0..MaxPosted /\ 0 \in 0..posted /\ 0 \in 0..MaxPosted + 1
    OBVIOUS
  <2>. QED
    BY <2>1, <2>2 DEF TypeOK
<1>2. FirstInv /\ BottomInv /\ StoreInv /\ PageInv
  BY DEF FirstInv, BottomInv, BottomAsksNextPage, StoreInv, RowsMatch, PageInv,
         AbstractFeed!Distinct
<1>3. CoverInv
  BY DEF CoverInv, EndReached
<1>. QED
  BY <1>1, <1>2, <1>3 DEF IInv

\* The steps that send a request or publish an item.
LEMMA InvSend == IInv /\ (Publish \/ LoadFirst \/ LoadBottom \/ PullToRefresh) => IInv'
<1>. SUFFICES ASSUME IInv, Publish \/ LoadFirst \/ LoadBottom \/ PullToRefresh
              PROVE  IInv'
  OBVIOUS
<1>. USE MaxPostedAssumption DEF IInv
<1>0. /\ posted \in Nat /\ posted <= MaxPosted /\ postedAtOpen \in Nat /\ postedAtOpen <= posted
      /\ \A r \in inFlight : r \in Request /\ r.since \in Nat /\ r.page \in Nat
      /\ currentPage \in Nat
  BY DEF TypeOK, Request
<1>p. currentPage * PageSize \in Nat /\ \A r \in inFlight : r.page * PageSize \in Nat
  BY <1>0, PageFacts
<1>s. Len(store) \in Nat /\ DOMAIN store = 1..Len(store)
  BY DEF StoreInv
<1>1. CASE Publish
  <2>. USE <1>1 DEF Publish, sourceVars, viewVars
  <2>1. posted' = posted + 1 /\ UNCHANGED <<store, currentPage, inFlight, postedAtOpen>>
    OBVIOUS
  <2>2. TypeOK'
    BY <1>0 DEF TypeOK
  <2>3. FirstInv' /\ BottomInv'
    BY DEF FirstInv, BottomInv, BottomAsksNextPage
  <2>4. StoreInv'
    <3>1. store \in Seq(1..posted + 1)
      BY <1>0, SeqMonotonic, 1..posted \subseteq 1..posted + 1 DEF StoreInv
    <3>. QED
      BY <3>1 DEF StoreInv, RowsMatch, AbstractFeed!Distinct
  <2>5. PageInv'
    BY <1>0 DEF PageInv
  <2>6. CoverInv'
    <3>1. SUFFICES ASSUME "notAList" \notin Faults PROVE CoverInv'
      BY DEF CoverInv
    <3>2. EndReached'
      BY <3>1 DEF CoverInv, EndReached
    <3>3. ASSUME NEW x \in 1..postedAtOpen', x \notin Range(store')
          PROVE  /\ currentPage' * PageSize <= posted' - x
                 /\ \A r \in inFlight' : r.kind = "bottom" => r.page * PageSize <= r.since - x
      <4>1. /\ currentPage * PageSize <= posted - x
            /\ \A r \in inFlight : r.kind = "bottom" => r.page * PageSize <= r.since - x
        BY <2>1, <3>1, <3>3 DEF CoverInv
      <4>. QED
        BY <2>1, <4>1, <1>0, <1>p
    <3>. QED
      BY <3>2, <3>3 DEF CoverInv
  <2>. QED
    BY <2>2, <2>3, <2>4, <2>5, <2>6
<1>2. CASE LoadFirst
  <2>. DEFINE new == [kind |-> "first", page |-> 0, since |-> posted]
  <2>. USE <1>2 DEF LoadFirst, sourceVars, serverVars, Send
  <2>1. inFlight = {} /\ inFlight' = {new} /\ store = <<>> /\ Range(store) = {}
    BY DEF FirstInv, Range
  <2>2. new \in Request /\ new.kind = "first" /\ new.page = 0 /\ new.since = posted
    BY <1>0 DEF Request, Kinds
  <2>. HIDE DEF new
  <2>3. TypeOK'
    BY <2>1, <2>2, <1>0 DEF TypeOK
  <2>4. FirstInv'
    BY <2>1, <2>2, <1>0 DEF FirstInv
  <2>5. BottomInv' /\ StoreInv' /\ PageInv'
    BY <2>1, <2>2, <1>0 DEF BottomInv, BottomAsksNextPage, StoreInv, RowsMatch, PageInv,
                            AbstractFeed!Distinct
  <2>6. CoverInv'
    <3>1. currentPage = 0 /\ ~bottomStreamLoadingEnded
      BY DEF FirstInv
    <3>2. currentPage * PageSize = 0
      BY <3>1, PageSizeAssumption
    <3>3. EndReached'
      BY <3>1 DEF EndReached
    <3>4. ASSUME NEW x \in 1..posted
          PROVE  /\ currentPage * PageSize <= posted - x
                 /\ \A r \in inFlight' : r.kind # "bottom"
      BY <2>1, <2>2, <3>2, <1>0
    <3>. QED
      BY <3>3, <3>4 DEF CoverInv
  <2>. QED
    BY <2>3, <2>4, <2>5, <2>6
<1>3. CASE LoadBottom
  <2>. DEFINE new == [kind |-> "bottom", page |-> currentPage, since |-> posted]
  <2>. USE <1>3 DEF LoadBottom, serverVars, viewVars, Send
  <2>1. inFlight' = inFlight \cup {new}
    OBVIOUS
  <2>2. new \in Request /\ new.kind = "bottom" /\ new.page = currentPage /\ new.since = posted
    BY <1>0 DEF Request, Kinds, TypeOK
  <2>. HIDE DEF new
  <2>3. store # <<>> /\ opened /\ \A r \in inFlight : r.kind # "first" /\ r.kind # "bottom"
    <3>1. store # <<>>
      BY DEF StoreInv, RowsMatch
    <3>. QED
      BY <3>1 DEF FirstInv, BottomInv, BottomAsksNextPage
  <2>4. TypeOK'
    BY <2>1, <2>2 DEF TypeOK
  <2>5. FirstInv' /\ BottomInv'
    BY <2>1, <2>2, <2>3 DEF FirstInv, BottomInv, BottomAsksNextPage
  <2>6. StoreInv' /\ PageInv'
    BY <2>1, <2>2, <1>0 DEF StoreInv, RowsMatch, PageInv, AbstractFeed!Distinct
  <2>7. CoverInv'
    <3>1. SUFFICES ASSUME "notAList" \notin Faults PROVE CoverInv'
      BY DEF CoverInv
    <3>2. EndReached'
      BY <3>1 DEF CoverInv, EndReached
    <3>3. ASSUME NEW x \in 1..postedAtOpen, x \notin Range(store)
          PROVE  /\ currentPage * PageSize <= posted - x
                 /\ \A r \in inFlight' : r.kind = "bottom" => r.page * PageSize <= r.since - x
      BY <3>1, <3>3, <2>1, <2>2, <2>3 DEF CoverInv
    <3>. QED
      BY <3>2, <3>3 DEF CoverInv
  <2>. QED
    BY <2>4, <2>5, <2>6, <2>7
<1>4. CASE PullToRefresh
  <2>. DEFINE new == [kind |-> "top", page |-> 0, since |-> posted]
  <2>. USE <1>4 DEF PullToRefresh, serverVars, Send
  <2>1. inFlight' = inFlight \/ inFlight' = inFlight \cup {new}
    OBVIOUS
  <2>2. new \in Request /\ new.kind = "top" /\ new.since = posted
    BY <1>0 DEF Request, Kinds
  <2>. HIDE DEF new
  <2>3. store # <<>> /\ opened /\ \A r \in inFlight : r.kind # "first"
    <3>1. store # <<>>
      BY DEF StoreInv, RowsMatch
    <3>. QED
      BY <3>1 DEF FirstInv
  <2>4. TypeOK'
    <3>1. inFlight' \in SUBSET Request
      BY <2>1, <2>2 DEF TypeOK
    <3>2. isLoadingTop' \in BOOLEAN /\ refreshing' \in BOOLEAN
      BY DEF TypeOK
    <3>. QED
      BY <3>1, <3>2 DEF TypeOK
  <2>5. FirstInv' /\ BottomInv'
    BY <2>1, <2>2, <2>3 DEF FirstInv, BottomInv, BottomAsksNextPage
  <2>6. StoreInv' /\ PageInv'
    BY <2>1, <2>2, <1>0 DEF StoreInv, RowsMatch, PageInv, AbstractFeed!Distinct
  <2>7. CoverInv'
    BY <2>1, <2>2 DEF CoverInv, EndReached
  <2>. QED
    BY <2>4, <2>5, <2>6, <2>7
<1>. QED
  BY <1>1, <1>2, <1>3, <1>4

\* The answers.  Each extends the store as AppendFacts says.
LEMMA InvAnswer == IInv /\ Answered => IInv'
<1>. SUFFICES ASSUME IInv, NEW r \in inFlight,
                     \/ \E objects \in Answers(r) : \/ FirstLoaded(r, objects)
                                                    \/ BottomLoaded(r, objects)
                                                    \/ TopLoaded(r, objects)
                     \/ RequestFailed(r)
              PROVE  IInv'
  BY DEF Answered
<1>. USE MaxPostedAssumption DEF IInv
<1>0. /\ posted \in Nat /\ posted <= MaxPosted /\ postedAtOpen \in Nat /\ postedAtOpen <= posted
      /\ \A q \in inFlight : q \in Request /\ q.since \in Nat /\ q.page \in Nat
      /\ currentPage \in Nat /\ currentPage <= MaxPosted + 1
  BY DEF TypeOK, Request
<1>p. currentPage * PageSize \in Nat /\ \A q \in inFlight : q.page * PageSize \in Nat
  BY <1>0, PageFacts
<1>1. CASE RequestFailed(r)
  <2>. USE <1>1 DEF RequestFailed, Close, serverVars, sourceVars, viewVars
  <2>1. inFlight' \subseteq inFlight
    OBVIOUS
  <2>2. TypeOK' /\ FirstInv' /\ BottomInv'
    <3>1. r.kind \in Kinds
      BY <1>0 DEF Request
    <3>. QED
      BY <2>1, <3>1 DEF TypeOK, FirstInv, BottomInv, BottomAsksNextPage
  <2>3. StoreInv' /\ PageInv'
    BY <2>1 DEF StoreInv, RowsMatch, PageInv, AbstractFeed!Distinct
  <2>4. CoverInv'
    BY <2>1 DEF CoverInv, EndReached
  <2>. QED
    BY <2>2, <2>3, <2>4
<1>2. ASSUME NEW objects \in Answers(r),
             FirstLoaded(r, objects) \/ BottomLoaded(r, objects) \/ TopLoaded(r, objects)
      PROVE  IInv'
  <2>1. /\ objects \in SUBSET (1..posted)
        /\ \/ \E n \in r.since..posted : objects = Page(n, r.page)
           \/ "notAList" \in Faults /\ objects = {}
    BY AnswerFacts
  <2>2. store' = store \o Fresh(objects) /\ UNCHANGED <<posted, postedAtOpen, opened>>
    BY <1>2 DEF FirstLoaded, BottomLoaded, TopLoaded, serverVars
  <2>3. inFlight' = inFlight \ {r}
    BY <1>2 DEF FirstLoaded, BottomLoaded, TopLoaded, Close
  <2>4. /\ Len(Fresh(objects)) \in Nat
        /\ store' \in Seq(1..posted)
        /\ Len(store') = Len(store) + Len(Fresh(objects))
        /\ Range(store') = Range(store) \cup objects
        /\ AbstractFeed!Distinct(store')
    BY <1>0, <2>1, <2>2, AppendFacts DEF StoreInv
  <2>5. StoreInv'
    <3>1. shown' = Len(store')
      BY <1>2, <2>4 DEF FirstLoaded, BottomLoaded, TopLoaded, StoreInv, RowsMatch
    <3>2. AbstractFeed!Distinct(store)'
      BY <2>4 DEF AbstractFeed!Distinct
    <3>. QED
      BY <2>2, <2>4, <3>1, <3>2 DEF StoreInv, RowsMatch
  <2>6. store' \in Seq(Items) /\ shown' \in Nat
    <3>1. store' \in Seq(Items)
      BY <1>0, <2>4, SeqMonotonic, 1..posted \subseteq Items DEF Items
    <3>. QED
      BY <2>5, <3>1 DEF StoreInv, RowsMatch
  <2>7. CASE FirstLoaded(r, objects)
    <3>. USE <2>7 DEF FirstLoaded
    <3>1. /\ inFlight' = {} /\ store = <<>> /\ ~bottomStreamLoadingEnded
          /\ r.page = 0 /\ postedAtOpen <= r.since /\ opened /\ Range(store) = {}
      BY <2>3 DEF FirstInv, Range
    <3>2. bottomStreamLoadingEnded' \/ MaxPosted >= 1
      <4>1. CASE objects = {}
        BY <4>1, <3>1
      <4>2. CASE objects # {}
        <5>1. PICK x \in 1..posted : TRUE
          BY <4>2, <2>1
        <5>. QED
          BY <5>1, <1>0
      <4>. QED
        BY <4>1, <4>2
    <3>3. TypeOK'
      BY <1>0, <2>2, <2>3, <2>6, <3>1 DEF TypeOK
    <3>4. FirstInv' /\ BottomInv' /\ PageInv'
      BY <2>2, <3>1, <3>2 DEF FirstInv, BottomInv, BottomAsksNextPage, PageInv
    <3>5. CoverInv'
      <4>1. SUFFICES ASSUME "notAList" \notin Faults PROVE CoverInv'
        BY DEF CoverInv
      <4>2. PICK n \in r.since..posted : objects = Page(n, 0)
        BY <2>1, <3>1, <4>1
      <4>3. n \in Nat /\ postedAtOpen <= n /\ n <= posted
        BY <1>0, <3>1, <4>2
      <4>4. ASSUME NEW x \in 1..postedAtOpen, x \notin Range(store')
            PROVE  1 * PageSize <= n - x
        <5>1. x \in 1..n /\ 0 * PageSize <= n - x /\ x \notin Page(n, 0)
          BY <1>0, <2>4, <4>2, <4>3, <4>4, PageSizeAssumption
        <5>. QED
          BY <4>3, <5>1, PageFacts
      <4>5. ASSUME bottomStreamLoadingEnded' PROVE 1..postedAtOpen \subseteq Range(store')
        <5>1. Page(n, 0) = {}
          BY <3>1, <4>2, <4>5
        <5>2. ASSUME NEW x \in 1..postedAtOpen PROVE FALSE
          <6>1. n \in 1..n /\ n \in Page(n, 0)
            BY <4>3, <5>2, <1>0, PageSizeAssumption DEF Page
          <6>. QED
            BY <5>1, <6>1
        <5>. QED
          BY <5>2
      <4>6. ASSUME NEW x \in 1..postedAtOpen, x \notin Range(store')
            PROVE  currentPage' * PageSize <= posted' - x
        <5>1. 1 * PageSize <= n - x
          BY <4>4, <4>6
        <5>. QED
          BY <5>1, <4>3, <1>0, <2>2, PageSizeAssumption
      <4>. QED
        BY <2>2, <3>1, <4>5, <4>6 DEF CoverInv, EndReached
    <3>. QED
      BY <2>5, <3>3, <3>4, <3>5
  <2>8. CASE BottomLoaded(r, objects)
    <3>. USE <2>8 DEF BottomLoaded
    <3>1. /\ r.page = currentPage /\ ~bottomStreamLoadingEnded /\ currentPage <= MaxPosted
          /\ \A q \in inFlight' : q.kind # "bottom" /\ q.kind # "first"
          /\ opened /\ inFlight' \subseteq inFlight
      BY <2>3 DEF FirstInv, BottomInv, BottomAsksNextPage, PageInv
    <3>2. bottomStreamLoadingEnded' \/ currentPage + 1 <= MaxPosted
      <4>1. CASE objects = {}
        BY <4>1
      <4>2. CASE objects # {}
        <5>1. PICK n \in r.since..posted : objects = Page(n, r.page)
          BY <2>1, <4>2
        <5>2. n \in Nat /\ n <= MaxPosted
          BY <5>1, <1>0
        <5>3. currentPage < n
          BY <3>1, <4>2, <5>1, <5>2, <1>0, PageFacts
        <5>. QED
          BY <5>2, <5>3, <1>0
      <4>. QED
        BY <4>1, <4>2
    <3>3. TypeOK'
      <4>1. currentPage' \in 0..MaxPosted + 1
        BY <1>0, <3>1
      <4>2. inFlight' \in SUBSET Request
        BY <2>3 DEF TypeOK
      <4>. QED
        BY <2>2, <2>6, <4>1, <4>2 DEF TypeOK
    <3>4. FirstInv' /\ BottomInv'
      BY <2>2, <3>1 DEF FirstInv, BottomInv, BottomAsksNextPage
    <3>5. PageInv'
      BY <2>2, <3>1, <3>2 DEF PageInv
    <3>6. CoverInv'
      <4>1. SUFFICES ASSUME "notAList" \notin Faults PROVE CoverInv'
        BY DEF CoverInv
      <4>2. PICK n \in r.since..posted : objects = Page(n, currentPage)
        BY <2>1, <3>1, <4>1
      <4>3. n \in Nat /\ r.since <= n /\ n <= posted
        BY <1>0, <4>2
      <4>4. ASSUME NEW x \in 1..postedAtOpen, x \notin Range(store')
            PROVE  (currentPage + 1) * PageSize <= n - x
        <5>1. x \notin Range(store) /\ x \notin Page(n, currentPage)
          BY <2>4, <4>2, <4>4
        <5>2. currentPage * PageSize <= r.since - x
          BY <3>1, <4>1, <4>4, <5>1 DEF CoverInv
        <5>3. currentPage * PageSize <= n - x /\ x \in 1..n
          BY <5>2, <4>3, <4>4, <1>0, <1>p
        <5>. QED
          BY <5>1, <5>3, <4>3, <1>0, PageFacts
      <4>5. ASSUME bottomStreamLoadingEnded' PROVE 1..postedAtOpen \subseteq Range(store')
        <5>1. Page(n, currentPage) = {}
          BY <3>1, <4>2, <4>5
        <5>2. ASSUME NEW x \in 1..postedAtOpen, x \notin Range(store') PROVE FALSE
          <6>1. (currentPage + 1) * PageSize <= n - x
            BY <4>4, <5>2
          <6>2. /\ PageSize \in Nat /\ PageSize >= 1
                /\ (currentPage + 1) * PageSize = currentPage * PageSize + PageSize
            BY <1>0, PageSizeAssumption
          <6>3. n - currentPage * PageSize \in 1..n
            BY <6>1, <6>2, <4>3, <5>2, <1>0, <1>p
          <6>4. n - currentPage * PageSize \in Page(n, currentPage)
            BY <6>2, <6>3, <4>3, <1>p DEF Page
          <6>. QED
            BY <5>1, <6>4
        <5>. QED
          BY <5>2
      <4>6. ASSUME NEW x \in 1..postedAtOpen, x \notin Range(store')
            PROVE  currentPage' * PageSize <= posted' - x
        <5>1. (currentPage + 1) * PageSize <= n - x
          BY <4>4, <4>6
        <5>2. (currentPage + 1) * PageSize \in Nat
          BY <1>0, PageSizeAssumption
        <5>. QED
          BY <5>1, <5>2, <4>3, <1>0, <2>2
      <4>. QED
        BY <2>2, <3>1, <4>5, <4>6 DEF CoverInv, EndReached
    <3>. QED
      BY <2>5, <3>3, <3>4, <3>5, <3>6
  <2>9. CASE TopLoaded(r, objects)
    <3>. USE <2>9 DEF TopLoaded
    <3>1. /\ \A q \in inFlight' : q.kind # "first"
          /\ opened /\ inFlight' \subseteq inFlight
          /\ Range(store) \subseteq Range(store')
      BY <2>3, <2>4 DEF FirstInv
    <3>2. TypeOK'
      BY <1>0, <2>2, <2>3, <2>6, <3>1 DEF TypeOK
    <3>3. FirstInv' /\ BottomInv' /\ PageInv'
      BY <2>2, <3>1 DEF FirstInv, BottomInv, BottomAsksNextPage, PageInv
    <3>4. CoverInv'
      BY <2>2, <3>1 DEF CoverInv, EndReached
    <3>. QED
      BY <2>5, <3>2, <3>3, <3>4
  <2>. QED
    BY <1>2, <2>7, <2>8, <2>9
<1>. QED
  BY <1>1, <1>2

LEMMA InvNext == IInv /\ [Next]_vars => IInv'
<1>. SUFFICES ASSUME IInv, UNCHANGED vars PROVE IInv'
  BY InvSend, InvAnswer DEF Next
<1>. USE DEF vars, serverVars, sourceVars, viewVars
<1>1. TypeOK' /\ FirstInv' /\ BottomInv'
  BY DEF IInv, TypeOK, FirstInv, BottomInv, BottomAsksNextPage
<1>2. StoreInv' /\ PageInv' /\ CoverInv'
  BY DEF IInv, StoreInv, RowsMatch, AbstractFeed!Distinct, PageInv, CoverInv, EndReached
<1>. QED
  BY <1>1, <1>2 DEF IInv

-----------------------------------------------------------------------------
(* The theorems.                                                           *)

\* The invariant the others follow from.
THEOREM Invariance == Spec => []IInv
<1>1. Init => IInv
  BY InvInit
<1>2. IInv /\ [Next]_vars => IInv'
  BY InvNext
<1>. QED
  BY <1>1, <1>2, PTL DEF Spec

\* Every reachable state has its type; in particular the list never asks
\* for more than one page past the last one.
THEOREM TypeCorrect == Spec => []TypeOK
<1>1. IInv => TypeOK
  BY DEF IInv
<1>. QED
  BY <1>1, Invariance, PTL

\* The rows the collection view counts are always those of the data source.
THEOREM RowsAlwaysMatch == Spec => []RowsMatch
<1>1. IInv => RowsMatch
  BY DEF IInv, StoreInv
<1>. QED
  BY <1>1, Invariance, PTL

\* A bottom request is answered while the counter names its page.
THEOREM PagesInOrder == Spec => []BottomAsksNextPage
<1>1. IInv => BottomAsksNextPage
  BY DEF IInv, BottomInv
<1>. QED
  BY <1>1, Invariance, PTL

\* With a server that answers lists, the end is met only when everything
\* that was published before the list was opened has been shown.
THEOREM NothingSkipped ==
  ASSUME "notAList" \notin Faults
  PROVE  Spec => []EndReached
<1>1. IInv => EndReached
  BY DEF IInv, CoverInv
<1>. QED
  BY <1>1, Invariance, PTL

\* A loading flag is up only while its request is out or after it failed.
THEOREM FlagsOwed == Spec => []FlagsAreOwed
<1>1. Init => FlagsAreOwed
  BY DEF Init, FlagsAreOwed
<1>2. FlagsAreOwed /\ [Next]_vars => FlagsAreOwed'
  <2>. SUFFICES ASSUME FlagsAreOwed, [Next]_vars PROVE FlagsAreOwed'
    OBVIOUS
  <2>. USE DEF FlagsAreOwed, serverVars, sourceVars, viewVars
  <2>1. CASE Publish \/ UNCHANGED vars
    BY <2>1 DEF Publish, vars
  <2>2. CASE LoadFirst
    BY <2>2 DEF LoadFirst, Send
  <2>3. CASE LoadBottom
    <3>. DEFINE new == [kind |-> "bottom", page |-> currentPage, since |-> posted]
    <3>1. new.kind = "bottom"
      OBVIOUS
    <3>2. inFlight' = inFlight \cup {new}
      BY <2>3 DEF LoadBottom, Send
    <3>. HIDE DEF new
    <3>. QED
      BY <2>3, <3>1, <3>2 DEF LoadBottom
  <2>4. CASE PullToRefresh
    <3>. DEFINE new == [kind |-> "top", page |-> 0, since |-> posted]
    <3>1. new.kind = "top"
      OBVIOUS
    <3>2. CASE isLoadingTop
      BY <2>4, <3>2 DEF PullToRefresh
    <3>3. CASE ~isLoadingTop
      <4>1. inFlight' = inFlight \cup {new}
        BY <2>4, <3>3 DEF PullToRefresh, Send
      <4>. HIDE DEF new
      <4>. QED
        BY <2>4, <3>1, <4>1 DEF PullToRefresh
    <3>. QED
      BY <3>2, <3>3
  <2>5. ASSUME NEW r \in inFlight, RequestFailed(r)
        PROVE  FlagsAreOwed'
    BY <2>5 DEF RequestFailed, Close
  <2>6. ASSUME NEW r \in inFlight, NEW objects,
               FirstLoaded(r, objects) \/ BottomLoaded(r, objects) \/ TopLoaded(r, objects)
        PROVE  FlagsAreOwed'
    BY <2>6 DEF FirstLoaded, BottomLoaded, TopLoaded, Close
  <2>. QED
    BY <2>1, <2>2, <2>3, <2>4, <2>5, <2>6 DEF Next, Answered
<1>. QED
  BY <1>1, <1>2, PTL DEF Spec

\* The list is a Feed.
THEOREM RestFeedImplementsFeed == Spec => ImplementsFeed
<1>1. Init => AbstractFeed!Init
  BY MaxPostedAssumption DEF Init, AbstractFeed!Init
<1>2. IInv /\ IInv' /\ [Next]_vars => [AbstractFeed!Next]_AbstractFeed!vars
  <2>. SUFFICES ASSUME IInv, IInv', [Next]_vars
                PROVE  [AbstractFeed!Next]_AbstractFeed!vars
    OBVIOUS
  <2>. USE DEF AbstractFeed!vars, AbstractFeed!Next, serverVars, sourceVars, viewVars
  <2>1. CASE Publish
    BY <2>1 DEF Publish, AbstractFeed!Post
  <2>2. CASE LoadFirst \/ LoadBottom \/ PullToRefresh \/ UNCHANGED vars
    BY <2>2 DEF LoadFirst, LoadBottom, PullToRefresh, vars
  <2>3. ASSUME NEW r \in inFlight, RequestFailed(r)
        PROVE  UNCHANGED AbstractFeed!vars
    BY <2>3 DEF RequestFailed
  <2>4. ASSUME NEW r \in inFlight, NEW objects \in Answers(r),
               FirstLoaded(r, objects) \/ BottomLoaded(r, objects) \/ TopLoaded(r, objects)
        PROVE  AbstractFeed!Extend
    <3>1. store' = store \o Fresh(objects) /\ UNCHANGED posted
      BY <2>4 DEF FirstLoaded, BottomLoaded, TopLoaded
    <3>2. objects \in SUBSET (1..posted) /\ posted \in Nat
      BY AnswerFacts, MaxPostedAssumption DEF IInv, TypeOK
    <3>3. /\ store' \in Seq(1..posted)
          /\ Len(store') = Len(store) + Len(Fresh(objects))
          /\ Len(Fresh(objects)) \in Nat
          /\ \A i \in DOMAIN store : store'[i] = store[i]
          /\ AbstractFeed!Distinct(store')
      BY <3>1, <3>2, AppendFacts DEF IInv, StoreInv
    <3>4. Len(store) \in Nat
      BY DEF IInv, StoreInv
    <3>. QED
      BY <3>1, <3>3, <3>4 DEF AbstractFeed!Extend
  <2>. QED
    BY <2>1, <2>2, <2>3, <2>4 DEF Next, Answered
<1>. QED
  BY <1>1, <1>2, Invariance, PTL DEF Spec, ImplementsFeed, AbstractFeed!Spec
=============================================================================
