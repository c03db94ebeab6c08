---------------------------- MODULE FirebaseFeed ----------------------------
(***************************************************************************)
(* ATCGenericFirebaseDataSource, the paginated list over a Firebase table  *)
(* ordered by key, and the collection view that shows it.                  *)
(*                                                                         *)
(* Push keys grow, so new children come last.  The list shows the children *)
(* whose value is a dictionary, but pages are counted and continued over   *)
(* all of them.  loadBottom has no in-flight guard: every display of the   *)
(* last row may start another query, and the answers come in any order.  A *)
(* query that is denied is never answered.                                 *)
(***************************************************************************)
EXTENDS Naturals, Sequences, SequencesExt, FiniteSets, FiniteSetsExt

CONSTANTS
    PageSize,       \* kItemsPerPage
    MaxPosted,      \* bound: keys ever pushed
    MaxInFlight     \* bound: loadBottom queries in flight

ASSUME PageSizeAssumption == PageSize \in Nat \ {0}
ASSUME BoundsAssumption == MaxPosted \in Nat /\ MaxInFlight \in Nat \ {0}

NoKey == 0

VARIABLES
    posted,                 \* keys 1..posted were pushed
    table,                  \* those that were not removed
    records,                \* those pushed with a dictionary as their value
    opened,                 \* viewDidLoad has run
    tableAtOpen,            \* history: the table when it ran
    store,
    lastFetchedObjectKey,
    didFinishLoadingBottom,
    firstInFlight,          \* the query of loadFirst is not answered
    bottoms,                \* start keys of the unanswered loadBottom queries
    starts,                 \* history: start keys of all loadBottom queries
    overlapped,             \* history: two such queries were in flight at once
    shown,                  \* rows the collection view counts
    trapped                 \* removeFirst met an empty array

serverVars == <<posted, table, records>>
sourceVars == <<store, lastFetchedObjectKey, didFinishLoadingBottom>>
openVars == <<opened, tableAtOpen>>
queryVars == <<firstInFlight, bottoms, starts, overlapped>>
vars == <<serverVars, sourceVars, openVars, queryVars, shown, trapped>>

TypeOK ==
    /\ posted \in 0..MaxPosted
    /\ table \in SUBSET (1..posted)
    /\ records \in SUBSET (1..posted)
    /\ opened \in BOOLEAN
    /\ tableAtOpen \in SUBSET (1..posted)
    /\ store \in Seq(1..posted)
    /\ lastFetchedObjectKey \in 0..posted
    /\ didFinishLoadingBottom \in BOOLEAN
    /\ firstInFlight \in BOOLEAN
    /\ bottoms \in Seq(1..posted)
    /\ starts \in SUBSET (1..posted)
    /\ overlapped \in BOOLEAN
    /\ shown \in Nat
    /\ trapped \in BOOLEAN

Init ==
    /\ posted \in 0..MaxPosted
    /\ table = 1..posted
    /\ records \in SUBSET (1..posted)
    /\ opened = FALSE
    /\ tableAtOpen = {}
    /\ store = <<>>
    /\ lastFetchedObjectKey = NoKey
    /\ didFinishLoadingBottom = FALSE
    /\ firstInFlight = FALSE
    /\ bottoms = <<>>
    /\ starts = {}
    /\ overlapped = FALSE
    /\ shown = 0
    /\ trapped = FALSE

-----------------------------------------------------------------------------
(* The table and its queries.                                              *)

Push ==
    /\ posted < MaxPosted
    /\ posted' = posted + 1
    /\ table' = table \cup {posted'}
    /\ records' \in {records, records \cup {posted'}}
    /\ UNCHANGED <<sourceVars, openVars, queryVars, shown, trapped>>

RemoveChild(key) ==
    /\ table' = table \ {key}
    /\ UNCHANGED <<posted, records, sourceVars, openVars, queryVars, shown, trapped>>

\* queryOrderedByKey, queryStarting(atValue: from), queryLimited(toFirst: n).
Query(from, n) ==
    {x \in table : x >= from /\ Cardinality({y \in table : from <= y /\ y < x}) < n}

\* parseResults skips every child whose value is not a dictionary.
Parsed(children) == children \cap records

\* and keeps the order of the answer, that of the keys.
InKeyOrder(keys) ==
    CHOOSE s \in [1..Cardinality(keys) -> keys] :
        /\ ToSet(s) = keys
        /\ \A i, j \in DOMAIN s : i < j => s[i] < s[j]

-----------------------------------------------------------------------------
(* The data source.                                                        *)

LoadFirst ==
    /\ ~opened
    /\ opened' = TRUE
    /\ tableAtOpen' = table
    /\ firstInFlight' = TRUE
    /\ UNCHANGED <<serverVars, sourceVars, bottoms, starts, overlapped, shown, trapped>>

\* The rows are the children parsed, the last key is that of all of them.
FirstLoaded ==
    /\ ~trapped
    /\ firstInFlight
    /\ firstInFlight' = FALSE
    /\ LET children == Query(NoKey, PageSize) IN
       /\ store' = store \o InKeyOrder(Parsed(children))
       /\ lastFetchedObjectKey' = IF children = {} THEN NoKey ELSE Max(children)
    /\ shown' = Len(store')
    /\ UNCHANGED <<serverVars, openVars, didFinishLoadingBottom, bottoms, starts,
                   overlapped, trapped>>

\* Mutant of LoadBottom: the query starts after the last key.
LoadBottom_After ==
    /\ ~trapped
    /\ shown > 0
    /\ ~didFinishLoadingBottom
    /\ Len(bottoms) < MaxInFlight
    /\ bottoms' = Append(bottoms, lastFetchedObjectKey + 1)
    /\ starts' = starts \cup {lastFetchedObjectKey + 1}
    /\ overlapped' = (overlapped \/ bottoms # <<>>)
    /\ UNCHANGED <<serverVars, sourceVars, openVars, firstInFlight, shown, trapped>>

\* The last row is about to be displayed.
LoadBottom ==
    /\ ~trapped
    /\ shown > 0
    /\ ~didFinishLoadingBottom
    /\ Len(bottoms) < MaxInFlight
    /\ bottoms' = Append(bottoms, lastFetchedObjectKey)
    /\ starts' = starts \cup {lastFetchedObjectKey}
    /\ overlapped' = (overlapped \/ bottoms # <<>>)
    /\ UNCHANGED <<serverVars, sourceVars, openVars, firstInFlight, shown, trapped>>

\* removeFirst drops the first result, meant to be the child the query started at.
AfterFirst(results) == results \ {Min(results)}

\* Mutants of Extend: the first result is kept; the page goes above the others;
\* the end is guessed from a short page; the rows are counted before removeFirst.
Extend_KeepsFirst(children) ==
    LET results == Parsed(children) IN
    /\ store' = store \o InKeyOrder(results)
    /\ didFinishLoadingBottom' = (AfterFirst(results) = {})
    /\ lastFetchedObjectKey' = Max(children)
    /\ shown' = shown + Cardinality(results)

Extend_Above(children) ==
    LET results == AfterFirst(Parsed(children)) IN
    /\ store' = InKeyOrder(results) \o store
    /\ didFinishLoadingBottom' = (results = {})
    /\ lastFetchedObjectKey' = Max(children)
    /\ shown' = shown + Cardinality(results)

Extend_EndsEarly(children) ==
    LET results == AfterFirst(Parsed(children)) IN
    /\ store' = store \o InKeyOrder(results)
    /\ didFinishLoadingBottom' = (Cardinality(results) < PageSize + 1)
    /\ lastFetchedObjectKey' = Max(children)
    /\ shown' = shown + Cardinality(results)

Extend_CountsFirst(children) ==
    LET results == AfterFirst(Parsed(children)) IN
    /\ store' = store \o InKeyOrder(results)
    /\ didFinishLoadingBottom' = (results = {})
    /\ lastFetchedObjectKey' = Max(children)
    /\ shown' = shown + Cardinality(Parsed(children))

\* The last key is that of the last child, parsed or not.
Extend(children) ==
    LET results == AfterFirst(Parsed(children)) IN
    /\ store' = store \o InKeyOrder(results)
    /\ didFinishLoadingBottom' = (results = {})
    /\ lastFetchedObjectKey' = Max(children)
    /\ shown' = shown + Cardinality(results)

\* The answer to the i-th unanswered query.
BottomLoaded(i) ==
    /\ ~trapped
    /\ bottoms' = RemoveAt(bottoms, i)
    /\ LET children == Query(bottoms[i], PageSize + 1) IN
       IF Parsed(children) = {}
       THEN trapped' = TRUE /\ UNCHANGED <<sourceVars, shown>>
       ELSE Extend(children) /\ UNCHANGED trapped
    /\ UNCHANGED <<serverVars, openVars, firstInFlight, starts, overlapped>>

Next ==
    \/ Push
    \/ \E key \in table : RemoveChild(key)
    \/ LoadFirst
    \/ FirstLoaded
    \/ LoadBottom
    \/ \E i \in DOMAIN bottoms : BottomLoaded(i)

Spec == Init /\ [][Next]_vars

-----------------------------------------------------------------------------
(* Properties.                                                             *)

\* The children of the table that the list can show.
Rows == Parsed(table)

\* removeFirst dropped key in the place of the child a query started at: that
\* one is no row, because it was removed or never was a dictionary, and key is
\* the first row after it.
DroppedAt(start, key) == start < key /\ Rows \cap (start..key - 1) = {}

\* key is in the list or was dropped so by a query that was sent.
Accounted(key) == key \in ToSet(store) \/ \E start \in starts : DroppedAt(start, key)

\* However pages overlap, whatever is removed and whatever the values are, the
\* list jumps over no row up to its last key, but for the one right after a
\* child that a query started at and that is no row (any more).
NothingSkipped == \A key \in Rows \cap (1..lastFetchedObjectKey) : Accounted(key)

\* Up to the last key there are enough children that are no dictionaries to
\* fill a page and hide what follows.
HiddenPage == Cardinality((1..lastFetchedObjectKey) \ records) >= PageSize

\* The end means that what the table held when the list was opened and still
\* holds is in the list, but for the rows dropped as above and for those beyond
\* a whole page of children that are no dictionaries: loadBottom takes a page
\* of which one child is parsed for the last.  Answers to older queries may
\* reset the flag.
FinishedMeansAll ==
    didFinishLoadingBottom =>
        \A key \in tableAtOpen \cap Rows :
            Accounted(key) \/ (key > lastFetchedObjectKey /\ HiddenPage)

\* What can bring the app down.  With queries overlapping and children removed
\* at any moment the collection view counts the rows there are, or its batch
\* update raises; and removeFirst only meets an empty array if some query
\* started at a child that was removed or whose value is no dictionary.
NoTrap ==
    /\ shown = Len(store)
    /\ trapped => \E start \in starts : start \notin Rows

\* While the person scrolls one page at a time every child is shown once
\* and below those with smaller keys, whatever is pushed or removed.
EachOnceInOrder ==
    overlapped \/ \A i, j \in DOMAIN store : i < j => store[i] < store[j]

AbstractFeed == INSTANCE Feed WITH list <- store, Repeats <- TRUE

\* But for the rows that overlapping pages repeat the list is a feed: rows
\* only appear, below the others, and only of children that were pushed.
ImplementsFeed == AbstractFeed!Spec

=============================================================================
