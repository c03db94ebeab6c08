------------------------------ MODULE RestFeed ------------------------------
(***************************************************************************)
(* ATCGenericRestAPIDataSource, the paginated list over a REST server, and *)
(* the ATCGenericCollectionViewController that shows it.                   *)
(*                                                                         *)
(* Items are numbered in the order the server publishes them; a page lists *)
(* them newest first.  The answer to a request describes the server at     *)
(* some moment between the request and the answer, and answers arrive on   *)
(* the main queue in any order.                                            *)
(***************************************************************************)
EXTENDS Naturals, Sequences, FiniteSets, Functions

CONSTANTS
    PageSize,   \* items in a page
    MaxPosted,  \* bound: items the server ever publishes
    Faults      \* what a request may meet besides a list of items

ASSUME PageSizeAssumption == PageSize \in Nat \ {0}
ASSUME MaxPostedAssumption == MaxPosted \in Nat
ASSUME FaultsAssumption == Faults \subseteq {"error", "notAList"}

VARIABLES
    posted,                     \* the server holds items 1..posted
    opened,                     \* viewDidLoad has run
    postedAtOpen,               \* history: posted when it ran
    store,
    currentPage,
    bottomStreamLoadingEnded,
    isLoadingBottom,
    isLoadingTop,
    inFlight,                   \* requests that were not answered
    lost,                       \* history: kinds of the requests that failed
    shown,                      \* rows the collection view counts
    refreshing                  \* the pull-to-refresh spinner turns

serverVars == <<posted>>
sourceVars == <<store, currentPage, bottomStreamLoadingEnded, isLoadingBottom, isLoadingTop>>
viewVars == <<opened, postedAtOpen, shown, refreshing>>
vars == <<serverVars, sourceVars, viewVars, inFlight, lost>>

Items == 1..MaxPosted
Kinds == {"first", "bottom", "top"}
Request == [kind : Kinds, page : Nat, since : 0..MaxPosted]

TypeOK ==
    /\ posted \in 0..MaxPosted
    /\ opened \in BOOLEAN
    /\ postedAtOpen \in 0..posted
    /\ store \in Seq(Items)
    /\ currentPage \in 0..MaxPosted + 1   \* one request past the last page
    /\ bottomStreamLoadingEnded \in BOOLEAN
    /\ isLoadingBottom \in BOOLEAN
    /\ isLoadingTop \in BOOLEAN
    /\ inFlight \in SUBSET Request
    /\ lost \in SUBSET Kinds
    /\ shown \in Nat
    /\ refreshing \in BOOLEAN

Init ==
    /\ posted \in 0..MaxPosted
    /\ opened = FALSE
    /\ postedAtOpen = 0
    /\ store = <<>>
    /\ currentPage = 0
    /\ bottomStreamLoadingEnded = FALSE
    /\ isLoadingBottom = FALSE
    /\ isLoadingTop = FALSE
    /\ inFlight = {}
    /\ lost = {}
    /\ shown = 0
    /\ refreshing = FALSE

-----------------------------------------------------------------------------
(* The server.                                                             *)

\* The items of a page when the server holds n of them.
Page(n, page) ==
    {x \in 1..n : page * PageSize <= n - x /\ n - x < (page + 1) * PageSize}

\* What an answer to r may hold; an answer that is no list counts as empty.
Answers(r) ==
    {Page(n, r.page) : n \in r.since..posted}
        \cup (IF "notAList" \in Faults THEN {{}} ELSE {})

Publish ==
    /\ posted < MaxPosted
    /\ posted' = posted + 1
    /\ UNCHANGED <<sourceVars, viewVars, inFlight, lost>>

-----------------------------------------------------------------------------
(* Requests.                                                               *)

Send(kind, page) ==
    inFlight' = inFlight \cup {[kind |-> kind, page |-> page, since |-> posted]}

\* viewDidLoad calls loadFirst.
LoadFirst ==
    /\ ~opened
    /\ opened' = TRUE
    /\ postedAtOpen' = posted
    /\ Send("first", 0)
    /\ UNCHANGED <<serverVars, sourceVars, shown, refreshing, lost>>

\* The last row is about to be displayed.
LoadBottom ==
    /\ shown > 0
    /\ ~isLoadingBottom
    /\ ~bottomStreamLoadingEnded
    /\ isLoadingBottom' = TRUE
    /\ Send("bottom", currentPage)
    /\ UNCHANGED <<serverVars, viewVars, store, currentPage,
                   bottomStreamLoadingEnded, isLoadingTop, lost>>

\* didPullToRefresh: there are rows to pull, and the spinner starts even if
\* loadTop returns early.
PullToRefresh ==
    /\ shown > 0
    /\ refreshing' = TRUE
    /\ IF isLoadingTop
       THEN UNCHANGED <<isLoadingTop, inFlight>>
       ELSE isLoadingTop' = TRUE /\ Send("top", 0)
    /\ UNCHANGED <<serverVars, opened, postedAtOpen, shown, store, currentPage,
                   bottomStreamLoadingEnded, isLoadingBottom, lost>>

-----------------------------------------------------------------------------
(* Answers.                                                                *)

\* The items of a set in the order pages list them.
NewestFirst(S) ==
    CHOOSE s \in [1..Cardinality(S) -> S] :
        /\ S = Range(s)
        /\ \A i, j \in DOMAIN s : i < j => s[i] > s[j]

\* Mutant of Fresh: findStreamObject is not asked.
Fresh_Unfiltered(objects) == NewestFirst(objects)

\* The objects findStreamObject does not find, in page order.
Fresh(objects) == NewestFirst(objects \ Range(store))

Close(r) == inFlight' = inFlight \ {r}

FirstLoaded(r, objects) ==
    /\ r.kind = "first"
    /\ Close(r)
    /\ currentPage' = 1
    /\ store' = store \o Fresh(objects)
    /\ bottomStreamLoadingEnded' = (bottomStreamLoadingEnded \/ objects = {})
    /\ shown' = Len(store')
    /\ UNCHANGED <<serverVars, isLoadingBottom, isLoadingTop, opened, postedAtOpen, refreshing, lost>>

\* Mutant of BottomLoaded: a page that adds nothing ends the stream.
BottomLoaded_EndsOnRepeats(r, objects) ==
    /\ r.kind = "bottom"
    /\ Close(r)
    /\ currentPage' = currentPage + 1
    /\ store' = store \o Fresh(objects)
    /\ bottomStreamLoadingEnded' = (bottomStreamLoadingEnded \/ objects \subseteq Range(store))
    /\ isLoadingBottom' = FALSE
    /\ shown' = shown + Len(Fresh(objects))
    /\ UNCHANGED <<serverVars, isLoadingTop, opened, postedAtOpen, refreshing, lost>>

\* Mutant of BottomLoaded: an empty page leaves isLoadingBottom up.
BottomLoaded_StaysBusy(r, objects) ==
    /\ r.kind = "bottom"
    /\ Close(r)
    /\ currentPage' = currentPage + 1
    /\ store' = store \o Fresh(objects)
    /\ bottomStreamLoadingEnded' = (bottomStreamLoadingEnded \/ objects = {})
    /\ isLoadingBottom' = (objects = {})
    /\ shown' = shown + Len(Fresh(objects))
    /\ UNCHANGED <<serverVars, isLoadingTop, opened, postedAtOpen, refreshing, lost>>

\* didLoadBottom inserts as many rows as there are results.
BottomLoaded(r, objects) ==
    /\ r.kind = "bottom"
    /\ Close(r)
    /\ currentPage' = currentPage + 1
    /\ store' = store \o Fresh(objects)
    /\ bottomStreamLoadingEnded' = (bottomStreamLoadingEnded \/ objects = {})
    /\ isLoadingBottom' = FALSE
    /\ shown' = shown + Len(Fresh(objects))
    /\ UNCHANGED <<serverVars, isLoadingTop, opened, postedAtOpen, refreshing, lost>>

\* Mutants of TopLoaded: the page counter is advanced as loadBottom does;
\* the list is not reloaded; isLoadingTop is not reset.
TopLoaded_Pages(r, objects) ==
    /\ r.kind = "top"
    /\ Close(r)
    /\ currentPage' = currentPage + 1
    /\ store' = store \o Fresh(objects)
    /\ isLoadingTop' = FALSE
    /\ refreshing' = FALSE
    /\ shown' = Len(store')
    /\ UNCHANGED <<serverVars, bottomStreamLoadingEnded, isLoadingBottom, opened, postedAtOpen, lost>>

TopLoaded_NoReload(r, objects) ==
    /\ r.kind = "top"
    /\ Close(r)
    /\ store' = store \o Fresh(objects)
    /\ isLoadingTop' = FALSE
    /\ refreshing' = FALSE
    /\ UNCHANGED <<serverVars, currentPage, bottomStreamLoadingEnded, isLoadingBottom,
                   opened, postedAtOpen, shown, lost>>

TopLoaded_StaysBusy(r, objects) ==
    /\ r.kind = "top"
    /\ Close(r)
    /\ store' = store \o Fresh(objects)
    /\ refreshing' = FALSE
    /\ shown' = Len(store')
    /\ UNCHANGED <<serverVars, currentPage, bottomStreamLoadingEnded, isLoadingBottom,
                   isLoadingTop, opened, postedAtOpen, lost>>

\* New items go below the others, as in every answer.
TopLoaded(r, objects) ==
    /\ r.kind = "top"
    /\ Close(r)
    /\ store' = store \o Fresh(objects)
    /\ isLoadingTop' = FALSE
    /\ refreshing' = FALSE
    /\ shown' = Len(store')
    /\ UNCHANGED <<serverVars, currentPage, bottomStreamLoadingEnded, isLoadingBottom,
                   opened, postedAtOpen, lost>>

\* The error case of all three: nothing is reset and nobody is told.
RequestFailed(r) ==
    /\ "error" \in Faults
    /\ Close(r)
    /\ lost' = lost \cup {r.kind}
    /\ UNCHANGED <<serverVars, sourceVars, viewVars>>

Answered ==
    \E r \in inFlight :
        \/ \E objects \in Answers(r) :
              \/ FirstLoaded(r, objects)
              \/ BottomLoaded(r, objects)
              \/ TopLoaded(r, objects)
        \/ RequestFailed(r)

Next == Publish \/ LoadFirst \/ LoadBottom \/ PullToRefresh \/ Answered

Spec == Init /\ [][Next]_vars

\* The networking manager calls every completion handler.
AnsweredKind(kind) == Answered /\ \E r \in inFlight : r.kind = kind /\ r \notin inFlight'

FairSpec == Spec /\ \A kind \in Kinds : WF_vars(AnsweredKind(kind))

-----------------------------------------------------------------------------
(* Properties                                                              *)

\* When the list decides that it has reached the end, everything that was on
\* the server when it was opened is in it, although pages shift while items
\* are published, answers overlap and refreshes add rows in between.
EndReached == bottomStreamLoadingEnded => 1..postedAtOpen \subseteq Range(store)

\* A bottom request in flight asks for the page the counter still names
\* when it is answered: no page is skipped or counted twice.
BottomAsksNextPage ==
    \A r \in inFlight : r.kind = "bottom" => isLoadingBottom /\ r.page = currentPage

\* The rows the collection view counts are those of the data source, or the
\* batch update of the next page is inconsistent and UIKit raises.
RowsMatch == shown = Len(store)

\* Nothing but a failed request leaves a loading flag up with nobody to take
\* it down: no order of answers and no empty page blocks the next request.
FlagsAreOwed ==
    /\ isLoadingBottom => "bottom" \in lost \/ \E r \in inFlight : r.kind = "bottom"
    /\ isLoadingTop => "top" \in lost \/ \E r \in inFlight : r.kind = "top"

\* Every pull-to-refresh ends, a second pull during the first and one held
\* back by isLoadingTop too; only a failed refresh leaves the spinner turning.
RefreshEnds == refreshing ~> (~refreshing \/ "top" \in lost)

AbstractFeed == INSTANCE Feed WITH list <- store, Repeats <- FALSE

\* The list is a feed: rows only appear at its end, once each (the
\* deduplication by findStreamObject), and only published items.
ImplementsFeed == AbstractFeed!Spec

=============================================================================
