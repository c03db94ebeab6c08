CONSTANTS
    PageSize = 2
    MaxPosted = 5
    Faults = {"error"}
SPECIFICATION FairSpec
INVARIANTS
    EndReached
    BottomAsksNextPage
    RowsMatch
    FlagsAreOwed
PROPERTIES
    ImplementsFeed
    RefreshEnds
CHECK_DEADLOCK FALSE
