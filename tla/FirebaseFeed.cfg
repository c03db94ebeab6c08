CONSTANTS
    PageSize = 2
    MaxPosted = 5
    MaxInFlight = 2
SPECIFICATION Spec
INVARIANTS
    TypeOK
    NothingSkipped
    FinishedMeansAll
    NoTrap
    EachOnceInOrder
PROPERTY ImplementsFeed
CHECK_DEADLOCK FALSE
