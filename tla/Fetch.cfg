SPECIFICATION LiveSpec
CONSTANTS
    Index <- FourEntries
    Limit = 2
INVARIANTS
    TypeOK
    RequestsBounded
    MapNotShared
    WalkComplete
PROPERTIES
    ImplementsWalk
    CancelledFetchReturns
