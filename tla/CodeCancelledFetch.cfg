SPECIFICATION Spec
CONSTANTS
    Index <- ThreeEntries
    Limit = 2
INVARIANT
    CancelledFetchFails
