CONSTANTS
    R = R
    A = A
    S = S
    T = T
    C = C
    emptyRoot = emptyRoot
    emptyState = emptyState
    zero = zero
    Hashes <- MCHashes
    root = R
    Kids <- MCKids
    Leaves <- MCLeaves
    MaxCrashes = 2
SPECIFICATION FairSpec
CHECK_DEADLOCK FALSE
INVARIANT TypeOK
INVARIANT RequestedOnce
PROPERTY ImplementsStateStore
PROPERTY SyncCompletes
