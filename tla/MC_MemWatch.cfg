\* Three places for buffers of one or two pointers, one buffer of getline()'s,
\* two remembered frees and exit after the first anomaly.
SPECIFICATION FairSpec
CONSTANTS
    Slots = {a, b, c}
    Foreign = {f}
    NULL = NULL
    Sizes = {1, 2}
    MW_FREE_LIST = 2
    MaxErrors = 1
INVARIANTS TypeOK ChainIsHeap CountersMatch NeverFreedTwice
PROPERTIES NoSilentLoss ImplementsAllocator ExitReleasesAll
CHECK_DEADLOCK FALSE
