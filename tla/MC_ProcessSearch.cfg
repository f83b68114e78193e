\* Every allocation may fail.  Places suffice for everything two searches can
\* hold at once, what the first one lost included.
SPECIFICATION SearchSpec
CONSTANTS
    Slots = {a, b, c, d, e, g, h}
    Foreign = {f1, f2, f3, f4, f5, f6, f7, f8, f9, f10}
    NULL = NULL
    Sizes = {1}
    MW_FREE_LIST = 2
    MaxErrors = 0
    StartingAllocation = 2
    MaxLines = 4
    MaxSearches = 2
INVARIANTS SearchTypeOK OverrunInGuard NoMisuse NothingKept
CHECK_DEADLOCK FALSE
