\* Two servers: the verification of the first finds the second, which a SIGKILL
\* has not ended yet.
SPECIFICATION Spec
CONSTANTS
    Instances = {p, q}
    Programs = {"server"}
    NULL = NULL
INVARIANT DidntDieIsFatal
CHECK_DEADLOCK FALSE
