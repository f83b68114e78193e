\* Three instances of either program, started in any order and under either name.
SPECIFICATION Spec
CONSTANTS
    Instances = {p, q, r}
    Programs = {"client", "server"}
    NULL = NULL
INVARIANTS TypeOK TwoOnlyByAccident NotStoppedAlone
SYMMETRY Symmetry
CHECK_DEADLOCK FALSE
