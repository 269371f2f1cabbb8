SPECIFICATION Spec
CONSTANTS
    FAIL = FAIL
    NULLFN = NULLFN
    HasRegex = TRUE
    ListFns = {"anycompare"}
INVARIANT
    OrderFree
\* The client's run ends once its node has been evaluated on each ordering.
CHECK_DEADLOCK FALSE
