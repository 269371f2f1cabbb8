SPECIFICATION Spec
CONSTANTS
    FAIL = FAIL
    NULLFN = NULLFN
    HasRegex = TRUE
    ListFns = {"member", "identicalmember", "size", "sum", "avg", "min", "max", "allcompare"}
INVARIANTS
    OrderFree
    AggregatesMatchFold
    StrCmpMatchesSpec
    SubstrMatchesSpec
    IntervalMatchesSpec
    LibraryLoadReported
\* The client's run ends once its node has been evaluated on each ordering.
CHECK_DEADLOCK FALSE
