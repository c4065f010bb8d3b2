\* Two workers, two calls, everything may go wrong.
CONSTANTS
    Employee = {e1, e2, e3}
    Request = {q1, q2}
    Worker = {w1, w2}
    MaxStalls = 2
    LineItemTenantColumn = TRUE
    Environment = {"crash", "stall", "enqueue", "error"}
SPECIFICATION FairCalcSpec
INVARIANTS
    CalcTypeOK
    CompletedIsExact
    NoDuplicateLine
    LinesAreAudited
PROPERTIES
    QueuedRunEnds
CHECK_DEADLOCK FALSE
