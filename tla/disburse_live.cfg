\* Requests overlap, Redis may refuse the job, Chapa repeats its calls; attempts do not fail.
CONSTANTS
    Employee = {e1, e2}
    Request = {q1, q2, q3, q4}
    Handler = {h1, h2}
    BatchSize = 1
    MaxAttempts = 1
    MaxStalls = 0
    LineItemTenantColumn = TRUE
    CallbackCarriesTenant = TRUE
    Environment = {"overlap", "enqueue", "duplicate"}
    Reference <- DisburseReferences
SPECIFICATION FairDisburseSpec
INVARIANTS
    VerdictTrueUntilRetry
PROPERTIES
    BookedStaysUntilRetry
    QueuedPayoutCloses
CHECK_DEADLOCK FALSE
