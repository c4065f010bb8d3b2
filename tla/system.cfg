\* Both ways to pay one run, everything may go wrong.
CONSTANTS
    Employee = {e1, e2}
    Request = {q1, q2, q3}
    Handler = {h1}
    Approval = {a1, a2}
    Callback = {c1}
    BatchSize = 1
    ChunkSize = 1
    MaxAttempts = 1
    MaxStalls = 0
    LineItemTenantColumn = TRUE
    CallbackCarriesTenant = TRUE
    Environment = {"overlap", "crash", "error", "timeout"}
    Reference <- SystemReferences
SPECIFICATION SystemSpec
SYMMETRY SystemSymmetry
INVARIANTS
    SystemTypeOK
    NotPaidTwice
    FinanceSubmitsOnce
    SuccessWasSubmitted
CHECK_DEADLOCK FALSE
