\* An approval and a disburse request for one run; nothing goes wrong.
CONSTANTS
    Employee = {e1, e2}
    Request = {q1, q2, q3}
    Handler = {h1}
    Approval = {a1, a2}
    Callback = {c1}
    BatchSize = 1
    ChunkSize = 1
    MaxAttempts = 1
    MaxStalls = 0
    LineItemTenantColumn = TRUE
    CallbackCarriesTenant = TRUE
    Environment = {}
    Reference <- SystemReferences
SPECIFICATION SystemSpec
INVARIANTS
    PaidLinesAreSuccess
CHECK_DEADLOCK FALSE
