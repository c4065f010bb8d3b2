\* Two lock requests overlap.
CONSTANTS
    Employee = {e1, e2}
    Request = {q1, q2, q3, q4}
    Handler = {h1, h2}
    BatchSize = 1
    MaxAttempts = 1
    MaxStalls = 0
    LineItemTenantColumn = FALSE
    CallbackCarriesTenant = FALSE
    Environment = {"overlap"}
    Reference <- DisburseReferences
SPECIFICATION DisburseSpec
PROPERTIES
    LockOnlyFromDraft
CHECK_DEADLOCK FALSE
