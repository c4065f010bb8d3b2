\* The webhook URL of DEPLOY.md names no tenant; nothing else goes wrong.
CONSTANTS
    Employee = {e1, e2}
    Request = {q1, q2, q3, q4}
    Handler = {h1, h2}
    BatchSize = 1
    MaxAttempts = 1
    MaxStalls = 0
    LineItemTenantColumn = TRUE
    CallbackCarriesTenant = FALSE
    Environment = {}
    Reference <- DisburseReferences
SPECIFICATION FairDisburseSpec
PROPERTIES
    QueuedPayoutCloses
CHECK_DEADLOCK FALSE
