\* Everything may go wrong around the payout of a run with two lines.
CONSTANTS
    Employee = {e1, e2}
    Request = {q1, q2, q3}
    Handler = {h1, h2}
    BatchSize = 1
    MaxAttempts = 2
    MaxStalls = 1
    LineItemTenantColumn = TRUE
    CallbackCarriesTenant = TRUE
    Environment = {"overlap", "crash", "enqueue", "error", "timeout", "interim", "duplicate", "loss"}
    Reference <- DisburseReferences
SPECIFICATION DisburseSpec
SYMMETRY DisburseSymmetry
INVARIANTS
    DisburseTypeOK
    TransferTraceable
    BooksBackedByGateway
    UnapprovedUntouched
    ClosedRunIsSettled
    SubmissionsBounded
PROPERTIES
    ContractHolds
CHECK_DEADLOCK FALSE
