\* The line item table as schema.prisma has it; nothing else goes wrong.
CONSTANTS
    Employee = {e1, e2}
    Request = {q1, q2}
    Worker = {w1, w2}
    MaxStalls = 1
    LineItemTenantColumn = FALSE
    Environment = {}
SPECIFICATION FairCalcSpec
PROPERTIES
    TriggeredRunCompletes
CHECK_DEADLOCK FALSE
