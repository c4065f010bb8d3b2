---------------------------- MODULE PayrollSchema ----------------------------
(***************************************************************************)
(* What the payroll modules share: the status columns of payroll_runs and  *)
(* payroll_line_items and the layer through which the services reach the   *)
(* lines.  Amounts are left out: no decision about a run's status reads    *)
(* them.                                                                   *)
(***************************************************************************)
EXTENDS Naturals, FiniteSets

CONSTANTS
    Employee,             \* the tenant's employees
    LineItemTenantColumn  \* does payroll_line_items have a tenantId column?

ASSUME ColumnAssumption == LineItemTenantColumn \in BOOLEAN

PayrollStatus ==
    {"PENDING", "PROCESSING", "COMPLETED", "FAILED", "DRAFT", "AI_AUDITED",
     "OWNER_APPROVED", "PROCESSING_PAYOUT", "PAID", "PAYOUT_FAILED"}

NoRun == "absent"  \* the period has no row in payroll_runs yet

PayoutStatus == {"PENDING", "SUCCESS", "FAILED"}

(***************************************************************************)
(* chapaReference holds NULL, the reference the disbursement worker writes *)
(* before it submits a line, or the batch id the finance service writes    *)
(* after Chapa accepted the batch.                                         *)
(***************************************************************************)
LineReference == {"null", "demoz", "batch"}

(***************************************************************************)
(* The tenant layer of PrismaService adds tenantId to every direct         *)
(* operation on a model it lists; PayrollLineItem is listed, so without    *)
(* such a column each of them is refused by the client before it reaches   *)
(* the database.  Operations nested in one on payrollRun (the createMany   *)
(* of a run's lines, an include) are not rewritten.  In schema.prisma the  *)
(* column does not exist: as built the constant is FALSE.                  *)
(***************************************************************************)
LineItemOpsAccepted == LineItemTenantColumn

=============================================================================
