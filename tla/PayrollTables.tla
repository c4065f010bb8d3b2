---------------------------- MODULE PayrollTables ----------------------------
(***************************************************************************)
(* The rows of payroll_runs and payroll_line_items that one payroll period *)
(* of one tenant owns.  Runs of other periods and of other tenants share   *)
(* no row with this one (payroll_runs is unique on tenant and period, and  *)
(* every line belongs to one run), so one run is enough.                   *)
(***************************************************************************)
EXTENDS PayrollSchema

CONSTANTS
    CallbackCarriesTenant, \* does the webhook URL given to Chapa name a tenant?
    Environment            \* what may go wrong around the code

(***************************************************************************)
(* "overlap": requests run concurrently.  "crash": the process stops at    *)
(* any await.  "enqueue": Redis refuses to add a job.  "error": a call of  *)
(* the database or the bulk request throws.  "timeout": Chapa accepts a    *)
(* bulk request and the answer is lost.  "interim", "duplicate", "loss":   *)
(* Chapa reports statuses that are not final, repeats a call, gives up a   *)
(* call.                                                                   *)
(***************************************************************************)
Hazard == {"overlap", "crash", "enqueue", "error", "timeout",
           "interim", "duplicate", "loss"}

ASSUME EnvironmentAssumption ==
    /\ CallbackCarriesTenant \in BOOLEAN
    /\ Environment \subseteq Hazard

VARIABLES
    status,         \* payroll_runs.status, or NoRun
    listed,         \* the employees that have a line in the run
    banked,         \* of those, the ones whose line has bankAccount and bankCode
    payout,         \* payoutStatus of each line
    chapaReference, \* chapaReference of each line
    disbursed       \* the employees whose line has the disbursed flag

tables == <<status, listed, banked, payout, chapaReference, disbursed>>
lines == <<listed, banked, payout, chapaReference, disbursed>>

TablesTypeOK ==
    /\ status \in PayrollStatus \cup {NoRun}
    /\ listed \subseteq Employee
    /\ banked \subseteq listed
    /\ payout \in [Employee -> PayoutStatus]
    /\ chapaReference \in [Employee -> LineReference]
    /\ disbursed \subseteq listed

TablesInit ==
    /\ status = NoRun
    /\ listed = {}
    /\ banked = {}
    /\ payout = [e \in Employee |-> "PENDING"]
    /\ chapaReference = [e \in Employee |-> "null"]
    /\ disbursed = {}

(***************************************************************************)
(* The two counts every roll-up of a run takes over its lines.             *)
(***************************************************************************)
NonePending == \A e \in listed : payout[e] # "PENDING"
SomeFailed  == \E e \in listed : payout[e] = "FAILED"

=============================================================================
