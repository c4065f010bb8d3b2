--------------------------- MODULE PayrollCalculation ---------------------------
(***************************************************************************)
(* The background calculation of a payroll run: POST /payroll/run creates  *)
(* the run of the period and queues a job; the worker audits the period,   *)
(* writes one line per employee and completes the run, or cleans up and    *)
(* fails it.  A job whose worker stops renewing its lock is taken back by  *)
(* the queue and given to another worker, even if the first one is alive.  *)
(* The tenant's active employees do not change meanwhile.                  *)
(***************************************************************************)
EXTENDS PayrollSchema

CONSTANTS
    Request,      \* calls of POST /payroll/run for the period (a bound)
    Worker,       \* processes that serve payroll-queue
    MaxStalls,    \* how often the queue takes back a stalled job
    Environment   \* what may go wrong around the code, see below

(***************************************************************************)
(* "crash": a process stops at any await.  "stall": a live worker loses    *)
(* the lock of its job.  "enqueue": Redis refuses the job.  "error": a     *)
(* database call throws.                                                   *)
(***************************************************************************)
Hazard == {"crash", "stall", "enqueue", "error"}

ASSUME CalculationAssumption ==
    /\ MaxStalls \in Nat
    /\ Environment \subseteq Hazard
    /\ Worker \cap {"none", "waiting", "completed", "failed"} = {}

VARIABLES
    status,   \* payroll_runs.status, or NoRun
    rows,     \* how many lines of the run each employee has
    active,   \* the tenant's active employees
    report,   \* does the run have its AiAuditReport?
    flagged,  \* flaggedEmployeeIds of the report
    request,  \* where each call is
    job,      \* the job of the run: its state, or the worker that holds its lock
    stalls,   \* times the job was taken back
    pc,       \* what each worker does next for the run
    todo      \* the employees it still has to write a line for

calcVars == <<status, rows, active, report, flagged, request, job, stalls, pc, todo>>

RequestStep == {"new", "enqueue", "done"}
JobState    == {"none", "waiting", "completed", "failed"} \cup Worker
WorkerStep  == {"idle", "clean", "mark", "audit", "lines", "cleanup", "fail", "return"}

CalcTypeOK ==
    /\ status \in {NoRun, "PENDING", "PROCESSING", "COMPLETED", "FAILED"}
    /\ rows \in [Employee -> Nat]
    /\ active \subseteq Employee
    /\ report \in BOOLEAN
    /\ flagged \subseteq active
    /\ request \in [Request -> RequestStep]
    /\ job \in JobState
    /\ stalls \in 0..MaxStalls
    /\ pc \in [Worker -> WorkerStep]
    /\ todo \in [Worker -> SUBSET active]

CalcInit ==
    /\ status = NoRun
    /\ rows = [e \in Employee |-> 0]
    /\ active \in SUBSET Employee
    /\ report = FALSE
    /\ flagged = {}
    /\ request = [r \in Request |-> "new"]
    /\ job = "none"
    /\ stalls = 0
    /\ pc = [w \in Worker |-> "idle"]
    /\ todo = [w \in Worker |-> {}]

-----------------------------------------------------------------------------
(***************************************************************************)
(* PayrollController.triggerPayrollRun.                                    *)
(***************************************************************************)

\* The run is created; the unique period refuses it (409) if there is one.
Trigger(r) ==
    /\ request[r] = "new"
    /\ status = NoRun
    /\ status' = "PENDING"
    /\ request' = [request EXCEPT ![r] = "enqueue"]
    /\ UNCHANGED <<rows, active, report, flagged, job, stalls, pc, todo>>

\* The job is added under the run's id.
TriggerEnqueue(r) ==
    /\ request[r] = "enqueue"
    /\ job' = IF job = "none" THEN "waiting" ELSE job
    /\ request' = [request EXCEPT ![r] = "done"]
    /\ UNCHANGED <<status, rows, active, report, flagged, stalls, pc, todo>>

\* The add is refused, or the process stops: the run stays PENDING.
TriggerDies(r) ==
    /\ request[r] = "enqueue"
    /\ Environment \cap {"enqueue", "crash"} # {}
    /\ request' = [request EXCEPT ![r] = "done"]
    /\ UNCHANGED <<status, rows, active, report, flagged, job, stalls, pc, todo>>

-----------------------------------------------------------------------------
(***************************************************************************)
(* PayrollProcessor.process.                                               *)
(***************************************************************************)

Goes(w, next) == pc' = [pc EXCEPT ![w] = next]

\* A worker that returned or threw settles the job only if it still has its lock.
Release(w, result) == job' = IF job = w THEN result ELSE job

Start(w) ==
    /\ job = "waiting"
    /\ pc[w] = "idle"
    /\ job' = w
    /\ Goes(w, "clean")
    /\ UNCHANGED <<status, rows, active, report, flagged, request, stalls, todo>>

\* Lines of an earlier attempt are deleted; the tenant layer may refuse it.
CleanUp(w) ==
    /\ pc[w] = "clean"
    /\ IF LineItemOpsAccepted
       THEN rows' = [e \in Employee |-> 0] /\ Goes(w, "mark")
       ELSE UNCHANGED rows /\ Goes(w, "cleanup")
    /\ UNCHANGED <<status, active, report, flagged, request, job, stalls, todo>>

MarkProcessing(w) ==
    /\ pc[w] = "mark"
    /\ status' = "PROCESSING"
    /\ Goes(w, "audit")
    /\ UNCHANGED <<rows, active, report, flagged, request, job, stalls, todo>>

\* Mutant: the report is written over an existing one.
AuditUpsert(w) ==
    /\ pc[w] = "audit"
    /\ report' = TRUE
    /\ flagged' \in SUBSET active
    /\ todo' = [todo EXCEPT ![w] = active \ flagged']
    /\ Goes(w, "lines")
    /\ UNCHANGED <<status, rows, active, request, job, stalls>>

\* Mutant: a report that flags nobody is not stored.
AuditReportIfFlagged(w) ==
    /\ pc[w] = "audit"
    /\ ~report
    /\ flagged' \in SUBSET active
    /\ report' = (flagged' # {})
    /\ todo' = [todo EXCEPT ![w] = active \ flagged']
    /\ Goes(w, "lines")
    /\ UNCHANGED <<status, rows, active, request, job, stalls>>

\* AiAuditService.runAudit flags employees and stores the report of the run,
\* which is unique; then the lines of the others are due.
Audit(w) ==
    /\ pc[w] = "audit"
    /\ ~report
    /\ report' = TRUE
    /\ flagged' \in SUBSET active
    /\ todo' = [todo EXCEPT ![w] = active \ flagged']
    /\ Goes(w, "lines")
    /\ UNCHANGED <<status, rows, active, request, job, stalls>>

\* The report exists already: the create throws.
AuditConflict(w) ==
    /\ pc[w] = "audit"
    /\ report
    /\ Goes(w, "cleanup")
    /\ UNCHANGED <<status, rows, active, report, flagged, request, job, stalls, todo>>

CreateLine(w, e) ==
    /\ pc[w] = "lines"
    /\ e \in todo[w]
    /\ rows' = [rows EXCEPT ![e] = @ + 1]
    /\ todo' = [todo EXCEPT ![w] = @ \ {e}]
    /\ UNCHANGED <<status, active, report, flagged, request, job, stalls, pc>>

\* Mutant: the paging stops before the last employee.
CompleteEarly(w) ==
    /\ pc[w] = "lines"
    /\ status' = "COMPLETED"
    /\ Goes(w, "return")
    /\ UNCHANGED <<rows, active, report, flagged, request, job, stalls, todo>>

\* Every line is written: the run is complete.
Complete(w) ==
    /\ pc[w] = "lines"
    /\ todo[w] = {}
    /\ status' = "COMPLETED"
    /\ Goes(w, "return")
    /\ UNCHANGED <<rows, active, report, flagged, request, job, stalls, todo>>

\* Any call of the try block throws.
Throw(w) ==
    /\ "error" \in Environment
    /\ pc[w] \in {"clean", "mark", "audit", "lines"}
    /\ Goes(w, "cleanup")
    /\ UNCHANGED <<status, rows, active, report, flagged, request, job, stalls, todo>>

\* The catch block deletes the lines again, and goes on if that throws.
CatchCleanUp(w) ==
    /\ pc[w] = "cleanup"
    /\ \/ LineItemOpsAccepted /\ rows' = [e \in Employee |-> 0]
       \/ (~LineItemOpsAccepted \/ "error" \in Environment) /\ UNCHANGED rows
    /\ Goes(w, "fail")
    /\ todo' = [todo EXCEPT ![w] = {}]
    /\ UNCHANGED <<status, active, report, flagged, request, job, stalls>>

\* Mutant: the error is swallowed and the run left as it is.
MarkFailedNot(w) ==
    /\ pc[w] = "fail"
    /\ Goes(w, "return")
    /\ UNCHANGED <<status, rows, active, report, flagged, request, job, stalls, todo>>

\* It fails the run and swallows the error.
MarkFailed(w) ==
    /\ pc[w] = "fail"
    /\ status' = "FAILED"
    /\ Goes(w, "return")
    /\ UNCHANGED <<rows, active, report, flagged, request, job, stalls, todo>>

\* The function has returned: for the queue the job is completed.
Return(w) ==
    /\ pc[w] = "return"
    /\ Release(w, "completed")
    /\ Goes(w, "idle")
    /\ UNCHANGED <<status, rows, active, report, flagged, request, stalls, todo>>

\* Failing the run throws: the job has failed, and has one attempt only.
MarkFailedThrows(w) ==
    /\ pc[w] = "fail"
    /\ "error" \in Environment
    /\ Release(w, "failed")
    /\ Goes(w, "idle")
    /\ UNCHANGED <<status, rows, active, report, flagged, request, stalls, todo>>

Die(w) ==
    /\ "crash" \in Environment
    /\ pc[w] # "idle"
    /\ Goes(w, "idle")
    /\ todo' = [todo EXCEPT ![w] = {}]
    /\ UNCHANGED <<status, rows, active, report, flagged, request, job, stalls>>

\* Mutant: the queue takes the job back without limit.
StalledForEver(w) ==
    /\ job = w
    /\ pc[w] = "idle" \/ "stall" \in Environment
    /\ job' = "waiting"
    /\ stalls' = stalls + 1
    /\ UNCHANGED <<status, rows, active, report, flagged, request, pc, todo>>

\* The queue takes the job back from a worker that is gone or seems to be.
Stalled(w) ==
    /\ job = w
    /\ pc[w] = "idle" \/ "stall" \in Environment
    /\ IF stalls < MaxStalls
       THEN job' = "waiting" /\ stalls' = stalls + 1
       ELSE job' = "failed" /\ UNCHANGED stalls
    /\ UNCHANGED <<status, rows, active, report, flagged, request, pc, todo>>

Process(w) ==
    \/ Start(w)
    \/ CleanUp(w)
    \/ MarkProcessing(w)
    \/ Audit(w)
    \/ AuditConflict(w)
    \/ \E e \in Employee : CreateLine(w, e)
    \/ Complete(w)
    \/ Throw(w)
    \/ CatchCleanUp(w)
    \/ MarkFailed(w)
    \/ Return(w)
    \/ MarkFailedThrows(w)
    \/ Die(w)
    \/ Stalled(w)

CalcNext ==
    \/ \E r \in Request : Trigger(r) \/ TriggerEnqueue(r) \/ TriggerDies(r)
    \/ \E w \in Worker : Process(w)

CalcSpec == CalcInit /\ [][CalcNext]_calcVars

(***************************************************************************)
(* Workers poll the queue and Node runs what it started; the queue's own   *)
(* check finds stalled jobs.                                               *)
(***************************************************************************)
FairCalcSpec ==
    /\ CalcSpec
    /\ \A r \in Request : WF_calcVars(TriggerEnqueue(r))
    /\ \A w \in Worker : WF_calcVars(Process(w))

-----------------------------------------------------------------------------
(***************************************************************************)
(* Properties.                                                             *)
(***************************************************************************)

Ended == status \in {"COMPLETED", "FAILED"}

\* A completed run has one line for every active employee the audit did not
\* flag and none for anyone else, as long as the queue never took the job back:
\* errors, refused adds and repeated calls do not break it.
CompletedIsExact ==
    status = "COMPLETED" /\ stalls = 0 =>
        \A e \in Employee : rows[e] = IF e \in active \ flagged THEN 1 ELSE 0

\* No employee ever has two lines, and a flagged one has none, even if two
\* workers calculate the run at the same time: the report of the run is unique,
\* so only one of them gets beyond the audit.
NoDuplicateLine ==
    \A e \in Employee : rows[e] <= IF e \in active \ flagged THEN 1 ELSE 0

\* Nobody's salary is calculated before the audit's report is stored.
LinesAreAudited == (\E e \in Employee : rows[e] > 0) => report

\* A queued calculation does not hang: the run ends, or the queue gives its job
\* up as failed.
QueuedRunEnds == job = "waiting" ~> Ended \/ job = "failed"

\* test/payroll-e2e.ts: the run it triggers is polled until it is COMPLETED.
TriggeredRunCompletes == job = "waiting" ~> status = "COMPLETED"

=============================================================================
