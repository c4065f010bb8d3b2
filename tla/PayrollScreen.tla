----------------------------- MODULE PayrollScreen -----------------------------
(***************************************************************************)
(* The payroll page of the web client: one person submits the period, the  *)
(* server calculates it in the background while the page asks for its      *)
(* status every 1.5 s, another person then authorizes the payout with a    *)
(* one-time code.  An answer is shown when it arrives, whatever has been   *)
(* shown or asked for since.                                               *)
(* Left out: the figures (PayArithmetic), the downloads (PayStatements),   *)
(* the simulated audit, and what the payout does after the approval        *)
(* (FinancePayout).                                                        *)
(***************************************************************************)
EXTENDS RequestHandling

CONSTANT Run \* payroll runs: one for each pay period (a bound)

NoRun == "no run"

ASSUME RunAssumption == NoRun \notin Run

VARIABLES
    withSession, \* is the API of the page's own site, so that a bare fetch has the session?
    runStatus,   \* the status of each period's run at the server, or "none"
    period,      \* the period the page shows
    stage,       \* payrollStatus
    active,      \* activeRunId
    job,         \* usePayrollJobStatus: the status, and the run its figures are of
    ticking,     \* is the interval of 1.5 s on?
    modal,       \* is the dialog for the code open?
    poll,        \* what is asked of the server about a run
    press        \* what is asked by a button

screenVars == <<withSession, runStatus, period, stage, active, job, ticking, modal, poll, press>>

Idle      == [at |-> "idle", run |-> NoRun, saw |-> "none"]
RunStatus == {"PENDING", "PROCESSING", "COMPLETED", "FAILED", "OWNER_APPROVED"}

ScreenTypeOK ==
    /\ withSession \in BOOLEAN /\ ticking \in BOOLEAN /\ modal \in BOOLEAN
    /\ runStatus \in [Run -> RunStatus \cup {"none"}]
    /\ period \in Run /\ active \in Run \cup {NoRun}
    /\ stage \in {"DRAFT", "SUBMITTED", "DISBURSING", "PAID"}
    /\ job \in [status : RunStatus \cup {"IDLE"}, of : Run \cup {NoRun}]
    /\ poll \in [Handler -> [at : {"idle", "asked", "read"}, run : Run \cup {NoRun},
                           saw : RunStatus \cup {"none"}]]
    /\ press \in [Handler -> [at : {"idle", "submit", "approve", "done", "refused", "approved"},
                            run : Run \cup {NoRun}, saw : {"none", "code"}]]
    /\ \A h \in Handler : /\ poll[h].at # "idle" => poll[h].run \in Run
                          /\ press[h].at # "idle" => press[h].run \in Run

\* The page has been opened: its state starts anew.
ScreenInit ==
    /\ withSession \in BOOLEAN
    /\ runStatus = [r \in Run |-> "none"] /\ period \in Run
    /\ stage = "DRAFT" /\ active = NoRun
    /\ job = [status |-> "IDLE", of |-> NoRun]
    /\ ticking = FALSE /\ modal = FALSE
    /\ poll = [h \in Handler |-> Idle] /\ press = [h \in Handler |-> Idle]

Polling  == [h \in Handler |-> poll[h].at]
Pressing == [h \in Handler |-> press[h].at]

\* Overlays and the dialog cover the buttons.
Calculating == job.status \in {"PENDING", "PROCESSING"}
Uncovered   == ~Calculating /\ stage # "DISBURSING" /\ ~modal

-----------------------------------------------------------------------------
(***************************************************************************)
(* The server.                                                             *)
(***************************************************************************)

\* The background job takes the run and ends it.
CalculationStep(r) ==
    /\ \/ runStatus[r] = "PENDING" /\ runStatus' = [runStatus EXCEPT ![r] = "PROCESSING"]
       \/ /\ runStatus[r] = "PROCESSING"
          /\ \E s \in {"COMPLETED", "FAILED"} : runStatus' = [runStatus EXCEPT ![r] = s]
    /\ UNCHANGED <<withSession, period, stage, active, job, ticking, modal, poll, press, calm>>

\* triggerPayrollRun: one run for a period.
RunCreated(h) ==
    LET r == press[h].run
    IN  /\ press[h].at = "submit"
        /\ IF runStatus[r] = "none"
           THEN /\ runStatus' = [runStatus EXCEPT ![r] = "PENDING"]
                /\ press' = [press EXCEPT ![h].at = "done"]
           ELSE press' = [press EXCEPT ![h].at = "refused"] /\ UNCHANGED runStatus
        /\ UNCHANGED <<withSession, period, stage, active, job, ticking, modal, poll, calm>>

\* approvePayroll: a code that is right and a run that is calculated.
ApprovalServed(h, right) ==
    LET r == press[h].run
    IN  /\ press[h].at = "approve"
        /\ IF right /\ runStatus[r] = "COMPLETED"
           THEN /\ runStatus' = [runStatus EXCEPT ![r] = "OWNER_APPROVED"]
                /\ press' = [press EXCEPT ![h].at = "approved"]
           ELSE press' = [press EXCEPT ![h].at = "refused"] /\ UNCHANGED runStatus
        /\ UNCHANGED <<withSession, period, stage, active, job, ticking, modal, poll, calm>>

-----------------------------------------------------------------------------
(***************************************************************************)
(* usePayrollJobStatus.                                                    *)
(***************************************************************************)

\* Every 1.5 s, answered or not; in a calm history the answer is faster.
Tick(h) ==
    /\ ticking
    /\ MayTake(h, Polling)
    /\ poll' = [poll EXCEPT ![h] = [Idle EXCEPT !.at = "asked", !.run = active]]
    /\ UNCHANGED <<withSession, runStatus, period, stage, active, job, ticking, modal, press, calm>>

\* getPayrollRunStatus.  The hook's fetch names no credentials.
StatusRead(h) ==
    /\ poll[h].at = "asked"
    /\ poll' = [poll EXCEPT ![h].at = "read",
                            ![h].saw = IF withSession THEN runStatus[poll[h].run] ELSE "none"]
    /\ UNCHANGED <<withSession, runStatus, period, stage, active, job, ticking, modal, press, calm>>

\* An answer that ends the asking ends the interval of the run it was asked for.
StillTicking(r) == ticking /\ r # active

\* The answer is shown, and a run that is calculated counts as submitted.
StatusShown(h) ==
    LET p == poll[h]
    IN  /\ p.at = "read"
        /\ ticking' = IF p.saw \in {"COMPLETED", "FAILED", "none"} THEN StillTicking(p.run)
                      ELSE ticking
        /\ IF p.saw = "none" THEN job' = [job EXCEPT !.status = "FAILED"]
           ELSE job' = [status |-> p.saw, of |-> p.run]
        /\ stage' = IF p.saw = "COMPLETED" THEN "SUBMITTED" ELSE stage
        /\ poll' = [poll EXCEPT ![h] = Idle]
        /\ UNCHANGED <<withSession, runStatus, period, active, modal, press, calm>>

\* No answer comes.
PollBreaks(h) ==
    /\ MayBreak(h, Polling)
    /\ job' = [job EXCEPT !.status = "FAILED"]
    /\ ticking' = StillTicking(poll[h].run)
    /\ poll' = [poll EXCEPT ![h] = Idle]
    /\ UNCHANGED <<withSession, runStatus, period, stage, active, modal, press, calm>>

-----------------------------------------------------------------------------
(***************************************************************************)
(* The page.                                                               *)
(***************************************************************************)

\* handleMakerSubmit; the button stays until the answer.
MakerSubmit(h) ==
    /\ stage = "DRAFT" /\ Uncovered
    /\ MayTake(h, Pressing)
    /\ press' = [press EXCEPT ![h] = [Idle EXCEPT !.at = "submit", !.run = period]]
    /\ UNCHANGED <<withSession, runStatus, period, stage, active, job, ticking, modal, poll, calm>>

\* The answer names the run, and the hook begins to ask for it at once.
Submitted(h, first) ==
    LET r == press[h].run
    IN  /\ press[h].at = "done"
        /\ active' = r
        /\ IF r = active THEN UNCHANGED <<job, ticking, poll>>
           ELSE /\ job' = [status |-> "PENDING", of |-> NoRun]
                /\ ticking' = TRUE
                /\ poll[first].at = "idle"
                /\ poll' = [poll EXCEPT ![first] = [Idle EXCEPT !.at = "asked", !.run = r]]
        /\ press' = [press EXCEPT ![h] = Idle]
        /\ UNCHANGED <<withSession, runStatus, period, stage, modal, calm>>

\* A refusal, or no answer at all: "Backend Offline: Simulating".
SubmissionFails(h) ==
    /\ \/ press[h].at = "refused" /\ press[h].saw = "none"
       \/ press[h].at \in {"submit", "done"} /\ MayBreak(h, Pressing)
    /\ stage' = "SUBMITTED"
    /\ press' = [press EXCEPT ![h] = Idle]
    /\ UNCHANGED <<withSession, runStatus, period, active, job, ticking, modal, poll, calm>>

\* handleCheckerTriggerDisburse, and the dialog's Cancel.
CheckerTrigger ==
    /\ stage = "SUBMITTED" /\ Uncovered
    /\ modal' = TRUE
    /\ UNCHANGED <<withSession, runStatus, period, stage, active, job, ticking, poll, press, calm>>

ModalCancelled ==
    /\ modal /\ ~Calculating
    /\ modal' = FALSE
    /\ UNCHANGED <<withSession, runStatus, period, stage, active, job, ticking, poll, press, calm>>

\* handleFinalizeDisburse; without a run the dialog stays.
FinalizeDisburse(h) ==
    /\ modal /\ ~Calculating /\ stage # "DISBURSING"
    /\ active # NoRun
    /\ MayTake(h, Pressing)
    /\ modal' = FALSE /\ stage' = "DISBURSING"
    /\ press' = [press EXCEPT ![h] = [at |-> "approve", run |-> active, saw |-> "code"]]
    /\ UNCHANGED <<withSession, runStatus, period, active, job, ticking, poll, calm>>

\* handleTriggerDisbursement ends; what it loads afterwards does not fail.
Disbursed(h) ==
    /\ press[h].at = "approved"
    /\ stage' = "PAID"
    /\ press' = [press EXCEPT ![h] = Idle]
    /\ UNCHANGED <<withSession, runStatus, period, active, job, ticking, modal, poll, calm>>

DisbursementFails(h) ==
    /\ press[h].saw = "code"
    /\ press[h].at = "refused" \/ MayBreak(h, Pressing)
    /\ stage' = "SUBMITTED"
    /\ press' = [press EXCEPT ![h] = Idle]
    /\ UNCHANGED <<withSession, runStatus, period, active, job, ticking, modal, poll, calm>>

\* handleResetPayroll: the run stays.
ResetPayroll ==
    /\ stage = "PAID" /\ Uncovered
    /\ stage' = "DRAFT"
    /\ UNCHANGED <<withSession, runStatus, period, active, job, ticking, modal, poll, press, calm>>

\* The settings are loaded again in another month.
PeriodTurns ==
    /\ \A h \in Handler : press[h].at = "idle"
    /\ \E r \in Run \ {period} : runStatus[r] = "none" /\ period' = r
    /\ UNCHANGED <<withSession, runStatus, stage, active, job, ticking, modal, poll, press, calm>>

\* The page is left and opened: it knows of no run, and what arrives late is nobody's.
Reopened ==
    /\ stage' = "DRAFT" /\ active' = NoRun
    /\ job' = [status |-> "IDLE", of |-> NoRun]
    /\ ticking' = FALSE /\ modal' = FALSE
    /\ poll' = [h \in Handler |-> Idle]
    /\ \A h \in Handler : press[h].at = "idle"
    /\ UNCHANGED <<withSession, runStatus, period, press, calm>>

ScreenNext ==
    \/ \E r \in Run : CalculationStep(r)
    \/ CheckerTrigger \/ ModalCancelled \/ ResetPayroll \/ PeriodTurns \/ Reopened
    \/ \E h \in Handler :
        \/ RunCreated(h) \/ Tick(h) \/ StatusRead(h) \/ StatusShown(h) \/ PollBreaks(h)
        \/ MakerSubmit(h) \/ SubmissionFails(h) \/ FinalizeDisburse(h)
        \/ Disbursed(h) \/ DisbursementFails(h)
        \/ \E right \in BOOLEAN : ApprovalServed(h, right)
        \/ \E g \in Handler : Submitted(h, g)

ScreenSpec == CalmInit /\ ScreenInit /\ [][ScreenNext]_<<calm, screenVars>>

-----------------------------------------------------------------------------
(***************************************************************************)
(* Properties.                                                             *)
(***************************************************************************)

PollUnderWay == \E h \in Handler : poll[h].at # "idle"

\* No overlay covers the page for good: while the payout is asked for there is an answer
\* to come, and while a run is calculated the page asks for it.  The second needs answers
\* in the order of the questions: a late "PROCESSING" covers a page that has stopped asking.
NeverCoveredForGood ==
    /\ stage = "DISBURSING" => \E h \in Handler : press[h].saw = "code"
    /\ calm /\ Calculating => ticking \/ PollUnderWay

\* Where answers come in order and with the session, the page calls a run calculated or
\* failed that is; what it calls paid has been approved, and nothing was approved that it
\* had not shown as calculated.
ScreenTellsTruth ==
    calm =>
        /\ stage = "PAID" => active # NoRun /\ runStatus[active] = "OWNER_APPROVED"
        /\ job.status = "COMPLETED" => runStatus[active] \in {"COMPLETED", "OWNER_APPROVED"}
        /\ withSession => (job.status = "FAILED" => runStatus[active] = "FAILED")
        /\ withSession /\ active # NoRun /\ runStatus[active] = "OWNER_APPROVED"
            => job = [status |-> "COMPLETED", of |-> active]

ScreenSound == NeverCoveredForGood /\ ScreenTellsTruth

=============================================================================
