---------------------------- MODULE PayrollDisburse ----------------------------
(***************************************************************************)
(* Endpoint-driven payout of a payroll run: generate a draft, lock it,     *)
(* queue its disbursement, the BullMQ worker that submits the lines to     *)
(* Chapa in batches, and the webhook that books the outcome of each line   *)
(* and rolls the run up.                                                   *)
(*                                                                         *)
(* Every await between two database calls is a place where the other       *)
(* requests, the worker and the webhook handlers run; each action below is *)
(* what one of them does between two such places.  A request that an early *)
(* return or an exception ends before it wrote anything changes no state   *)
(* and has no action.                                                      *)
(***************************************************************************)
EXTENDS PayrollTables, ChapaGateway

CONSTANTS
    Request,       \* HTTP requests to the payroll endpoints (a bound)
    Handler,       \* webhook calls the server works on at one time (a bound)
    BatchSize,     \* lines per bulk request: 100 in the code
    MaxAttempts,   \* attempts of a disbursement job: 3 in the code
    MaxStalls      \* how often the queue takes back a stalled job

Ref(e) == <<"DEMOZ", e>>

ASSUME DisburseAssumption ==
    /\ \A e \in Employee : Ref(e) \in Reference
    /\ BatchSize \in Nat \ {0}
    /\ MaxAttempts \in Nat \ {0}
    /\ MaxStalls \in Nat

VARIABLES
    request,   \* where each HTTP request is
    job,       \* the BullMQ job disburse:<run>, which is never removed
    attempts,  \* attempts of the job that have thrown
    stalls,    \* times the job was taken back from a dead worker
    worker,    \* what the worker is doing
    todo,      \* lines the worker loaded and has not looked at yet
    toSend,    \* recipients it has not submitted yet
    handler    \* where each webhook call is

jobVars == <<job, attempts, stalls>>
workerVars == <<worker, todo, toSend>>
disburseVars ==
    <<tables, gatewayVars, request, jobVars, workerVars, handler>>

RequestStep == {"new", "lock", "mark", "enqueue", "done"}
JobState    == {"none", "waiting", "active", "completed", "failed"}
WorkerStep  == {"idle", "prepare", "submit"}
HandlerStep == {"idle", "updated", "terminal", "PAID", "PAYOUT_FAILED"}

DisburseTypeOK ==
    /\ TablesTypeOK
    /\ GatewayTypeOK
    /\ request \in [Request -> RequestStep]
    /\ job \in JobState
    /\ attempts \in 0..MaxAttempts
    /\ stalls \in 0..MaxStalls
    /\ worker \in WorkerStep
    /\ todo \subseteq listed
    /\ toSend \subseteq banked
    /\ handler \in [Handler -> HandlerStep]

DisburseInit ==
    /\ TablesInit
    /\ GatewayInit
    /\ request = [r \in Request |-> "new"]
    /\ job = "none"
    /\ attempts = 0
    /\ stalls = 0
    /\ worker = "idle"
    /\ todo = {}
    /\ toSend = {}
    /\ handler = [h \in Handler |-> "idle"]

-----------------------------------------------------------------------------
(***************************************************************************)
(* The endpoints of PayrollController.                                     *)
(***************************************************************************)

Step(r, next) == request' = [request EXCEPT ![r] = next]

MayStart(r) ==
    /\ request[r] = "new"
    /\ "overlap" \in Environment \/ \A q \in Request : request[q] \in {"new", "done"}

(***************************************************************************)
(* POST runs/generate: the run and its lines are created in one statement, *)
(* and the unique period makes a second one fail, so the duplicate check   *)
(* before it adds nothing.  The lines copy the bank columns of the active  *)
(* employees, of whom there must be one.                                   *)
(***************************************************************************)
Generate(r) ==
    /\ MayStart(r)
    /\ status = NoRun
    /\ \E active \in (SUBSET Employee) \ {{}} :
          /\ listed' = active
          /\ banked' \in SUBSET active
    /\ status' = "DRAFT"
    /\ Step(r, "done")
    /\ UNCHANGED <<payout, chapaReference, disbursed,
                   gatewayVars, jobVars, workerVars, handler>>

\* POST runs/:runId/lock reads the status and refuses all but DRAFT ...
LockRead(r) ==
    /\ MayStart(r)
    /\ status = "DRAFT"
    /\ Step(r, "lock")
    /\ UNCHANGED <<tables, gatewayVars, jobVars, workerVars, handler>>

\* ... and then updates the run, whatever its status is by then.
LockWrite(r) ==
    /\ request[r] = "lock"
    /\ status' = "OWNER_APPROVED"
    /\ Step(r, "done")
    /\ UNCHANGED <<lines, gatewayVars, jobVars, workerVars, handler>>

\* Mutant: the status is not looked at.
DisburseReadAnyRun(r) ==
    /\ MayStart(r)
    /\ status # NoRun
    /\ Step(r, "mark")
    /\ UNCHANGED <<tables, gatewayVars, jobVars, workerVars, handler>>

\* POST runs/:runId/disburse reads the status and refuses all but OWNER_APPROVED,
DisburseRead(r) ==
    /\ MayStart(r)
    /\ status = "OWNER_APPROVED"
    /\ Step(r, "mark")
    /\ UNCHANGED <<tables, gatewayVars, jobVars, workerVars, handler>>

\* updates the run, whatever its status is by then,
DisburseMark(r) ==
    /\ request[r] = "mark"
    /\ status' = "PROCESSING_PAYOUT"
    /\ Step(r, "enqueue")
    /\ UNCHANGED <<lines, gatewayVars, jobVars, workerVars, handler>>

\* Mutant: completed jobs are removed, so their id can be added again.
EnqueueAfterRemoval(r) ==
    /\ request[r] = "enqueue"
    /\ job' = IF job \in {"none", "completed"} THEN "waiting" ELSE job
    /\ Step(r, "done")
    /\ UNCHANGED <<tables, gatewayVars, attempts, stalls, workerVars, handler>>

\* and adds the job.  The job's id is the run's, and a job is never removed,
\* so a second add for the run is ignored by the queue.
DisburseEnqueue(r) ==
    /\ request[r] = "enqueue"
    /\ job' = IF job = "none" THEN "waiting" ELSE job
    /\ Step(r, "done")
    /\ UNCHANGED <<tables, gatewayVars, attempts, stalls, workerVars, handler>>

\* The add is refused, or the process stops: what is written stays written.
RequestDies(r) ==
    /\ \/ request[r] = "enqueue" /\ "enqueue" \in Environment
       \/ request[r] \in {"lock", "mark", "enqueue"} /\ "crash" \in Environment
    /\ Step(r, "done")
    /\ UNCHANGED <<tables, gatewayVars, jobVars, workerVars, handler>>

Endpoint(r) ==
    \/ Generate(r)
    \/ LockRead(r)
    \/ LockWrite(r)
    \/ DisburseRead(r)
    \/ DisburseMark(r)
    \/ DisburseEnqueue(r)
    \/ RequestDies(r)

-----------------------------------------------------------------------------
(***************************************************************************)
(* The worker: PayrollDisburseProcessor.process, one attempt of the job.   *)
(* The order of the lines is the database's, so it may be any order.       *)
(***************************************************************************)

WorkerIdle ==
    /\ worker' = "idle"
    /\ todo' = {}
    /\ toSend' = {}

\* An attempt starts, first or repeated, and loads all the run's lines.
AttemptStart ==
    /\ job = "waiting"
    /\ job' = "active"
    /\ worker' = "prepare"
    /\ todo' = listed
    /\ toSend' = {}
    /\ UNCHANGED <<tables, gatewayVars, request, attempts, stalls, handler>>

\* A line without a bank account or a bank code cannot be paid.
PrepareUnpayable(e) ==
    /\ worker = "prepare"
    /\ LineItemOpsAccepted
    /\ e \in todo \ banked
    /\ payout' = [payout EXCEPT ![e] = "FAILED"]
    /\ todo' = todo \ {e}
    /\ UNCHANGED <<status, listed, banked, chapaReference, disbursed, gatewayVars,
                   request, jobVars, worker, toSend, handler>>

\* Mutant: the reference of the line is not stored.
PrepareWithoutReference(e) ==
    /\ worker = "prepare"
    /\ LineItemOpsAccepted
    /\ e \in todo \cap banked
    /\ payout' = [payout EXCEPT ![e] = "PENDING"]
    /\ todo' = todo \ {e}
    /\ toSend' = toSend \cup {e}
    /\ UNCHANGED <<status, listed, banked, chapaReference, disbursed, gatewayVars,
                   request, jobVars, worker, handler>>

\* Mutant: lines without bank details are submitted too.
PrepareWithoutBankCheck(e) ==
    /\ worker = "prepare"
    /\ LineItemOpsAccepted
    /\ e \in todo
    /\ payout' = [payout EXCEPT ![e] = "PENDING"]
    /\ chapaReference' = [chapaReference EXCEPT ![e] = "demoz"]
    /\ todo' = todo \ {e}
    /\ toSend' = toSend \cup {e}
    /\ UNCHANGED <<status, listed, banked, disbursed, gatewayVars,
                   request, jobVars, worker, handler>>

\* Any other line gets its reference and is PENDING, whatever it was before.
Prepare(e) ==
    /\ worker = "prepare"
    /\ LineItemOpsAccepted
    /\ e \in todo \cap banked
    /\ payout' = [payout EXCEPT ![e] = "PENDING"]
    /\ chapaReference' = [chapaReference EXCEPT ![e] = "demoz"]
    /\ todo' = todo \ {e}
    /\ toSend' = toSend \cup {e}
    /\ UNCHANGED <<status, listed, banked, disbursed, gatewayVars,
                   request, jobVars, worker, handler>>

Prepared == worker = "prepare" /\ todo = {}

\* Nobody can be paid: the run has failed, and nothing is left to submit.
NoRecipients ==
    /\ Prepared
    /\ toSend = {}
    /\ status' = "PAYOUT_FAILED"
    /\ worker' = "submit"
    /\ UNCHANGED <<lines, gatewayVars, request, jobVars, todo, toSend, handler>>

\* The next batch: full, unless no more recipients are left.
Batch ==
    {batch \in SUBSET toSend :
        Cardinality(batch) = IF Cardinality(toSend) < BatchSize
                             THEN Cardinality(toSend) ELSE BatchSize}

\* Chapa accepts the next batch and the answer arrives.
Submit ==
    /\ worker = "submit" \/ Prepared
    /\ toSend # {}
    /\ \E batch \in Batch :
          /\ Accept({Ref(e) : e \in batch})
          /\ toSend' = toSend \ batch
    /\ worker' = "submit"
    /\ UNCHANGED <<tables, request, jobVars, todo, handler>>

\* The function returns: a run with recipients stays PROCESSING_PAYOUT for the
\* webhooks, and the job is completed.
Finish ==
    /\ worker = "submit"
    /\ toSend = {}
    /\ job' = "completed"
    /\ WorkerIdle
    /\ UNCHANGED <<tables, gatewayVars, request, attempts, stalls, handler>>

\* Mutant: no limit on the attempts.
FailAttemptForEver ==
    /\ attempts' = attempts + 1
    /\ job' = "waiting"
    /\ WorkerIdle
    /\ UNCHANGED <<stalls, tables, request, handler>>

\* BullMQ repeats a job that threw until its attempts are used up.
FailAttempt ==
    /\ attempts' = attempts + 1
    /\ job' = IF attempts + 1 < MaxAttempts THEN "waiting" ELSE "failed"
    /\ WorkerIdle
    /\ UNCHANGED <<stalls, tables, request, handler>>

\* Something throws.  The first update of a line does, always, when the
\* tenant layer refuses operations on lines.
AttemptThrows ==
    /\ \/ "error" \in Environment /\ (worker = "prepare" \/ toSend # {})
       \/ worker = "prepare" /\ todo # {} /\ ~LineItemOpsAccepted
    /\ FailAttempt
    /\ UNCHANGED gatewayVars

\* Chapa accepts the batch, and the worker never learns it.
SubmitTimesOut ==
    /\ "timeout" \in Environment
    /\ worker = "submit" \/ Prepared
    /\ toSend # {}
    /\ \E batch \in Batch : Accept({Ref(e) : e \in batch})
    /\ FailAttempt

\* The process dies; the job stays active until the queue finds it stalled.
WorkerDies ==
    /\ "crash" \in Environment
    /\ worker # "idle"
    /\ WorkerIdle
    /\ UNCHANGED <<tables, gatewayVars, request, jobVars, handler>>

\* Mutant: no limit on how often a stalled job is taken back.
JobStalledForEver ==
    /\ job = "active"
    /\ worker = "idle"
    /\ job' = "waiting"
    /\ stalls' = stalls + 1
    /\ UNCHANGED <<tables, gatewayVars, request, attempts, workerVars, handler>>

JobStalled ==
    /\ job = "active"
    /\ worker = "idle"
    /\ IF stalls < MaxStalls
       THEN job' = "waiting" /\ stalls' = stalls + 1
       ELSE job' = "failed" /\ UNCHANGED stalls
    /\ UNCHANGED <<tables, gatewayVars, request, attempts, workerVars, handler>>

Work ==
    \/ AttemptStart
    \/ \E e \in Employee : PrepareUnpayable(e) \/ Prepare(e)
    \/ NoRecipients
    \/ Submit
    \/ Finish
    \/ AttemptThrows
    \/ SubmitTimesOut
    \/ WorkerDies
    \/ JobStalled

-----------------------------------------------------------------------------
(***************************************************************************)
(* POST /api/v1/webhooks/chapa: WebhooksController.chapa.                  *)
(***************************************************************************)

HandlerGoes(h, next) == handler' = [handler EXCEPT ![h] = next]

\* Mutant: every report that is not a failure counts as success.
BookedUnlessFailed(reported) == IF reported = "failed" THEN "FAILED" ELSE "SUCCESS"

Booked(reported) ==
    IF reported = "success" THEN "SUCCESS"
    ELSE IF reported = "failed" THEN "FAILED" ELSE "PENDING"

\* The middleware lets the call through to a line that carries its reference.
CallFindsLine(m, e) ==
    /\ CallbackCarriesTenant
    /\ LineItemOpsAccepted
    /\ e \in listed
    /\ m.ref = Ref(e)
    /\ chapaReference[e] = "demoz"

\* The line of the reference is found and takes the reported outcome.  The
\* reference of a line never changes once it is written, so finding the line
\* and updating it are one step; the call stays under way if it is repeated.
Deliver(h, m, e) ==
    /\ handler[h] = "idle"
    /\ m \in notices
    /\ CallFindsLine(m, e)
    /\ payout' = [payout EXCEPT ![e] = Booked(m.status)]
    /\ disbursed' = IF m.status = "success" THEN disbursed \cup {e} ELSE disbursed \ {e}
    /\ Consume(m) \/ ("duplicate" \in Environment /\ UNCHANGED gatewayVars)
    /\ HandlerGoes(h, "updated")
    /\ UNCHANGED <<status, listed, banked, chapaReference, request, jobVars, workerVars>>

\* 401 from the middleware, an exception, or no line with the reference: the
\* call has no effect.  Or the call is lost on its way.
Undelivered(m) ==
    /\ m \in notices
    /\ "loss" \in Environment \/ \A e \in Employee : ~CallFindsLine(m, e)
    /\ Consume(m)
    /\ UNCHANGED <<tables, request, jobVars, workerVars, handler>>

\* Mutant: off by one in the count of pending lines.
CountPendingOffByOne(h) ==
    /\ handler[h] = "updated"
    /\ HandlerGoes(h, IF Cardinality({e \in listed : payout[e] = "PENDING"}) <= 1
                      THEN "terminal" ELSE "idle")
    /\ UNCHANGED <<tables, gatewayVars, request, jobVars, workerVars>>

\* The roll-up counts the lines that are still pending ...
CountPending(h) ==
    /\ handler[h] = "updated"
    /\ HandlerGoes(h, IF NonePending THEN "terminal" ELSE "idle")
    /\ UNCHANGED <<tables, gatewayVars, request, jobVars, workerVars>>

\* Mutant: one paid line is enough for PAID.
CountPaid(h) ==
    /\ handler[h] = "terminal"
    /\ HandlerGoes(h, IF \E e \in listed : payout[e] = "SUCCESS"
                      THEN "PAID" ELSE "PAYOUT_FAILED")
    /\ UNCHANGED <<tables, gatewayVars, request, jobVars, workerVars>>

\* ... then, if there are none, the ones that failed ...
CountFailed(h) ==
    /\ handler[h] = "terminal"
    /\ HandlerGoes(h, IF SomeFailed THEN "PAYOUT_FAILED" ELSE "PAID")
    /\ UNCHANGED <<tables, gatewayVars, request, jobVars, workerVars>>

\* Mutant: a run with a failed line is left as it is.
RollUpPaidOnly(h) ==
    /\ handler[h] \in {"PAID", "PAYOUT_FAILED"}
    /\ status' = IF handler[h] = "PAID" THEN "PAID" ELSE status
    /\ HandlerGoes(h, "idle")
    /\ UNCHANGED <<lines, gatewayVars, request, jobVars, workerVars>>

\* ... and updates the run, whatever its status is by then.
RollUp(h) ==
    /\ handler[h] \in {"PAID", "PAYOUT_FAILED"}
    /\ status' = handler[h]
    /\ HandlerGoes(h, "idle")
    /\ UNCHANGED <<lines, gatewayVars, request, jobVars, workerVars>>

HandlerDies(h) ==
    /\ "crash" \in Environment
    /\ handler[h] # "idle"
    /\ HandlerGoes(h, "idle")
    /\ UNCHANGED <<tables, gatewayVars, request, jobVars, workerVars>>

Webhook(h) ==
    \/ \E m \in notices, e \in Employee : Deliver(h, m, e)
    \/ CountPending(h)
    \/ CountFailed(h)
    \/ RollUp(h)
    \/ HandlerDies(h)

Gateway ==
    /\ \E ref \in Reference :
          Settle(ref) \/ ("interim" \in Environment /\ Interim(ref))
    /\ UNCHANGED <<tables, request, jobVars, workerVars, handler>>

-----------------------------------------------------------------------------
DisburseNext ==
    \/ \E r \in Request : Endpoint(r)
    \/ Work
    \/ \E h \in Handler : Webhook(h)
    \/ \E m \in notices : Undelivered(m)
    \/ Gateway

DisburseSpec == DisburseInit /\ [][DisburseNext]_disburseVars


(***************************************************************************)
(* Scheduling.  Node runs every continuation of a request it started, the  *)
(* BullMQ worker polls its queue, and Chapa settles and reports every      *)
(* transfer it accepted.  Nobody has to send a request.  The server takes  *)
(* any number of calls at a time, so a call under way is not starved by    *)
(* the calls that keep the bounded set of handlers busy: strong fairness.  *)
(***************************************************************************)
Fairness ==
    /\ \A r \in Request :
          WF_disburseVars(LockWrite(r) \/ DisburseMark(r) \/ DisburseEnqueue(r))
    /\ WF_disburseVars(Work)
    /\ \A ref \in Reference :
          WF_disburseVars(Settle(ref) /\ UNCHANGED <<tables, request, jobVars, workerVars, handler>>)
    /\ \A m \in Notice :
          SF_disburseVars(\E h \in Handler, e \in Employee : Deliver(h, m, e))
    /\ \A h \in Handler :
          WF_disburseVars(CountPending(h) \/ CountFailed(h) \/ RollUp(h))

FairDisburseSpec == DisburseSpec /\ Fairness

-----------------------------------------------------------------------------
(***************************************************************************)
(* Properties.                                                             *)
(***************************************************************************)

Known(e)   == transfer[Ref(e)] # "unknown"
Settled(e) == transfer[Ref(e)] \in {"success", "failed"}
Approved   == status \notin {NoRun, "DRAFT"}
Retried    == attempts + stalls > 0

\* Whatever Chapa was asked to pay can be traced: the line of the employee has
\* bank details and already carries the reference, so the report of the outcome
\* finds its line however early it comes.
TransferTraceable ==
    \A e \in Employee :
        Known(e) => e \in banked /\ chapaReference[e] = "demoz"

\* A line is booked as paid, by its status or by its disbursed flag, only if
\* Chapa did pay it: no interim, repeated or late report and no retry of the
\* job makes the books claim a payment that did not happen.
BooksBackedByGateway ==
    \A e \in listed :
        payout[e] = "SUCCESS" \/ e \in disbursed => transfer[Ref(e)] = "success"

\* Nothing is ordered, booked, queued or past the check of its request for a run
\* that nobody locked.  The status never goes back, so a request that passed the
\* check once may write and queue later.
UnapprovedUntouched ==
    ~Approved => /\ job = "none"
                 /\ \A r \in Request : request[r] \notin {"mark", "enqueue"}
                 /\ \A e \in Employee : ~Known(e) /\ payout[e] = "PENDING"

\* A run is not closed while a salary of it is open: when it is PAID or
\* PAYOUT_FAILED, Chapa has settled the transfer of every line that can be
\* paid, and a PAID run has no line that cannot.  Retries, crashes, late
\* requests and concurrent roll-ups do not break it.
ClosedRunIsSettled ==
    /\ status \in {"PAID", "PAYOUT_FAILED"} => \A e \in banked : Settled(e)
    /\ status = "PAID" => banked = listed

\* As long as no attempt was repeated and Chapa reports only final outcomes,
\* the verdict on the run is the right one, whatever the interleaving of the
\* webhook calls, their repetition, and late requests.
VerdictTrueUntilRetry ==
    ~Retried /\ "interim" \notin Environment =>
        /\ status = "PAID" => \A e \in listed : transfer[Ref(e)] = "success"
        /\ status = "PAYOUT_FAILED" =>
              \E e \in listed : e \notin banked \/ transfer[Ref(e)] = "failed"

\* However often the endpoints are called, a salary is submitted no more often
\* than one job is allowed to run: the job id keeps a second job away.
SubmissionsBounded ==
    \A e \in Employee : posts[Ref(e)] <= MaxAttempts + MaxStalls

\* A payment that was booked stays booked until an attempt is repeated.
BookedStaysUntilRetry ==
    [][\A e \in listed :
          payout[e] = "SUCCESS" /\ payout'[e] # "SUCCESS" =>
              Retried \/ "interim" \in Environment]_disburseVars

\* A queued payout is closed by the webhooks it waits for, though a request that
\* read the run before may still overwrite its status afterwards.
QueuedPayoutCloses == job = "waiting" ~> status \in {"PAID", "PAYOUT_FAILED"}

(***************************************************************************)
(* The payout implements PayoutContract: a salary is ordered when Chapa    *)
(* first accepts its reference.                                            *)
(***************************************************************************)
Contract == INSTANCE PayoutContract WITH
    payable  <- banked,
    approved <- Approved,
    salary   <- [e \in Employee |->
                    IF transfer[Ref(e)] = "accepted" THEN "ordered"
                    ELSE IF transfer[Ref(e)] = "success" THEN "paid"
                    ELSE IF transfer[Ref(e)] = "failed" THEN "bounced"
                    ELSE "owed"]

\* Every behaviour of the payout is one the contract allows.
ContractHolds == Contract!Spec

(***************************************************************************)
(* What a comment of the code says of the run, and what does not hold.     *)
(***************************************************************************)

\* payroll-calculation.service.ts: lock takes a run from DRAFT to OWNER_APPROVED.
LockOnlyFromDraft ==
    [][status' = "OWNER_APPROVED" /\ status # "OWNER_APPROVED" => status = "DRAFT"]_status

=============================================================================
