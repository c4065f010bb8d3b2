----------------------------- MODULE FinancePayout -----------------------------
(***************************************************************************)
(* The other way to pay a run: the owner approves a calculated run, and    *)
(* the approval starts executeChapaDisbursement in the same process, which *)
(* nothing awaits, repeats or resumes.  It submits the lines to Chapa in   *)
(* chunks, books each chunk by the answer of the request, and closes the   *)
(* run itself.  A webhook of its own corrects lines later.                 *)
(* The owner's role and one-time password are left out.                    *)
(***************************************************************************)
EXTENDS PayrollTables, ChapaGateway

CONSTANTS
    Approval,   \* calls of POST payroll/:id/approve (a bound)
    Callback,   \* webhook calls the server works on at one time (a bound)
    ChunkSize   \* lines per bulk request: 100 in the code

TxRef(e) == <<"demoz_tx", e>>

ASSUME FinanceAssumption ==
    /\ \A e \in Employee : TxRef(e) \in Reference
    /\ ChunkSize \in Nat \ {0}

VARIABLES
    approval, \* where each approval is
    logged,   \* did the audit log record an approval?
    engine,   \* what the disbursement each approval started does next
    left,     \* the lines it still has to go through
    chunk,    \* the lines of the request it is sending or booking
    failed,   \* did a chunk of it fail?
    callback  \* the open transaction of each webhook call

financeVars == <<approval, logged, engine, left, chunk, failed, callback>>

ApprovalStep == {"new", "log", "start", "done"}
EngineStep   == {"off", "mark", "next", "post", "book", "fail"}

(***************************************************************************)
(* The transaction of a webhook call: the line it has updated and locked,  *)
(* the new outcome, and the status it will give the run, if any.           *)
(***************************************************************************)
NoTransaction == [line |-> {}, outcome |-> "PENDING", verdict |-> NoRun]
Transaction ==
    [line : SUBSET Employee, outcome : PayoutStatus,
     verdict : {"PAID", "PAYOUT_FAILED", NoRun}]

FinanceTypeOK ==
    /\ TablesTypeOK
    /\ GatewayTypeOK
    /\ approval \in [Approval -> ApprovalStep]
    /\ logged \in BOOLEAN
    /\ engine \in [Approval -> EngineStep]
    /\ left \in [Approval -> SUBSET listed]
    /\ chunk \in [Approval -> SUBSET listed]
    /\ failed \in [Approval -> BOOLEAN]
    /\ callback \in [Callback -> Transaction]

FinanceIdle ==
    /\ approval = [a \in Approval |-> "new"]
    /\ logged = FALSE
    /\ engine = [a \in Approval |-> "off"]
    /\ left = [a \in Approval |-> {}]
    /\ chunk = [a \in Approval |-> {}]
    /\ failed = [a \in Approval |-> FALSE]
    /\ callback = [c \in Callback |-> NoTransaction]

-----------------------------------------------------------------------------
\* Mutant: the calculated lines have the employees' bank details.
CalculatedWithBank ==
    /\ status = NoRun
    /\ status' = "COMPLETED"
    /\ listed' \in SUBSET Employee
    /\ banked' \in SUBSET listed'
    /\ UNCHANGED <<payout, chapaReference, disbursed, gatewayVars, financeVars>>

(***************************************************************************)
(* The run comes from PayrollProcessor, which gives lines no bank columns. *)
(***************************************************************************)
Calculated ==
    /\ status = NoRun
    /\ status' = "COMPLETED"
    /\ listed' \in SUBSET Employee
    /\ banked' = {}
    /\ UNCHANGED <<payout, chapaReference, disbursed, gatewayVars, financeVars>>

(***************************************************************************)
(* FinanceController.approvePayroll.                                       *)
(***************************************************************************)

ApprovalGoes(a, next) == approval' = [approval EXCEPT ![a] = next]
EngineGoes(a, next) == engine' = [engine EXCEPT ![a] = next]

\* Mutant: an approved run can be approved again.
ApproveAgain(a) ==
    /\ approval[a] = "new"
    /\ status \in {"COMPLETED", "OWNER_APPROVED"}
    /\ status' = "OWNER_APPROVED"
    /\ ApprovalGoes(a, "log")
    /\ UNCHANGED <<lines, gatewayVars, logged, engine, left, chunk, failed, callback>>

\* A serializable transaction checks the status and moves it on.
Approve(a) ==
    /\ approval[a] = "new"
    /\ status = "COMPLETED"
    /\ status' = "OWNER_APPROVED"
    /\ ApprovalGoes(a, "log")
    /\ UNCHANGED <<lines, gatewayVars, logged, engine, left, chunk, failed, callback>>

\* The audit log is written, then the disbursement is started and left alone.
LogApproval(a) ==
    /\ approval[a] = "log"
    /\ logged' = TRUE
    /\ ApprovalGoes(a, "start")
    /\ UNCHANGED <<tables, gatewayVars, engine, left, chunk, failed, callback>>

\* The audit log refuses the entry, or the process stops: the run stays approved.
ApprovalDies(a) ==
    /\ \/ approval[a] = "log" /\ Environment \cap {"error", "crash"} # {}
       \/ approval[a] = "start" /\ "crash" \in Environment
    /\ ApprovalGoes(a, "done")
    /\ UNCHANGED <<tables, gatewayVars, logged, engine, left, chunk, failed, callback>>

-----------------------------------------------------------------------------
(***************************************************************************)
(* FinanceService.executeChapaDisbursement.                                *)
(***************************************************************************)

PendingLines == {e \in listed : payout[e] = "PENDING"}

\* Mutant: the pending lines of every run are taken up.
LoadEveryLine(a) ==
    /\ approval[a] = "start"
    /\ ApprovalGoes(a, "done")
    /\ IF status = "OWNER_APPROVED"
       THEN left' = [left EXCEPT ![a] = Employee] /\ EngineGoes(a, "mark")
       ELSE UNCHANGED <<left, engine>>
    /\ UNCHANGED <<tables, gatewayVars, logged, chunk, failed, callback>>

\* The run is read; it must be approved and have pending lines.
Load(a) ==
    /\ approval[a] = "start"
    /\ ApprovalGoes(a, "done")
    /\ IF status = "OWNER_APPROVED" /\ PendingLines # {}
       THEN left' = [left EXCEPT ![a] = PendingLines] /\ EngineGoes(a, "mark")
       ELSE UNCHANGED <<left, engine>>
    /\ UNCHANGED <<tables, gatewayVars, logged, chunk, failed, callback>>

\* The run is moved on, whatever its status is by then.
Mark(a) ==
    /\ engine[a] = "mark"
    /\ status' = "PROCESSING_PAYOUT"
    /\ EngineGoes(a, "next")
    /\ UNCHANGED <<lines, gatewayVars, approval, logged, left, chunk, failed, callback>>

\* A chunk of the lines: full, unless no more are left.
Chunks(a) ==
    {c \in SUBSET left[a] :
        Cardinality(c) = IF Cardinality(left[a]) < ChunkSize
                         THEN Cardinality(left[a]) ELSE ChunkSize}

\* The lines of the next chunk that are still pending are taken up, if any are.
NextChunk(a) ==
    /\ engine[a] = "next"
    /\ left[a] # {}
    /\ LineItemOpsAccepted
    /\ \E c \in Chunks(a) :
          /\ left' = [left EXCEPT ![a] = @ \ c]
          /\ chunk' = [chunk EXCEPT ![a] = c \cap PendingLines]
          /\ EngineGoes(a, IF c \cap PendingLines = {} THEN "next" ELSE "post")
    /\ UNCHANGED <<tables, gatewayVars, approval, logged, failed, callback>>

\* Chapa accepts the chunk and the answer arrives, or does not.
Post(a) ==
    /\ engine[a] = "post"
    /\ Accept({TxRef(e) : e \in chunk[a]})
    /\ \/ EngineGoes(a, "book")
       \/ "timeout" \in Environment /\ EngineGoes(a, "fail")
    /\ UNCHANGED <<tables, approval, logged, left, chunk, failed, callback>>

\* Mutant: the error is logged and the chunk booked all the same.
PostFailsBooked(a) ==
    /\ engine[a] \in {"post", "book"}
    /\ "error" \in Environment
    /\ EngineGoes(a, "book")
    /\ UNCHANGED <<tables, gatewayVars, approval, logged, left, chunk, failed, callback>>

\* Chapa refuses the chunk or is not reached, or booking the chunk throws.
PostFails(a) ==
    /\ engine[a] \in {"post", "book"}
    /\ "error" \in Environment
    /\ EngineGoes(a, "fail")
    /\ UNCHANGED <<tables, gatewayVars, approval, logged, left, chunk, failed, callback>>

\* A line that an open webhook transaction has updated makes others wait.
Locked(e) == \E c \in Callback : e \in callback[c].line

Unlocked(a) == \A e \in chunk[a] : ~Locked(e)

ChunkDone(a) ==
    /\ chunk' = [chunk EXCEPT ![a] = {}]
    /\ EngineGoes(a, "next")

\* The chunk is booked as SUCCESS.  All its lines get the same batch id, and
\* chapaReference is unique, so a chunk of more than one line is refused.
Book(a) ==
    /\ engine[a] = "book"
    /\ Unlocked(a)
    /\ IF Cardinality(chunk[a]) = 1
       THEN /\ payout' = [e \in Employee |-> IF e \in chunk[a] THEN "SUCCESS" ELSE payout[e]]
            /\ chapaReference' = [e \in Employee |->
                                     IF e \in chunk[a] THEN "batch" ELSE chapaReference[e]]
            /\ ChunkDone(a)
       ELSE EngineGoes(a, "fail") /\ UNCHANGED <<payout, chapaReference, chunk>>
    /\ UNCHANGED <<status, listed, banked, disbursed, gatewayVars,
                   approval, logged, left, failed, callback>>

\* Whatever went wrong, the chunk is booked as FAILED.
BookFailure(a) ==
    /\ engine[a] = "fail"
    /\ Unlocked(a)
    /\ payout' = [e \in Employee |-> IF e \in chunk[a] THEN "FAILED" ELSE payout[e]]
    /\ failed' = [failed EXCEPT ![a] = TRUE]
    /\ ChunkDone(a)
    /\ UNCHANGED <<status, listed, banked, chapaReference, disbursed, gatewayVars,
                   approval, logged, left, callback>>

\* The run is closed by the chunks alone, whatever its status is by then.
Conclude(a) ==
    /\ engine[a] = "next"
    /\ left[a] = {}
    /\ status' = IF failed[a] THEN "PAYOUT_FAILED" ELSE "PAID"
    /\ EngineGoes(a, "off")
    /\ UNCHANGED <<lines, gatewayVars, approval, logged, left, chunk, failed, callback>>

\* It throws where nothing catches it, or the process stops: nobody resumes it.
EngineDies(a) ==
    /\ engine[a] # "off"
    /\ \/ "crash" \in Environment
       \/ "error" \in Environment /\ engine[a] \in {"mark", "next", "fail"}
       \/ engine[a] = "next" /\ left[a] # {} /\ ~LineItemOpsAccepted
    /\ EngineGoes(a, "off")
    /\ left' = [left EXCEPT ![a] = {}]
    /\ chunk' = [chunk EXCEPT ![a] = {}]
    /\ UNCHANGED <<tables, gatewayVars, approval, logged, failed, callback>>

-----------------------------------------------------------------------------
(***************************************************************************)
(* POST webhooks/chapa of the finance controller: one transaction, which   *)
(* sees the lines as committed and its own update.                         *)
(***************************************************************************)

Outcome(reported) == IF reported = "success" THEN "SUCCESS" ELSE "FAILED"

Verdict(outcomes) ==
    IF "PENDING" \in outcomes THEN NoRun
    ELSE IF "FAILED" \in outcomes THEN "PAYOUT_FAILED" ELSE "PAID"

\* The line named by the reference is updated, and the run's lines are counted.
CallbackBegin(c, m, e) ==
    /\ callback[c] = NoTransaction
    /\ m \in notices
    /\ CallbackCarriesTenant
    /\ LineItemOpsAccepted
    /\ e \in listed
    /\ m.ref = TxRef(e)
    /\ ~Locked(e)
    /\ callback' = [callback EXCEPT ![c] =
           [line    |-> {e},
            outcome |-> Outcome(m.status),
            verdict |-> Verdict({Outcome(m.status)} \cup {payout[d] : d \in listed \ {e}})]]
    /\ Consume(m) \/ ("duplicate" \in Environment /\ UNCHANGED gatewayVars)
    /\ UNCHANGED <<tables, approval, logged, engine, left, chunk, failed>>

CallbackCommit(c) ==
    /\ callback[c] # NoTransaction
    /\ payout' = [e \in Employee |->
                     IF e \in callback[c].line THEN callback[c].outcome ELSE payout[e]]
    /\ status' = IF callback[c].verdict = NoRun THEN status ELSE callback[c].verdict
    /\ callback' = [callback EXCEPT ![c] = NoTransaction]
    /\ UNCHANGED <<listed, banked, chapaReference, disbursed, gatewayVars,
                   approval, logged, engine, left, chunk, failed>>

\* The database takes an unfinished transaction back.
CallbackAborts(c) ==
    /\ callback[c] # NoTransaction
    /\ Environment \cap {"crash", "error"} # {}
    /\ callback' = [callback EXCEPT ![c] = NoTransaction]
    /\ UNCHANGED <<tables, gatewayVars, approval, logged, engine, left, chunk, failed>>

-----------------------------------------------------------------------------
Approving ==
    \E a \in Approval : Approve(a) \/ LogApproval(a) \/ ApprovalDies(a)

Engine ==
    \E a \in Approval :
        \/ Load(a)
        \/ Mark(a)
        \/ NextChunk(a)
        \/ Post(a)
        \/ PostFails(a)
        \/ Book(a)
        \/ BookFailure(a)
        \/ Conclude(a)
        \/ EngineDies(a)

Callbacks ==
    \E c \in Callback :
        \/ \E m \in notices, e \in Employee : CallbackBegin(c, m, e)
        \/ CallbackCommit(c)
        \/ CallbackAborts(c)

FinanceStep == Calculated \/ Approving \/ Engine \/ Callbacks

=============================================================================
