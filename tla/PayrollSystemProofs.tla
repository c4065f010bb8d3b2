------------------------ MODULE PayrollSystemProofs -------------------------
(*************************************************************************)
(* What holds of the payout: by the queue alone, and of both ways to pay *)
(* a run together, for any number of employees, requests, handlers,      *)
(* attempts, approvals and callbacks, any batch size and any             *)
(* environment.                                                          *)
(*************************************************************************)
EXTENDS PayrollSystem, TLAPS

(*************************************************************************)
(* The queue.  The invariants of PayrollDisburse are not inductive one   *)
(* by one: whether a run may be closed rests on the books, the books     *)
(* rest on the reports under way, and the reports rest on what the       *)
(* worker submitted.  DisburseInv is their conjunction with what each of *)
(* them needs of the worker, the requests and the handlers.              *)
(*************************************************************************)

\* The worker holds lines only during an attempt, and an attempt is left to it.
WorkerInv ==
    /\ worker = "idle" => todo = {} /\ toSend = {}
    /\ worker = "submit" => todo = {}
    /\ worker = "prepare" => banked \subseteq todo \cup toSend
    /\ worker # "idle" => job = "active"
    /\ job \in {"none", "waiting", "active"} => attempts < MaxAttempts

\* Before the run is locked nobody works on it.
UnapprovedInv ==
    ~Approved =>
        /\ job = "none"
        /\ disbursed = {}
        /\ notices = {}
        /\ \A ref \in Reference : transfer[ref] = "unknown"
        /\ \A e \in Employee : payout[e] = "PENDING" /\ chapaReference[e] # "demoz"
        /\ \A r \in Request : request[r] \notin {"mark", "enqueue"}
        /\ \A h \in Handler : handler[h] = "idle"

\* The reference of a line is stored before the line is submitted, and only a
\* line with bank details has one.
ReferenceInv ==
    \A e \in Employee :
        /\ chapaReference[e] = "demoz" => e \in banked
        /\ e \in toSend => chapaReference[e] = "demoz"
        /\ Known(e) => chapaReference[e] = "demoz"

\* A report of an outcome is true for good, and the books hold only reports.
ReportInv ==
    /\ \A m \in notices : m.status # "other" => transfer[m.ref] = m.status
    /\ BooksBackedByGateway
    /\ \A e \in banked : payout[e] # "PENDING" => Settled(e)

\* The attempt under way has not submitted what it still holds.
PostsInv ==
    \A e \in Employee :
        LET n == posts[Ref(e)] IN
        /\ job = "none" => n = 0
        /\ job = "waiting" => n <= attempts + stalls
        /\ job = "active" => n <= attempts + stalls + 1
        /\ e \in todo \cup toSend => n <= attempts + stalls
        /\ n <= MaxAttempts + MaxStalls

\* A webhook call that saw no pending line has seen what stays true.
ClosureInv ==
    /\ \A h \in Handler :
          handler[h] \in {"terminal", "PAID", "PAYOUT_FAILED"} =>
              /\ \A e \in banked : Settled(e)
              /\ \A e \in listed \ banked : payout[e] = "FAILED"
              /\ handler[h] = "PAID" => banked = listed
    /\ ClosedRunIsSettled

\* Two employees never share a reference.
LEMMA RefInjective == \A a, b \in Employee : Ref(a) = Ref(b) => a = b
  BY DEF Ref

DisburseInv ==
    /\ DisburseTypeOK
    /\ WorkerInv
    /\ UnapprovedInv
    /\ ReferenceInv
    /\ ReportInv
    /\ PostsInv
    /\ ClosureInv

-----------------------------------------------------------------------------
(***************************************************************************)
(* DisburseInv is inductive: one lemma per actor, one step per action.             *)
(***************************************************************************)

\* Inv holds of the empty tables and the idle machinery.
LEMMA DisburseInvInit == DisburseInit => DisburseInv
  BY DisburseAssumption, RefInjective
     DEF DisburseInit, TablesInit, GatewayInit, DisburseInv, DisburseTypeOK, TablesTypeOK,
        GatewayTypeOK, WorkerInv, UnapprovedInv,
         ReferenceInv, ReportInv, PostsInv, ClosureInv, BooksBackedByGateway,
         ClosedRunIsSettled, Approved, Known, Settled, NoRun,
         PayrollStatus, PayoutStatus, LineReference, RequestStep, JobState,
         WorkerStep, HandlerStep, TransferState, NoticeStatus, Notice

\* The endpoints of PayrollController keep Inv, stale writes included.
LEMMA EndpointStep == ASSUME DisburseInv, NEW r \in Request, Endpoint(r) PROVE DisburseInv'
  <1> USE DEF DisburseInv, DisburseTypeOK, TablesTypeOK, GatewayTypeOK, WorkerInv, UnapprovedInv,
             ReferenceInv, ReportInv, PostsInv, ClosureInv, BooksBackedByGateway,
             ClosedRunIsSettled, Approved, Known, Settled, NoRun,
             PayrollStatus, PayoutStatus, LineReference, RequestStep, JobState,
             WorkerStep, HandlerStep, TransferState, NoticeStatus, Notice,
             tables, lines, gatewayVars, jobVars, workerVars
  <1>1. CASE Generate(r)
    BY <1>1, DisburseAssumption DEF Generate, MayStart, Step
  <1>2. CASE LockRead(r)
    BY <1>2, DisburseAssumption DEF LockRead, MayStart, Step
  <1>3. CASE LockWrite(r)
    BY <1>3, DisburseAssumption DEF LockWrite, Step
  <1>4. CASE DisburseRead(r)
    BY <1>4, DisburseAssumption DEF DisburseRead, MayStart, Step
  <1>5. CASE DisburseMark(r)
    BY <1>5, DisburseAssumption DEF DisburseMark, Step
  <1>6. CASE DisburseEnqueue(r)
    BY <1>6, DisburseAssumption DEF DisburseEnqueue, Step
  <1>7. CASE RequestDies(r)
    BY <1>7, DisburseAssumption DEF RequestDies, Step
  <1> QED BY <1>1, <1>2, <1>3, <1>4, <1>5, <1>6, <1>7 DEF Endpoint

\* An attempt of the worker keeps Inv, however it ends.
LEMMA WorkStep == ASSUME DisburseInv, Work PROVE DisburseInv'
  <1> USE DEF DisburseInv, DisburseTypeOK, TablesTypeOK, GatewayTypeOK, WorkerInv, UnapprovedInv,
             ReferenceInv, ReportInv, PostsInv, ClosureInv, BooksBackedByGateway,
             ClosedRunIsSettled, Approved, Known, Settled, NoRun,
             PayrollStatus, PayoutStatus, LineReference, RequestStep, JobState,
             WorkerStep, HandlerStep, TransferState, NoticeStatus, Notice,
             tables, lines, gatewayVars, jobVars, workerVars
  <1>1. CASE AttemptStart
    BY <1>1, DisburseAssumption DEF AttemptStart
  <1>2. ASSUME NEW e \in Employee, PrepareUnpayable(e) PROVE DisburseInv'
    BY <1>2, DisburseAssumption DEF PrepareUnpayable
  <1>3. ASSUME NEW e \in Employee, Prepare(e) PROVE DisburseInv'
    BY <1>3, DisburseAssumption DEF Prepare
  <1>4. CASE NoRecipients
    BY <1>4, DisburseAssumption DEF NoRecipients, Prepared
  <1>5. CASE Submit
    <2>1. PICK batch \in SUBSET toSend :
             Accept({Ref(e) : e \in batch}) /\ toSend' = toSend \ batch
      BY <1>5 DEF Submit, Batch
    <2>2. Approved /\ todo = {} /\ job = "active" /\ worker' = "submit"
      BY <1>5 DEF Submit, Prepared
    <2>3. UNCHANGED <<tables, request, jobVars, todo, handler, notices>>
      BY <1>5, <2>1 DEF Submit, Accept
    <2>4. DisburseTypeOK' /\ WorkerInv' /\ UnapprovedInv'
      BY <2>1, <2>2, <2>3, DisburseAssumption DEF Accept
    <2>5. ReferenceInv'
      BY <2>1, <2>3, DisburseAssumption, RefInjective DEF Accept
    <2>6. ReportInv' /\ ClosureInv'
      BY <2>1, <2>2, <2>3, DisburseAssumption DEF Accept
    <2>7. PostsInv'
      BY <2>1, <2>2, <2>3, DisburseAssumption, RefInjective DEF Accept
    <2> QED BY <2>4, <2>5, <2>6, <2>7
  <1>6. CASE Finish
    BY <1>6, DisburseAssumption DEF Finish, WorkerIdle
  <1>7. CASE AttemptThrows
    BY <1>7, DisburseAssumption DEF AttemptThrows, FailAttempt, WorkerIdle
  <1>8. CASE SubmitTimesOut
    <2>1. PICK batch \in SUBSET toSend : Accept({Ref(e) : e \in batch})
      BY <1>8 DEF SubmitTimesOut, Batch
    <2>2. Approved /\ job = "active"
      BY <1>8 DEF SubmitTimesOut, Prepared
    <2>3. /\ UNCHANGED <<tables, request, stalls, handler, notices>>
          /\ attempts' = attempts + 1
          /\ job' = IF attempts + 1 < MaxAttempts THEN "waiting" ELSE "failed"
          /\ worker' = "idle" /\ todo' = {} /\ toSend' = {}
      BY <1>8, <2>1 DEF SubmitTimesOut, FailAttempt, WorkerIdle, Accept
    <2>4. DisburseTypeOK' /\ WorkerInv' /\ UnapprovedInv'
      BY <2>1, <2>2, <2>3, DisburseAssumption DEF Accept
    <2>5. ReferenceInv'
      BY <2>1, <2>3, DisburseAssumption, RefInjective DEF Accept
    <2>6. ReportInv' /\ ClosureInv'
      BY <2>1, <2>2, <2>3, DisburseAssumption DEF Accept
    <2>7. PostsInv'
      BY <2>1, <2>2, <2>3, DisburseAssumption, RefInjective DEF Accept
    <2> QED BY <2>4, <2>5, <2>6, <2>7
  <1>9. CASE WorkerDies
    BY <1>9, DisburseAssumption DEF WorkerDies, WorkerIdle
  <1>10. CASE JobStalled
    BY <1>10, DisburseAssumption DEF JobStalled
  <1> QED
    BY <1>1, <1>2, <1>3, <1>4, <1>5, <1>6, <1>7, <1>8, <1>9, <1>10 DEF Work

\* A webhook call keeps Inv between any two of its awaits.
LEMMA WebhookStep == ASSUME DisburseInv, NEW h \in Handler, Webhook(h) PROVE DisburseInv'
  <1> USE DEF DisburseInv, DisburseTypeOK, TablesTypeOK, GatewayTypeOK, WorkerInv, UnapprovedInv,
             ReferenceInv, ReportInv, PostsInv, ClosureInv, BooksBackedByGateway,
             ClosedRunIsSettled, Approved, Known, Settled, NoRun,
             PayrollStatus, PayoutStatus, LineReference, RequestStep, JobState,
             WorkerStep, HandlerStep, TransferState, NoticeStatus, Notice,
             tables, lines, gatewayVars, jobVars, workerVars
  <1>1. ASSUME NEW m \in notices, NEW e \in Employee, Deliver(h, m, e) PROVE DisburseInv'
    <2>1. /\ e \in listed /\ m.ref = Ref(e) /\ chapaReference[e] = "demoz"
          /\ payout' = [payout EXCEPT ![e] = Booked(m.status)]
          /\ disbursed' = IF m.status = "success" THEN disbursed \cup {e} ELSE disbursed \ {e}
          /\ notices' \subseteq notices
          /\ handler' = [handler EXCEPT ![h] = "updated"]
          /\ UNCHANGED <<status, listed, banked, chapaReference, transfer, posts,
                         request, jobVars, workerVars>>
      BY <1>1 DEF Deliver, CallFindsLine, Consume, HandlerGoes
    <2>2. Approved /\ e \in banked /\ m \in Notice
      BY <1>1, <2>1
    <2>3. Booked(m.status) = "SUCCESS" => m.status = "success" /\ transfer[Ref(e)] = "success"
      BY <1>1, <2>1 DEF Booked
    <2>4. Booked(m.status) = "FAILED" => transfer[Ref(e)] = "failed"
      BY <1>1, <2>1 DEF Booked
    <2>5. Booked(m.status) \in PayoutStatus
      BY DEF Booked
    <2>6. DisburseTypeOK' /\ WorkerInv' /\ UnapprovedInv' /\ ReferenceInv' /\ PostsInv'
      BY <2>1, <2>2, <2>5
    <2>7. ReportInv'
      BY <2>1, <2>2, <2>3, <2>4, <2>5 DEF Booked
    <2>8. ClosureInv'
      BY <2>1, <2>2
    <2> QED BY <2>6, <2>7, <2>8
  <1>2. CASE CountPending(h)
    <2>1. handler[h] = "updated" /\ UNCHANGED <<tables, gatewayVars, request, jobVars,
                                                workerVars>>
      BY <1>2 DEF CountPending
    <2>2. handler' = [handler EXCEPT ![h] = IF NonePending THEN "terminal" ELSE "idle"]
      BY <1>2 DEF CountPending, HandlerGoes
    <2>3. NonePending => /\ \A e \in banked : Settled(e)
                         /\ \A e \in listed \ banked : payout[e] = "FAILED"
      BY DEF NonePending
    <2>4. ClosureInv'
      BY <2>1, <2>2, <2>3
    <2>5. DisburseTypeOK' /\ WorkerInv' /\ UnapprovedInv' /\ ReferenceInv' /\ ReportInv'
        /\ PostsInv'
      BY <2>1, <2>2
    <2> QED BY <2>4, <2>5
  <1>3. CASE CountFailed(h)
    <2>1. handler[h] = "terminal" /\ UNCHANGED <<tables, gatewayVars, request, jobVars,
                                                 workerVars>>
      BY <1>3 DEF CountFailed
    <2>2. handler' = [handler EXCEPT ![h] = IF SomeFailed THEN "PAYOUT_FAILED" ELSE "PAID"]
      BY <1>3 DEF CountFailed, HandlerGoes
    <2>3. /\ \A e \in banked : Settled(e)
          /\ \A e \in listed \ banked : payout[e] = "FAILED"
      BY <2>1
    <2>4. ~SomeFailed => banked = listed
      BY <2>3 DEF SomeFailed
    <2>5. ClosureInv'
      BY <2>1, <2>2, <2>3, <2>4
    <2>6. DisburseTypeOK' /\ WorkerInv' /\ UnapprovedInv' /\ ReferenceInv' /\ ReportInv'
        /\ PostsInv'
      BY <2>1, <2>2
    <2> QED BY <2>5, <2>6
  <1>4. CASE RollUp(h)
    BY <1>4 DEF RollUp, HandlerGoes
  <1>5. CASE HandlerDies(h)
    BY <1>5 DEF HandlerDies, HandlerGoes
  <1> QED BY <1>1, <1>2, <1>3, <1>4, <1>5 DEF Webhook

\* A call without effect keeps Inv.
LEMMA UndeliveredStep == ASSUME DisburseInv, NEW m \in notices, Undelivered(m) PROVE DisburseInv'
  BY DEF Undelivered, Consume, DisburseInv, DisburseTypeOK, TablesTypeOK, GatewayTypeOK,
     WorkerInv, UnapprovedInv,
         ReferenceInv, ReportInv, PostsInv, ClosureInv, BooksBackedByGateway,
         ClosedRunIsSettled, Approved, Known, Settled, NoRun,
         PayrollStatus, PayoutStatus, LineReference, RequestStep, JobState,
         WorkerStep, HandlerStep, TransferState, NoticeStatus, Notice,
         tables, lines, gatewayVars, jobVars, workerVars

\* Whatever Chapa does keeps Inv: a settled transfer stays settled.
LEMMA GatewayStep == ASSUME DisburseInv, Gateway PROVE DisburseInv'
  <1> USE DEF DisburseInv, DisburseTypeOK, TablesTypeOK, GatewayTypeOK, WorkerInv, UnapprovedInv,
             ReferenceInv, ReportInv, PostsInv, ClosureInv, BooksBackedByGateway,
             ClosedRunIsSettled, Approved, Known, Settled, NoRun,
             PayrollStatus, PayoutStatus, LineReference, RequestStep, JobState,
             WorkerStep, HandlerStep, TransferState, NoticeStatus, Notice,
             tables, lines, gatewayVars, jobVars, workerVars
  <1>1. PICK ref \in Reference : Settle(ref) \/ Interim(ref)
    BY DEF Gateway
  <1>2. UNCHANGED <<tables, request, jobVars, workerVars, handler, posts>> /\ Approved
    BY <1>1 DEF Gateway, Settle, Interim
  <1>3. CASE Settle(ref)
    BY <1>2, <1>3, DisburseAssumption DEF Settle
  <1>4. CASE Interim(ref)
    BY <1>2, <1>4, DisburseAssumption DEF Interim
  <1> QED BY <1>1, <1>3, <1>4

\* Every step of the payout keeps Inv.
LEMMA DisburseInvStep == DisburseInv /\ [DisburseNext]_disburseVars => DisburseInv'
  <1> SUFFICES ASSUME DisburseInv, [DisburseNext]_disburseVars PROVE DisburseInv'
    OBVIOUS
  <1>1. CASE UNCHANGED disburseVars
    BY <1>1 DEF disburseVars, DisburseInv, DisburseTypeOK, TablesTypeOK, GatewayTypeOK,
       WorkerInv, UnapprovedInv,
                ReferenceInv, ReportInv, PostsInv, ClosureInv, BooksBackedByGateway,
                ClosedRunIsSettled, Approved, Known, Settled, NoRun,
                tables, lines, gatewayVars, jobVars, workerVars
  <1>2. CASE DisburseNext
    BY <1>2, EndpointStep, WorkStep, WebhookStep, UndeliveredStep, GatewayStep
       DEF DisburseNext
  <1> QED BY <1>1, <1>2

\* Inv holds in every reachable state.
THEOREM Invariance == DisburseSpec => []DisburseInv
  <1> QED BY DisburseInvInit, DisburseInvStep, PTL DEF DisburseSpec

-----------------------------------------------------------------------------
(***************************************************************************)
(* What the runs of PayrollDisburse check on a small instance.             *)
(***************************************************************************)

\* Type correctness.
THEOREM TypeCorrect == DisburseSpec => []DisburseTypeOK
  <1>1. DisburseInv => DisburseTypeOK
    BY DEF DisburseInv
  <1> QED BY <1>1, Invariance, PTL

\* Chapa is never asked to pay a line that has no bank details or that a report
\* of the outcome could not find.
THEOREM Traceability == DisburseSpec => []TransferTraceable
  <1>1. DisburseInv => TransferTraceable
    BY DEF DisburseInv, ReferenceInv, TransferTraceable
  <1> QED BY <1>1, Invariance, PTL

\* No interleaving of retries and reports books a payment Chapa did not make.
THEOREM HonestBooks == DisburseSpec => []BooksBackedByGateway
  <1>1. DisburseInv => BooksBackedByGateway
    BY DEF DisburseInv, ReportInv
  <1> QED BY <1>1, Invariance, PTL

\* A run that nobody locked is not paid.
THEOREM NoPayoutWithoutApproval == DisburseSpec => []UnapprovedUntouched
  <1>1. DisburseInv => UnapprovedUntouched
    BY DisburseAssumption DEF DisburseInv, UnapprovedInv, UnapprovedUntouched, Known
  <1> QED BY <1>1, Invariance, PTL

\* A closed run has no salary under way.
THEOREM ClosureIsFinal == DisburseSpec => []ClosedRunIsSettled
  <1>1. DisburseInv => ClosedRunIsSettled
    BY DEF DisburseInv, ClosureInv
  <1> QED BY <1>1, Invariance, PTL

\* The attempts of one job bound the submissions of a line.
THEOREM BoundedSubmissions == DisburseSpec => []SubmissionsBounded
  <1>1. DisburseInv => SubmissionsBounded
    BY DEF DisburseInv, PostsInv, SubmissionsBounded
  <1> QED BY <1>1, Invariance, PTL

-----------------------------------------------------------------------------
(***************************************************************************)
(* The payout implements the contract.                                     *)
(***************************************************************************)

\* The empty tables owe every salary.
LEMMA ContractInit == DisburseInit => Contract!Init
  BY DisburseAssumption
     DEF DisburseInit, TablesInit, GatewayInit, Contract!Init, Approved

\* A bulk request orders the salaries in it that were not ordered before.
LEMMA AcceptIsOrder ==
    ASSUME DisburseInv, NEW batch \in SUBSET banked, Approved,
           Accept({Ref(e) : e \in batch}), UNCHANGED <<status, banked>>
    PROVE  Contract!Order
  <1>1. batch \subseteq Employee
    BY DEF DisburseInv, DisburseTypeOK, TablesTypeOK
  <1>2. ASSUME NEW e \in Employee
        PROVE  transfer'[Ref(e)] = IF e \in batch /\ ~Known(e)
                                   THEN "accepted" ELSE transfer[Ref(e)]
    BY <1>1, DisburseAssumption, RefInjective DEF Accept, Known
  <1>3. ASSUME NEW e \in Employee
        PROVE  transfer[Ref(e)] \in TransferState
    BY DisburseAssumption DEF DisburseInv, DisburseTypeOK, GatewayTypeOK
  <1>4. UNCHANGED <<banked, Approved>>
    BY DEF Approved
  <1> QED
    BY <1>1, <1>2, <1>3, <1>4 DEF Contract!Order, Known, TransferState, Approved

\* A step that leaves Chapa, the bank details and the approval alone is no step of
\* the contract.
LEMMA ContractStutter ==
    ASSUME UNCHANGED <<transfer, banked>>, Approved' = Approved
    PROVE  UNCHANGED Contract!contractVars
  BY DEF Contract!contractVars

\* A step of the payout is a step of the contract, or none.
LEMMA ContractStep ==
    DisburseInv /\ [DisburseNext]_disburseVars => [Contract!Next]_(Contract!contractVars)
  <1> SUFFICES ASSUME DisburseInv, [DisburseNext]_disburseVars
               PROVE  [Contract!Next]_(Contract!contractVars)
    OBVIOUS
  <1> USE DEF tables, lines, gatewayVars, jobVars, workerVars
  <1>1. ASSUME NEW r \in Request, Endpoint(r) PROVE [Contract!Next]_(Contract!contractVars)
    <2>1. CASE Generate(r)
      <3>1. ~Approved /\ ~Approved' /\ banked' \in SUBSET Employee /\ UNCHANGED transfer
        BY <2>1 DEF Generate, Approved, NoRun
      <3>2. Approved' = Approved
        BY <2>1 DEF Generate, Approved, NoRun
      <3>3. Contract!Draft
        BY <3>1, <3>2 DEF Contract!Draft
      <3> QED BY <3>3 DEF Contract!Next
    <2>2. CASE LockWrite(r)
      <3>1. Approved' /\ UNCHANGED <<banked, transfer>>
        BY <2>2 DEF LockWrite, Approved, NoRun
      <3>2. Contract!Approve
        BY <3>1 DEF Contract!Approve
      <3> QED BY <3>2 DEF Contract!Next
    <2>3. CASE DisburseMark(r)
      <3>1. Approved /\ Approved' /\ UNCHANGED <<transfer, banked>>
        BY <2>3 DEF DisburseMark, DisburseInv, UnapprovedInv, Approved, NoRun
      <3> QED BY <3>1, ContractStutter
    <2>4. CASE LockRead(r) \/ DisburseRead(r) \/ DisburseEnqueue(r) \/ RequestDies(r)
      <3>1. UNCHANGED <<transfer, banked, status>>
        BY <2>4 DEF LockRead, DisburseRead, DisburseEnqueue, RequestDies
      <3> QED BY <3>1, ContractStutter DEF Approved
    <2> QED BY <1>1, <2>1, <2>2, <2>3, <2>4 DEF Endpoint
  <1>2. CASE Work
    <2>1. Approved
      <3>1. job # "none"
        BY <1>2 DEF Work, DisburseInv, WorkerInv, AttemptStart, PrepareUnpayable, Prepare,
               NoRecipients, Prepared, Submit, Finish, AttemptThrows,
               SubmitTimesOut, WorkerDies, JobStalled, DisburseTypeOK, WorkerStep
      <3> QED BY <3>1 DEF DisburseInv, UnapprovedInv
    <2>2. CASE Submit \/ SubmitTimesOut
      <3>1. PICK batch \in SUBSET toSend : Accept({Ref(e) : e \in batch})
        BY <2>2 DEF Submit, SubmitTimesOut, Batch
      <3>2. batch \in SUBSET banked /\ UNCHANGED <<status, banked>>
        BY <2>2 DEF DisburseInv, DisburseTypeOK, Submit, SubmitTimesOut, FailAttempt
      <3>3. Contract!Order
        BY <2>1, <3>1, <3>2, AcceptIsOrder
      <3> QED BY <3>3 DEF Contract!Next
    <2>3. CASE NoRecipients
      <3>1. Approved' /\ UNCHANGED <<transfer, banked>>
        BY <2>3 DEF NoRecipients, Approved, NoRun
      <3> QED BY <2>1, <3>1, ContractStutter
    <2>4. ASSUME ~Submit, ~SubmitTimesOut, ~NoRecipients
          PROVE  UNCHANGED <<transfer, banked, status>>
      BY <1>2, <2>4 DEF Work, AttemptStart, PrepareUnpayable, Prepare, Finish,
             AttemptThrows, FailAttempt, WorkerDies, JobStalled
    <2> QED BY <2>2, <2>3, <2>4, ContractStutter DEF Approved
  <1>3. ASSUME NEW h \in Handler, Webhook(h) PROVE [Contract!Next]_(Contract!contractVars)
    <2>1. CASE RollUp(h)
      <3>1. Approved /\ Approved' /\ UNCHANGED <<transfer, banked>>
        BY <2>1 DEF RollUp, DisburseInv, UnapprovedInv, Approved, NoRun
      <3> QED BY <3>1, ContractStutter
    <2>2. ASSUME ~RollUp(h) PROVE UNCHANGED <<transfer, banked, status>>
      BY <1>3, <2>2 DEF Webhook, Deliver, Consume, CountPending, CountFailed, HandlerDies
    <2> QED BY <2>1, <2>2, ContractStutter DEF Approved
  <1>4. ASSUME NEW m \in notices, Undelivered(m) PROVE [Contract!Next]_(Contract!contractVars)
    <2>1. UNCHANGED <<transfer, banked, status>>
      BY <1>4 DEF Undelivered, Consume
    <2> QED BY <2>1, ContractStutter DEF Approved
  <1>5. CASE Gateway
    <2>1. UNCHANGED <<banked, status>>
      BY <1>5 DEF Gateway
    <2>2. PICK ref \in Reference : Settle(ref) \/ Interim(ref)
      BY <1>5 DEF Gateway
    <2>3. ASSUME UNCHANGED transfer PROVE UNCHANGED Contract!contractVars
      BY <2>1, <2>3, ContractStutter DEF Approved
    <2>4. ASSUME Settle(ref), NEW e \in Employee, ref = Ref(e) PROVE Contract!Settle(e)
      <3>1. PICK outcome \in {"success", "failed"} : transfer' = [transfer EXCEPT ![ref] = outcome]
        BY <2>4 DEF Settle
      <3>2. transfer[Ref(e)] = "accepted" /\ transfer'[Ref(e)] = outcome
        BY <2>4, <3>1 DEF Settle, DisburseInv, DisburseTypeOK, GatewayTypeOK
      <3>3. \A d \in Employee \ {e} : transfer'[Ref(d)] = transfer[Ref(d)]
        BY <2>4, <3>1, RefInjective, DisburseAssumption DEF DisburseInv, DisburseTypeOK,
           GatewayTypeOK
      <3> QED BY <2>1, <3>1, <3>2, <3>3 DEF Contract!Settle, Approved
    <2>5. ASSUME Settle(ref), \A e \in Employee : ref # Ref(e)
          PROVE  UNCHANGED Contract!contractVars
      <3>1. \A d \in Employee : transfer'[Ref(d)] = transfer[Ref(d)]
        BY <2>5, DisburseAssumption DEF Settle, DisburseInv, DisburseTypeOK, GatewayTypeOK
      <3> QED BY <2>1, <3>1 DEF Contract!contractVars, Approved
    <2> QED BY <2>2, <2>3, <2>4, <2>5 DEF Interim, Contract!Next
  <1>6. CASE UNCHANGED disburseVars
    BY <1>6, ContractStutter DEF disburseVars, Approved
  <1> QED BY <1>1, <1>2, <1>3, <1>4, <1>5, <1>6 DEF DisburseNext

\* Every behaviour of the payout is one the contract allows: a salary is ordered
\* once, after the approval, for someone the run can pay.
THEOREM PayoutImplementsContract == DisburseSpec => ContractHolds
  <1> QED BY ContractInit, ContractStep, Invariance, PTL
          DEF DisburseSpec, ContractHolds, Contract!Spec

-----------------------------------------------------------------------------
(***************************************************************************)
(* As long as no attempt was repeated.  The verdict on the run is right    *)
(* only then: a repeated attempt sets lines back that a webhook call has   *)
(* counted.  FirstAttemptInv says what the first one has not touched yet,  *)
(* and what of the books and of the counts is final already.               *)
(***************************************************************************)

FirstAttempt == ~Retried /\ "interim" \notin Environment

FirstAttemptInv ==
    /\ status # NoRun => listed # {}
    /\ \A r \in Request : request[r] = "lock" => status # NoRun
    /\ FirstAttempt =>
        /\ \A m \in notices : m.status # "other"
        /\ job \in {"none", "waiting"} =>
              \A e \in Employee : payout[e] = "PENDING" /\ chapaReference[e] # "demoz"
        /\ \A e \in todo : payout[e] = "PENDING" /\ chapaReference[e] # "demoz"
        /\ \A e \in toSend : payout[e] = "PENDING" /\ ~Known(e)
        /\ \A e \in banked : payout[e] = "FAILED" => transfer[Ref(e)] = "failed"
        /\ \A h \in Handler :
              /\ handler[h] = "terminal" => NonePending
              /\ handler[h] = "PAID" => \A e \in listed : payout[e] = "SUCCESS"
              /\ handler[h] = "PAYOUT_FAILED" => SomeFailed
        /\ status = "PAID" => \A e \in listed : payout[e] = "SUCCESS"
        /\ status = "PAYOUT_FAILED" => SomeFailed \/ banked # listed


\* Nothing has been touched at first.
LEMMA FirstAttemptInit == DisburseInit => FirstAttemptInv
  BY DEF DisburseInit, TablesInit, GatewayInit, FirstAttemptInv, NonePending, SomeFailed, NoRun

\* A request is too early or too late to touch a line.
LEMMA EndpointFirst ==
    ASSUME DisburseInv, FirstAttemptInv, NEW r \in Request, Endpoint(r)
    PROVE  FirstAttemptInv'
  <1> USE DisburseAssumption
      DEF FirstAttemptInv, FirstAttempt, Retried, DisburseInv, DisburseTypeOK, TablesTypeOK,
         GatewayTypeOK,
          WorkerInv, UnapprovedInv, ReferenceInv, ReportInv, BooksBackedByGateway,
          Approved, Known, Settled, NonePending, SomeFailed, NoRun,
          PayrollStatus, PayoutStatus, LineReference, RequestStep, JobState, WorkerStep,
          HandlerStep,
          TransferState, NoticeStatus, Notice,
          tables, lines, gatewayVars, jobVars, workerVars
  <1>1. CASE Generate(r)
    BY <1>1 DEF Generate, Step
  <1>2. CASE LockRead(r) \/ DisburseRead(r) \/ RequestDies(r)
    BY <1>2 DEF LockRead, DisburseRead, RequestDies, Step
  <1>3. CASE LockWrite(r)
    BY <1>3 DEF LockWrite, Step
  <1>4. CASE DisburseMark(r)
    BY <1>4 DEF DisburseMark, Step
  <1>5. CASE DisburseEnqueue(r)
    BY <1>5 DEF DisburseEnqueue, Step
  <1> QED BY <1>1, <1>2, <1>3, <1>4, <1>5 DEF Endpoint

\* The first attempt looks at each line once, and whatever ends it early is counted.
LEMMA WorkFirst ==
    ASSUME DisburseInv, FirstAttemptInv, Work
    PROVE  FirstAttemptInv'
  <1> USE DisburseAssumption
      DEF FirstAttemptInv, FirstAttempt, Retried, DisburseInv, DisburseTypeOK, TablesTypeOK,
         GatewayTypeOK,
          WorkerInv, UnapprovedInv, ReferenceInv, ReportInv, BooksBackedByGateway,
          Approved, Known, Settled, NonePending, SomeFailed, NoRun,
          PayrollStatus, PayoutStatus, LineReference, RequestStep, JobState, WorkerStep,
          HandlerStep,
          TransferState, NoticeStatus, Notice,
          tables, lines, gatewayVars, jobVars, workerVars
  <1>1. CASE AttemptStart
    BY <1>1 DEF AttemptStart
  <1>2. ASSUME NEW e \in Employee, PrepareUnpayable(e) PROVE FirstAttemptInv'
    BY <1>2 DEF PrepareUnpayable
  <1>3. ASSUME NEW e \in Employee, Prepare(e) PROVE FirstAttemptInv'
    BY <1>3 DEF Prepare
  <1>4. CASE NoRecipients
    BY <1>4 DEF NoRecipients, Prepared
  <1>5. CASE Submit
    <2>1. PICK batch \in SUBSET toSend :
             Accept({Ref(e) : e \in batch}) /\ toSend' = toSend \ batch
      BY <1>5 DEF Submit, Batch
    <2>2. todo = {} /\ job = "active" /\ worker' = "submit"
      BY <1>5 DEF Submit, Prepared
    <2>3. UNCHANGED <<tables, request, jobVars, todo, handler, notices>>
      BY <1>5, <2>1 DEF Submit, Accept
    <2>4. \A e \in Employee :
             transfer'[Ref(e)] = IF e \in batch /\ ~Known(e) THEN "accepted" ELSE transfer[Ref(e)]
      BY <2>1, RefInjective DEF Accept
    <2> QED BY <2>1, <2>2, <2>3, <2>4
  <1>6. CASE Finish
    BY <1>6 DEF Finish, WorkerIdle
  <1>7. CASE AttemptThrows
    BY <1>7 DEF AttemptThrows, FailAttempt, WorkerIdle
  <1>8. CASE SubmitTimesOut
    <2>1. /\ attempts' = attempts + 1 /\ stalls' = stalls
          /\ UNCHANGED <<status, listed, request>>
      BY <1>8 DEF SubmitTimesOut, FailAttempt
    <2> QED BY <2>1
  <1>9. CASE WorkerDies
    BY <1>9 DEF WorkerDies, WorkerIdle
  <1>10. CASE JobStalled
    BY <1>10 DEF JobStalled
  <1> QED
    BY <1>1, <1>2, <1>3, <1>4, <1>5, <1>6, <1>7, <1>8, <1>9, <1>10 DEF Work

\* Reports are final, so what a webhook call has counted stays true.
LEMMA WebhookFirst ==
    ASSUME DisburseInv, FirstAttemptInv, NEW h \in Handler, Webhook(h)
    PROVE  FirstAttemptInv'
  <1> USE DisburseAssumption
      DEF FirstAttemptInv, FirstAttempt, Retried, DisburseInv, DisburseTypeOK, TablesTypeOK,
         GatewayTypeOK,
          WorkerInv, UnapprovedInv, ReferenceInv, ReportInv, BooksBackedByGateway,
          Approved, Known, Settled, NonePending, SomeFailed, NoRun,
          PayrollStatus, PayoutStatus, LineReference, RequestStep, JobState, WorkerStep,
          HandlerStep,
          TransferState, NoticeStatus, Notice,
          tables, lines, gatewayVars, jobVars, workerVars
  <1>1. ASSUME NEW m \in notices, NEW e \in Employee, Deliver(h, m, e) PROVE FirstAttemptInv'
    <2>1. /\ e \in listed /\ m.ref = Ref(e) /\ chapaReference[e] = "demoz"
          /\ payout' = [payout EXCEPT ![e] = Booked(m.status)]
          /\ notices' \subseteq notices
          /\ handler' = [handler EXCEPT ![h] = "updated"]
          /\ UNCHANGED <<status, listed, banked, chapaReference, transfer, posts,
                         request, jobVars, workerVars>>
      BY <1>1 DEF Deliver, CallFindsLine, Consume, HandlerGoes
    <2>2. ASSUME FirstAttempt
          PROVE  /\ m.status = transfer[Ref(e)] /\ m.status \in {"success", "failed"}
                 /\ Booked(m.status) = IF m.status = "success" THEN "SUCCESS" ELSE "FAILED"
                 /\ payout[e] # "PENDING" => Booked(m.status) = payout[e]
      BY <2>1, <2>2 DEF Booked
    <2> QED BY <2>1, <2>2
  <1>2. CASE CountPending(h)
    BY <1>2 DEF CountPending, HandlerGoes
  <1>3. CASE CountFailed(h)
    BY <1>3 DEF CountFailed, HandlerGoes
  <1>4. CASE RollUp(h)
    BY <1>4 DEF RollUp, HandlerGoes
  <1>5. CASE HandlerDies(h)
    BY <1>5 DEF HandlerDies, HandlerGoes
  <1> QED BY <1>1, <1>2, <1>3, <1>4, <1>5 DEF Webhook

\* Chapa settles only what was submitted.
LEMMA GatewayFirst ==
    ASSUME DisburseInv, FirstAttemptInv, Gateway \/ \E m \in notices : Undelivered(m)
    PROVE  FirstAttemptInv'
  <1> USE DisburseAssumption
      DEF FirstAttemptInv, FirstAttempt, Retried, DisburseInv, DisburseTypeOK, TablesTypeOK,
         GatewayTypeOK,
          WorkerInv, UnapprovedInv, ReferenceInv, ReportInv, BooksBackedByGateway,
          Approved, Known, Settled, NonePending, SomeFailed, NoRun,
          PayrollStatus, PayoutStatus, LineReference, RequestStep, JobState, WorkerStep,
          HandlerStep,
          TransferState, NoticeStatus, Notice,
          tables, lines, gatewayVars, jobVars, workerVars
  <1>1. ASSUME NEW m \in notices, Undelivered(m) PROVE FirstAttemptInv'
    BY <1>1 DEF Undelivered, Consume
  <1>2. ASSUME NEW ref \in Reference, Settle(ref), Gateway PROVE FirstAttemptInv'
    BY <1>2 DEF Gateway, Settle
  <1>3. ASSUME NEW ref \in Reference, Interim(ref), "interim" \in Environment, Gateway
        PROVE  FirstAttemptInv'
    BY <1>3 DEF Gateway, Interim
  <1> QED BY <1>1, <1>2, <1>3 DEF Gateway

\* Every step of the payout keeps FirstAttemptInv.
LEMMA FirstAttemptStep ==
    DisburseInv /\ FirstAttemptInv /\ [DisburseNext]_disburseVars => FirstAttemptInv'
  <1> SUFFICES ASSUME DisburseInv, FirstAttemptInv, [DisburseNext]_disburseVars
               PROVE  FirstAttemptInv'
    OBVIOUS
  <1>1. CASE UNCHANGED disburseVars
    BY <1>1 DEF disburseVars, FirstAttemptInv, FirstAttempt, Retried, Known, NonePending,
                SomeFailed, tables, gatewayVars, jobVars, workerVars
  <1>2. CASE DisburseNext
    BY <1>2, EndpointFirst, WorkFirst, WebhookFirst, GatewayFirst DEF DisburseNext
  <1> QED BY <1>1, <1>2

\* FirstAttemptInv holds in every reachable state.
LEMMA FirstAttemptInvariance == DisburseSpec => []FirstAttemptInv
  <1> QED BY DisburseInvInit, DisburseInvStep, FirstAttemptInit, FirstAttemptStep,
  PTL DEF DisburseSpec

\* Whatever the interleaving of the webhook calls and their repetitions, the verdict on
\* a run is the right one as long as no attempt was repeated.
THEOREM VerdictTrue == DisburseSpec => []VerdictTrueUntilRetry
  <1>1. DisburseInv /\ FirstAttemptInv => VerdictTrueUntilRetry
    BY DEF DisburseInv, ReportInv, BooksBackedByGateway, FirstAttemptInv, FirstAttempt,
       SomeFailed,
           DisburseTypeOK, TablesTypeOK, VerdictTrueUntilRetry
  <1> QED BY <1>1, Invariance, FirstAttemptInvariance, PTL

\* No step takes a booked payment back, unless an attempt was repeated.
THEOREM BookedStays == DisburseSpec => BookedStaysUntilRetry
  <1> DEFINE Kept == \A e \in listed :
          payout[e] = "SUCCESS" /\ payout'[e] # "SUCCESS" => Retried \/ "interim" \in Environment
  <1>1. DisburseInv /\ FirstAttemptInv /\ [DisburseNext]_disburseVars => [Kept]_disburseVars
    <2> SUFFICES ASSUME DisburseInv, FirstAttemptInv, DisburseNext, FirstAttempt,
                        NEW e \in listed, payout[e] = "SUCCESS", payout'[e] # "SUCCESS"
                 PROVE  FALSE
      BY DEF FirstAttempt
    <2> USE DEF DisburseInv, DisburseTypeOK, TablesTypeOK, tables, lines
    <2>1. ASSUME NEW d \in Employee, PrepareUnpayable(d) \/ Prepare(d) PROVE FALSE
      BY <2>1 DEF PrepareUnpayable, Prepare, FirstAttemptInv
    <2>2. ASSUME NEW h \in Handler, NEW m \in notices, NEW d \in Employee, Deliver(h, m, d)
          PROVE  FALSE
      BY <2>2 DEF Deliver, CallFindsLine, Booked, FirstAttemptInv, ReportInv,
                  BooksBackedByGateway, GatewayTypeOK, Notice, NoticeStatus
    <2>3. CASE UNCHANGED payout
      BY <2>3
    <2> QED
      BY <2>1, <2>2, <2>3
         DEF DisburseNext, Endpoint, Generate, LockRead, LockWrite, DisburseRead, DisburseMark,
             DisburseEnqueue, RequestDies, Work, AttemptStart, NoRecipients, Submit, Finish,
             AttemptThrows, FailAttempt, SubmitTimesOut, WorkerDies, JobStalled, Webhook,
             CountPending, CountFailed, RollUp, HandlerDies, Undelivered, Gateway
  <1> QED BY <1>1, Invariance, FirstAttemptInvariance, PTL
             DEF DisburseSpec, BookedStaysUntilRetry

-----------------------------------------------------------------------------
(*************************************************************************)
(* Both ways together.  Nothing in either way looks at the other.  What  *)
(* keeps them apart is how a run begins: one that finance may approve    *)
(* has no bank columns, and without them the queue submits nothing.      *)
(* SystemInv follows that from the birth of the run to the last          *)
(* callback.  DisburseInv is of no use here, for finance writes the same *)
(* columns.                                                              *)
(*************************************************************************)

\* What the queue's side needs to have its types and to submit only what is banked.
QueueInv ==
    /\ worker = "idle" => todo = {} /\ toSend = {}
    /\ worker # "idle" => job = "active"
    /\ job \in {"none", "waiting", "active"} => attempts < MaxAttempts
    /\ \A e \in Employee : Known(e) => e \in banked

\* Before there is a run nothing has begun.
UnbornInv ==
    status = NoRun =>
        /\ job = "none"
        /\ listed = {}
        /\ \A r \in Request : request[r] \in {"new", "done"}
        /\ \A a \in Approval : approval[a] = "new"
        /\ \A e \in Employee : payout[e] = "PENDING"
        /\ \A ref \in Reference : transfer[ref] = "unknown"

\* One approval at most finds the run COMPLETED, and no such run has bank columns.
ApprovalInv ==
    /\ status = "COMPLETED" => banked = {} /\ \A a \in Approval : approval[a] = "new"
    /\ \A a \in Approval :
        approval[a] # "new" => banked = {} /\ status \notin {NoRun, "COMPLETED"}
    /\ \A a, b \in Approval : approval[a] # "new" /\ approval[b] # "new" => a = b
    /\ \A a \in Approval : approval[a] = "start" \/ engine[a] # "off" => logged
    /\ \A a \in Approval : engine[a] # "off" => approval[a] = "done"

\* What a disbursement still has to go through has not been submitted.
EngineInv ==
    /\ \A a \in Approval :
        /\ engine[a] = "off" => left[a] = {}
        /\ engine[a] \in {"off", "mark", "next"} => chunk[a] = {}
        /\ \A e \in left[a] : posts[TxRef(e)] = 0
        /\ engine[a] = "post" => \A e \in chunk[a] : posts[TxRef(e)] = 0 /\ e \notin left[a]
    /\ \A e \in Employee :
        /\ transfer[TxRef(e)] # "unknown" => posts[TxRef(e)] # 0
        /\ posts[TxRef(e)] # 0 => \E a \in Approval : approval[a] = "done"
    /\ FinanceSubmitsOnce

\* Whatever is about to be booked, by either way, is known to Chapa.
BooksInv ==
    /\ \A m \in notices :
        /\ transfer[m.ref] # "unknown"
        /\ m.status = "success" => transfer[m.ref] = "success"
    /\ \A a \in Approval, e \in Employee :
        engine[a] = "book" /\ e \in chunk[a] => transfer[TxRef(e)] # "unknown"
    /\ \A c \in Callback, e \in Employee :
        e \in callback[c].line => transfer[TxRef(e)] # "unknown"
    /\ SuccessWasSubmitted

SystemInv ==
    /\ SystemTypeOK
    /\ QueueInv
    /\ UnbornInv
    /\ ApprovalInv
    /\ EngineInv
    /\ BooksInv

\* The references of the two ways are all different.
LEMMA RefsApart ==
    \A a, b \in Employee :
        /\ Ref(a) = Ref(b) => a = b
        /\ TxRef(a) = TxRef(b) => a = b
        /\ Ref(a) # TxRef(b)
  BY DEF Ref, TxRef

-----------------------------------------------------------------------------
(***************************************************************************)
(* SystemInv is inductive: one lemma per actor, one step per action.       *)
(***************************************************************************)

\* It holds before there is a run.
LEMMA SystemInvInit == SystemInit => SystemInv
  <1>1. SystemInit => FinanceTypeOK
    <2>1. NoTransaction \in Transaction
      BY DEF NoTransaction, Transaction, PayoutStatus, NoRun
    <2>2. SystemInit => TablesTypeOK /\ GatewayTypeOK
      BY DEF SystemInit, DisburseInit, TablesInit, GatewayInit, TablesTypeOK, GatewayTypeOK,
             PayrollStatus, PayoutStatus, LineReference, TransferState, NoRun
    <2>3. SystemInit => logged \in BOOLEAN /\ failed \in [Approval -> BOOLEAN]
      BY Zenon DEF SystemInit, FinanceIdle
    <2>4. SystemInit => /\ approval \in [Approval -> ApprovalStep]
                        /\ engine \in [Approval -> EngineStep]
                        /\ left \in [Approval -> SUBSET listed]
                        /\ chunk \in [Approval -> SUBSET listed]
      BY DEF SystemInit, FinanceIdle, ApprovalStep, EngineStep
    <2>5. SystemInit => callback \in [Callback -> Transaction]
      BY <2>1 DEF SystemInit, FinanceIdle
    <2> QED BY <2>2, <2>3, <2>4, <2>5 DEF FinanceTypeOK
  <1> USE DisburseAssumption, FinanceAssumption
      DEF SystemInv, SystemTypeOK, DisburseTypeOK, FinanceTypeOK, TablesTypeOK, GatewayTypeOK,
          QueueInv, UnbornInv, ApprovalInv, EngineInv, BooksInv, FinanceSubmitsOnce,
          SuccessWasSubmitted, Known, NoRun,
          PayrollStatus, PayoutStatus, LineReference, RequestStep, JobState,
          WorkerStep, HandlerStep, ApprovalStep, EngineStep, Transaction,
          TransferState, NoticeStatus, Notice,
          tables, lines, gatewayVars, jobVars, workerVars, financeVars, queueVars
  <1> USE DEF SystemInit, DisburseInit, FinanceIdle, TablesInit, GatewayInit, NoTransaction
  <1>2. SystemInit => DisburseTypeOK
    OBVIOUS
  <1>3. SystemInit => QueueInv /\ UnbornInv /\ ApprovalInv
    OBVIOUS
  <1>4. SystemInit => EngineInv /\ BooksInv
    OBVIOUS
  <1> QED BY <1>1, <1>2, <1>3, <1>4

\* The endpoints of PayrollController, stale writes included.
LEMMA EndpointKeeps ==
    ASSUME SystemInv, NEW r \in Request, Endpoint(r), UNCHANGED financeVars
    PROVE  SystemInv'
  <1> USE DisburseAssumption, FinanceAssumption
      DEF SystemInv, SystemTypeOK, DisburseTypeOK, FinanceTypeOK, TablesTypeOK, GatewayTypeOK,
          QueueInv, UnbornInv, ApprovalInv, EngineInv, BooksInv, FinanceSubmitsOnce,
          SuccessWasSubmitted, Known, NoRun,
          PayrollStatus, PayoutStatus, LineReference, RequestStep, JobState,
          WorkerStep, HandlerStep, ApprovalStep, EngineStep, Transaction,
          TransferState, NoticeStatus, Notice,
          tables, lines, gatewayVars, jobVars, workerVars, financeVars, queueVars
  <1>1. CASE Generate(r)
    <2>1. /\ request[r] = "new" /\ request' = [request EXCEPT ![r] = "done"]
          /\ status = NoRun /\ status' = "DRAFT"
          /\ listed' \subseteq Employee /\ banked' \subseteq listed'
          /\ UNCHANGED <<payout, chapaReference, disbursed, gatewayVars,
                         jobVars, workerVars, handler, financeVars>>
      BY <1>1 DEF Generate, MayStart, Step
    <2>2. /\ listed = {} /\ worker = "idle"
      BY <2>1
    <2>3. SystemTypeOK'
      BY <2>1, <2>2
    <2>4. QueueInv' /\ UnbornInv' /\ ApprovalInv' /\ EngineInv' /\ BooksInv'
      BY <2>1, <2>2
    <2> QED BY <2>3, <2>4
  <1>2. CASE LockRead(r)
    BY <1>2 DEF LockRead, MayStart, Step
  <1>3. CASE LockWrite(r)
    BY <1>3 DEF LockWrite, Step
  <1>4. CASE DisburseRead(r)
    BY <1>4 DEF DisburseRead, MayStart, Step
  <1>5. CASE DisburseMark(r)
    BY <1>5 DEF DisburseMark, Step
  <1>6. CASE DisburseEnqueue(r)
    BY <1>6 DEF DisburseEnqueue, Step
  <1>7. CASE RequestDies(r)
    BY <1>7 DEF RequestDies, Step
  <1> QED BY <1>1, <1>2, <1>3, <1>4, <1>5, <1>6, <1>7 DEF Endpoint


\* Chapa forgets no transfer, and counts what it accepts.
LEMMA AcceptKeeps ==
    ASSUME GatewayTypeOK, NEW batch, Accept(batch)
    PROVE  /\ GatewayTypeOK' /\ UNCHANGED notices
           /\ \A ref \in Reference :
                /\ transfer[ref] # "unknown" => transfer'[ref] = transfer[ref]
                /\ ref \in batch => posts'[ref] = posts[ref] + 1 /\ transfer'[ref] # "unknown"
                /\ ref \notin batch => posts'[ref] = posts[ref] /\ transfer'[ref] = transfer[ref]
  BY DEF GatewayTypeOK, Accept, TransferState

\* What an accepted batch of the queue changes: nothing for finance.
Submitted(batch) ==
    /\ GatewayTypeOK' /\ UNCHANGED notices
    /\ \A ref \in Reference :
          transfer[ref] # "unknown" => transfer'[ref] = transfer[ref]
    /\ \A e \in Employee :
          /\ transfer'[Ref(e)] # "unknown" => transfer[Ref(e)] # "unknown" \/ e \in batch
          /\ transfer'[TxRef(e)] = transfer[TxRef(e)]
          /\ posts'[TxRef(e)] = posts[TxRef(e)]

\* What the queue submits is the queue's.
LEMMA QueueAccepts ==
    SystemInv => \A batch \in SUBSET toSend : Accept({Ref(e) : e \in batch}) => Submitted(batch)
  <1> SUFFICES ASSUME SystemTypeOK, NEW batch \in SUBSET toSend, Accept({Ref(e) : e \in batch})
               PROVE  Submitted(batch)
    BY DEF SystemInv
  <1>1. batch \subseteq Employee /\ GatewayTypeOK
    BY DEF SystemTypeOK, DisburseTypeOK, TablesTypeOK
  <1>2. \A e \in Employee : TxRef(e) \notin {Ref(d) : d \in batch}
    BY <1>1, RefsApart
  <1>3. \A e \in Employee : Ref(e) \in {Ref(d) : d \in batch} => e \in batch
    BY <1>1, RefsApart
  <1> QED BY <1>1, <1>2, <1>3, AcceptKeeps, DisburseAssumption, FinanceAssumption
        DEF Submitted

\* An attempt of the worker, however it ends.
LEMMA WorkKeeps ==
    ASSUME SystemInv, Work, UNCHANGED financeVars
    PROVE  SystemInv'
  <1>0. \A batch \in SUBSET toSend : Accept({Ref(e) : e \in batch}) => Submitted(batch)
    BY QueueAccepts
  <1> USE DisburseAssumption, FinanceAssumption
      DEF SystemInv, SystemTypeOK, DisburseTypeOK, FinanceTypeOK, TablesTypeOK, GatewayTypeOK,
          QueueInv, UnbornInv, ApprovalInv, EngineInv, BooksInv, FinanceSubmitsOnce,
          SuccessWasSubmitted, Known, NoRun,
          PayrollStatus, PayoutStatus, LineReference, RequestStep, JobState,
          WorkerStep, HandlerStep, ApprovalStep, EngineStep, Transaction,
          TransferState, NoticeStatus, Notice,
          tables, lines, gatewayVars, jobVars, workerVars, financeVars, queueVars
  <1>1. CASE AttemptStart
    BY <1>1 DEF AttemptStart
  <1>2. ASSUME NEW e \in Employee, PrepareUnpayable(e) PROVE SystemInv'
    BY <1>2 DEF PrepareUnpayable
  <1>3. ASSUME NEW e \in Employee, Prepare(e) PROVE SystemInv'
    BY <1>3 DEF Prepare
  <1>4. CASE NoRecipients
    BY <1>4 DEF NoRecipients, Prepared
  <1>5. CASE Submit
    <2>1. PICK batch \in SUBSET toSend :
             Accept({Ref(e) : e \in batch}) /\ toSend' = toSend \ batch
      BY <1>5 DEF Submit, Batch
    <2>2. job = "active" /\ worker' = "submit" /\ status # NoRun
      BY <1>5 DEF Submit, Prepared
    <2>3. UNCHANGED <<tables, request, jobVars, todo, handler>>
      BY <1>5 DEF Submit
    <2>4. Submitted(batch)
      BY <1>0, <2>1
    <2>5. SystemTypeOK' /\ QueueInv' /\ UnbornInv' /\ ApprovalInv'
      BY <2>1, <2>2, <2>3, <2>4 DEF Submitted
    <2>6. EngineInv' /\ BooksInv'
      BY <2>1, <2>2, <2>3, <2>4 DEF Submitted
    <2> QED BY <2>5, <2>6
  <1>6. CASE Finish
    BY <1>6 DEF Finish, WorkerIdle
  <1>7. CASE AttemptThrows
    BY <1>7 DEF AttemptThrows, FailAttempt, WorkerIdle
  <1>8. CASE SubmitTimesOut
    <2>1. PICK batch \in SUBSET toSend : Accept({Ref(e) : e \in batch})
      BY <1>8 DEF SubmitTimesOut, Batch
    <2>2. job = "active" /\ status # NoRun
      BY <1>8 DEF SubmitTimesOut, Prepared
    <2>3. /\ UNCHANGED <<tables, request, stalls, handler>>
          /\ attempts' = attempts + 1
          /\ job' = IF attempts + 1 < MaxAttempts THEN "waiting" ELSE "failed"
          /\ worker' = "idle" /\ todo' = {} /\ toSend' = {}
      BY <1>8 DEF SubmitTimesOut, FailAttempt, WorkerIdle
    <2>4. Submitted(batch)
      BY <1>0, <2>1
    <2>5. SystemTypeOK' /\ QueueInv' /\ UnbornInv' /\ ApprovalInv'
      BY <2>1, <2>2, <2>3, <2>4 DEF Submitted
    <2>6. EngineInv' /\ BooksInv'
      BY <2>1, <2>2, <2>3, <2>4 DEF Submitted
    <2> QED BY <2>5, <2>6
  <1>9. CASE WorkerDies
    BY <1>9 DEF WorkerDies, WorkerIdle
  <1>10. CASE JobStalled
    BY <1>10 DEF JobStalled
  <1> QED
    BY <1>1, <1>2, <1>3, <1>4, <1>5, <1>6, <1>7, <1>8, <1>9, <1>10 DEF Work

\* A webhook call of the queue's way, between any two of its awaits.
LEMMA WebhookKeeps ==
    ASSUME SystemInv, NEW h \in Handler, Webhook(h), UNCHANGED financeVars
    PROVE  SystemInv'
  <1> USE DisburseAssumption, FinanceAssumption
      DEF SystemInv, SystemTypeOK, DisburseTypeOK, FinanceTypeOK, TablesTypeOK, GatewayTypeOK,
          QueueInv, UnbornInv, ApprovalInv, EngineInv, BooksInv, FinanceSubmitsOnce,
          SuccessWasSubmitted, Known, NoRun,
          PayrollStatus, PayoutStatus, LineReference, RequestStep, JobState,
          WorkerStep, HandlerStep, ApprovalStep, EngineStep, Transaction,
          TransferState, NoticeStatus, Notice,
          tables, lines, gatewayVars, jobVars, workerVars, financeVars, queueVars
  <1>1. ASSUME NEW m \in notices, NEW e \in Employee, Deliver(h, m, e) PROVE SystemInv'
    <2>1. /\ e \in listed /\ m.ref = Ref(e)
          /\ payout' = [payout EXCEPT ![e] = Booked(m.status)]
          /\ disbursed' = IF m.status = "success" THEN disbursed \cup {e} ELSE disbursed \ {e}
          /\ notices' \subseteq notices
          /\ handler' = [handler EXCEPT ![h] = "updated"]
          /\ UNCHANGED <<status, listed, banked, chapaReference, transfer, posts,
                         request, jobVars, workerVars>>
      BY <1>1 DEF Deliver, CallFindsLine, Consume, HandlerGoes
    <2>2. /\ Booked(m.status) \in PayoutStatus
          /\ Booked(m.status) = "SUCCESS" => transfer[Ref(e)] = "success"
      BY <2>1 DEF Booked
    <2> QED BY <2>1, <2>2
  <1>2. CASE CountPending(h)
    BY <1>2 DEF CountPending, HandlerGoes
  <1>3. CASE CountFailed(h)
    BY <1>3 DEF CountFailed, HandlerGoes
  <1>4. CASE RollUp(h)
    BY <1>4 DEF RollUp, HandlerGoes
  <1>5. CASE HandlerDies(h)
    BY <1>5 DEF HandlerDies, HandlerGoes
  <1> QED BY <1>1, <1>2, <1>3, <1>4, <1>5 DEF Webhook

\* What Chapa does, and calls without effect.
LEMMA GatewayKeeps ==
    ASSUME SystemInv, Gateway \/ \E m \in notices : Undelivered(m), UNCHANGED financeVars
    PROVE  SystemInv'
  <1> USE DisburseAssumption, FinanceAssumption
      DEF SystemInv, SystemTypeOK, DisburseTypeOK, FinanceTypeOK, TablesTypeOK, GatewayTypeOK,
          QueueInv, UnbornInv, ApprovalInv, EngineInv, BooksInv, FinanceSubmitsOnce,
          SuccessWasSubmitted, Known, NoRun,
          PayrollStatus, PayoutStatus, LineReference, RequestStep, JobState,
          WorkerStep, HandlerStep, ApprovalStep, EngineStep, Transaction,
          TransferState, NoticeStatus, Notice,
          tables, lines, gatewayVars, jobVars, workerVars, financeVars, queueVars
  <1>1. ASSUME NEW m \in notices, Undelivered(m) PROVE SystemInv'
    BY <1>1 DEF Undelivered, Consume
  <1>2. ASSUME NEW ref \in Reference, Settle(ref), Gateway PROVE SystemInv'
    BY <1>2 DEF Gateway, Settle
  <1>3. ASSUME NEW ref \in Reference, Interim(ref), Gateway PROVE SystemInv'
    BY <1>3 DEF Gateway, Interim
  <1> QED BY <1>1, <1>2, <1>3 DEF Gateway


\* A calculated run, and the approvals of it.
LEMMA ApprovingKeeps ==
    ASSUME SystemInv, Calculated \/ Approving, UNCHANGED queueVars
    PROVE  SystemInv'
  <1> USE DisburseAssumption, FinanceAssumption
      DEF SystemInv, SystemTypeOK, DisburseTypeOK, FinanceTypeOK, TablesTypeOK, GatewayTypeOK,
          QueueInv, UnbornInv, ApprovalInv, EngineInv, BooksInv, FinanceSubmitsOnce,
          SuccessWasSubmitted, Known, NoRun,
          PayrollStatus, PayoutStatus, LineReference, RequestStep, JobState,
          WorkerStep, HandlerStep, ApprovalStep, EngineStep, Transaction,
          TransferState, NoticeStatus, Notice,
          tables, lines, gatewayVars, jobVars, workerVars, financeVars, queueVars
  <1>1. CASE Calculated
    <2>1. /\ status = NoRun /\ status' = "COMPLETED"
          /\ listed' \subseteq Employee /\ banked' = {}
          /\ UNCHANGED <<payout, chapaReference, disbursed, gatewayVars,
                         jobVars, workerVars, request, handler, financeVars>>
      BY <1>1 DEF Calculated
    <2>2. worker = "idle"
      BY <2>1
    <2>3. SystemTypeOK'
      BY <2>1, <2>2
    <2>4. QueueInv' /\ UnbornInv' /\ ApprovalInv' /\ EngineInv' /\ BooksInv'
      BY <2>1, <2>2
    <2> QED BY <2>3, <2>4
  <1>2. ASSUME NEW a \in Approval, Approve(a) PROVE SystemInv'
    BY <1>2 DEF Approve, ApprovalGoes
  <1>3. ASSUME NEW a \in Approval, LogApproval(a) PROVE SystemInv'
    BY <1>3 DEF LogApproval, ApprovalGoes
  <1>4. ASSUME NEW a \in Approval, ApprovalDies(a) PROVE SystemInv'
    BY <1>4 DEF ApprovalDies, ApprovalGoes
  <1> QED BY <1>1, <1>2, <1>3, <1>4 DEF Approving

\* What an accepted chunk changes: nothing for the queue.
Posted(lot) ==
    /\ GatewayTypeOK' /\ UNCHANGED notices
    /\ \A ref \in Reference :
          transfer[ref] # "unknown" => transfer'[ref] = transfer[ref]
    /\ \A e \in Employee :
          /\ transfer'[Ref(e)] = transfer[Ref(e)]
          /\ e \in lot => posts'[TxRef(e)] = posts[TxRef(e)] + 1
              /\ transfer'[TxRef(e)] # "unknown"
          /\ e \notin lot => /\ posts'[TxRef(e)] = posts[TxRef(e)]
                            /\ transfer'[TxRef(e)] = transfer[TxRef(e)]

\* What finance submits is finance's.
LEMMA FinancePosts ==
    SystemInv => \A lot \in SUBSET listed : Accept({TxRef(e) : e \in lot}) => Posted(lot)
  <1> SUFFICES ASSUME SystemTypeOK, NEW lot \in SUBSET listed, Accept({TxRef(e) : e \in lot})
               PROVE  Posted(lot)
    BY DEF SystemInv
  <1>1. lot \subseteq Employee /\ GatewayTypeOK
    BY DEF SystemTypeOK, DisburseTypeOK, TablesTypeOK
  <1>2. \A e \in Employee : Ref(e) \notin {TxRef(d) : d \in lot}
    BY <1>1, RefsApart
  <1>3. \A e \in Employee : TxRef(e) \in {TxRef(d) : d \in lot} <=> e \in lot
    BY <1>1, RefsApart
  <1> QED BY <1>1, <1>2, <1>3, AcceptKeeps, DisburseAssumption, FinanceAssumption
          DEF Posted

\* A disbursement, whatever became of the run meanwhile.
LEMMA EngineKeeps ==
    ASSUME SystemInv, NEW a \in Approval, UNCHANGED queueVars,
           \/ Load(a) \/ Mark(a) \/ NextChunk(a) \/ Post(a) \/ PostFails(a) \/ Book(a)
           \/ BookFailure(a) \/ Conclude(a) \/ EngineDies(a)
    PROVE  SystemInv'
  <1>0. \A lot \in SUBSET listed : Accept({TxRef(e) : e \in lot}) => Posted(lot)
    BY FinancePosts
  <1> USE DisburseAssumption, FinanceAssumption
      DEF SystemInv, SystemTypeOK, DisburseTypeOK, FinanceTypeOK, TablesTypeOK, GatewayTypeOK,
          QueueInv, UnbornInv, ApprovalInv, EngineInv, BooksInv, FinanceSubmitsOnce,
          SuccessWasSubmitted, Known, NoRun,
          PayrollStatus, PayoutStatus, LineReference, RequestStep, JobState,
          WorkerStep, HandlerStep, ApprovalStep, EngineStep, Transaction,
          TransferState, NoticeStatus, Notice,
          tables, lines, gatewayVars, jobVars, workerVars, financeVars, queueVars
  <1>1. CASE Load(a)
    <2>1. /\ approval[a] = "start" /\ approval' = [approval EXCEPT ![a] = "done"]
          /\ UNCHANGED <<tables, gatewayVars, logged, chunk, failed, callback, queueVars>>
      BY <1>1 DEF Load, ApprovalGoes
    <2>2. \/ UNCHANGED <<left, engine>>
          \/ \E lot \in SUBSET listed : /\ left' = [left EXCEPT ![a] = lot]
                                        /\ engine' = [engine EXCEPT ![a] = "mark"]
      BY <1>1 DEF Load, EngineGoes, PendingLines
    <2>3. \A e \in Employee : posts[TxRef(e)] = 0
      BY <2>1
    <2>4. SystemTypeOK'
      BY <2>1, <2>2
    <2>5. QueueInv' /\ UnbornInv' /\ ApprovalInv' /\ BooksInv'
      BY <2>1, <2>2
    <2>6. EngineInv'
      BY <2>1, <2>2, <2>3
    <2> QED BY <2>4, <2>5, <2>6
  <1>2. CASE Mark(a)
    BY <1>2 DEF Mark, EngineGoes
  <1>3. CASE NextChunk(a)
    <2>1. PICK lot \in SUBSET left[a] :
             /\ left' = [left EXCEPT ![a] = @ \ lot]
             /\ chunk' = [chunk EXCEPT ![a] = lot \cap PendingLines]
             /\ engine' = [engine EXCEPT ![a] =
                              IF lot \cap PendingLines = {} THEN "next" ELSE "post"]
      BY <1>3 DEF NextChunk, EngineGoes, Chunks
    <2>2. /\ engine[a] = "next"
          /\ UNCHANGED <<tables, gatewayVars, approval, logged, failed, callback, queueVars>>
      BY <1>3 DEF NextChunk
    <2>3. lot \cap PendingLines \subseteq lot /\ lot \subseteq listed
      BY <2>1
    <2>4. SystemTypeOK'
      BY <2>1, <2>2, <2>3
    <2>5. QueueInv' /\ UnbornInv' /\ ApprovalInv' /\ BooksInv'
      BY <2>1, <2>2
    <2>6. EngineInv'
      BY <2>1, <2>2, <2>3
    <2> QED BY <2>4, <2>5, <2>6
  <1>4. CASE Post(a)
    <2>1. engine[a] = "post" /\ Posted(chunk[a])
      BY <1>0, <1>4 DEF Post
    <2>2. /\ engine' = [engine EXCEPT ![a] = "book"] \/ engine' = [engine EXCEPT ![a] = "fail"]
          /\ UNCHANGED <<tables, approval, logged, left, chunk, failed, callback, queueVars>>
      BY <1>4 DEF Post, EngineGoes
    <2>3. GatewayTypeOK' /\ UNCHANGED notices
      BY <2>1 DEF Posted
    <2>4. \A ref \in Reference : transfer[ref] # "unknown" => transfer'[ref] = transfer[ref]
      BY <2>1 DEF Posted
    <2>5. \A e \in Employee :
              /\ transfer'[Ref(e)] = transfer[Ref(e)]
              /\ e \in chunk[a] =>
                     posts'[TxRef(e)] = posts[TxRef(e)] + 1 /\ transfer'[TxRef(e)] # "unknown"
              /\ e \notin chunk[a] => /\ posts'[TxRef(e)] = posts[TxRef(e)]
                                      /\ transfer'[TxRef(e)] = transfer[TxRef(e)]
      BY <2>1 DEF Posted
    <2>6. SystemTypeOK'
      BY <2>2, <2>3
    <2>7. QueueInv' /\ ApprovalInv'
      BY <2>1, <2>2, <2>5
    <2>8. UnbornInv'
      BY <2>1, <2>2
    <2>9. /\ \A b \in Approval :
                /\ engine'[b] = "off" => left'[b] = {}
                /\ engine'[b] \in {"off", "mark", "next"} => chunk'[b] = {}
                /\ engine'[b] = "post" => b # a
          /\ \A b \in Approval : b # a => left[b] = {} /\ engine[b] = "off"
          /\ \A e \in left[a] : e \notin chunk[a]
          /\ \A e \in chunk[a] : posts[TxRef(e)] = 0
      BY <2>1, <2>2
    <2>10. \A b \in Approval :
              /\ \A e \in left'[b] : posts'[TxRef(e)] = 0
              /\ engine'[b] = "post" => \A e \in chunk'[b] : posts'[TxRef(e)] = 0
                  /\ e \notin left'[b]
      BY <2>2, <2>5, <2>9
    <2>11. approval[a] = "done" /\ logged
      BY <2>1
    <2>12. \A e \in Employee :
              /\ transfer'[TxRef(e)] # "unknown" => posts'[TxRef(e)] # 0
              /\ posts'[TxRef(e)] # 0 => \E b \in Approval : approval'[b] = "done"
      BY <2>2, <2>5, <2>9, <2>11
    <2>13. FinanceSubmitsOnce'
      <3>1. \A e \in Employee :
               posts'[TxRef(e)] = posts[TxRef(e)]
               \/ (posts[TxRef(e)] = 0 /\ posts'[TxRef(e)] = posts[TxRef(e)] + 1)
        BY <2>5, <2>9
      <3>2. \A e \in Employee : posts'[TxRef(e)] = posts[TxRef(e)] \/ posts'[TxRef(e)] = 1
        BY <3>1
      <3>3. logged' /\ \A e \in Employee : posts[TxRef(e)] <= 1
        BY <2>2, <2>11
      <3> QED BY <3>2, <3>3
    <2>14. EngineInv'
      BY <2>9, <2>10, <2>12, <2>13
    <2>15. BooksInv'
      BY <2>1, <2>2, <2>3, <2>4, <2>5
    <2> QED BY <2>6, <2>7, <2>8, <2>14, <2>15
  <1>5. CASE PostFails(a)
    BY <1>5 DEF PostFails, EngineGoes
  <1>6. CASE Book(a)
    <2>1. /\ engine[a] = "book"
          /\ \/ engine' = [engine EXCEPT ![a] = "next"] /\ chunk' = [chunk EXCEPT ![a] = {}]
             \/ engine' = [engine EXCEPT ![a] = "fail"] /\ UNCHANGED chunk
          /\ \A e \in Employee : payout'[e] = payout[e] \/ (e \in chunk[a]
              /\ payout'[e] = "SUCCESS")
      BY <1>6 DEF Book, ChunkDone, EngineGoes
    <2>2. /\ UNCHANGED <<status, listed, banked, disbursed, gatewayVars, approval, logged, left,
                         failed, callback, queueVars>>
          /\ payout' \in [Employee -> PayoutStatus]
          /\ chapaReference' \in [Employee -> LineReference]
      BY <1>6 DEF Book, ChunkDone, EngineGoes
    <2>3. SystemTypeOK'
      BY <2>1, <2>2
    <2>4. QueueInv' /\ ApprovalInv' /\ EngineInv'
      BY <2>1, <2>2
    <2>5. UnbornInv'
      BY <2>1, <2>2
    <2>6. \A e \in chunk[a] : transfer[TxRef(e)] # "unknown"
      BY <2>1
    <2>7. SuccessWasSubmitted'
      BY <2>1, <2>2, <2>6
    <2>8. \A b \in Approval, e \in Employee :
             engine'[b] = "book" /\ e \in chunk'[b] => transfer'[TxRef(e)] # "unknown"
      BY <2>1, <2>2
    <2>9. BooksInv'
      BY <2>2, <2>7, <2>8
    <2> QED BY <2>3, <2>4, <2>5, <2>9
  <1>7. CASE BookFailure(a)
    BY <1>7 DEF BookFailure, ChunkDone, EngineGoes
  <1>8. CASE Conclude(a)
    BY <1>8 DEF Conclude, EngineGoes
  <1>9. CASE EngineDies(a)
    BY <1>9 DEF EngineDies, EngineGoes
  <1> QED BY <1>1, <1>2, <1>3, <1>4, <1>5, <1>6, <1>7, <1>8, <1>9

\* The transactions of the callbacks.
LEMMA CallbackKeeps ==
    ASSUME SystemInv, NEW c \in Callback, UNCHANGED queueVars,
           \/ \E m \in notices, e \in Employee : CallbackBegin(c, m, e)
           \/ CallbackCommit(c) \/ CallbackAborts(c)
    PROVE  SystemInv'
  <1> USE DisburseAssumption, FinanceAssumption
      DEF SystemInv, SystemTypeOK, DisburseTypeOK, FinanceTypeOK, TablesTypeOK, GatewayTypeOK,
          QueueInv, UnbornInv, ApprovalInv, EngineInv, BooksInv, FinanceSubmitsOnce,
          SuccessWasSubmitted, Known, NoRun,
          PayrollStatus, PayoutStatus, LineReference, RequestStep, JobState,
          WorkerStep, HandlerStep, ApprovalStep, EngineStep, Transaction,
          TransferState, NoticeStatus, Notice,
          tables, lines, gatewayVars, jobVars, workerVars, financeVars, queueVars
  <1>1. ASSUME NEW m \in notices, NEW e \in Employee, CallbackBegin(c, m, e) PROVE SystemInv'
    <2> DEFINE t == [line    |-> {e},
                     outcome |-> Outcome(m.status),
                     verdict |-> Verdict({Outcome(m.status)}
                                            \cup {payout[d] : d \in listed \ {e}})]
    <2>1. /\ e \in listed /\ m.ref = TxRef(e)
          /\ callback' = [callback EXCEPT ![c] = t]
          /\ notices' \subseteq notices
          /\ UNCHANGED <<tables, transfer, posts, approval, logged, engine, left, chunk,
                         failed, queueVars>>
      BY <1>1 DEF CallbackBegin, Consume
    <2>2. t \in Transaction /\ t.line = {e}
      BY DEF Outcome, Verdict
    <2> HIDE DEF t, Transaction
    <2>3. SystemTypeOK'
      BY <2>1, <2>2
    <2>4. BooksInv'
      BY <2>1, <2>2
    <2>5. QueueInv' /\ UnbornInv' /\ ApprovalInv' /\ EngineInv'
      BY <2>1
    <2> QED BY <2>3, <2>4, <2>5
  <1>2. CASE CallbackCommit(c)
    BY <1>2 DEF CallbackCommit, NoTransaction
  <1>3. CASE CallbackAborts(c)
    <2>1. /\ callback' = [callback EXCEPT ![c] = NoTransaction]
          /\ UNCHANGED <<tables, gatewayVars, approval, logged, engine, left, chunk,
                         failed, queueVars>>
      BY <1>3 DEF CallbackAborts
    <2>2. NoTransaction \in Transaction /\ NoTransaction.line = {}
      BY DEF NoTransaction
    <2> HIDE DEF Transaction
    <2>3. SystemTypeOK'
      BY <2>1, <2>2
    <2>4. BooksInv'
      BY <2>1, <2>2
    <2>5. QueueInv' /\ UnbornInv' /\ ApprovalInv' /\ EngineInv'
      BY <2>1
    <2> QED BY <2>3, <2>4, <2>5
  <1> QED BY <1>1, <1>2, <1>3


\* Every step of either way.
LEMMA SystemInvStep == SystemInv /\ [SystemNext]_systemVars => SystemInv'
  <1> SUFFICES ASSUME SystemInv, [SystemNext]_systemVars PROVE SystemInv'
    OBVIOUS
  <1>1. CASE UNCHANGED systemVars
    BY <1>1 DEF systemVars, disburseVars, financeVars, tables, gatewayVars, jobVars, workerVars,
                SystemInv, SystemTypeOK, DisburseTypeOK, FinanceTypeOK, TablesTypeOK,
                GatewayTypeOK, QueueInv, UnbornInv, ApprovalInv, EngineInv, BooksInv,
                FinanceSubmitsOnce, SuccessWasSubmitted, Known
  <1>2. CASE DisburseNext /\ UNCHANGED financeVars
    BY <1>2, EndpointKeeps, WorkKeeps, WebhookKeeps, GatewayKeeps DEF DisburseNext
  <1>3. CASE FinanceStep /\ UNCHANGED queueVars
    BY <1>3, ApprovingKeeps, EngineKeeps, CallbackKeeps
       DEF FinanceStep, Engine, Callbacks
  <1> QED BY <1>1, <1>2, <1>3 DEF SystemNext

\* SystemInv holds in every reachable state.
THEOREM SystemInvariance == SystemSpec => []SystemInv
  <1> QED BY SystemInvInit, SystemInvStep, PTL DEF SystemSpec

-----------------------------------------------------------------------------
(***************************************************************************)
(* What the run of PayrollSystem checks on a small instance.               *)
(***************************************************************************)

\* Type correctness of both ways over the same rows.
THEOREM SystemTypeCorrect == SystemSpec => []SystemTypeOK
  <1>1. SystemInv => SystemTypeOK
    BY DEF SystemInv
  <1> QED BY <1>1, SystemInvariance, PTL

\* Chapa never knows one salary under the references of both ways, though neither
\* way looks at the other: PayrollDisburseProcessor and executeChapaDisbursement.
THEOREM NobodyPaidTwice == SystemSpec => []NotPaidTwice
  <1>1. SystemInv => NotPaidTwice
    <2>1. SUFFICES ASSUME SystemInv, NEW e \in Employee, Known(e), transfer[TxRef(e)] # "unknown"
                   PROVE  FALSE
      BY DEF NotPaidTwice, Known
    <2>2. e \in banked
      BY <2>1 DEF SystemInv, QueueInv
    <2>3. PICK a \in Approval : approval[a] = "done"
      BY <2>1 DEF SystemInv, EngineInv
    <2>4. banked = {}
      BY <2>1, <2>3 DEF SystemInv, ApprovalInv
    <2> QED BY <2>2, <2>4
  <1> QED BY <1>1, SystemInvariance, PTL

\* However many approvals are tried, finance submits a line at most once, and after
\* the approval was logged.
THEOREM FinanceNeverRepeats == SystemSpec => []FinanceSubmitsOnce
  <1>1. SystemInv => FinanceSubmitsOnce
    BY DEF SystemInv, EngineInv
  <1> QED BY <1>1, SystemInvariance, PTL

\* Overlapping chunks, transactions and the other way's updates book no line as paid
\* whose transfer Chapa does not know.
THEOREM SuccessIsKnown == SystemSpec => []SuccessWasSubmitted
  <1>1. SystemInv => SuccessWasSubmitted
    BY DEF SystemInv, BooksInv
  <1> QED BY <1>1, SystemInvariance, PTL

=============================================================================
