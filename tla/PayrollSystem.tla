----------------------------- MODULE PayrollSystem -----------------------------
(***************************************************************************)
(* Both ways to pay a run, over the same rows and the same gateway.  A run *)
(* is either generated as a draft with the employees' bank details, or     *)
(* calculated in the background without them; from then on each endpoint   *)
(* looks at nothing but the status of the run.                             *)
(***************************************************************************)
EXTENDS PayrollDisburse, FinancePayout

systemVars == <<disburseVars, financeVars>>
queueVars  == <<request, jobVars, workerVars, handler>>

SystemTypeOK == DisburseTypeOK /\ FinanceTypeOK

SystemInit == DisburseInit /\ FinanceIdle

SystemNext ==
    \/ DisburseNext /\ UNCHANGED financeVars
    \/ FinanceStep /\ UNCHANGED queueVars

SystemSpec == SystemInit /\ [][SystemNext]_systemVars

-----------------------------------------------------------------------------
(***************************************************************************)
(* Properties.                                                             *)
(***************************************************************************)

\* Both ways take a run from OWNER_APPROVED, so both may work on the same run, under
\* different references, which Chapa cannot tell to be the same salary.  Still
\* nobody is paid twice: runs that can be approved by finance have no bank
\* columns, and runs that have them are never COMPLETED.
NotPaidTwice ==
    \A e \in Employee :
        ~(transfer[Ref(e)] # "unknown" /\ transfer[TxRef(e)] # "unknown")

\* Finance submits each line at most once, however many approvals are tried,
\* because only one of them finds the run COMPLETED, and after it was logged.
FinanceSubmitsOnce ==
    \A e \in Employee : posts[TxRef(e)] <= 1 /\ (posts[TxRef(e)] = 1 => logged)

\* A line is booked as paid only if Chapa knows its transfer: refused requests,
\* overlapping transactions and the other way's updates do not break it.
SuccessWasSubmitted ==
    \A e \in listed : payout[e] = "SUCCESS" =>
        transfer[Ref(e)] = "success" \/ transfer[TxRef(e)] # "unknown"

\* test/payroll-e2e.ts: the lines of a run that became PAID are SUCCESS.
PaidLinesAreSuccess ==
    status = "PAID" => \A e \in listed : payout[e] = "SUCCESS"

\* finance.service.ts: once Chapa has answered, a commit secures the success state
\* of the chunk.
AnsweredChunkIsBooked ==
    [][\A a \in Approval :
          engine[a] = "book" /\ engine'[a] # "book" =>
              \A e \in chunk[a] : payout'[e] = "SUCCESS"]_systemVars

=============================================================================
