---------------------------- MODULE PayoutContract ----------------------------
(***************************************************************************)
(* What the payout of one payroll run promises the tenant, with none of    *)
(* the machinery: a salary is ordered at most once, only after the run was *)
(* approved, only for an employee the approved run can pay, and its order  *)
(* ends in exactly one of the two outcomes.                                *)
(***************************************************************************)
CONSTANT
    Employee

VARIABLES
    payable,   \* the employees whom the run can pay, fixed by the draft
    approved,  \* was the run approved?
    salary     \* how far each employee's salary has come

contractVars == <<payable, approved, salary>>

Phase == {"owed", "ordered", "paid", "bounced"}

Init ==
    /\ payable = {}
    /\ approved = FALSE
    /\ salary = [e \in Employee |-> "owed"]

\* A draft is drawn up: it says who can be paid.
Draft ==
    /\ ~approved
    /\ payable' \in SUBSET Employee
    /\ UNCHANGED <<approved, salary>>

Approve ==
    /\ approved' = TRUE
    /\ UNCHANGED <<payable, salary>>

\* Some salaries are ordered; none of them a second time.
Order ==
    /\ approved
    /\ \E batch \in SUBSET payable :
          salary' = [e \in Employee |->
                        IF e \in batch /\ salary[e] = "owed"
                        THEN "ordered" ELSE salary[e]]
    /\ UNCHANGED <<payable, approved>>

Settle(e) ==
    /\ salary[e] = "ordered"
    /\ \E outcome \in {"paid", "bounced"} :
          salary' = [salary EXCEPT ![e] = outcome]
    /\ UNCHANGED <<payable, approved>>

Next == Draft \/ Approve \/ Order \/ \E e \in Employee : Settle(e)

Spec == Init /\ [][Next]_contractVars

=============================================================================
