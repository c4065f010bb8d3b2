--------------------------- MODULE MCPayrollSystem ---------------------------
(***************************************************************************)
(* Instances of PayrollSystem for TLC.                                     *)
(***************************************************************************)
EXTENDS PayrollSystem, TLC

SystemReferences == {Ref(e) : e \in Employee} \cup {TxRef(e) : e \in Employee}

\* Employees, requests, handlers, approvals and callbacks are interchangeable.
SystemSymmetry ==
    Permutations(Employee) \cup Permutations(Request) \cup Permutations(Handler)
        \cup Permutations(Approval) \cup Permutations(Callback)

=============================================================================
