-------------------------- MODULE MCPayrollDisburse --------------------------
(***************************************************************************)
(* Instances of PayrollDisburse for TLC.                                   *)
(***************************************************************************)
EXTENDS PayrollDisburse, TLC

DisburseReferences == {Ref(e) : e \in Employee}

\* Employees, requests and handlers are interchangeable.
DisburseSymmetry ==
    Permutations(Employee) \cup Permutations(Request) \cup Permutations(Handler)

=============================================================================
