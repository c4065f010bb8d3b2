------------------------ MODULE MCPayrollCalculation ------------------------
(***************************************************************************)
(* Instances of PayrollCalculation for TLC.                                *)
(***************************************************************************)
EXTENDS PayrollCalculation

=============================================================================
