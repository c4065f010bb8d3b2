--------------------------- MODULE MCTenantBilling ---------------------------
(***************************************************************************)
(* Instances of TenantBilling for TLC.                                     *)
(***************************************************************************)
EXTENDS TenantBilling, TLC

Interchangeable == Permutations(Night) \cup Permutations(Hook)

=============================================================================
