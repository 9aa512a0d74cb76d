------------------------------ MODULE MCTenancy ------------------------------
(* The values that are interchangeable in the configuration of Tenancy.     *)
EXTENDS Tenancy, TLC

TenancySymmetry ==
    Permutations(Organization) \cup Permutations(Workspace)
       \cup Permutations(Name) \cup Permutations(Request)
=============================================================================
