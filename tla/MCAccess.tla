------------------------------ MODULE MCAccess ------------------------------
(* The values that are interchangeable in each configuration of Access:     *)
(* all users where none is Administered, and the requests.                  *)
EXTENDS AccessInvariant, TLC

OwnersSymmetry == Permutations(User) \cup Permutations(Request)
TenantsSymmetry == Permutations(Workspace) \cup Permutations(Request)
=============================================================================
