------------------------------- MODULE MCAuth -------------------------------
(* The values that are interchangeable in the configuration of Auth.        *)
EXTENDS Auth, TLC

AuthSymmetry ==
    Permutations(Request) \cup Permutations(Session)
       \cup Permutations(Password) \cup Permutations(Email)
=============================================================================
