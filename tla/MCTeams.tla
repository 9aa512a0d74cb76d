------------------------------- MODULE MCTeams ------------------------------
(* The values that are interchangeable in the configuration of Teams.       *)
EXTENDS Teams, TLC

TeamsSymmetry == Permutations(Request) \cup Permutations(Team) \cup Permutations(Workspace)
=============================================================================
