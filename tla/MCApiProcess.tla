---------------------------- MODULE MCApiProcess ----------------------------
(***************************************************************************)
(* An instance of ApiStart: every environment the process may find, two    *)
(* kinds of .env file in the working directory and the two above it; then  *)
(* a pool that is smaller than the demand.                                 *)
(***************************************************************************)
EXTENDS ApiStart

AllEnvironments == Environment

\* A developer's file, and one that was meant for production.
Files ==
    {[NODE_ENV |-> Unset, WEB_ORIGIN |-> "http", DB_POOL_MAX |-> 1],
     [NODE_ENV |-> "production", WEB_ORIGIN |-> "https", DB_POOL_MAX |-> Unset]}
=============================================================================
