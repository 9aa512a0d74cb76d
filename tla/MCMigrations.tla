---------------------------- MODULE MCMigrations ----------------------------
(* Processes that migrate one database at once; the runners keep their      *)
(* identity, since a command of each must end.                              *)
EXTENDS Migrations
=============================================================================
