---------------------------- MODULE SchemaVersion ----------------------------
(***************************************************************************)
(* What running the migrations promises: the schema has a version, which a *)
(* successful "latest" sets to the last one and a successful "down" lowers *)
(* by one, each at once.  Module Migrations implements this.               *)
(***************************************************************************)
EXTENDS Integers

CONSTANT Last       \* the number of registered migrations

VARIABLE version

Init == version = 0

Latest == version' = Last
Down == version > 0 /\ version' = version - 1

Spec == Init /\ [][Latest \/ Down]_version
=============================================================================
