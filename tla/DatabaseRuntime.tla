--------------------------- MODULE DatabaseRuntime ---------------------------
(***************************************************************************)
(* The database runtime of a process: a pool of at most MaxConnections     *)
(* connections, the readiness check that races a statement against a       *)
(* timer, and the close that all callers share.                            *)
(*                                                                         *)
(* The pool (pg) and its destruction by Kysely are external: PostgreSQL    *)
(* may never answer, but the pool's own timeouts end the wait for a        *)
(* connection and every statement; the end of the pool waits for the       *)
(* statements that run.  A transaction counts as one statement here.       *)
(***************************************************************************)
EXTENDS FiniteSets, Integers

CONSTANTS
    Request,            \* the HTTP requests that use the database
    Check,              \* the readiness requests
    MaxConnections      \* DATABASE_POOL_MAX

Client == Request \cup Check

ASSUME ClientAssumption == IsFiniteSet(Client) /\ Request \cap Check = {}
ASSUME PoolAssumption == MaxConnections \in Nat \ {0}

VARIABLES
    statement,          \* what became of the last statement of each client
    closePromise        \* of PostgresDatabaseRuntime.close

runtimeVars == <<statement, closePromise>>

RuntimeTypeOK ==
    /\ statement \in [Client -> {"none", "waiting", "running", "succeeded", "failed"}]
    /\ closePromise \in {"none", "destroying", "resolved", "rejected"}

\* createDatabase connects to nothing.
RuntimeInit ==
    /\ statement = [c \in Client |-> "none"]
    /\ closePromise = "none"

Running == {c \in Client : statement[c] = "running"}
Closed  == closePromise \in {"resolved", "rejected"}

Settle(c, outcome) ==
    /\ statement' = [statement EXCEPT ![c] = outcome]
    /\ UNCHANGED closePromise

-----------------------------------------------------------------------------
(* What the process calls.                                                  *)

\* A runtime that is being destroyed serves no further statement.
Ask(c) ==
    /\ statement[c] \notin {"waiting", "running"}
    /\ Settle(c, IF closePromise = "none" THEN "waiting" ELSE "failed")

\* Mutant: a second close destroys the pool again, which fails.
CallCloseAgain ==
    /\ closePromise' = IF closePromise = "none" THEN "destroying" ELSE "rejected"
    /\ UNCHANGED statement

CallClose ==
    /\ closePromise' = IF closePromise = "none" THEN "destroying" ELSE closePromise
    /\ UNCHANGED statement

-----------------------------------------------------------------------------
(* What the pool does.                                                      *)

Connect(c) ==
    /\ statement[c] = "waiting" /\ closePromise = "none"
    /\ Cardinality(Running) < MaxConnections
    /\ Settle(c, "running")

\* Mutant: the wait for a connection has no bound but the end of the pool.
ConnectionFailsAtEnd(c) ==
    /\ statement[c] = "waiting" /\ closePromise # "none"
    /\ Settle(c, "failed")

\* The database refuses, or connectionTimeoutMillis is over.
ConnectionFails(c) == statement[c] = "waiting" /\ Settle(c, "failed")

StatementSucceeds(c) == statement[c] = "running" /\ Settle(c, "succeeded")

\* An error, or statement_timeout or query_timeout is over.
StatementFails(c) == statement[c] = "running" /\ Settle(c, "failed")

Destroyed ==
    /\ closePromise = "destroying" /\ Running = {}
    /\ closePromise' = "resolved"
    /\ UNCHANGED statement

DestroyFails ==
    /\ closePromise = "destroying"
    /\ closePromise' = "rejected"
    /\ UNCHANGED statement
=============================================================================
