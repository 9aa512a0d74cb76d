----------------------------- MODULE Migrations -----------------------------
(***************************************************************************)
(* The migration command, run by several operators and deployments at once *)
(* against one database, with the five registered migrations.              *)
(*                                                                         *)
(* A run is one transaction: it takes an advisory lock with a bounded      *)
(* wait, reads which migrations are recorded as applied, executes the      *)
(* pending ones (or undoes the last one), recording each, and commits.     *)
(* The order of these steps inside Kysely's Migrator is external.  A table *)
(* stands for its columns and indexes.                                     *)
(***************************************************************************)
EXTENDS FiniteSets, Integers, FiniteSetsExt

CONSTANTS
    Runner,         \* the processes that run the command
    None            \* no holder of the lock, no command

ASSUME NoneAssumption == None \notin Runner \cup {"latest", "down", "status"}

VARIABLES
    schema,         \* the tables and keys there are, committed
    applied,        \* the migrations that the metadata table records, committed
    lock,           \* the holder of the advisory lock
    phase,          \* how far each runner's process is
    command,        \* its argument
    work            \* what its transaction has to do and has done

vars == <<schema, applied, lock, phase, command, work>>

-----------------------------------------------------------------------------
(* The registered migrations, in their order.                               *)

Migration == 1..5

Creates ==
    << {},
       {"users", "auth_password_credentials", "auth_sessions"},
       {"organizations", "workspaces"},
       {"workspace_memberships"},
       {"workspace_memberships_id_workspace_unique", "teams", "team_memberships"} >>

\* What the created tables refer to.
Needs ==
    << {}, {}, {},
       {"users", "workspaces"},
       {"workspaces", "workspace_memberships"} >>

\* Mutant: the last migration leaves its key behind.
DropsButKey ==
    << {},
       {"auth_sessions", "auth_password_credentials", "users"},
       {"workspaces", "organizations"},
       {"workspace_memberships"},
       {"team_memberships", "teams"} >>

Drops ==
    << {},
       {"auth_sessions", "auth_password_credentials", "users"},
       {"workspaces", "organizations"},
       {"workspace_memberships"},
       {"team_memberships", "teams", "workspace_memberships_id_workspace_unique"} >>

-----------------------------------------------------------------------------

\* `done` are the migrations executed, `recorded` those that the metadata table
\* follows; both are among those to do.
NoWork == [todo |-> {}, done |-> {}, recorded |-> {}]

Init ==
    /\ schema = {}
    /\ applied = {}
    /\ lock = None
    /\ phase = [r \in Runner |-> "idle"]
    /\ command = [r \in Runner |-> None]
    /\ work = [r \in Runner |-> NoWork]

Goto(r, p) == phase' = [phase EXCEPT ![r] = p]

Over == {"idle", "exited 0", "exited 1"}

\* The schema and the record as the runner's transaction sees them.
Visible(r) ==
    IF command[r] = "latest" THEN schema \cup UNION {Creates[m] : m \in work[r].done}
                             ELSE schema \ UNION {Drops[m] : m \in work[r].done}

Recorded(r) ==
    IF command[r] = "latest" THEN applied \cup work[r].recorded
                             ELSE applied \ work[r].recorded

Release(r) == lock' = IF lock = r THEN None ELSE lock

\* A new process.
StartCommand(r) ==
    /\ phase[r] \in Over
    /\ Goto(r, "connecting")
    /\ \E c \in {"latest", "down", "status"} : command' = [command EXCEPT ![r] = c]
    /\ UNCHANGED <<schema, applied, lock, work>>

\* executeCommand: the current schema is read first.
ExecuteCommand(r) ==
    /\ phase[r] = "connecting"
    /\ Goto(r, IF command[r] = "status" THEN "listing" ELSE "locking")
    /\ UNCHANGED <<schema, applied, lock, command, work>>

\* The status is read without the lock.
GetMigrationStatus(r) ==
    /\ phase[r] = "listing"
    /\ Goto(r, "closing")
    /\ UNCHANGED <<schema, applied, lock, command, work>>

\* Mutant: nobody waits.
AcquireMigrationLockFreely(r) ==
    /\ phase[r] = "locking"
    /\ Goto(r, "reading")
    /\ lock' = r
    /\ UNCHANGED <<schema, applied, command, work>>

\* The lock belongs to the transaction, and ends with it.
AcquireMigrationLock(r) ==
    /\ phase[r] = "locking" /\ lock = None
    /\ Goto(r, "reading")
    /\ lock' = r
    /\ UNCHANGED <<schema, applied, command, work>>

GetState(r) ==
    /\ phase[r] = "reading"
    /\ Goto(r, "migrating")
    /\ work' = [work EXCEPT ![r].todo =
                   IF command[r] = "latest" THEN Migration \ applied
                   ELSE IF applied = {} THEN {} ELSE {Max(applied)}]
    /\ UNCHANGED <<schema, applied, lock, command>>

\* The migration to execute next, and whether PostgreSQL will.
Due(r) == Min(work[r].todo)

Executable(r, m) ==
    IF command[r] = "latest"
    THEN Creates[m] \cap Visible(r) = {} /\ Needs[m] \subseteq Visible(r)
    ELSE /\ Drops[m] \subseteq Visible(r)
         /\ \A k \in Migration \ {m} :
               Creates[k] \cap Visible(r) # {} => Needs[k] \cap Drops[m] = {}

Execute(r) ==
    /\ phase[r] = "migrating" /\ work[r].todo # {} /\ work[r].done = work[r].recorded
    /\ Executable(r, Due(r))
    /\ work' = [work EXCEPT ![r].done = @ \cup {Due(r)}]
    /\ UNCHANGED <<schema, applied, lock, phase, command>>

Record(r) ==
    /\ phase[r] = "migrating" /\ work[r].done # work[r].recorded
    /\ work' = [work EXCEPT ![r].recorded = @ \cup {Due(r)}, ![r].todo = @ \ {Due(r)}]
    /\ UNCHANGED <<schema, applied, lock, phase, command>>

Commit(r) ==
    /\ phase[r] = "migrating" /\ work[r].todo = {}
    /\ schema' = Visible(r)
    /\ applied' = Recorded(r)
    /\ Release(r)
    /\ work' = [work EXCEPT ![r] = NoWork]
    /\ Goto(r, "closing")
    /\ UNCHANGED command

\* Mutant: the statements of a run are no transaction.
RollbackNothing(r) ==
    /\ schema' = Visible(r)
    /\ applied' = Recorded(r)
    /\ Release(r)
    /\ work' = [work EXCEPT ![r] = NoWork]
    /\ UNCHANGED command

Rollback(r) ==
    /\ Release(r)
    /\ work' = [work EXCEPT ![r] = NoWork]
    /\ UNCHANGED <<schema, applied, command>>

\* Mutant: the error in the result of the Migrator goes unnoticed.
FailUnnoticed(r) == Rollback(r) /\ Goto(r, "closing")

\* runMigration throws what the Migrator returns as an error.
Fail(r) == Rollback(r) /\ Goto(r, "failing")

\* Mutant: the wait for the lock has no bound.
LockTimeoutNever(r) == phase[r] = "locking" /\ lock = r /\ Fail(r)

LockTimeout(r) == phase[r] = "locking" /\ lock # None /\ Fail(r)

\* A statement fails or times out, the connection is lost, the process killed.
StatementFails(r) ==
    phase[r] \in {"connecting", "listing", "locking", "reading", "migrating"} /\ Fail(r)

\* The pool is closed; if that fails, so has the command.
CloseDatabase(r) ==
    /\ \/ phase[r] = "closing" /\ (Goto(r, "exited 0") \/ Goto(r, "exited 1"))
       \/ phase[r] = "failing" /\ Goto(r, "exited 1")
    /\ UNCHANGED <<schema, applied, lock, command, work>>

\* What ends in bounded time, by the timeouts of statements and of the lock.
Step(r) ==
    \/ ExecuteCommand(r) \/ GetMigrationStatus(r) \/ AcquireMigrationLock(r) \/ LockTimeout(r)
    \/ GetState(r) \/ Execute(r) \/ Record(r) \/ Commit(r) \/ CloseDatabase(r)

Next == \E r \in Runner : StartCommand(r) \/ Step(r) \/ StatementFails(r)

Spec == Init /\ [][Next]_vars

FairSpec == Spec /\ \A r \in Runner : WF_vars(Step(r))
-----------------------------------------------------------------------------
(* Properties.                                                              *)

\* The metadata never lies about the schema: what is recorded is a prefix of
\* the registered migrations, and there are exactly the tables and keys of
\* that prefix, whatever runs met or failed.
SchemaMatchesRecord ==
    /\ \E n \in 0..5 : applied = 1..n
    /\ schema = UNION {Creates[m] : m \in applied}

\* DATABASE.md: the lock prevents concurrent processes from racing.  A run
\* never meets a table that another one has created or dropped since it read
\* which migrations are pending.
NoConflict ==
    \A r \in Runner :
        phase[r] = "migrating" /\ work[r].todo # {} /\ work[r].done = work[r].recorded =>
            Executable(r, Due(r))

\* DATABASE.md: failures exit non-zero, and a release is ready once "latest"
\* has succeeded: a command goes on to report success only when the migrations
\* are all applied at that moment.
SuccessMeansLatest ==
    [][\A r \in Runner :
         command[r] = "latest" /\ phase[r] # "closing" /\ phase'[r] = "closing" =>
            applied' = Migration]_vars

\* Every command ends, even if the lock is taken again and again by others.
CommandsEnd == \A r \in Runner : phase[r] = "connecting" ~> phase[r] \in Over

Versioned == INSTANCE SchemaVersion WITH Last <- 5, version <- Cardinality(applied)

\* Each run changes the version of the schema in one step or not at all.
ImplementsSchemaVersion == Versioned!Spec
=============================================================================
