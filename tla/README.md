# TLA+ models of the customer-ops platform

These modules describe the server side of the monorepo in `src/`: the access,
team, tenancy, authentication and migration code that works on one PostgreSQL
database, the API process that serves it from the loading of its configuration
to its exit, what it answers and logs, and the jobs that go through BullMQ and
Redis from `enqueue` to the worker process. TLC checks the models on small
instances; TLAPS proves the most important results for any number of
users, workspaces and requests.

- [1. Inventory](#1-inventory): the parts of the system and what is hard in each
- [2. Modules](#2-modules): how state and actions correspond to the code
- [3. Checks](#3-checks): each run, its bounds and what it shows
- [4. Proofs](#4-proofs)
- [5. Abstractions and assumptions](#5-abstractions-and-assumptions)
- [6. Plan](#6-plan)

How to run, in this directory:

    tlc -config AccessOwners.cfg MCAccess
    tlapm WorkspaceProofs.tla

`PROJECT.json` lists for every definition the lines it translates, the runs with
their properties, and for each property a mutant of the code that breaks it. A
definition commented `Mutant:` is such a mutated form; nothing else uses it.

## 1. Inventory

### Workspace access: `packages/access`, `apps/api/src/access`

*State*: `workspace_memberships` (role and status by workspace and user).
*Operations*: `addMembership`, `updateMembership`, `bootstrap` (organization,
first workspace and owner in one transaction), `resolveWorkspaceAccess`, lists.
*Interaction*: two guards resolve the actor's context and check a permission
before the service opens its transaction, which never reads the actor's role
again. Requests meet each other only on rows. *Hard*: two owners who demote each
other; reads without a lock that decide about writes; users disabled meanwhile;
unique keys that decide races; ids of other tenants named by clients.
*Correct when*: a workspace always has an active owner; a change that touches
an owner was authorized for that; every operation takes effect as one step.

### Tenancy: `packages/tenancy`

*State*: `organizations`, `workspaces`. *Operations*:
`createOrganizationWithInitialWorkspace` (two inserts in one transaction), renames
and disabling (one UPDATE each, of one column), reads. *Interaction*: the access
and team services decide by the two statuses. *Hard*: a second insert that fails,
renames racing a disabling, readers between two statements. *Correct when*: an
organization that anyone has been told of has a workspace, nothing disabled
comes back, rows are never moved. The workspace that the creation makes has no
member, so nobody can enter it; no application calls it.

### Teams: `packages/teams`, `apps/api/src/teams`

*State*: `teams`, `team_memberships`. *Operations*: `createTeam`, `updateTeam`,
`addTeamMember`, `updateTeamMember` and lists. *Interaction*: shares `users` and
`workspace_memberships` with the access service. *Hard*: an activation depends
on three rows that three other operations change; a deactivation must not.
*Correct when*: at the step that makes a team membership active, its team, its
workspace membership and its user are active and belong to one workspace.

### Authentication: `packages/auth`, `apps/api/src/auth`

*State*: `users`, `auth_password_credentials`, `auth_sessions`. *Operations*:
`register` (one transaction), `login` (read, conditional rehash, insert, each on
its own), `logout`, `logoutAll` (one UPDATE each), `authenticateSession`. *Hard*:
a rehash racing a password reset; duplicate registrations; two UPDATEs on the
same session rows, one of which may fail. *Correct when*: a session whose end
was reported is never accepted again; accounts appear whole and once.

### Database package: `packages/database`

*Migrations*: the `latest | down | status` command around Kysely's Migrator,
with an own adapter for the advisory lock. *Hard*: several deployments at once,
failures between statements, exit codes. *Correct when*: the metadata table
tells the truth about the schema. *Transactions*: `withTransaction` at READ
COMMITTED with lock and statement timeouts. *Runtime*: a pool with a limit, a
readiness check raced with a timer, a close that all callers share.

### API process: `apps/api/src/main.ts`, `bootstrap.ts`, `database`, `health`

*State*: the Nest application, its HTTP server and the requests in flight.
*Operations*: bootstrap, which undoes what it has done if it fails; Nest's
shutdown for a signal or `application.close()`, whose last hook closes the
database; readiness. *Hard*: a signal while the server is about to listen, a
failing start that meets a signal, readiness statements that outlive their
check. *Correct when*: no accepted request loses the database, the pool is
closed on every path, readiness answers in time, a shutdown ends.

### Queue package and worker process: `packages/queue`, `apps/worker`

*State*: promises shared by repeated calls (`startPromise`, `stopPromise`,
`gracefulClosePromise`, `forcedClosePromise`), the state of the application, one
BullMQ worker and its Redis connection. *Operations*: start (health check,
creation, readiness), stop (forced during a start; otherwise pause, graceful
close raced with a timeout, forced close), the lifecycle that races start and
signals, bootstrap with its exit code. *Hard*: everything awaits something, and
a signal may arrive at every await. *Correct when*: no start completes after a
stop began, nothing stays open, the exit code is truthful, a shutdown ends.

### Jobs: `packages/queue` from the producer to the registry's processor

*State*: the producer's connection and `closePromise`, BullMQ's queue in Redis,
each worker's runs and its map `startedAt`. *Operations*: `enqueue` with its
validated options, `close`, the registry's processor, the listeners. *Hard*:
commands sent again after a lost connection, a caller's own retry under the same
job id, workers that crash or lose a job's lock while its handler runs on,
calls that wait while the producer is closed. *Correct when*: a job whose
`enqueue` resolved ends; no call hangs; one job id is one job.

### Configuration: `packages/config`

*State*: none; a function of the environment, the directories above the working
directory and their `.env` files. *Operations*: finding the one `.env` file,
completing the environment from it, validating everything at once. *Hard*: which
file is found and which value wins; what production must never take from a file.
*Correct when*: every setting has the value that its precedence gives it, and
what does not make a whole valid configuration starts nothing. Two documents
promise more, that production loads no file at all: see the finding in section 3.

### Requests, errors and logs: `apps/api/src/{runtime,errors}`, `packages/logger`

*State*: the AsyncLocalStorage store of each request, its response, the log.
*Operations*: the request-context middleware, `ApiExceptionFilter`, the logger and
its redaction. *Hard*: requests interleave at every await, may be pipelined on one connection, and
share one logger whose level may drop what they log; object graphs that share nodes
or are cyclic, errors with causes. *Correct when*: what a client is told of an
exception can be found in the log under the same ids and status at every level that
lets it through, and what is written and told has been redacted.

### Everything else

The web application, the stub packages, the queue's test support, and of the HTTP
surface the routes, cookies and CORS: listed in `PROJECT.json` with the reason why
they are not modelled.

## 2. Modules

| module | what it is |
| --- | --- |
| `Database` | the tables that access and teams share, row locks, the operators' statements |
| `Policy` | roles, permissions, and when a user has access to a workspace |
| `Access` | the access service, one action per SQL statement |
| `MembershipRules` | what it promises: each operation one step; `Access` implements it |
| `AccessInvariant` | its inductive invariant |
| `Teams`, `TeamRules`, `TeamsProofs` | the team service, what it promises, and the proof that it keeps that |
| `WorkspaceSystem` | both services on the same rows |
| `WorkspaceProofs` | proofs about the access service, alone and beside the team service |
| `Auth`, `AuthRules`, `AuthProofs` | the same for the authentication service |
| `Migrations`, `SchemaVersion`, `MigrationsProofs` | the same for the migration command |
| `DatabaseRuntime` | the pool, the readiness statement, the shared close |
| `ApiProcess` | bootstrap, Nest's shutdown, requests in flight |
| `Configuration` | the API's configuration as a function of its surroundings |
| `ApiStart` | `main.ts`: the configuration, and with a valid one `ApiProcess` |
| `ApiRequests` | request contexts, the exception filter and the log, for interleaved requests |
| `Redaction` | `redactSensitiveValues` on object graphs, and what it has to yield |
| `ApiProofs` | proofs about the API process, its configuration, its answers and its log |
| `Tenancy`, `TenancyRules`, `TenancyProofs` | the tenancy service, what it promises, and the proofs |
| `JobDelivery`, `JobDeliveryProofs` | the producer, the queue and the workers' runs, and the proofs |
| `QueueWorker` | `createQueueWorker`, its connection, the check of Redis |
| `WorkerProcess` | the worker application, its lifecycle and bootstrap |
| `WorkerInvariant`, `WorkerProofs` | their inductive invariant and the proofs |
| `MC*` | symmetry sets and what else a configuration needs |

**Database.** A variable per table holds its *committed* rows, keyed as the
unique constraints key them (`membership[w][u]`, `teamMember[t][<<w, u>>]`).
`held[t]` is the set of row locks of transaction `t`, each a row and one of
PostgreSQL's four strengths, with PostgreSQL's conflict table. A lock is awaited
by the action not being enabled. What a transaction has written appears at its
commit; until then it shows only through its locks and, for inserts, through
`InsertPending`.

**Access.** `phase[r]` says which statement of request `r` is next, `input[r]`
what it was asked and the role it acts with. `ResolveAccess` is the guards, the
parsers and the permission checks; then an update runs `LockWorkspace` (FOR
UPDATE), `FindTarget`, `CountActiveOwners` when it takes an active owner away,
`UpdateRow`, `CommitUpdate`. An addition runs `FindActiveUser` (FOR SHARE),
`InsertMembership` (which waits for an uncommitted duplicate), the foreign key's
`CheckWorkspaceReference`, `CommitAdd`. A bootstrap runs `FindActiveUser` and
three inserts and commits them together. `Rollback` ends any of them anywhere.

**Teams.** The same shape: an activation locks team, membership and user FOR
SHARE, one after the other; a deactivation and a PATCH of a team take no lock
before they write. `LockMember` and `LockUser` are the one statement of
`resolveEligibleWorkspaceMember`: it locks the rows in turn, and a row that
changed while it waited is judged again as it then is.

**Auth.** `phase`, `input` and `seen` as above; a login is not a transaction, so
everything may happen between its read, its rehash and its insert. Logout and
logout-all are one UPDATE each: it finds its rows, locks them one by one in any
order (`LockSession`), passes over rows revoked meanwhile, and commits. `loggedOut`
and `chosen` are history variables: the sessions whose end a client has been told
of, and the password last chosen for each account, by its registration or by an
operator, which tells a reset from a rehash that undoes one.

**Migrations.** A runner is one process of the command. `Creates`, `Needs` and
`Drops` are the five registered migrations; the run executes and records one
migration after the other under the lock and commits once.

**DatabaseRuntime, ApiProcess.** `statement[c]` is what became of the last statement
(or transaction) of a request or check, `closePromise` the shared close; `handling`
holds the requests in flight and `shutdown[x]` how far Nest's shutdown is, once for
a signal and once for bootstrap's `application.close()`. A check leaves `handling`
by its timer while its statement goes on (`CheckTimeout`). Nest's part is external:
the server is closed and waits for `handling`, then `OnApplicationShutdown` runs.

**Configuration, ApiStart.** A directory is its distance from the working directory;
`marked` are those that look like a repository's root. Three variables stand for the
kinds there are: `NODE_ENV` (a fixed set), `WEB_ORIGIN` (required, and related to
another), `DB_POOL_MAX` (a bounded number with a default). `LoadApiConfig` yields the
set of the one configuration there is, or the empty set for a `ConfigurationError`.

**Redaction, ApiRequests.** A graph gives each node its kind and own properties; a
text is told apart by whether it holds a credential. `RedactValue` is the recursive
walk as a recursive function: of the set `seen` and the value, to the leaves that it
writes and the set as it leaves it. `RedactProperty` writes the name of an error as
its `type` without looking at it, as `redactError` does. `Reference` says without a
walk what stands at the end of each path. `level` is LOG_LEVEL: `Write` adds a record
only if it is not below it. `HandlerReturns` answers with 200, or with a 503 that a
handler has set itself, as readiness does; `NormalizeError` keeps the exception itself
as `unexpected`, so that `throw undefined` (`None`) passes for handled. `before[r]` is
the request ahead of `r` on its connection: a response behind one that is not sent yet
is `queued`, and its finish listener may run in the store that the one ahead finished
in (`FinishStores`). `store[r]` is the store that the continuations of request `r` see;
`records` is the log as a bag, so that a record written twice counts twice.

**Tenancy.** A creation is `Create` (validation), two inserts that only its
transaction sees, and `CommitCreation`; `found` and `listed` remember what callers
have been told.

**JobDelivery.** `call[c]` is how far an `enqueue` has come (`sent`, `added` to the
queue, settled) and whether its connection was `lost` on the way; `job[id]` is
BullMQ's record with its attempts, stalls and lock. A run of the processor is in
`runs` until it ends, whether its worker still holds the job's lock (`HoldsLock`)
or not. `link` and `closing` are the producer's connection and shared close; a `link`
that is down is `connecting` or `retrying`, by whether an even or odd number of
attempts in a row has failed: a loss is the first, and every second rejects what waits.

**QueueWorker, WorkerProcess.** A variable per promise tells how far its function
has come; an action is what runs between two awaits. `CallForcedClose` and
`CallGracefulClose` are the synchronous parts of `close(true)` and `close(false)`,
with the promises they share. `Signal` runs the synchronous part of `stopOnce`
at any moment while the listeners are registered.

## 3. Checks

States are distinct states found; every run takes less than three minutes on two
cores.

| run | instance | states | shows |
| --- | --- | --- | --- |
| `access_owners` | 1 workspace, 3 users, owner and admin, 2 requests | 339 k | the last owner stays (`EveryWorkspaceHasActiveOwner`), changes are authorized |
| `access_tenants` | 2 workspaces, 2 users, 2 requests | 165 k | `AccessInv`, scoping by workspace, `ImplementsMembershipRules` |
| `teams` | 2 teams in 2 workspaces, 1 user, 2 requests, users disabled | 1.1 M | `ImplementsTeamRules` against ids of other teams and workspaces and changes upstream |
| `system` | 1 access request, 1 team request, 2 users, user and tenant disabled, fairness | 500 k | `NoDeadlock`, `RequestsDrain`, the team rules while memberships change |
| `auth` | 2 accounts, 2 passwords, 2 sessions, 3 requests, clock 0..1 | 564 k | `LoggedOutStaysOut`, `ImplementsAuthRules`: duplicates, rehash against reset |
| `worker` | 3 jobs, 2 at a time, fairness | 5 k | `WorkerInv` and the properties below, `ShutdownEnds` |
| `migrations` | 5 migrations, 2 runners, fairness | 5 k | schema and record agree, no races, `CommandsEnd` |
| `api` | all environments, 3 directories, 2 requests, 2 checks, 1 connection | 119 k | `StartsAsConfigured`, `NoRequestCutOff`, `EndsWithPoolClosed`, `ReadinessAnswers`, `ShutdownEndsFairly` |
| `tenancy` | 2 organizations, 2 workspaces, 2 names, 2 creations | 0.5 k | `KnownOrganizationsHaveWorkspaces`, `ImplementsTenancyRules` |
| `jobs` | 2 calls, 2 workers, 1 given job id, 2 faults, fairness | 155 k | `AcknowledgedJobsEnd`, `EnqueueSettles`, `OneJobPerJobId` and the rest |
| `requests` | 4 log levels, 2 requests, graphs of 2 nodes and 4 keys | 449 k | `AnswersTraceable`, `NothingSecretLeaves`, `RedactionKeepsTheRest` |
| `production_dotenv` | the instance of `api` | 21 k until violated | a production that is configured by a file (`ProductionLoadsNoFile`) |

**Why the bounds are enough.** A race on a row needs two transactions; a circle of
waiting between the two services needs one of each. More requests of either are left to
the proofs of section 4, which are of any number; the instance with a third is too large
to check liveness in. Three users give two owners and a
newcomer, the least for which counting owners can go wrong in both directions. Two
workspaces and two teams are what an id can be confused between. Three requests on two
sessions let a logout meet a logout-all while a login adds a session; `Ttl` and
`Horizon` of 1 let a session expire at the last tick. `Administered` names the users and
workspaces whose status changes in a configuration: where it is empty, that dimension is
explored by another run. One connection for three clients makes every one of them wait
for another; a request uses the database up to `MaxUses` = 2 times, once before and once
after a shutdown can begin. Three directories (`Top` = 2) put a repository's root below,
at and above a `.env` file; the two kinds of file differ in whether they themselves set
`NODE_ENV`. Once a configuration has been handed out, what it was is forgotten. `Role`
is cut to the roles whose permissions differ for the property at hand
(`membership.manage_owner`: owner against admin; `team.manage`: owner against agent);
requests never distinguish the others. Two creations race for names and ids in
`tenancy`; its symmetric values make the instance small. In `jobs`, `Offered` are the
inputs of the calls: the same job id with one attempt or two, a name that no handler is
registered for, a refused argument, and no id, in which case (`Alone`) it is the only
call, with a new id for each of the at most `MaxFaults` + 1 times it is sent
(`MaxGenerated` = 3). Two faults are what a stalled job needs to fail for good, or a
lost answer and a crash. Evidence of ended jobs is never removed. In `requests`, two
nodes and the keys `message`, `name`, `cause` and `token` give shared nodes, cycles and
a sensitive key below an error's cause; what stands where is cut as `LoggedGraphs` says,
and off the root no name of an error holds anything to hide; two requests are
one behind the other on a connection or on two; what Nest logged during the start is not looked at
any more once the application serves.

**Properties.**

- `EveryWorkspaceHasActiveOwner` (AUTHORIZATION.md, last-owner rule).
- `ChangesAuthorized`: whoever commits a change of a membership row that was or
  becomes owner-level acts with a role that may manage owners, although the row
  is read without a lock on it.
- `ImplementsMembershipRules`, `ImplementsTeamRules`, `ImplementsAuthRules`,
  `ImplementsSchemaVersion`: refinement of the one-step specifications.
- `NoDeadlock`: whenever requests are under way, one of them finds the row lock and
  the unique key of its next statement free (`AccessReady`, `TeamReady`); so
  PostgreSQL's deadlock detector is never needed between the two services.
- `RequestsDrain`: if requests stop arriving, all that are under way end, with
  no timeout. (With arrivals going on, a waiter for FOR UPDATE may be overtaken.)
- `LoggedOutStaysOut`: see Authentication above.
- `NoStartAfterStop`, `NothingLeftOpen`, `JobsCutOffOnlyAfterTimeout`,
  `ExitCodeTells`, `ShutdownEnds`: QUEUES.md, startup and shutdown.
- `NoRequestCutOff`: neither the close of the pool nor the end of the process meets
  a request that was accepted before the server closed. (A server that a signal
  finds about to listen may listen after its close; what it accepts then may fail.)
- `EndsWithPoolClosed`, `ReadinessAnswers`, `ShutdownEndsFairly`: DATABASE.md, runtime
  and readiness.
- `StartsAsConfigured`: OBSERVABILITY.md, precedence of values; what a configuration
  says follows from its surroundings, and what is refused is refused for a reason.
- `KnownOrganizationsHaveWorkspaces`, `ImplementsTenancyRules`: TENANCY.md.
- `AcknowledgedJobsEnd`, `EnqueueSettles`, `RejectedMeansNotAdded`, `OneJobPerJobId`,
  `TimingsOfRunningJobs`: QUEUES.md, jobs and options. A rejected call whose connection
  was lost may have added its job; with a job id, trying again is then safe.
- `AnswersTraceable`: OBSERVABILITY.md, contexts and errors. What answers an exception
  is found in the log exactly once, with the answer's id, correlation id and status: as
  `api.error.unhandled` at every level, as `api.error.handled` at all but "error". A
  readiness answer of 503 has no error record, and no id in its body. The completion
  record is found at "info" and "debug", for a request alone on its connection.
- `NothingSecretLeaves`, `RedactionKeepsTheRest`: OBSERVABILITY.md, redaction. Records
  and the details and messages of answers hold no text to hide and nothing under a
  sensitive key, but for the names of errors; and everything else is still there.
- `SchemaMatchesRecord`, `NoConflict`, `SuccessMeansLatest`, `CommandsEnd`:
  DATABASE.md, migrations and deployment.

**Finding.** `ProductionLoadsNoFile` is what OBSERVABILITY.md:5 ("production never loads
a local dotenv file") and ARCHITECTURE.md:5 ("production reads the process environment
only and never depends on an `.env` file") say, and SECURITY.md:5 repeats. `packages/config/src/index.ts:332` decides by the `NODE_ENV` that
the process was started with: started without one, beside a `.env` that says
`NODE_ENV=production`, it loads that file and runs in production on its settings.
`production_dotenv` finds this; `StartsAsConfigured` states the rule of the code.

**Fairness.** `WorkspaceSystem`: weak fairness of the next statement of each
request, because PostgreSQL wakes the waiters of a released row and the services
await each statement; none of arrivals, rollbacks or operators. `WorkerProcess`:
weak fairness of the continuations (Node runs them once what they await has
settled; the shutdown timer fires) and of what the clients' options bound (the
health check, forced closes, readiness once its connection has ended); none of
jobs, graceful closes, QUIT or readiness on a live connection. `Migrations`: weak
fairness of a command's steps, which statement and lock timeouts bound.
`ApiStart`: weak fairness of the readiness checks alone, which is all that
`ReadinessAnswers` needs; `ShutdownEndsFairly` has `ApiFairness` as its hypothesis:
handlers, continuations and what the pool's timeouts bound (a wait for a connection,
a statement), none of connecting. `JobDelivery`: Redis answers a connection that is
up, ioredis goes on trying to connect (with or without success), workers pick jobs
up and handlers end; none of closing, of QUIT, or of any particular connection's
recovery. `Tenancy` and `ApiRequests` state safety only.

**Deadlock** is checked except in `worker` and `api`, where the process exits, and in
`jobs` and `requests`, whose calls, faults and requests are bounded.

## 4. Proofs

**Access** (`WorkspaceProofs`, for any finite set of users and any sets of
workspaces, roles that include owner, and requests):

- `AccessInvariant`: `AccessSpec => []AccessInv`, and from it
  `AccessTypeCorrect` and `OwnersRetained`;
- `AccessImplementsRules`: every step is a step of `MembershipRules` or a stutter;
- `AccessChangesAuthorized`.

That every workspace has an active owner is not inductive: a request that has
counted two owners and not yet written would break it in the next state. `AccessInv`
adds for every phase which earlier check *still* holds of the committed tables
and which lock makes it so: from `workspaceLocked` on, the request holds FOR
UPDATE on its workspace (`UpdateLocked`); therefore the target row it has read
(`TargetCurrent`) and the owners it has counted (`CountCurrent`) are as they
were, since every other writer of that workspace's rows needs the same lock or,
inserting, a FOR KEY SHARE that conflicts with it; an insert holds FOR SHARE on an
active user (`UserEligible`); and two uncommitted inserts never have one key
(`Apart`, `KeyFree`). `LocksCompatible` makes holding a lock mean something. The
proof has one lemma per action, each showing `RequestInv` for the request that
moves and that the others are undisturbed (`Undisturbed`, `OneMoves`).

**Access and teams on one database** (`WorkspaceProofs`, for any number of requests of
both services and of the operators): `SystemInvariant`, and from it

- `SystemNeverDeadlocks`: `NoDeadlock`;
- `SystemImplementsTeamRules` and `SystemImplementsMembershipRules`: each service keeps
  its rules beside the other; hence `SystemOwnersRetained`, `SystemChangesAuthorized`.

`SystemInv` is both services' invariants, over the locks of all transactions, and
`LocksExact`: a transaction holds the locks of the statements it has run, and *no others*.
The invariants of the services only say which locks a request has; that nothing circular
waits needs to know which it has not. If nobody could go on (`Stuck`), nobody would have
written yet, because nothing stands between a write and its commit; so no row of a team
membership would be locked, no unique key would be pending, and what an activation reads
would be locked by readers only, which it does not wait for. With no activation under way
an update could have the row of its membership; with no update holding a workspace, nothing
would be left to wait for (`NobodyHasWritten`, `LocksWhileStuck`, `NobodyIsStuck`).

That nobody waits in a circle leaves open whether requests come to their end.
`SystemRequestsAdvance` (`RequestsOnlyAdvance`): a step begins one request, or brings one
strictly closer to its end (`StatementsLeft`), and leaves the others as they are. That a
statement whose locks are free is one that can be executed, and the fairness, are what
TLC adds to these in `RequestsDrain`. Lastly `SystemTenantsStayApart` and
`SystemRowsAreKept` carry over what is proved of the team
service below: neither service, beside the other, deletes a membership, a team or a team
membership, or ties a team of one workspace to a membership of another.

The team service stands in the composed system once as `WorkspaceSystem` instantiates it
and once as `TeamsProofs` does; `SameTeamService` shows that the two are the same.

**Worker** (`WorkerProofs`, for any set of jobs and any concurrency):
`WorkerInvariantHolds` (`WorkerSpec => []WorkerInv`) and from it `WorkerTypeCorrect`,
`ProcessLeavesNothingOpen`, `ExitCodeIsTruthful` and `NothingStartsAfterStop`.
`WorkerInv` relates the promises of four functions to each other: who owns the
connection and who has ended it (`ConnectionOwned`), what the start has left to
the stop (`StartFlow`), what each stage of the stop has closed (`StopFlow`), and
what the lifecycle and bootstrap conclude (`OutcomeFlow`). `JobsAreNotCutOff` needs
one fact more, which is inductive beside it: a queue worker whose start was reported
has become ready (`StartedIsReady`), so that the failure of that wait can no longer
close it.

`ShutdownIsNeverStuck` and `ProcessOnlyAdvances` are the safety half of `ShutdownEnds`.
After a signal or a failed start, and until it exits, the process has a continuation that
can run (`CanContinue`) or waits for what the options of its clients bound (`CanSettle`);
`EndInv` is what this needs beyond `WorkerInv`. And no promise is ever taken back and no
flow gone through again (`Stage` only rises), so that only jobs repeat.

**Teams** (`TeamsProofs`, for any users, workspaces, teams and requests):
`TeamsInvariant`, from it `TeamsTypeCorrect`, and `TeamsImplementRules`. That the
three rows of an activation are active at its commit follows from what the request
holds in each phase: `TeamCurrent`, `MemberCurrent` and `UserCurrent` say that what
was read FOR SHARE is still so, because every writer of these rows needs a mode that
conflicts with FOR SHARE (`SharedAgainstWriters`); `RowCurrent` says that the team
membership found by its id belongs to the team of the path. A deactivation carries only
the last and needs no more.

`TenantsStayApart` and `TeamsAreKept` follow from `TeamsImplementRules` alone, that is,
from what each operation does in the one step in which it takes effect (`RulesKeepRows`,
`RulesKeepTenantsApart`): a row of a team membership joins a team and a workspace membership
of one workspace, and nothing deletes a team or a member or moves it to another workspace.

**Auth** (`AuthProofs`, for any accounts, tokens, requests and lifetimes):
`AuthInvariant`, from it `LogoutsHold`, and `AuthImplementsRules`. `AuthInv` says for
an UPDATE in progress that each session it covers has ended, is locked by it, or is
still ahead of it (`RevocationCovers`, `LocksHeld`); for a login, that the hash it
carries is of the password it was given, so that a rehash that still finds this hash
changes no password (`LoginKnown`); and that accounts are whole (`AccountsWhole`).

**Migrations** (`MigrationsProofs`, for any number of runners): `MigrationsInvariant`,
from it `RecordIsTrue`, `RunsDoNotRace` and `SuccessIsLatest`, and
`MigrationsImplementVersion`. The committed state is always one version `n`: the first
`n` migrations recorded, and their tables there. What the holder of the lock has done on
top is a run of consecutive migrations (`UpTo`), or the undoing of the last (`OneDown`).
`Registered` is what this asks of the five migrations themselves: each drops what it
creates, none creates what another one does, each needs only earlier ones.
`CommandsAreNeverStuck` and `CommandsAdvance` are the safety half of `CommandsEnd`: the
lock belongs to a run that is at work and can go on, however others failed (`LockIsAlive`),
a migration that is due can be executed (`DueIsExecutable`), and each step of a command
leads it to a later phase or executes or records a migration that it had not.

**Tenancy** (`TenancyProofs`, for any ids, names and requests): `TenancyInvariant`, from
it `OrganizationsArePopulated`, and `TenancyImplementsRules`. The ids of an open creation
are free (`IdsFree`), so its two rows appear together; renames and disabling keep the
rows and their parents (`Populated`).

**API process and configuration** (`ApiProofs`, for any requests, checks, connections and
depth of directories, over `StartSpec`, so from the loading of the configuration on):
`ApiInvariant`, from it `ApiTypeCorrect`, `RequestsAreServed` and `EndsAreTrue`. `ApiInv`
alone is not inductive; `ServerFollows` adds where the server can be: it opens only in a
process that has started, and is open no more once any shutdown has begun.
`ConfiguredAsGiven` shows by `FoundIsNearest` that the bounded search for a `.env` file
yields the nearest one below the first root or none, and by `LoadsWhatIsGiven` that the
merge and the schema yield what the precedence of the sources says.

`ShutdownIsNeverStuck` and `ShutdownOnlyAdvances` are the safety half of
`ShutdownEndsFairly`. From the first signal or failure until the end of the process,
something can go on that waits for nobody (`CanGoOn`): the shutdown waits for the server,
the server for requests, these for the pool, and no one of them for one before it. And
what a shutdown has done is never taken back (`Stage`); while it waits for the server no
request joins those in flight, each of which has ever less to do (`LeftToDo`).

**Redaction** (`ApiProofs`, for any finite sets of objects and keys, and every graph over
them): `RedactionIsReference`, that the walk yields what the reference says, and
`RedactionIsSafe`, that nothing it yields is a credential, but for the name of an error,
or stands below a sensitive key.
What a walk that starts with the set `seen` yields is first said without walking, as what
stands at the ends of its trails (`Yield`). `ObjectIs` and `UnionOfOneMore` show for one
object that its loop over the properties, which hands `seen` from one to the next, puts
their yields together and leaves `seen` as it was. `RedactValueIs` does the recursion
without induction: if the walk and the yield ever differed, they would differ for some
largest `seen`, and there every object below has a larger one, for which they agree.

**Requests and the log** (`ApiProofs`, for any requests, correlation ids, metadata and
thrown graphs, at every log level): `RequestInvariant`, and from it `AnswersAreTraceable`,
`NothingSecretIsTold` and `RestIsKept`, the three properties of the run. `RequestInv` says
for each request what its store and its response hold of it (`Known`), which of its error
records the level has let through, once and with the response's status and correlation id
(`ErrorTold`), that its completion record is there if it was to be written (`CompletionTold`)
and in which store its finish listener ran (`FinishedIn`): its own, or that of a request it
was pipelined behind. Every record's leaves are those of the redacted graph (`Redacts`),
which `RedactionIsReference` and `RedactionIsSafe` then speak of.

**Jobs** (`JobDeliveryProofs`, for any calls, ids, workers and faults): `JobsInvariant`,
from it `RejectedLeavesNothing`, `JobIdsNameOneJob` and `TimingsStaySmall`. `Traced` says
that the caller behind each job has heard or will hear of it, unless its connection was
lost; `NamedAsGiven`, that a job has the id it was given; `Counted`, that every time a
job was begun is accounted for by a failed attempt, a stall, or the run that holds its
lock; `RunsLocked`, that a run without the lock is one that stalled.
`AcknowledgedJobsAreKept`, `JobsOnlyGoForward` and `JobsBeginBoundedly` are the safety half
of `AcknowledgedJobsEnd`: an acknowledged job has ended, waits, is in the hands of the
worker that holds its lock, or is one that the stall check will find; an ended one stays as it ended; and a
job is begun at most once for each of its attempts and each stall it may have.

**Assumptions** are the modules' `ASSUME`s. The proofs use: users are finitely many (they
are counted); a request is a transaction, and the roles include owner; `None` is no row,
status, role, request, runner, job id, text or thrown value (each module's `NoneAssumption`,
`NoTeamAssumption`, `TeamRowAssumption`, `ConfigurationAssumption`, `RootAssumption`,
`IdAssumption`, `ExceptionAssumption`); a transaction belongs to one service (`TeamRequestAssumption`); graphs
have finitely many objects and keys, objects are not texts, and what is logged or thrown
is a graph (`NodeAssumption`, `KeyAssumption`, `GraphAssumption`); the operations are those of the code,
lifetimes and bounds are numbers (`OperationAssumption`, `TimeAssumption`,
`UsesAssumption`, `TopAssumption`, `JobDeliveryAssumption`); and environments and calls
are of the kinds described (`EnvironmentAssumption`, `OfferedAssumption`). The others
(`ConcurrencyAssumption` and those of `DatabaseRuntime`) serve no proof. TLC evaluates them all.

**Model-checked only**:

- liveness, which is out of the prover's reach: `RequestsDrain`, `ShutdownEnds`,
  `ShutdownEndsFairly`, `ReadinessAnswers`, `CommandsEnd`, `AcknowledgedJobsEnd`,
  `EnqueueSettles`. For all but `ReadinessAnswers` and `EnqueueSettles` the safety half is
  proved (above): that something can always go on (for `RequestsDrain`, that some request
  finds its locks free), and that what goes on leads to the end.
  That it does go on is the fairness, and the conclusion from all this to the liveness
  property is the part only TLC draws.

## 5. Abstractions and assumptions

- **READ COMMITTED.** Kysely's transactions set no isolation level. A statement
  sees what is committed when it begins; an UPDATE or a locking SELECT that has
  waited judges the row again as it then is.
- **Organization and workspace** are one row in `Database`, since both services that
  create them create one of each; `Tenancy` has them apart. No transaction locks an organization.
- **Ids, names, email addresses, passwords, tokens** are members of small sets.
  A fresh id is one that no row and no other request has. Whether a team name
  meets another is a free choice, so a unique violation is always possible. A
  rename takes the lock its UPDATE takes and changes nothing.
- **Reads that only answer** (the lists of access and teams, `getSession`) are left
  out; they change nothing and no later decision uses them.
- **Operators.** Nothing in `src/` writes `users.status` or sets a new password;
  other statements in the database do (`SetUserStatus`, `ResetPassword`). They
  and `disableOrganization`/`disableWorkspace` are single-statement transactions.
- **The actor's role is a snapshot.** The services act with the role the guards
  saw; a demotion that commits meanwhile does not stop the request. The models
  do the same, and `ChangesAuthorized` speaks of that role.
- **A disabled tenant** still accepts the changes of requests whose guards ran
  before; `MembershipRules` allows it because `lockWorkspace` ignores the status.
- **Clock.** One monotone clock for all replicas in `Auth`; skew is not modelled.
- **Rollbacks** stand for lock and statement timeouts, lost connections, crashes
  of the process and PostgreSQL's deadlock detector.
- **BullMQ, ioredis, Kysely's Migrator** are external, modelled by what the code
  relies on: a graceful close waits for the active jobs and may fail or never
  end; a disconnect is immediate and lets a wait for readiness fail; a QUIT may
  never be answered, and the connection has ended once it settles; the Migrator
  runs in one transaction, reads its state under the lock, and returns errors in
  its result.
- **Nest and pg** are external too: Nest's shutdown closes the server, waits for the
  requests in flight, calls the hook, and then kills the process (exit 1 if the hook
  threw); a server that does not listen yet has nothing to close; the end of a pool
  waits for the connections in use. A request is up to `MaxUses` statements.
- **Signals.** A signal may be taken between any two actions, even where Node
  would first run a continuation that is already due; the model has a few more
  behaviours than the process. A second signal joins the first one's stop and
  changes nothing, so it is no action. Once the listeners are removed a signal
  ends the process by default, which is outside the model.
- **The exit** of the worker is the end of `bootstrap`; the process itself ends
  when nothing keeps it alive, which is what `NothingLeftOpen` is about.
  A handler that never returns is not stopped by anything in the code.

- **The configurations of the worker and of the migration command** are loaded by
  the same functions from other variables; `Configuration` models the API's.
- **Producer and Redis.** What waits in ioredis survives one failure and is rejected at
  the second in a row, since a producer's `maxRetriesPerRequest` is 1. Delays, backoff and the removal of old jobs
  are left out. A `queue.close()` that rejects leaves the producer's connection open;
  the model shows the rejected `close`, and nothing in the code tries again.
- **Text.** What `redactSensitiveText` and `isSensitiveKey` match is data; the models
  tell only matching from other strings and keys. The stack of an error goes the way of
  its message and is not told apart from it. No error has a property `type` of its own.
- **The message of an answer** is not redacted by the code. The one of an
  `ApplicationError` is its `safeMessage`, which every place in `src/` gives as a constant
  (`MayBe`); all others are constants of the filter (`FixedText`).
- **The log.** Of pino the levels are modelled; its own list of redaction paths is a
  second pass over what `redactSensitiveValues` has censored already. A log call is a
  record at once: that pino writes it out before the process ends is not modelled.
- **Pipelining.** Which store the finish listener of a pipelined response runs in is
  Node's doing, so `Finish` chooses between its own and that of the response before.

Besides the finding of section 3 the documents say more than the code does in these
places, which the models follow the code in:

- OBSERVABILITY.md:58 and :60 say that logger calls keep the right context and that a
  request emits one normal completion record. LOG_LEVEL drops that record at "warn" and
  "error", and the record of a pipelined request may carry the ids of the one before it
  (`FinishStores`), since the context's ids go over those it was given;
- OBSERVABILITY.md:64 says that unknown exceptions are logged with their serialization.
  `throw undefined` is answered with 500 and logged as handled, without one
  (`api-exception.filter.ts:66-71,92`); nothing in `src/` throws it;
- AUTHENTICATION.md:15 says that logout always clears the cookie, which
  `auth.controller.ts:79-87` does only if the revocation did not throw. Cookies are not
  modelled.

## 6. Plan

Done, in this order:

1. `Database`, `Policy`, `Access`, `MembershipRules`: the core; proofs.
2. `Teams`, `TeamRules`.
3. `WorkspaceSystem`: deadlock freedom and draining.
4. `Auth`, `AuthRules`.
5. `QueueWorker`, `WorkerProcess`; proofs.
6. `Migrations`, `SchemaVersion`.
7. `DatabaseRuntime`, `ApiProcess`.
8. `Tenancy`, `TenancyRules`.
9. `JobDelivery`: the producer's side of the queue, and a job's way to its end.
10. `Configuration`, `ApiStart`; `Redaction`, `ApiRequests`.
11. `TeamsProofs`, `AuthProofs`, `MigrationsProofs`, `TenancyProofs`, `ApiProofs`,
    `JobDeliveryProofs`.
12. `WorkspaceProofs`: the composed system, its locks and its freedom from deadlock.
13. `ApiProofs`: redaction, the answers and the log.
14. The safety halves of the liveness properties, for any values of the constants, and
    that the rows of tenants stay apart.

Left:

- a second step of refinement: that `MembershipRules` and `TeamRules`, put together,
  describe what the composed system promises about one user in both;
- the same-origin guard and the cookies of `apps/api/src/auth`, which decide about
  requests and not about the state that they meet.
