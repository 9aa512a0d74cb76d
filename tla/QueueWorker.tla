----------------------------- MODULE QueueWorker -----------------------------
(***************************************************************************)
(* The queue package as the worker process uses it: the check of Redis,    *)
(* and createQueueWorker, which wraps a BullMQ worker and its Redis        *)
(* connection.  Its start and close share promises between callers; here a *)
(* promise is a variable that says how far its function has come, and each *)
(* action is what runs from one await to the next.                         *)
(*                                                                         *)
(* BullMQ and ioredis are external: a graceful close of the worker waits   *)
(* for the active jobs, a QUIT may never be answered, and everything may   *)
(* fail.  A disconnect is immediate.                                       *)
(***************************************************************************)
EXTENDS FiniteSets, Integers

CONSTANTS
    Job,            \* the jobs that may arrive
    Concurrency     \* WORKER_CONCURRENCY

ASSUME ConcurrencyAssumption == Concurrency \in Nat \ {0}

VARIABLES
    health,         \* checkRedisHealth
    worker,         \* the BullMQ worker
    connection,     \* the Redis connection that the queue worker owns
    job,            \* what became of each job here
    starting,       \* startPromise
    graceful,       \* gracefulClosePromise
    forced          \* forcedClosePromise

queueVars == <<health, worker, connection, job, starting, graceful, forced>>

QueueTypeOK ==
    /\ health \in {"none", "checking", "healthy", "unhealthy"}
    /\ worker \in {"none", "running", "paused", "closed"}
    /\ connection \in {"none", "open", "end"}
    /\ job \in [Job -> {"waiting", "active", "finished", "abandoned"}]
    /\ starting \in {"none", "waiting", "closing", "resolved", "rejected"}
    /\ graceful \in {"none", "worker", "connection", "resolved", "rejected"}
    /\ forced \in {"none", "closing", "resolved", "rejected"}

QueueInit ==
    /\ health = "none"
    /\ worker = "none"
    /\ connection = "none"
    /\ job = [j \in Job |-> "waiting"]
    /\ starting = "none"
    /\ graceful = "none"
    /\ forced = "none"

-----------------------------------------------------------------------------
(* What happens by itself.                                                  *)

\* The PING is answered, fails or times out; its connection is disconnected.
CheckRedisHealth ==
    /\ health = "checking"
    /\ health' \in {"healthy", "unhealthy"}
    /\ UNCHANGED <<worker, connection, job, starting, graceful, forced>>

Active == {j \in Job : job[j] = "active"}

JobStarts(j) ==
    /\ worker = "running" /\ connection = "open"
    /\ job[j] = "waiting" /\ Cardinality(Active) < Concurrency
    /\ job' = [job EXCEPT ![j] = "active"]
    /\ UNCHANGED <<health, worker, connection, starting, graceful, forced>>

\* Its handler returns or throws.
JobEnds(j) ==
    /\ job[j] = "active"
    /\ job' = [job EXCEPT ![j] = "finished"]
    /\ UNCHANGED <<health, worker, connection, starting, graceful, forced>>

\* A forced close leaves the active jobs to be found stalled.
Abandoned == [j \in Job |-> IF job[j] = "active" THEN "abandoned" ELSE job[j]]

WaitUntilReady ==
    /\ starting = "waiting" /\ connection = "open"
    /\ starting' = "resolved"
    /\ UNCHANGED <<health, worker, connection, job, graceful, forced>>

\* Waiting fails, at the latest when the connection has ended: the forced close
\* of the BullMQ worker begins ...
WaitUntilReadyFails ==
    /\ starting = "waiting"
    /\ starting' = "closing"
    /\ worker' = "closed"
    /\ job' = Abandoned
    /\ UNCHANGED <<health, connection, graceful, forced>>

\* ... and then the connection is disconnected.
StartFails ==
    /\ starting = "closing"
    /\ starting' = "rejected"
    /\ connection' = "end"
    /\ UNCHANGED <<health, worker, job, graceful, forced>>

\* worker.close(false) settles: it waits for the active jobs, or fails.
GracefulWorkerClose ==
    /\ graceful = "worker"
    /\ \/ /\ Active = {}
          /\ graceful' = "connection"
          /\ worker' = "closed"
       \/ graceful' = "rejected" /\ UNCHANGED worker
    /\ UNCHANGED <<health, connection, job, starting, forced>>

\* connectionCloser.close(false): the QUIT of a connection is answered or
\* fails, and the connection ends in both cases.  A closer called when it has
\* ended is no error; a QUIT pending when a forced close disconnects is one.
GracefulConnectionClose ==
    /\ graceful = "connection"
    /\ graceful' \in {"resolved", "rejected"}
    /\ connection' = "end"
    /\ UNCHANGED <<health, worker, job, starting, forced>>

\* worker.close(true) or worker.disconnect() settles.
ForcedClose ==
    /\ forced = "closing"
    /\ forced' \in {"resolved", "rejected"}
    /\ UNCHANGED <<health, worker, connection, job, starting, graceful>>

-----------------------------------------------------------------------------
(* What the worker application calls.                                       *)

\* createQueueWorker and its start() up to the wait for readiness: worker.run()
\* takes jobs from now on.
StartQueueWorker ==
    /\ connection' = "open"
    /\ worker' = "running"
    /\ starting' = "waiting"
    /\ UNCHANGED <<health, job, graceful, forced>>

CallPause ==
    /\ worker' = IF worker = "running" THEN "paused" ELSE worker
    /\ UNCHANGED <<health, connection, job, starting, graceful, forced>>

CallGracefulClose ==
    /\ graceful' = IF forced = "none" /\ graceful = "none" THEN "worker" ELSE graceful
    /\ UNCHANGED <<health, worker, connection, job, starting, forced>>

\* Mutant: a forced close shares the graceful close under way.
CallForcedCloseShared ==
    IF graceful # "none" \/ forced # "none"
    THEN UNCHANGED queueVars
    ELSE /\ forced' = "closing"
         /\ connection' = "end"
         /\ worker' = "closed"
         /\ job' = Abandoned
         /\ UNCHANGED <<health, starting, graceful>>

\* The connection is disconnected before anything is awaited, and the outcome
\* does not depend on a graceful close that is stuck.
CallForcedClose ==
    IF graceful = "resolved" \/ forced # "none"
    THEN UNCHANGED queueVars
    ELSE /\ forced' = "closing"
         /\ connection' = "end"
         /\ worker' = "closed"
         /\ job' = Abandoned
         /\ UNCHANGED <<health, starting, graceful>>

\* How the promise that a forced close returned has settled.
ForceResolved == forced = "resolved" \/ (forced = "none" /\ graceful = "resolved")
ForceRejected == forced = "rejected"

\* What settles in bounded time, by the options of the clients; and what may
\* go on for ever.
QueueSettles ==
    \/ CheckRedisHealth \/ StartFails \/ ForcedClose
    \/ connection = "end" /\ WaitUntilReadyFails

QueueMay ==
    \/ WaitUntilReady \/ WaitUntilReadyFails
    \/ GracefulWorkerClose \/ GracefulConnectionClose
    \/ \E j \in Job : JobStarts(j) \/ JobEnds(j)
=============================================================================
