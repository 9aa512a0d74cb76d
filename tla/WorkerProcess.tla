---------------------------- MODULE WorkerProcess ----------------------------
(***************************************************************************)
(* The worker process: WorkerApplication with its single start and single  *)
(* stop flow, the lifecycle that races a start against the signals, and    *)
(* the bootstrap around both.  They are coroutines of one thread; an       *)
(* action is what one of them runs between two awaits, and a signal        *)
(* arrives between any two actions.                                        *)
(***************************************************************************)
EXTENDS QueueWorker

VARIABLES
    state,          \* WorkerApplication.state
    start,          \* startPromise of the application: how far startOnce is
    stop,           \* stopPromise of the application: how far stopOnce is
    signalled,      \* a shutdown signal has reached the lifecycle's listener
    lifecycle,      \* runWorkerLifecycle
    main,           \* bootstrap, and the exit code it left
    wasRunning,     \* worker.started has been logged
    timedOut        \* worker.shutdown.timeout has been logged

appVars == <<state, start, stop, signalled, lifecycle, main, wasRunning, timedOut>>
workerVars == <<queueVars, appVars>>

FlowsTypeOK ==
    /\ state \in {"idle", "starting", "running", "stopping", "stopped"}
    /\ start \in {"none", "health", "ready", "closing", "resolved", "rejected"}
    /\ stop \in {"none", "forceClosing", "pausing", "racing", "forcing", "awaiting",
                 "resolved", "rejected"}
    /\ lifecycle \in {"none", "racing", "started", "returned", "threw"}
    /\ main \in {"running", "stopping", "exited 0", "exited 1"}

FlagsTypeOK == signalled \in BOOLEAN /\ wasRunning \in BOOLEAN /\ timedOut \in BOOLEAN

WorkerTypeOK == QueueTypeOK /\ FlowsTypeOK /\ FlagsTypeOK

WorkerInit ==
    /\ QueueInit
    /\ state = "idle"
    /\ start = "none"
    /\ stop = "none"
    /\ signalled = FALSE
    /\ lifecycle = "none"
    /\ main = "running"
    /\ wasRunning = FALSE
    /\ timedOut = FALSE

-----------------------------------------------------------------------------
(* WorkerApplication.startOnce                                              *)

\* The listeners are registered and the application starts: all of this runs
\* before the first await, which is for the check of Redis.
Launch ==
    /\ lifecycle = "none"
    /\ lifecycle' = "racing"
    /\ state' = "starting"
    /\ start' = "health"
    /\ health' = "checking"
    /\ UNCHANGED <<worker, connection, job, starting, graceful, forced,
                   stop, signalled, main, wasRunning, timedOut>>

\* Mutant: a stop during the health check is not noticed.
HealthKnownUnchecked ==
    /\ start = "health"
    /\ \/ /\ health = "healthy"
          /\ StartQueueWorker
          /\ start' = "ready"
          /\ UNCHANGED state
       \/ /\ health = "unhealthy"
          /\ state' = "stopped" /\ start' = "rejected"
          /\ UNCHANGED queueVars
    /\ UNCHANGED <<stop, signalled, lifecycle, main, wasRunning, timedOut>>

\* A stop meanwhile ends the start; otherwise it fails if Redis is not there or
\* the queue worker cannot be made, or goes on to start it.
HealthKnown ==
    /\ start = "health" /\ health \in {"healthy", "unhealthy"}
    /\ \/ /\ state # "starting"
          /\ start' = "resolved"
          /\ UNCHANGED <<queueVars, state>>
       \/ /\ state = "starting"
          /\ state' = "stopped" /\ start' = "rejected"
          /\ UNCHANGED queueVars
       \/ /\ state = "starting" /\ health = "healthy"
          /\ StartQueueWorker
          /\ start' = "ready"
          /\ UNCHANGED state
    /\ UNCHANGED <<stop, signalled, lifecycle, main, wasRunning, timedOut>>

\* Mutant: a stop during the wait for readiness is not noticed.
QueueStartedUnchecked ==
    /\ start = "ready" /\ starting = "resolved"
    /\ start' = "resolved"
    /\ state' = "running"
    /\ wasRunning' = TRUE
    /\ UNCHANGED <<queueVars, stop, signalled, lifecycle, main, timedOut>>

\* The queue worker is ready; a stop meanwhile keeps the state as it has set it.
QueueStarted ==
    /\ start = "ready" /\ starting = "resolved"
    /\ start' = "resolved"
    /\ state' = IF state = "starting" THEN "running" ELSE state
    /\ wasRunning' = (state = "starting")
    /\ UNCHANGED <<queueVars, stop, signalled, lifecycle, main, timedOut>>

QueueNotStarted ==
    /\ start = "ready" /\ starting = "rejected"
    /\ \/ state # "starting" /\ start' = "resolved" /\ UNCHANGED queueVars
       \/ state = "starting" /\ start' = "closing" /\ CallForcedClose
    /\ UNCHANGED <<state, stop, signalled, lifecycle, main, wasRunning, timedOut>>

\* Whatever a stop has set meanwhile, the failed start ends as stopped.
StartGivenUp ==
    /\ start = "closing" /\ (ForceResolved \/ ForceRejected)
    /\ start' = "rejected"
    /\ state' = "stopped"
    /\ UNCHANGED <<queueVars, stop, signalled, lifecycle, main, wasRunning, timedOut>>

-----------------------------------------------------------------------------
(* WorkerApplication.stopOnce                                               *)

\* Mutant: a stop during the start leaves the queue worker to the start.
StopCalledWithoutClose ==
    \/ /\ state = "stopped"
       /\ stop' = "resolved"
       /\ UNCHANGED <<queueVars, state>>
    \/ /\ state = "starting"
       /\ state' = "stopping"
       /\ stop' = "awaiting"
       /\ UNCHANGED queueVars
    \/ /\ state = "running"
       /\ state' = "stopping"
       /\ stop' = "pausing"
       /\ CallPause

\* What runs before its first await.
StopCalled ==
    \/ /\ state = "stopped"
       /\ stop' = "resolved"
       /\ UNCHANGED <<queueVars, state>>
    \/ /\ state = "starting"
       /\ state' = "stopping"
       /\ IF worker = "none" THEN stop' = "awaiting" /\ UNCHANGED queueVars
                             ELSE stop' = "forceClosing" /\ CallForcedClose
    \/ /\ state = "running"
       /\ state' = "stopping"
       /\ stop' = "pausing"
       /\ CallPause

StopSettles(outcome) == stop' = outcome /\ state' = "stopped"

ForceClosedDuringStart ==
    /\ stop = "forceClosing"
    /\ \/ ForceResolved /\ stop' = "awaiting" /\ UNCHANGED state
       \/ ForceRejected /\ StopSettles("rejected")
    /\ UNCHANGED <<queueVars, start, signalled, lifecycle, main, wasRunning, timedOut>>

StartAwaited ==
    /\ stop = "awaiting" /\ start \in {"resolved", "rejected"}
    /\ StopSettles("resolved")
    /\ UNCHANGED <<queueVars, start, signalled, lifecycle, main, wasRunning, timedOut>>

\* Mutant: the close after the pause is forced at once.
PausedThenForced ==
    /\ stop = "pausing"
    /\ CallForcedClose
    /\ stop' = "forcing"
    /\ UNCHANGED <<state, start, signalled, lifecycle, main, wasRunning, timedOut>>

Paused ==
    /\ stop = "pausing"
    /\ CallGracefulClose
    /\ stop' = "racing"
    /\ UNCHANGED <<state, start, signalled, lifecycle, main, wasRunning, timedOut>>

GracefullyClosed ==
    /\ stop = "racing" /\ graceful = "resolved"
    /\ StopSettles("resolved")
    /\ UNCHANGED <<queueVars, start, signalled, lifecycle, main, wasRunning, timedOut>>

GracefulCloseFailed ==
    /\ stop = "racing" /\ graceful = "rejected"
    /\ CallForcedClose
    /\ stop' = "forcing"
    /\ UNCHANGED <<state, start, signalled, lifecycle, main, wasRunning, timedOut>>

\* WORKER_SHUTDOWN_TIMEOUT_MS is over; the graceful close may just have ended.
ShutdownTimeout ==
    /\ stop = "racing"
    /\ CallForcedClose
    /\ stop' = "forcing"
    /\ timedOut' = TRUE
    /\ UNCHANGED <<state, start, signalled, lifecycle, main, wasRunning>>

ForceClosed ==
    /\ stop = "forcing"
    /\ \/ ForceResolved /\ StopSettles("resolved")
       \/ ForceRejected /\ StopSettles("rejected")
    /\ UNCHANGED <<queueVars, start, signalled, lifecycle, main, wasRunning, timedOut>>

-----------------------------------------------------------------------------
(* runWorkerLifecycle and bootstrap                                         *)

\* The first signal stops the application; later ones share its promise.
Signal ==
    /\ lifecycle \in {"racing", "started"}
    /\ ~signalled
    /\ signalled' = TRUE
    /\ StopCalled
    /\ UNCHANGED <<start, lifecycle, main, wasRunning, timedOut>>

\* Mutant: a lifecycle that has started does not wait for the shutdown.
LifecycleReturnsOnceStarted ==
    /\ lifecycle = "racing" /\ start \in {"resolved", "rejected"}
    /\ lifecycle' = IF start = "rejected" THEN "threw" ELSE "returned"
    /\ UNCHANGED <<queueVars, state, start, stop, signalled, main, wasRunning, timedOut>>

\* The race between the start and the shutdown; the wait for the shutdown.
LifecycleSettles ==
    /\ \/ lifecycle = "racing" /\ start = "rejected" /\ lifecycle' = "threw"
       \/ lifecycle = "racing" /\ start = "resolved" /\ lifecycle' = "started"
       \/ /\ lifecycle \in {"racing", "started"}
          /\ signalled /\ stop = "resolved"
          /\ lifecycle' = "returned"
       \/ /\ lifecycle \in {"racing", "started"}
          /\ signalled /\ stop = "rejected"
          /\ lifecycle' = "threw"
    /\ UNCHANGED <<queueVars, state, start, stop, signalled, main, wasRunning, timedOut>>

\* After a failure the bootstrap stops the worker once more, which shares the
\* stop of a signal if there was one.
BootstrapFails ==
    /\ main = "running" /\ lifecycle = "threw"
    /\ main' = "stopping"
    /\ IF stop = "none" THEN StopCalled ELSE UNCHANGED <<queueVars, state, stop>>
    /\ UNCHANGED <<start, signalled, lifecycle, wasRunning, timedOut>>

BootstrapEnds ==
    /\ \/ main = "running" /\ lifecycle = "returned" /\ main' = "exited 0"
       \/ main = "stopping" /\ stop \in {"resolved", "rejected"} /\ main' = "exited 1"
    /\ UNCHANGED <<queueVars, state, start, stop, signalled, lifecycle, wasRunning, timedOut>>

-----------------------------------------------------------------------------

\* The continuations that Node runs once what they await has settled, and the
\* timer.
Continue ==
    \/ Launch \/ HealthKnown \/ QueueStarted \/ QueueNotStarted \/ StartGivenUp
    \/ ForceClosedDuringStart \/ StartAwaited
    \/ Paused \/ GracefullyClosed \/ GracefulCloseFailed \/ ShutdownTimeout \/ ForceClosed
    \/ LifecycleSettles \/ BootstrapFails \/ BootstrapEnds

Exited == main \in {"exited 0", "exited 1"}

WorkerNext ==
    \/ ~Exited /\ (Continue \/ Signal)
    \/ ~Exited /\ (QueueSettles \/ QueueMay) /\ UNCHANGED appVars

WorkerSpec == WorkerInit /\ [][WorkerNext]_workerVars

\* Nothing is assumed of the jobs, of a graceful close or of a QUIT, nor that
\* Redis lets a start become ready.
WorkerFairness ==
    /\ WF_workerVars(~Exited /\ Continue)
    /\ WF_workerVars(~Exited /\ QueueSettles /\ UNCHANGED appVars)

FairWorkerSpec == WorkerSpec /\ WorkerFairness
-----------------------------------------------------------------------------
(* Properties.                                                              *)

\* QUEUES.md: a shutdown requested during health or readiness prevents
\* worker.started.  Once a stop has begun nothing is created or started.
NoStartAfterStop ==
    [][stop # "none" =>
          /\ worker = "none" => worker' = "none"
          /\ state # "running" => state' # "running"
          /\ wasRunning' = wasRunning]_workerVars

\* When the process has nothing left to do, no Redis connection keeps it alive
\* and no BullMQ worker takes jobs, however it came to an end.
NothingLeftOpen ==
    Exited => connection # "open" /\ worker \in {"none", "closed"}

\* QUEUES.md: the shutdown waits for active work within the timeout.  A worker
\* that has started abandons a job only after the timeout or a failed close.
JobsCutOffOnlyAfterTimeout ==
    [][\A j \in Job :
         wasRunning /\ job[j] = "active" /\ job'[j] = "abandoned" =>
            timedOut' \/ graceful = "rejected"]_workerVars

\* The exit code is 0 exactly for a shutdown that a signal asked for and that
\* went through; a start that failed by itself never looks like a success.
ExitCodeTells ==
    /\ main = "exited 0" => signalled /\ stop = "resolved"
    /\ main = "exited 1" => start = "rejected" \/ stop = "rejected"

\* QUEUES.md: after a signal the process ends, whatever the jobs do and
\* whether or not Redis still answers.
ShutdownEnds == signalled ~> Exited
=============================================================================
