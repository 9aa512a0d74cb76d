----------------------------- MODULE JobDelivery -----------------------------
(***************************************************************************)
(* A job from enqueue to its end: createQueueProducer with its Redis       *)
(* connection on one side, the registry workers and their listeners on the *)
(* other, and BullMQ's queue in Redis between them.                        *)
(*                                                                         *)
(* Redis, ioredis and BullMQ are external.  The queue is durable; a script *)
(* that adds a job under an id that exists adds nothing and answers with   *)
(* that id.  A connection may be lost at any time, ioredis then sends its  *)
(* unanswered commands again or gives them up.  A worker holds a lock on   *)
(* the job it runs; one that crashes, or whose event loop is blocked for   *)
(* too long, loses it, and the job is begun again somewhere.               *)
(***************************************************************************)
EXTENDS FiniteSets, Integers

CONSTANTS
    Call,           \* calls of enqueue
    Offered,        \* bound: the inputs that they are tried with
    JobId,          \* the job ids that callers give
    Worker,         \* worker processes
    MaxGenerated,   \* bound: how many ids the queue gives itself
    MaxFaults,      \* bound: connections lost, workers crashed or blocked, all told
    None

ASSUME JobDeliveryAssumption ==
    /\ MaxGenerated \in Nat /\ MaxFaults \in Nat /\ JobId \cap 1..MaxGenerated = {}

VARIABLES
    call,           \* each call of enqueue
    link,           \* the producer's connection
    closing,        \* closePromise of the producer
    job,            \* the queue: every job there is evidence of, by id
    runs,           \* the runs of the processor, on all workers
    startedAt,      \* the keys of each worker's map of start times
    faults          \* faults so far

producerVars == <<call, link, closing>>
workerVars == <<runs, startedAt>>
jobDeliveryVars == <<producerVars, job, workerVars, faults>>

Id == JobId \cup 1..MaxGenerated

Fault == faults < MaxFaults /\ faults' = faults + 1

-----------------------------------------------------------------------------
(* The producer                                                             *)

\* What callers pass: a name that may have no handler at the workers, and
\* options; or something of which one part is refused.
Input ==
    [name : {"registered", "unregistered"}, jobId : JobId \cup {None}, attempts : {None, 2}]
       \cup {[name |-> "unsafe", jobId |-> None, attempts |-> None],
             [name |-> "registered", jobId |-> "unsafe", attempts |-> None],
             [name |-> "registered", jobId |-> None, attempts |-> 11]}

ASSUME OfferedAssumption == Offered \subseteq Input

\* What is remembered of a job.
JobRow ==
    [from : Call, input : Input, attempts : 1..10,
     state : {"waiting", "active", "completed", "failed"},
     started : Nat, failed : Nat, stalled : Nat, lock : Nat]

ASSUME NoneAssumption == None \notin JobId \cup JobRow

\* assertSafeJobName and the checks of createBullJobOptions.
Accepted(input) ==
    /\ input.name # "unsafe" /\ input.jobId # "unsafe"
    /\ input.attempts # None => input.attempts \in 1..10

\* Mutant: the id is checked and then forgotten.
CreateBullJobOptionsWithoutId(input) ==
    [attempts |-> IF input.attempts = None THEN 1 ELSE input.attempts, jobId |-> None]

CreateBullJobOptions(input) ==
    [attempts |-> IF input.attempts = None THEN 1 ELSE input.attempts, jobId |-> input.jobId]

Unanswered(c) == call[c].state \in {"sent", "added"}

\* Bound: a call without an id is the only one, and has an id for every time it
\* is sent.
Alone(input) ==
    /\ \A c \in Call : Unanswered(c) => call[c].input.jobId # None
    /\ \A n \in 1..MaxGenerated : job[n] = None
    /\ input.jobId = None => MaxFaults < MaxGenerated /\ \A c \in Call : call[c].state = "none"

\* The options of a call that is settled are forgotten.
Settled(how, id, lost) == [state |-> how, input |-> None, id |-> id, lost |-> lost]

\* enqueue: a refused argument rejects before any command, and so does a
\* connection that is closed or has its QUIT before the command.
Enqueue(c, input) ==
    /\ call[c].state = "none"
    /\ Alone(input)
    /\ call' = [call EXCEPT ![c] =
          IF Accepted(input) /\ link # "end" /\ closing # "quitting"
          THEN [state |-> "sent", input |-> input, id |-> None, lost |-> FALSE]
          ELSE Settled("rejected", None, FALSE)]
    /\ UNCHANGED <<link, closing, job, workerVars, faults>>

\* Redis runs the script that adds a job.  `from` and `input` remember the call.
NewJob(c) ==
    [from |-> c, input |-> call[c].input, attempts |-> CreateBullJobOptions(call[c].input).attempts,
     state |-> "waiting", started |-> 0, failed |-> 0, stalled |-> 0, lock |-> 0]

NextId == 1 + Cardinality({n \in 1..MaxGenerated : job[n] # None})

AddJob(c) ==
    /\ call[c].state = "sent" /\ link = "up"
    /\ LET given == CreateBullJobOptions(call[c].input).jobId
           id == IF given # None THEN given ELSE NextId
       IN  /\ id \in Id
           /\ call' = [call EXCEPT ![c].state = "added", ![c].id = id]
           /\ job' = IF job[id] = None THEN [job EXCEPT ![id] = NewJob(c)] ELSE job
    /\ UNCHANGED <<link, closing, workerVars, faults>>

AnswerEnqueue(c) ==
    /\ call[c].state = "added" /\ link = "up"
    /\ call' = [call EXCEPT ![c] = Settled("resolved", call[c].id, call[c].lost)]
    /\ UNCHANGED <<link, closing, job, workerVars, faults>>

GivenUp == [c \in Call |-> IF Unanswered(c) THEN Settled("rejected", None, TRUE) ELSE call[c]]

\* A connection that is down counts its failures in a row: it is connecting
\* after none and after every second one, retrying in between.
Down == link \in {"connecting", "retrying"}

\* Commands without an answer wait to be sent again, the loss being their first
\* failure; after a QUIT ioredis does not connect again.
LoseConnection ==
    /\ link = "up" /\ Fault
    /\ IF closing = "quitting"
       THEN link' = "end" /\ closing' = "rejected" /\ call' = GivenUp
       ELSE /\ link' = "retrying"
            /\ call' = [c \in Call |-> IF Unanswered(c)
                                       THEN [call[c] EXCEPT !.state = "sent", !.id = None, !.lost = TRUE]
                                       ELSE call[c]]
            /\ UNCHANGED closing
    /\ UNCHANGED <<job, workerVars>>

Reconnect ==
    /\ Down
    /\ link' = "up"
    /\ UNCHANGED <<call, closing, job, workerVars, faults>>

\* Mutant: a producer has maxRetriesPerRequest null, as a worker has.
ReconnectFailsKeeping ==
    /\ Down
    /\ link' = IF link = "connecting" THEN "retrying" ELSE "connecting"
    /\ UNCHANGED <<call, closing, job, workerVars, faults>>

\* maxRetriesPerRequest is 1 for a producer: what waits survives one failure, and
\* the second in a row rejects it, a QUIT among it.
ReconnectFails ==
    /\ \/ /\ link = "connecting" /\ link' = "retrying"
          /\ UNCHANGED <<call, closing>>
       \/ /\ link = "retrying" /\ call' = GivenUp
          /\ IF closing = "quitting"
             THEN link' = "end" /\ closing' = "rejected"
             ELSE link' = "connecting" /\ UNCHANGED closing
    /\ UNCHANGED <<job, workerVars, faults>>

\* close: every caller gets the same promise.
CloseProducer ==
    /\ closing = "none"
    /\ closing' = "queue"
    /\ UNCHANGED <<call, link, job, workerVars, faults>>

\* queue.close() is over, or fails and leaves the connection as it is.
QueueClosed ==
    /\ closing = "queue"
    /\ closing' \in {"quitting", "rejected"}
    /\ UNCHANGED <<call, link, job, workerVars, faults>>

\* Mutant: the connection is disconnected at once, without a QUIT.
QuitAnsweredAtOnce ==
    /\ closing = "quitting" /\ link = "up"
    /\ link' = "end" /\ closing' = "resolved"
    /\ call' = [c \in Call |-> IF Unanswered(c) THEN Settled("rejected", None, FALSE) ELSE call[c]]
    /\ UNCHANGED <<job, workerVars, faults>>

\* Redis answers a QUIT after the commands that were sent before it.
QuitAnswered ==
    /\ closing = "quitting" /\ link = "up"
    /\ \A c \in Call : ~Unanswered(c)
    /\ link' = "end" /\ closing' = "resolved"
    /\ UNCHANGED <<call, job, workerVars, faults>>

-----------------------------------------------------------------------------
(* The workers                                                              *)

RunsOn(w, id) == {run \in runs : run.worker = w /\ run.id = id}

\* A worker locks a waiting job, and its 'active' listener notes the time.
TakeJob(w, id) ==
    /\ job[id] # None /\ job[id].state = "waiting"
    /\ LET n == job[id].started + 1 IN
          /\ job' = [job EXCEPT ![id].state = "active", ![id].started = n, ![id].lock = n]
          /\ runs' = runs \cup {[worker |-> w, id |-> id, attempt |-> n]}
    /\ startedAt' = [startedAt EXCEPT ![w] = @ \cup {id}]
    /\ UNCHANGED <<producerVars, faults>>

\* Mutant: a job that nobody handles is done.
ProcessJobLeniently(name) ==
    IF name = "registered" THEN {"returned", "threw"} ELSE {"returned"}

\* createRegistryProcessor: the handler returns or throws; without a handler
\* UnknownQueueJobError is thrown.
ProcessJob(name) == IF name = "registered" THEN {"returned", "threw"} ELSE {"threw"}

HoldsLock(run) == job[run.id].state = "active" /\ job[run.id].lock = run.attempt

\* Mutant: the 'failed' listener only logs.
TimingAfterOfCompleted(w, id, event) ==
    IF event = "completed" THEN startedAt[w] \ {id} ELSE startedAt[w]

\* The 'completed' and 'failed' listeners delete the job's entry.
TimingAfter(w, id, event) ==
    IF event \in {"completed", "failed"} THEN startedAt[w] \ {id} ELSE startedAt[w]

\* The job is completed, or fails and is tried again while it has attempts left.
After(j, outcome) ==
    IF outcome = "returned" THEN [j EXCEPT !.state = "completed", !.lock = 0]
    ELSE [j EXCEPT !.state = IF j.failed + 1 < j.attempts THEN "waiting" ELSE "failed",
                   !.failed = j.failed + 1, !.lock = 0]

\* 'failed' is emitted after every attempt, and neither event is when the lock
\* is gone.
RunEnds(run, outcome) ==
    /\ run \in runs /\ outcome \in ProcessJob(job[run.id].input.name)
    /\ runs' = runs \ {run}
    /\ IF HoldsLock(run)
       THEN /\ job' = [job EXCEPT ![run.id] = After(job[run.id], outcome)]
            /\ startedAt' = [startedAt EXCEPT ![run.worker] =
                  TimingAfter(run.worker, run.id,
                              IF outcome = "returned" THEN "completed" ELSE "failed")]
       ELSE UNCHANGED <<job, startedAt>>
    /\ UNCHANGED <<producerVars, faults>>

\* The process is gone with its runs and its map; another takes its place.
CrashWorker(w) ==
    /\ Fault
    /\ runs' = {run \in runs : run.worker # w}
    /\ startedAt' = [startedAt EXCEPT ![w] = {}]
    /\ UNCHANGED <<producerVars, job>>

\* BullMQ's maxStalledCount.
MaxStalled == 1

Orphaned(id) == job[id] # None /\ job[id].state = "active" /\ ~\E run \in runs : run.id = id /\ HoldsLock(run)

\* A worker finds an active job whose lock was not renewed, by a worker that
\* crashed or one that is blocked.  It is to be begun again; the second time it
\* fails, which the worker that found it reports.
FindStalled(w, id) ==
    /\ job[id] # None /\ job[id].state = "active"
    /\ IF Orphaned(id) THEN UNCHANGED faults ELSE Fault
    /\ IF job[id].stalled < MaxStalled
       THEN /\ job' = [job EXCEPT ![id].state = "waiting", ![id].lock = 0, ![id].stalled = @ + 1]
            /\ UNCHANGED startedAt
       ELSE /\ job' = [job EXCEPT ![id].state = "failed", ![id].lock = 0, ![id].stalled = @ + 1]
            /\ startedAt' = [startedAt EXCEPT ![w] = TimingAfter(w, id, "failed")]
    /\ UNCHANGED <<producerVars, runs>>

-----------------------------------------------------------------------------

JobDeliveryInit ==
    /\ call = [c \in Call |-> [state |-> "none", input |-> None, id |-> None, lost |-> FALSE]]
    /\ link \in {"up", "connecting"}
    /\ closing = "none"
    /\ job = [id \in Id |-> None]
    /\ runs = {}
    /\ startedAt = [w \in Worker |-> {}]
    /\ faults = 0

JobDeliveryNext ==
    \/ \E c \in Call :
          \/ \E input \in Offered : Enqueue(c, input)
          \/ AddJob(c) \/ AnswerEnqueue(c)
    \/ LoseConnection \/ Reconnect \/ ReconnectFails
    \/ CloseProducer \/ QueueClosed \/ QuitAnswered
    \/ \E w \in Worker :
          \/ \E id \in Id : TakeJob(w, id) \/ FindStalled(w, id)
          \/ CrashWorker(w)
    \/ \E run \in runs, outcome \in {"returned", "threw"} : RunEnds(run, outcome)

Served(c) == AddJob(c) \/ AnswerEnqueue(c)

\* A waiting job is taken, and one whose worker is gone is found.
PickedUp(id) == \E w \in Worker : TakeJob(w, id) \/ (Orphaned(id) /\ FindStalled(w, id))

HandlerEnds(id) == \E run \in runs, outcome \in {"returned", "threw"} : run.id = id /\ RunEnds(run, outcome)

\* Redis answers a connection that is up; ioredis tries to connect when it is
\* down, whether it succeeds or not; workers pick jobs up and handlers end.
JobDeliveryFairness ==
    /\ \A c \in Call : WF_jobDeliveryVars(Served(c))
    /\ WF_jobDeliveryVars(Reconnect \/ ReconnectFails)
    /\ \A id \in Id : WF_jobDeliveryVars(PickedUp(id)) /\ WF_jobDeliveryVars(HandlerEnds(id))

JobDeliverySpec == JobDeliveryInit /\ [][JobDeliveryNext]_jobDeliveryVars /\ JobDeliveryFairness
-----------------------------------------------------------------------------
(* Properties.                                                              *)

\* QUEUES.md: a job whose enqueue was acknowledged is not lost.  Through lost
\* connections, crashes and stalls it ends, completed only by its handler; a
\* job that no handler is registered for ends as failed evidence.
Ended(id) ==
    /\ job[id] # None
    /\ job[id].state = "failed" \/ (job[id].state = "completed" /\ job[id].input.name = "registered")

AcknowledgedJobsEnd ==
    \A c \in Call : call[c].state = "resolved" ~> call[c].id \in Id /\ Ended(call[c].id)

\* A call of enqueue never hangs: however long Redis is away, and whether or
\* not the producer is closed meanwhile, it resolves or rejects.
EnqueueSettles == \A c \in Call : Unanswered(c) ~> ~Unanswered(c)

\* A producer that is closed, or refuses a call, has put nothing on the queue
\* for it: only a call whose connection was lost may be rejected although its
\* job is there.
RejectedMeansNotAdded ==
    \A c \in Call : call[c].state = "rejected" /\ ~call[c].lost =>
        \A id \in Id : job[id] # None => job[id].from # c

\* The calls that give one job id put one job on the queue, though commands are
\* sent again and callers try again, and it is begun no more often than it has
\* attempts, one unless more were asked for, and stalls.
OneJobPerJobId ==
    \A given \in JobId :
        LET own == {id \in Id : job[id] # None /\ job[id].input.jobId = given}
        IN  /\ Cardinality(own) <= 1
            /\ \A id \in own :
                  LET asked == job[id].input.attempts
                  IN  job[id].started <= (IF asked = None THEN 1 ELSE asked) + job[id].stalled

\* A worker's map of start times grows only by its running jobs and by those
\* that stalled, of which it may never hear again.
TimingsOfRunningJobs ==
    \A w \in Worker, id \in Id :
        id \in startedAt[w] => RunsOn(w, id) # {} \/ job[id].stalled > 0
=============================================================================
