-------------------------- MODULE JobDeliveryProofs --------------------------
(***************************************************************************)
(* Proofs about the delivery of jobs: what a rejected enqueue has left on  *)
(* the queue, that a job id names one job which is begun no more often     *)
(* than it may be, what the workers' maps of start times hold, and that an *)
(* acknowledged job is kept and comes nearer to its end with each step.    *)
(***************************************************************************)
EXTENDS JobDelivery, FiniteSetTheorems, TLAPS

CallState == {"none", "sent", "added", "resolved", "rejected"}

CallRow == [state : CallState, input : Input \cup {None}, id : Id \cup {None}, lost : BOOLEAN]

ProducerTypeOK ==
    /\ call \in [Call -> CallRow]
    /\ link \in {"up", "connecting", "retrying", "end"}
    /\ closing \in {"none", "queue", "quitting", "resolved", "rejected"}

QueueTypeOK ==
    /\ job \in [Id -> JobRow \cup {None}]
    /\ runs \in SUBSET [worker : Worker, id : Id, attempt : Nat]
    /\ startedAt \in [Worker -> SUBSET Id]
    /\ faults \in 0..MaxFaults

\* Only what was accepted is sent, and nothing is lost before it was sent.
OnlyAcceptedSent ==
    \A c \in Call :
        /\ Unanswered(c) => call[c].input \in Input /\ Accepted(call[c].input)
        /\ call[c].state = "none" => ~call[c].lost

\* The call that a job is from has heard so, will hear so, or was cut off.
Traced ==
    \A c \in Call, id \in Id :
        job[id] # None /\ job[id].from = c => call[c].state \in {"added", "resolved"} \/ call[c].lost

ProducerInv == ProducerTypeOK /\ OnlyAcceptedSent /\ Traced

\* A job that was given an id has that id.
NamedAsGiven ==
    \A id \in Id : job[id] # None /\ job[id].input.jobId \in JobId => id = job[id].input.jobId

\* Every beginning of a job is accounted for: by a failed attempt, by a stall,
\* or by the run that holds its lock or has completed it.
Counted(j) ==
    /\ j.attempts = IF j.input.attempts = None THEN 1 ELSE j.input.attempts
    /\ j.failed <= j.attempts /\ (j.state # "failed" => j.failed < j.attempts)
    /\ j.started = j.failed + j.stalled + (IF j.state \in {"active", "completed"} THEN 1 ELSE 0)
    /\ j.lock = IF j.state = "active" THEN j.started ELSE 0

AllCounted == \A id \in Id : job[id] # None => Counted(job[id])

\* A run either holds the lock of its job or lost it to a stall, and no two
\* runs are of one beginning.
RunsLocked ==
    /\ \A run \in runs :
          /\ job[run.id] # None /\ run.attempt \in 1..job[run.id].started
          /\ HoldsLock(run) \/ job[run.id].stalled > 0
    /\ \A a, b \in runs : a.id = b.id /\ a.attempt = b.attempt => a = b

OnlyJobsTimed == \A w \in Worker : \A id \in startedAt[w] : job[id] # None

QueueInv ==
    /\ QueueTypeOK /\ NamedAsGiven /\ AllCounted
    /\ RunsLocked /\ OnlyJobsTimed /\ TimingsOfRunningJobs

JobsInv == ProducerInv /\ QueueInv

-----------------------------------------------------------------------------

LEMMA FaultIsTyped ==
    ASSUME QueueTypeOK, Fault \/ UNCHANGED faults
    PROVE  faults' \in 0..MaxFaults
  BY JobDeliveryAssumption DEF QueueTypeOK, Fault

\* The producer does not touch the workers ...
LEMMA QueueStays ==
    ASSUME QueueInv, UNCHANGED <<job, runs, startedAt>>, Fault \/ UNCHANGED faults
    PROVE  QueueInv'
<1>1. QueueTypeOK'
  BY FaultIsTyped DEF QueueInv, QueueTypeOK
<1>2. QED
  BY <1>1 DEF QueueInv, NamedAsGiven, AllCounted, RunsLocked, HoldsLock,
              OnlyJobsTimed, TimingsOfRunningJobs, RunsOn

\* ... nor the workers the calls, or where a job is from.
LEMMA ProducerStays ==
    ASSUME ProducerInv, UNCHANGED producerVars,
           \A id \in Id : job'[id] # None => job[id] # None /\ job'[id].from = job[id].from
    PROVE  ProducerInv'
  BY DEF ProducerInv, producerVars, ProducerTypeOK, OnlyAcceptedSent, Unanswered, Traced

-----------------------------------------------------------------------------
(* The producer                                                             *)

LEMMA OptionsAreTyped ==
    ASSUME NEW input \in Input, Accepted(input)
    PROVE  /\ CreateBullJobOptions(input).attempts \in 1..10
           /\ CreateBullJobOptions(input).jobId = input.jobId
           /\ input.jobId \in JobId \cup {None}
<1>1. input.jobId \in JobId \cup {None}
  BY DEF Input, Accepted
<1>2. input.attempts # None => input.attempts \in 1..10
  BY DEF Accepted
<1>3. QED
  BY <1>1, <1>2 DEF CreateBullJobOptions

LEMMA EnqueueKeepsInv ==
    ASSUME JobsInv, NEW c \in Call, NEW input \in Offered, Enqueue(c, input)
    PROVE  JobsInv'
<1>1. QueueInv'
  BY QueueStays DEF Enqueue, JobsInv, workerVars
<1>2. input \in Input
  BY OfferedAssumption
<1>3. /\ call[c].state = "none"
      /\ \/ /\ call' = [call EXCEPT ![c] = [state |-> "sent", input |-> input, id |-> None,
                                            lost |-> FALSE]]
            /\ Accepted(input)
         \/ call' = [call EXCEPT ![c] = [state |-> "rejected", input |-> None, id |-> None,
                                         lost |-> FALSE]]
      /\ UNCHANGED <<link, closing, job>>
  BY DEF Enqueue, Settled
<1>4. ProducerTypeOK'
  <2>1. /\ [state |-> "sent", input |-> input, id |-> None, lost |-> FALSE] \in CallRow
        /\ [state |-> "rejected", input |-> None, id |-> None, lost |-> FALSE] \in CallRow
    BY <1>2 DEF CallRow, CallState
  <2>2. QED
    BY <1>3, <2>1 DEF JobsInv, ProducerInv, ProducerTypeOK
<1>5. OnlyAcceptedSent'
  BY <1>2, <1>3 DEF JobsInv, ProducerInv, ProducerTypeOK, OnlyAcceptedSent, Unanswered
<1>6. \A id \in Id : job[id] # None => job[id].from # c
  BY <1>3 DEF JobsInv, ProducerInv, OnlyAcceptedSent, Traced
<1>7. Traced'
  BY <1>3, <1>6 DEF JobsInv, ProducerInv, ProducerTypeOK, Traced
<1>8. QED
  BY <1>1, <1>4, <1>5, <1>7 DEF JobsInv, ProducerInv

LEMMA AddJobKeepsInv ==
    ASSUME JobsInv, NEW c \in Call, AddJob(c)
    PROVE  JobsInv'
<1> DEFINE given == CreateBullJobOptions(call[c].input).jobId
           id == IF given # None THEN given ELSE NextId
           new == NewJob(c)
<1>1. /\ call[c].state = "sent" /\ id \in Id
      /\ call' = [call EXCEPT ![c].state = "added", ![c].id = id]
      /\ job' = IF job[id] = None THEN [job EXCEPT ![id] = new] ELSE job
      /\ UNCHANGED <<link, closing, runs, startedAt, faults>>
  BY DEF AddJob, workerVars
<1>2. call[c].input \in Input /\ Accepted(call[c].input)
  BY <1>1 DEF JobsInv, ProducerInv, OnlyAcceptedSent, Unanswered
<1>3. /\ new \in JobRow /\ new.from = c /\ new.state = "waiting" /\ new.lock = 0
      /\ new.input = call[c].input /\ Counted(new)
      /\ given = call[c].input.jobId
  BY <1>2, OptionsAreTyped DEF NewJob, JobRow, Counted, CreateBullJobOptions
<1>4. new # None /\ (call[c].input.jobId \in JobId => id = call[c].input.jobId)
  BY <1>3, NoneAssumption
<1> HIDE DEF given, id, new
<1>5. ProducerTypeOK'
  BY ZenonT(60), <1>1 DEF JobsInv, ProducerInv, ProducerTypeOK, CallRow, CallState
<1>6. /\ call'[c].state = "added" /\ call'[c].input = call[c].input
      /\ \A d \in Call \ {c} : call'[d] = call[d]
  BY <1>1 DEF JobsInv, ProducerInv, ProducerTypeOK
<1>7. OnlyAcceptedSent'
  BY <1>2, <1>6 DEF JobsInv, ProducerInv, OnlyAcceptedSent, Unanswered
<1>8. Traced'
  BY ZenonT(60), <1>1, <1>3, <1>6 DEF JobsInv, ProducerInv, QueueInv, QueueTypeOK, Traced
<1>9. CASE job[id] # None
  <2>1. QueueInv'
    BY <1>1, <1>9, QueueStays DEF JobsInv
  <2>2. QED
    BY <1>5, <1>7, <1>8, <2>1 DEF JobsInv, ProducerInv
<1>10. CASE job[id] = None
  <2>1. job'[id] = new /\ \A other \in Id \ {id} : job'[other] = job[other]
    BY <1>1, <1>10 DEF JobsInv, QueueInv, QueueTypeOK
  <2>2. QueueTypeOK'
    BY <1>1, <1>3, <1>10 DEF JobsInv, QueueInv, QueueTypeOK
  <2>3. NamedAsGiven' /\ AllCounted'
    BY <1>3, <1>4, <2>1 DEF JobsInv, QueueInv, NamedAsGiven, AllCounted
  <2>4. \A run \in runs : run.id # id /\ run.id \in Id
    BY <1>10 DEF JobsInv, QueueInv, QueueTypeOK, RunsLocked
  <2>5. RunsLocked'
    BY <1>1, <2>1, <2>4 DEF JobsInv, QueueInv, RunsLocked, HoldsLock
  <2>6. \A w \in Worker : id \notin startedAt[w]
    BY <1>10 DEF JobsInv, QueueInv, OnlyJobsTimed
  <2>7. OnlyJobsTimed'
    BY <1>1, <2>1, <2>6 DEF JobsInv, QueueInv, QueueTypeOK, OnlyJobsTimed
  <2>8. TimingsOfRunningJobs'
    BY <1>1, <2>1, <2>6 DEF JobsInv, QueueInv, TimingsOfRunningJobs, RunsOn
  <2>9. QED
    BY <1>5, <1>7, <1>8, <2>2, <2>3, <2>5, <2>7, <2>8 DEF JobsInv, ProducerInv, QueueInv
<1>11. QED
  BY <1>9, <1>10

\* Calls that are given up, and those whose connection is lost, were cut off.
LEMMA CutOffKeepsInv ==
    ASSUME ProducerInv, job' = job,
           link' \in {"up", "connecting", "retrying", "end"},
           closing' \in {"none", "queue", "quitting", "resolved", "rejected"},
           \/ call' = GivenUp
           \/ call' = [c \in Call |-> IF Unanswered(c)
                                      THEN [call[c] EXCEPT !.state = "sent", !.id = None, !.lost = TRUE]
                                      ELSE call[c]]
           \/ call' = call
    PROVE  ProducerInv'
<1>0. \A c \in Call :
         /\ call[c] \in CallRow
         /\ Settled("rejected", None, TRUE) \in CallRow
         /\ [call[c] EXCEPT !.state = "sent", !.id = None, !.lost = TRUE] \in CallRow
  BY ZenonT(60) DEF ProducerInv, ProducerTypeOK, CallRow, CallState, Settled
<1>1. \A c \in Call :
         /\ call'[c] \in CallRow
         /\ \/ call'[c] = call[c]
            \/ /\ Unanswered(c) /\ call'[c].lost = TRUE
               /\ \/ call'[c].state = "rejected"
                  \/ call'[c].state = "sent" /\ call'[c].input = call[c].input
  <2>1. CASE call' = GivenUp
    BY <1>0, <2>1 DEF GivenUp, Settled
  <2>2. CASE call' = [c \in Call |-> IF Unanswered(c)
                        THEN [call[c] EXCEPT !.state = "sent", !.id = None, !.lost = TRUE]
                        ELSE call[c]]
    BY <1>0, <2>2 DEF CallRow
  <2>3. CASE call' = call
    BY <1>0, <2>3
  <2>4. QED
    BY <2>1, <2>2, <2>3
<1>2. ProducerTypeOK'
  BY ZenonT(60), <1>1 DEF ProducerTypeOK, GivenUp, ProducerInv
<1>3. OnlyAcceptedSent'
  BY <1>1 DEF ProducerInv, OnlyAcceptedSent, Unanswered
<1>4. Traced'
  BY <1>1 DEF ProducerInv, Traced
<1>5. QED
  BY <1>2, <1>3, <1>4 DEF ProducerInv

LEMMA ProducerStepKeepsInv ==
    ASSUME JobsInv,
           \/ \E c \in Call : (\E input \in Offered : Enqueue(c, input)) \/ AddJob(c) \/ AnswerEnqueue(c)
           \/ LoseConnection \/ Reconnect \/ ReconnectFails
           \/ CloseProducer \/ QueueClosed \/ QuitAnswered
    PROVE  JobsInv'
<1>1. ASSUME NEW c \in Call, AnswerEnqueue(c) PROVE JobsInv'
  <2>1. QueueInv'
    BY <1>1, QueueStays DEF AnswerEnqueue, JobsInv, workerVars
  <2>2. /\ call[c].state = "added"
        /\ call' = [call EXCEPT ![c] = [state |-> "resolved", input |-> None, id |-> call[c].id,
                                        lost |-> call[c].lost]]
        /\ UNCHANGED <<link, closing, job>>
    BY <1>1 DEF AnswerEnqueue, Settled
  <2>3. ProducerInv'
    BY <2>2
       DEF JobsInv, ProducerInv, ProducerTypeOK, CallState, CallRow, OnlyAcceptedSent, Unanswered,
                   Traced
  <2>4. QED
    BY <2>1, <2>3 DEF JobsInv
<1>2. CASE LoseConnection
  BY <1>2, QueueStays, CutOffKeepsInv
     DEF LoseConnection, JobsInv, workerVars, ProducerInv, ProducerTypeOK
<1>3. CASE ReconnectFails \/ Reconnect
  BY <1>3, QueueStays, CutOffKeepsInv
     DEF ReconnectFails, Reconnect, Down, JobsInv, workerVars, ProducerInv, ProducerTypeOK
<1>4. CASE CloseProducer \/ QueueClosed \/ QuitAnswered
  BY <1>4, QueueStays, CutOffKeepsInv
     DEF CloseProducer, QueueClosed, QuitAnswered, JobsInv, workerVars, ProducerInv, ProducerTypeOK
<1>5. QED
  BY <1>1, <1>2, <1>3, <1>4, EnqueueKeepsInv, AddJobKeepsInv

-----------------------------------------------------------------------------
(* The workers                                                              *)

\* A step that changes one job, and neither its call nor its id.
LEMMA OneJobChanges ==
    ASSUME JobsInv, NEW id \in Id, NEW j \in JobRow, job[id] # None,
           job' = [job EXCEPT ![id] = j], j.from = job[id].from, j.input = job[id].input,
           Counted(j), UNCHANGED producerVars, Fault \/ UNCHANGED faults,
           runs' \in SUBSET [worker : Worker, id : Id, attempt : Nat],
           startedAt' \in [Worker -> SUBSET Id]
    PROVE  /\ ProducerInv' /\ QueueTypeOK' /\ NamedAsGiven' /\ AllCounted'
           /\ job'[id] = j /\ j # None /\ \A other \in Id \ {id} : job'[other] = job[other]
<1>1. job'[id] = j /\ j # None /\ \A other \in Id \ {id} : job'[other] = job[other]
  BY NoneAssumption DEF JobsInv, QueueInv, QueueTypeOK
<1>2. ProducerInv'
  BY <1>1, ProducerStays DEF JobsInv
<1>3. QueueTypeOK'
  BY FaultIsTyped DEF JobsInv, QueueInv, QueueTypeOK
<1>4. NamedAsGiven' /\ AllCounted'
  BY <1>1 DEF JobsInv, QueueInv, NamedAsGiven, AllCounted
<1>5. QED
  BY <1>1, <1>2, <1>3, <1>4

LEMMA TakeJobKeepsInv ==
    ASSUME JobsInv, NEW w \in Worker, NEW id \in Id, TakeJob(w, id)
    PROVE  JobsInv'
<1> DEFINE n == job[id].started + 1
           j == [job[id] EXCEPT !.state = "active", !.started = n, !.lock = n]
<1>0. PICK run : run = [worker |-> w, id |-> id, attempt |-> n]
  OBVIOUS
<1>1. /\ job[id] # None /\ job[id] \in JobRow /\ job[id].state = "waiting" /\ Counted(job[id])
      /\ job' = [job EXCEPT ![id] = j]
      /\ runs' = runs \cup {run} /\ startedAt' = [startedAt EXCEPT ![w] = @ \cup {id}]
      /\ UNCHANGED <<producerVars, faults>>
  BY <1>0 DEF TakeJob, JobsInv, QueueInv, QueueTypeOK, AllCounted
<1>2. /\ j \in JobRow /\ j.from = job[id].from /\ j.input = job[id].input /\ Counted(j)
      /\ j.state = "active" /\ j.lock = n /\ j.started = n /\ j.stalled = job[id].stalled
      /\ n \in Nat
  <2>1. n \in Nat
    BY <1>1 DEF JobRow
  <2>2. j \in JobRow
    BY <1>1, <2>1 DEF JobRow
  <2>3. /\ j.state = "active" /\ j.lock = n /\ j.started = n
        /\ \A f \in {"from", "input", "attempts", "failed", "stalled"} : j[f] = job[id][f]
    BY <1>1 DEF JobRow
  <2>4. Counted(j)
    BY <1>1, <2>3 DEF Counted, JobRow
  <2>5. QED
    BY <2>1, <2>2, <2>3, <2>4
<1>3. /\ run.worker = w /\ run.id = id /\ run.attempt = n
      /\ run \in [worker : Worker, id : Id, attempt : Nat]
  BY <1>0, <1>2
<1> HIDE DEF n, j
<1>4. /\ ProducerInv' /\ QueueTypeOK' /\ NamedAsGiven' /\ AllCounted'
      /\ job'[id] = j /\ j # None /\ \A other \in Id \ {id} : job'[other] = job[other]
  BY <1>1, <1>2, <1>3, OneJobChanges DEF JobsInv, QueueInv, QueueTypeOK
<1>5. \A a \in runs : a.id = id => a.attempt \in 1..job[id].started /\ job[id].stalled > 0
  BY <1>1 DEF JobsInv, QueueInv, RunsLocked, HoldsLock
<1>6. n = job[id].started + 1 /\ job[id].started \in Nat
  BY <1>1 DEF n, JobRow
<1>7. RunsLocked'
  <2>1. \A a \in runs' : /\ job'[a.id] # None /\ a.attempt \in 1..job'[a.id].started
                         /\ HoldsLock(a)' \/ job'[a.id].stalled > 0
    <3>1. ASSUME NEW a \in runs, a.id = id
          PROVE  /\ job'[a.id] # None /\ a.attempt \in 1..job'[a.id].started
                 /\ job'[a.id].stalled > 0
      BY <1>2, <1>4, <1>5, <1>6, <3>1
    <3>2. ASSUME NEW a \in runs, a.id # id
          PROVE  /\ job'[a.id] # None /\ a.attempt \in 1..job'[a.id].started
                 /\ HoldsLock(a)' \/ job'[a.id].stalled > 0
      BY <1>4, <3>2 DEF JobsInv, QueueInv, QueueTypeOK, RunsLocked, HoldsLock
    <3>3. /\ job'[run.id] # None /\ run.attempt \in 1..job'[run.id].started
          /\ HoldsLock(run)'
      BY <1>2, <1>3, <1>4, <1>6 DEF HoldsLock
    <3>4. QED
      BY <1>1, <3>1, <3>2, <3>3
  <2>2. \A a, b \in runs' : a.id = b.id /\ a.attempt = b.attempt => a = b
    BY <1>1, <1>3, <1>5, <1>6 DEF JobsInv, QueueInv, RunsLocked
  <2>3. QED
    BY <2>1, <2>2 DEF RunsLocked
<1>8. OnlyJobsTimed'
  BY <1>1, <1>4 DEF JobsInv, QueueInv, QueueTypeOK, OnlyJobsTimed
<1>9. TimingsOfRunningJobs'
  <2>1. RunsOn(w, id)' # {}
    BY <1>1, <1>3 DEF RunsOn
  <2>2. \A v \in Worker, other \in Id : RunsOn(v, other) \subseteq RunsOn(v, other)'
    BY <1>1 DEF RunsOn
  <2>3. \A v \in Worker, other \in Id :
           other \in startedAt'[v] => other \in startedAt[v] \/ (v = w /\ other = id)
    BY <1>1 DEF JobsInv, QueueInv, QueueTypeOK
  <2>4. \A other \in Id : job[other].stalled > 0 => job'[other].stalled > 0
    BY <1>2, <1>4
  <2>5. QED
    BY <2>1, <2>2, <2>3, <2>4 DEF JobsInv, QueueInv, TimingsOfRunningJobs
<1>10. QED
  BY <1>4, <1>7, <1>8, <1>9 DEF JobsInv, QueueInv

\* A job that is settled, or given back, by a run or by the worker that found
\* it stalled: no run begins, the job loses its lock, and who ran it without
\* being heard of is known to have stalled.
LEMMA UnlockedJobKeepsInv ==
    ASSUME JobsInv, NEW id \in Id, NEW j \in JobRow,
           job[id] # None, job[id].state = "active",
           job' = [job EXCEPT ![id] = j], j.from = job[id].from, j.input = job[id].input,
           Counted(j), j.state # "active", j.started = job[id].started,
           j.stalled >= job[id].stalled, UNCHANGED producerVars, Fault \/ UNCHANGED faults,
           runs' \subseteq runs, startedAt' \in [Worker -> SUBSET Id],
           \A w \in Worker : startedAt'[w] \subseteq startedAt[w],
           j.stalled > 0 \/ \A run \in runs' : run.id = id => ~HoldsLock(run),
           \A w \in Worker, run \in runs \ runs' :
              run.worker = w => run.id \notin startedAt'[w] \/ job'[run.id].stalled > 0
    PROVE  JobsInv'
<1>1. runs' \in SUBSET [worker : Worker, id : Id, attempt : Nat]
  BY DEF JobsInv, QueueInv, QueueTypeOK
<1>2. /\ ProducerInv' /\ QueueTypeOK' /\ NamedAsGiven' /\ AllCounted'
      /\ job'[id] = j /\ j # None /\ \A other \in Id \ {id} : job'[other] = job[other]
  BY <1>1, OneJobChanges
<1>3. \A other \in Id : job[other] # None =>
         /\ job'[other] # None /\ job'[other].started = job[other].started
         /\ job[other].stalled > 0 => job'[other].stalled > 0
  BY <1>2 DEF JobRow, JobsInv, QueueInv, QueueTypeOK
<1>4. RunsLocked'
  <2>1. ASSUME NEW run \in runs', run.id = id PROVE j.stalled > 0
    <3>1. HoldsLock(run) \/ job[id].stalled > 0
      BY <2>1 DEF JobsInv, QueueInv, RunsLocked
    <3>2. QED
      BY <2>1, <3>1 DEF JobRow, JobsInv, QueueInv, QueueTypeOK
  <2>2. ASSUME NEW run \in runs', run.id # id PROVE HoldsLock(run)' <=> HoldsLock(run)
    BY <1>2, <2>2 DEF HoldsLock, JobsInv, QueueInv, QueueTypeOK
  <2>3. \A run \in runs' : run \in runs /\ run.id \in Id
    BY DEF JobsInv, QueueInv, QueueTypeOK
  <2>4. QED
    BY <1>2, <1>3, <2>1, <2>2, <2>3 DEF JobsInv, QueueInv, RunsLocked
<1>5. OnlyJobsTimed'
  BY <1>3 DEF JobsInv, QueueInv, QueueTypeOK, OnlyJobsTimed
<1>6. TimingsOfRunningJobs'
  <2>1. ASSUME NEW w \in Worker, NEW other \in Id, other \in startedAt'[w]
        PROVE  RunsOn(w, other)' # {} \/ job'[other].stalled > 0
    <3>1. other \in startedAt[w] /\ job[other] # None
      BY <2>1 DEF JobsInv, QueueInv, OnlyJobsTimed
    <3>2. CASE job[other].stalled > 0
      BY <1>3, <3>1, <3>2
    <3>3. CASE RunsOn(w, other) # {}
      <4>1. PICK run \in runs : run.worker = w /\ run.id = other
        BY <3>3 DEF RunsOn
      <4>2. CASE run \in runs'
        BY <4>1, <4>2 DEF RunsOn
      <4>3. CASE run \notin runs'
        BY <2>1, <4>1, <4>3
      <4>4. QED
        BY <4>2, <4>3
    <3>4. QED
      BY <3>1, <3>2, <3>3 DEF JobsInv, QueueInv, TimingsOfRunningJobs
  <2>2. QED
    BY <2>1 DEF TimingsOfRunningJobs
<1>7. QED
  BY <1>2, <1>4, <1>5, <1>6 DEF JobsInv, QueueInv

LEMMA RunEndsKeepsInv ==
    ASSUME JobsInv, NEW run \in runs, NEW outcome \in {"returned", "threw"}, RunEnds(run, outcome)
    PROVE  JobsInv'
<1> DEFINE id == run.id
           j == After(job[id], outcome)
<1>1. /\ run.id \in Id /\ run.worker \in Worker /\ job[run.id] # None /\ job[run.id] \in JobRow
      /\ HoldsLock(run) \/ job[run.id].stalled > 0
      /\ Counted(job[run.id])
  BY DEF JobsInv, QueueInv, QueueTypeOK, RunsLocked, AllCounted
<1>2. runs' = runs \ {run} /\ UNCHANGED <<producerVars, faults>>
  BY DEF RunEnds
<1>3. CASE HoldsLock(run)
  <2>1. /\ job' = [job EXCEPT ![id] = j]
        /\ startedAt' = [startedAt EXCEPT ![run.worker] = startedAt[run.worker] \ {id}]
        /\ job[id].state = "active" /\ job[id].lock = run.attempt
    BY <1>3 DEF RunEnds, TimingAfter, HoldsLock
  <2>2. j \in JobRow /\ Counted(j)
    <3>1. CASE outcome = "returned"
      BY <1>1, <2>1, <3>1 DEF After, JobRow, Counted
    <3>2. CASE outcome = "threw"
      <4> DEFINE next == IF job[id].failed + 1 < job[id].attempts THEN "waiting" ELSE "failed"
      <4>1. j = [job[id] EXCEPT !.state = next, !.failed = job[id].failed + 1, !.lock = 0]
        BY <3>2 DEF After
      <4>2. job[id] \in JobRow /\ Counted(job[id])
        BY <1>1
      <4>3. next \in {"waiting", "failed"} /\ job[id].failed + 1 \in Nat
        BY <4>2 DEF JobRow
      <4> HIDE DEF j, id, next
      <4>4. j \in JobRow
        BY <4>1, <4>2, <4>3 DEF JobRow
      <4>5. /\ j.state = next /\ j.failed = job[id].failed + 1 /\ j.lock = 0
            /\ \A f \in {"input", "attempts", "started", "stalled"} : j[f] = job[id][f]
        BY <4>1, <4>2 DEF JobRow
      <4>6. Counted(j)
        BY <2>1, <4>2, <4>3, <4>5 DEF Counted, JobRow, next
      <4>7. QED
        BY <4>4, <4>6
    <3>3. QED
      BY <3>1, <3>2
  <2>3. /\ j.from = job[id].from /\ j.input = job[id].input /\ j.state # "active"
        /\ j.started = job[id].started /\ j.stalled = job[id].stalled /\ j.stalled >= job[id].stalled
    BY <1>1 DEF After, JobRow
  <2>4. /\ startedAt' \in [Worker -> SUBSET Id]
        /\ \A w \in Worker : startedAt'[w] \subseteq startedAt[w]
        /\ id \notin startedAt'[run.worker]
    BY <1>1, <2>1 DEF JobsInv, QueueInv, QueueTypeOK
  <2>5. \A other \in runs' : other.id = id => ~HoldsLock(other)
    BY <1>2, <2>1 DEF JobsInv, QueueInv, RunsLocked, HoldsLock
  <2> HIDE DEF id, j
  <2>6. id \in Id /\ job[id] # None /\ id = run.id
    BY <1>1 DEF id
  <2>7. \A w \in Worker, r \in runs \ runs' : r.worker = w => r.id \notin startedAt'[w]
    BY <1>2, <2>4, <2>6
  <2>8. runs' \subseteq runs
    BY <1>2
  <2>9. QED
    BY <1>2, <2>1, <2>2, <2>3, <2>4, <2>5, <2>6, <2>7, <2>8, UnlockedJobKeepsInv
<1>4. CASE ~HoldsLock(run)
  <2>1. UNCHANGED <<job, startedAt>>
    BY <1>4 DEF RunEnds
  <2>2. ProducerInv'
    BY <1>2, <2>1, ProducerStays DEF JobsInv
  <2>3. QueueTypeOK' /\ NamedAsGiven' /\ AllCounted' /\ OnlyJobsTimed'
    BY <1>2, <2>1 DEF JobsInv, QueueInv, QueueTypeOK, NamedAsGiven, AllCounted, OnlyJobsTimed
  <2>4. RunsLocked'
    BY <1>2, <2>1 DEF JobsInv, QueueInv, RunsLocked, HoldsLock
  <2>5. job[run.id].stalled > 0
    BY <1>1, <1>4
  <2>6. TimingsOfRunningJobs'
    <3>1. \A w \in Worker, other \in Id :
             RunsOn(w, other) # {} => RunsOn(w, other)' # {} \/ other = run.id
      BY <1>2 DEF RunsOn
    <3>2. QED
      BY <2>1, <2>5, <3>1 DEF JobsInv, QueueInv, TimingsOfRunningJobs
  <2>7. QED
    BY <2>2, <2>3, <2>4, <2>6 DEF JobsInv, QueueInv
<1>5. QED
  BY <1>3, <1>4

LEMMA FindStalledKeepsInv ==
    ASSUME JobsInv, NEW w \in Worker, NEW id \in Id, FindStalled(w, id)
    PROVE  JobsInv'
<1> DEFINE back == [job[id] EXCEPT !.state = "waiting", !.lock = 0, !.stalled = @ + 1]
           over == [job[id] EXCEPT !.state = "failed", !.lock = 0, !.stalled = @ + 1]
<1>1. /\ job[id] # None /\ job[id].state = "active" /\ job[id] \in JobRow /\ Counted(job[id])
      /\ Fault \/ UNCHANGED faults
      /\ UNCHANGED <<producerVars, runs>>
      /\ \/ job' = [job EXCEPT ![id] = back] /\ UNCHANGED startedAt
         \/ /\ job' = [job EXCEPT ![id] = over]
            /\ startedAt' = [startedAt EXCEPT ![w] = startedAt[w] \ {id}]
  BY DEF FindStalled, TimingAfter, JobsInv, QueueInv, QueueTypeOK, AllCounted
<1>2. \A j \in {back, over} :
         /\ j \in JobRow /\ Counted(j) /\ j.from = job[id].from /\ j.input = job[id].input
         /\ j.state # "active" /\ j.started = job[id].started
         /\ j.stalled >= job[id].stalled /\ j.stalled > 0
  <2>1. ASSUME NEW state \in {"waiting", "failed"}, NEW j,
               j = [job[id] EXCEPT !.state = state, !.lock = 0, !.stalled = job[id].stalled + 1]
        PROVE  /\ j \in JobRow /\ Counted(j) /\ j.from = job[id].from /\ j.input = job[id].input
               /\ j.state # "active" /\ j.started = job[id].started
               /\ j.stalled >= job[id].stalled /\ j.stalled > 0
    <3>1. job[id].stalled \in Nat /\ job[id].stalled + 1 \in Nat
      BY <1>1 DEF JobRow
    <3>2. j \in JobRow
      BY <1>1, <2>1, <3>1 DEF JobRow
    <3>3. /\ j.state = state /\ j.lock = 0 /\ j.stalled = job[id].stalled + 1
          /\ \A f \in {"from", "input", "attempts", "started", "failed"} : j[f] = job[id][f]
      BY <1>1, <2>1 DEF JobRow
    <3>4. Counted(j)
      BY <1>1, <3>3 DEF Counted, JobRow
    <3>5. QED
      BY <3>1, <3>2, <3>3, <3>4
  <2>2. QED
    BY <2>1
<1>3. /\ startedAt' \in [Worker -> SUBSET Id]
      /\ \A v \in Worker : startedAt'[v] \subseteq startedAt[v]
  BY <1>1 DEF JobsInv, QueueInv, QueueTypeOK
<1> HIDE DEF back, over
<1>4. PICK j \in {back, over} : job' = [job EXCEPT ![id] = j]
  BY <1>1
<1>5. runs' \subseteq runs /\ runs \ runs' = {}
  BY <1>1
<1>6. QED
  BY <1>1, <1>2, <1>3, <1>4, <1>5, UnlockedJobKeepsInv

LEMMA CrashKeepsInv ==
    ASSUME JobsInv, NEW w \in Worker, CrashWorker(w)
    PROVE  JobsInv'
<1>1. /\ runs' = {run \in runs : run.worker # w} /\ startedAt' = [startedAt EXCEPT ![w] = {}]
      /\ UNCHANGED <<producerVars, job>> /\ Fault
  BY DEF CrashWorker
<1>2. ProducerInv'
  BY <1>1, ProducerStays DEF JobsInv
<1>3. QueueTypeOK' /\ NamedAsGiven' /\ AllCounted' /\ OnlyJobsTimed'
  BY <1>1, FaultIsTyped
     DEF JobsInv, QueueInv, QueueTypeOK, NamedAsGiven, AllCounted, OnlyJobsTimed
<1>4. RunsLocked'
  BY <1>1 DEF JobsInv, QueueInv, RunsLocked, HoldsLock
<1>5. TimingsOfRunningJobs'
  <2>1. \A v \in Worker \ {w}, id \in Id : RunsOn(v, id)' = RunsOn(v, id)
    BY <1>1 DEF RunsOn
  <2>2. startedAt'[w] = {} /\ \A v \in Worker \ {w} : startedAt'[v] = startedAt[v]
    BY <1>1 DEF JobsInv, QueueInv, QueueTypeOK
  <2>3. QED
    BY <1>1, <2>1, <2>2 DEF JobsInv, QueueInv, TimingsOfRunningJobs
<1>6. QED
  BY <1>2, <1>3, <1>4, <1>5 DEF JobsInv, QueueInv

-----------------------------------------------------------------------------

LEMMA JobsInvInit == JobDeliveryInit => JobsInv
<1> SUFFICES ASSUME JobDeliveryInit PROVE JobsInv
  OBVIOUS
<1>1. ProducerInv
  BY DEF JobDeliveryInit, ProducerInv, ProducerTypeOK, CallRow, CallState, OnlyAcceptedSent,
         Unanswered, Traced
<1>2. QueueInv
  BY JobDeliveryAssumption
     DEF JobDeliveryInit, QueueInv, QueueTypeOK, NamedAsGiven, AllCounted, RunsLocked,
         OnlyJobsTimed, TimingsOfRunningJobs
<1>3. QED
  BY <1>1, <1>2 DEF JobsInv

\* What every call has come to and where every job is from, how often each job
\* was begun and why, and who holds its lock: for any number of calls, job ids,
\* workers, lost connections, crashes and stalls.
THEOREM JobsInvariant == JobDeliverySpec => []JobsInv
<1>1. ASSUME JobsInv, [JobDeliveryNext]_jobDeliveryVars PROVE JobsInv'
  <2>1. CASE UNCHANGED jobDeliveryVars
    <3>1. UNCHANGED <<producerVars, job, runs, startedAt, faults>>
      BY <2>1 DEF jobDeliveryVars, workerVars
    <3>2. QED
      BY <1>1, <3>1, QueueStays, ProducerStays DEF JobsInv
  <2>2. CASE JobDeliveryNext
    BY <1>1, <2>2, ProducerStepKeepsInv, TakeJobKeepsInv, RunEndsKeepsInv, FindStalledKeepsInv,
       CrashKeepsInv
       DEF JobDeliveryNext
  <2>3. QED
    BY <1>1, <2>1, <2>2
<1>2. QED
  BY <1>1, JobsInvInit, PTL DEF JobDeliverySpec

\* A call that was rejected has put nothing on the queue, unless its connection
\* was lost while it waited.
THEOREM RejectedLeavesNothing == JobDeliverySpec => []RejectedMeansNotAdded
<1>1. JobsInv => RejectedMeansNotAdded
  BY DEF JobsInv, ProducerInv, Traced, RejectedMeansNotAdded
<1>2. QED
  BY <1>1, JobsInvariant, PTL

\* The calls that give one job id put one job on the queue, and no job is begun
\* more often than it has attempts and stalls.
THEOREM JobIdsNameOneJob == JobDeliverySpec => []OneJobPerJobId
<1>1. ASSUME JobsInv, NEW given \in JobId
      PROVE  Cardinality({id \in Id : job[id] # None /\ job[id].input.jobId = given}) <= 1
  <2> DEFINE own == {id \in Id : job[id] # None /\ job[id].input.jobId = given}
  <2>1. own \subseteq {given}
    BY <1>1 DEF JobsInv, QueueInv, NamedAsGiven
  <2>2. IsFiniteSet({given}) /\ Cardinality({given}) = 1
    BY FS_Singleton
  <2>3. Cardinality(own) <= Cardinality({given})
    BY <2>1, <2>2, FS_Subset
  <2>4. QED
    BY <2>2, <2>3
<1>2. ASSUME JobsInv, NEW id \in Id, job[id] # None
      PROVE  job[id].started <=
                (IF job[id].input.attempts = None THEN 1 ELSE job[id].input.attempts) + job[id].stalled
  <2>1. Counted(job[id]) /\ job[id] \in JobRow
    BY <1>2 DEF JobsInv, QueueInv, QueueTypeOK, AllCounted
  <2>2. job[id].started <= job[id].attempts + job[id].stalled
    BY <2>1 DEF Counted, JobRow
  <2>3. QED
    BY <2>1, <2>2 DEF Counted
<1>3. JobsInv => OneJobPerJobId
  BY <1>1, <1>2 DEF OneJobPerJobId
<1>4. QED
  BY <1>3, JobsInvariant, PTL

\* A worker's map of start times holds its running jobs and jobs that stalled.
THEOREM TimingsStaySmall == JobDeliverySpec => []TimingsOfRunningJobs
<1>1. JobsInv => TimingsOfRunningJobs
  BY DEF JobsInv, QueueInv
<1>2. QED
  BY <1>1, JobsInvariant, PTL

-----------------------------------------------------------------------------
(* The safety half of AcknowledgedJobsEnd: the job stays on the queue, and  *)
(* moves towards its end a bounded number of times.                         *)

\* A job is only given up as stalled when it is found so once too often.
StallsBounded(j) ==
    \/ j.stalled <= MaxStalled
    \/ j.stalled = MaxStalled + 1 /\ j.state = "failed" /\ j.failed < j.attempts

\* A call that was answered, or will be if its connection holds, has its job.
AnsweredIsThere ==
    \A c \in Call : call[c].state \in {"added", "resolved"} => call[c].id \in Id /\ job[call[c].id] # None

\* Only a handler completes a job.
CompletedByHandler(j) == j.state = "completed" => j.input.name = "registered"

KeptInv ==
    /\ AnsweredIsThere
    /\ \A id \in Id : job[id] # None => StallsBounded(job[id]) /\ CompletedByHandler(job[id])

\* What a step of a worker makes of the job j.
JobMoves(j, k) ==
    \/ /\ j.state = "waiting"
       /\ k = [j EXCEPT !.state = "active", !.started = j.started + 1, !.lock = j.started + 1]
    \/ /\ j.state = "active"
       /\ \E outcome \in ProcessJob(j.input.name) : k = After(j, outcome)
    \/ /\ j.state = "active"
       /\ k = [j EXCEPT !.state = IF j.stalled < MaxStalled THEN "waiting" ELSE "failed",
                        !.lock = 0, !.stalled = j.stalled + 1]

\* How far a job has come.
Progress(j) == 2 * j.started - (IF j.state = "active" THEN 1 ELSE 0)

\* A job is as it was, has appeared for a call, or was moved by a worker.
JobStep(id) ==
    \/ job'[id] = job[id]
    \/ job[id] = None /\ \E c \in Call : job'[id] = NewJob(c)
    \/ job[id] # None /\ JobMoves(job[id], job'[id])

LEMMA StepsOfJobs ==
    ASSUME JobsInv, [JobDeliveryNext]_jobDeliveryVars
    PROVE  \A id \in Id : JobStep(id)
<1>0. job \in [Id -> JobRow \cup {None}]
  BY DEF JobsInv, QueueInv, QueueTypeOK
<1>1. ASSUME UNCHANGED job PROVE \A id \in Id : JobStep(id)
  BY <1>1 DEF JobStep
<1>2. ASSUME NEW c \in Call, AddJob(c) PROVE \A id \in Id : JobStep(id)
  BY <1>0, <1>1, <1>2 DEF AddJob, JobStep
<1>3. ASSUME NEW w \in Worker, NEW id \in Id, TakeJob(w, id) PROVE \A other \in Id : JobStep(other)
  BY <1>0, <1>3 DEF TakeJob, JobStep, JobMoves
<1>4. ASSUME NEW w \in Worker, NEW id \in Id, FindStalled(w, id) PROVE \A other \in Id : JobStep(other)
  BY <1>0, <1>4 DEF FindStalled, JobStep, JobMoves
<1>5. ASSUME NEW run \in runs, NEW outcome \in {"returned", "threw"}, RunEnds(run, outcome)
      PROVE  \A id \in Id : JobStep(id)
  <2>1. run.id \in Id /\ job[run.id] # None
    BY DEF JobsInv, QueueInv, QueueTypeOK, RunsLocked
  <2>2. CASE HoldsLock(run)
    BY <1>0, <1>5, <2>1, <2>2 DEF RunEnds, HoldsLock, JobStep, JobMoves
  <2>3. CASE ~HoldsLock(run)
    BY <1>1, <1>5, <2>3 DEF RunEnds
  <2>4. QED
    BY <2>2, <2>3
<1>6. QED
  BY <1>1, <1>2, <1>3, <1>4, <1>5
     DEF JobDeliveryNext, jobDeliveryVars, Enqueue, AnswerEnqueue, LoseConnection, Reconnect,
         ReconnectFails, CloseProducer, QueueClosed, QuitAnswered, CrashWorker

\* What a move of a job does: it brings the job one further, nothing moves a job
\* that has ended, and only a handler completes it.
LEMMA MovesOfJobs ==
    ASSUME NEW j \in JobRow, NEW k, JobMoves(j, k), Counted(j), StallsBounded(j)
    PROVE  /\ k \in JobRow /\ k.from = j.from /\ k.input = j.input
           /\ j.state \notin {"completed", "failed"}
           /\ Progress(k) = Progress(j) + 1
           /\ StallsBounded(k) /\ CompletedByHandler(k)
<1>0. /\ j.started \in Nat /\ j.failed \in Nat /\ j.stalled \in Nat /\ j.attempts \in 1..10
      /\ j.state # "failed" => j.stalled <= MaxStalled /\ j.failed < j.attempts
  BY DEF JobRow, StallsBounded, Counted
<1>1. CASE /\ j.state = "waiting"
           /\ k = [j EXCEPT !.state = "active", !.started = j.started + 1, !.lock = j.started + 1]
  <2> DEFINE n == j.started + 1
  <2>0. n \in Nat /\ k = [j EXCEPT !.state = "active", !.started = n, !.lock = n]
    BY <1>0, <1>1
  <2> HIDE DEF n
  <2>1. k \in JobRow
    BY <2>0 DEF JobRow
  <2>2. /\ k.state = "active" /\ k.started = j.started + 1
        /\ \A f \in {"from", "input", "attempts", "failed", "stalled"} : k[f] = j[f]
    BY <2>0 DEF JobRow, n
  <2>3. QED
    BY <1>0, <1>1, <2>1, <2>2 DEF Progress, StallsBounded, CompletedByHandler
<1>2. ASSUME NEW outcome \in ProcessJob(j.input.name), j.state = "active", k = After(j, outcome)
      PROVE  /\ k \in JobRow /\ k.from = j.from /\ k.input = j.input
             /\ Progress(k) = Progress(j) + 1
             /\ StallsBounded(k) /\ CompletedByHandler(k)
  <2>1. CASE outcome = "returned"
    <3>1. k = [j EXCEPT !.state = "completed", !.lock = 0] /\ j.input.name = "registered"
      BY <1>2, <2>1 DEF After, ProcessJob
    <3>2. k \in JobRow
      BY <3>1 DEF JobRow
    <3>3. /\ k.state = "completed"
          /\ \A f \in {"from", "input", "attempts", "started", "failed", "stalled"} : k[f] = j[f]
      BY <3>1 DEF JobRow
    <3>4. QED
      BY <1>0, <1>2, <3>1, <3>2, <3>3 DEF Progress, StallsBounded, CompletedByHandler
  <2>2. CASE outcome # "returned"
    <3> DEFINE next == IF j.failed + 1 < j.attempts THEN "waiting" ELSE "failed"
    <3>1. k = [j EXCEPT !.state = next, !.failed = j.failed + 1, !.lock = 0]
      BY <1>2, <2>2 DEF After
    <3>2. next \in {"waiting", "failed"} /\ j.failed + 1 \in Nat
      BY <1>0
    <3> HIDE DEF next
    <3>3. k \in JobRow
      BY <3>1, <3>2 DEF JobRow
    <3>4. /\ k.state = next
          /\ \A f \in {"from", "input", "attempts", "started", "stalled"} : k[f] = j[f]
      BY <3>1 DEF JobRow
    <3>5. QED
      BY <1>0, <1>2, <3>2, <3>3, <3>4 DEF Progress, StallsBounded, CompletedByHandler
  <2>3. QED
    BY <2>1, <2>2
<1>3. CASE /\ j.state = "active"
           /\ k = [j EXCEPT !.state = IF j.stalled < MaxStalled THEN "waiting" ELSE "failed",
                            !.lock = 0, !.stalled = j.stalled + 1]
  <2> DEFINE next == IF j.stalled < MaxStalled THEN "waiting" ELSE "failed"
  <2>1. k = [j EXCEPT !.state = next, !.lock = 0, !.stalled = j.stalled + 1]
    BY <1>3
  <2>2. /\ next \in {"waiting", "failed"} /\ j.stalled + 1 \in Nat
        /\ j.stalled + 1 <= MaxStalled \/ (next = "failed" /\ j.stalled + 1 = MaxStalled + 1)
    BY <1>0, <1>3 DEF MaxStalled
  <2> HIDE DEF next
  <2>3. k \in JobRow
    BY <2>1, <2>2 DEF JobRow
  <2>4. /\ k.state = next /\ k.stalled = j.stalled + 1
        /\ \A f \in {"from", "input", "attempts", "started", "failed"} : k[f] = j[f]
    BY <2>1 DEF JobRow
  <2>5. QED
    BY <1>0, <1>3, <2>2, <2>3, <2>4 DEF Progress, StallsBounded, CompletedByHandler
<1>4. QED
  BY <1>1, <1>2, <1>3 DEF JobMoves


LEMMA KeptInvInit == JobDeliveryInit => KeptInv
  BY DEF JobDeliveryInit, KeptInv, AnsweredIsThere

\* No job is ever taken off the queue.
LEMMA JobsRemain ==
    ASSUME JobsInv, KeptInv, [JobDeliveryNext]_jobDeliveryVars, NEW id \in Id, job[id] # None
    PROVE  /\ job'[id] # None
           /\ \/ job'[id] = job[id]
              \/ JobMoves(job[id], job'[id]) /\ StallsBounded(job[id])
<1>1. job[id] \in JobRow /\ Counted(job[id]) /\ StallsBounded(job[id])
  BY DEF JobsInv, QueueInv, QueueTypeOK, AllCounted, KeptInv
<1>2. job'[id] = job[id] \/ JobMoves(job[id], job'[id])
  BY StepsOfJobs DEF JobStep
<1>3. JobMoves(job[id], job'[id]) => job'[id] \in JobRow
  BY <1>1, MovesOfJobs
<1>4. QED
  BY <1>1, <1>2, <1>3, NoneAssumption

\* What the steps of the producer do to the id of a call that has a job.
LEMMA AnswersName ==
    ASSUME JobsInv, [JobDeliveryNext]_jobDeliveryVars, NEW c \in Call,
           call'[c].state \in {"added", "resolved"}
    PROVE  \/ call[c].state \in {"added", "resolved"} /\ call'[c].id = call[c].id
           \/ call'[c].id \in Id /\ job'[call'[c].id] # None
<1>0. /\ call \in [Call -> CallRow] /\ job \in [Id -> JobRow \cup {None}]
      /\ OnlyAcceptedSent
  BY DEF JobsInv, ProducerInv, ProducerTypeOK, QueueInv, QueueTypeOK
<1>1. CASE call' = call
  BY <1>1
<1>2. ASSUME NEW d \in Call, NEW input \in Offered, Enqueue(d, input)
      PROVE  call[c].state \in {"added", "resolved"} /\ call'[c].id = call[c].id
  BY <1>0, <1>2 DEF Enqueue, Settled
<1>3. ASSUME NEW d \in Call, AddJob(d)
      PROVE  \/ call[c].state \in {"added", "resolved"} /\ call'[c].id = call[c].id
             \/ call'[c].id \in Id /\ job'[call'[c].id] # None
  <2>1. PICK id \in Id : /\ call' = [call EXCEPT ![d].state = "added", ![d].id = id]
                         /\ job' = IF job[id] = None THEN [job EXCEPT ![id] = NewJob(d)] ELSE job
    BY <1>3 DEF AddJob
  <2>2. NewJob(d) # None
    BY <1>0, <1>3, OptionsAreTyped, NoneAssumption
       DEF OnlyAcceptedSent, Unanswered, AddJob, NewJob, JobRow
  <2>3. job'[id] # None
    BY <1>0, <2>1, <2>2
  <2>4. CASE c = d
    BY <1>0, <2>1, <2>3, <2>4 DEF CallRow
  <2>5. CASE c # d
    BY <1>0, <2>1, <2>5
  <2>6. QED
    BY <2>4, <2>5
<1>4. ASSUME NEW d \in Call, AnswerEnqueue(d)
      PROVE  call[c].state \in {"added", "resolved"} /\ call'[c].id = call[c].id
  BY <1>0, <1>4 DEF AnswerEnqueue, Settled
<1>5. CASE LoseConnection \/ ReconnectFails
  <2>1. \/ call' = call \/ call' = GivenUp
        \/ call' = [d \in Call |-> IF Unanswered(d)
                                   THEN [call[d] EXCEPT !.state = "sent", !.id = None, !.lost = TRUE]
                                   ELSE call[d]]
    BY <1>5 DEF LoseConnection, ReconnectFails
  <2>2. \/ call'[c] = call[c] \/ call'[c].state = "rejected"
        \/ call'[c] = [call[c] EXCEPT !.state = "sent", !.id = None, !.lost = TRUE]
    <3>1. CASE call' = GivenUp
      BY <3>1 DEF GivenUp, Settled
    <3>2. QED
      BY <2>1, <3>1
  <2>3. [call[c] EXCEPT !.state = "sent", !.id = None, !.lost = TRUE].state = "sent"
    BY <1>0 DEF CallRow
  <2>4. QED
    BY <2>2, <2>3
<1>6. QED
  BY <1>1, <1>2, <1>3, <1>4, <1>5
     DEF JobDeliveryNext, jobDeliveryVars, producerVars, Reconnect, CloseProducer, QueueClosed,
         QuitAnswered, TakeJob, FindStalled, CrashWorker, RunEnds

LEMMA StepKeepsKept ==
    ASSUME JobsInv, KeptInv, [JobDeliveryNext]_jobDeliveryVars
    PROVE  KeptInv'
<1>1. AnsweredIsThere'
  <2>1. ASSUME NEW c \in Call, call[c].state \in {"added", "resolved"}
        PROVE  call[c].id \in Id /\ job'[call[c].id] # None
    BY <2>1, JobsRemain DEF KeptInv, AnsweredIsThere
  <2>2. QED
    BY <2>1, AnswersName DEF AnsweredIsThere
<1>2. ASSUME NEW id \in Id, job'[id] # None
      PROVE  StallsBounded(job'[id]) /\ CompletedByHandler(job'[id])
  <2>1. CASE job'[id] = job[id]
    BY <1>2, <2>1 DEF KeptInv, StallsBounded, CompletedByHandler
  <2>2. ASSUME NEW c \in Call, job'[id] = NewJob(c)
        PROVE  StallsBounded(job'[id]) /\ CompletedByHandler(job'[id])
    BY <2>2 DEF NewJob, StallsBounded, CompletedByHandler, MaxStalled
  <2>3. CASE job[id] # None /\ JobMoves(job[id], job'[id])
    <3>1. job[id] \in JobRow /\ Counted(job[id]) /\ StallsBounded(job[id])
      BY <2>3 DEF JobsInv, QueueInv, QueueTypeOK, AllCounted, KeptInv
    <3>2. QED
      BY <2>3, <3>1, MovesOfJobs
  <2>4. QED
    BY <2>1, <2>2, <2>3, StepsOfJobs DEF JobStep
<1>3. QED
  BY <1>1, <1>2 DEF KeptInv, StallsBounded, CompletedByHandler

LEMMA KeptInvariant == JobDeliverySpec => [](JobsInv /\ KeptInv)
<1>1. JobsInv /\ KeptInv /\ JobsInv' /\ [JobDeliveryNext]_jobDeliveryVars => KeptInv'
  BY StepKeepsKept
<1>2. QED
  BY <1>1, KeptInvInit, JobsInvariant, PTL DEF JobDeliverySpec

\* A job that a call was told of is on the queue from then on: it has ended as
\* it should, waits, was orphaned, so that a worker can take or find it, or is
\* at work under its lock.
AcknowledgedJobsKept ==
    \A c \in Call : call[c].state = "resolved" =>
        LET id == call[c].id
        IN  /\ id \in Id /\ job[id] # None
            /\ \/ Ended(id) \/ job[id].state = "waiting" \/ Orphaned(id)
               \/ \E run \in runs : run.id = id /\ HoldsLock(run)

\* With what QUEUES.md says: an acknowledged job is not lost, whatever
\* connections, crashes and stalls come after the answer.  That leaves to
\* AcknowledgedJobsEnd only that workers do take, find and end their jobs.
THEOREM AcknowledgedJobsAreKept == JobDeliverySpec => []AcknowledgedJobsKept
<1>1. ASSUME JobsInv, KeptInv, NEW id \in Id, job[id] # None
      PROVE  \/ Ended(id) \/ job[id].state = "waiting" \/ Orphaned(id)
             \/ \E run \in runs : run.id = id /\ HoldsLock(run)
  <2>1. job[id].state \in {"waiting", "active", "completed", "failed"}
    BY <1>1 DEF JobsInv, QueueInv, QueueTypeOK, JobRow
  <2>2. QED
    BY <1>1, <2>1 DEF KeptInv, CompletedByHandler, Ended, Orphaned
<1>2. JobsInv /\ KeptInv => AcknowledgedJobsKept
  BY <1>1 DEF KeptInv, AnsweredIsThere, AcknowledgedJobsKept
<1>3. QED
  BY <1>2, KeptInvariant, PTL

\* No job leaves the queue or becomes another's, and a step that changes it
\* brings it exactly one further: whatever failed, stalled or was retried.
JobAdvances(id) ==
    job[id] # None =>
        /\ job'[id] # None /\ job'[id].from = job[id].from /\ job'[id].input = job[id].input
        /\ job'[id] # job[id] =>
              /\ job[id].state \notin {"completed", "failed"}
              /\ Progress(job'[id]) = Progress(job[id]) + 1

JobsOnlyAdvance == [][\A id \in Id : JobAdvances(id)]_jobDeliveryVars

\* An ended job is never taken, retried or given another outcome, and no step
\* of the workers leads a job back to where it was.
THEOREM JobsOnlyGoForward == JobDeliverySpec => JobsOnlyAdvance
<1>1. ASSUME JobsInv, KeptInv, [JobDeliveryNext]_jobDeliveryVars, NEW id \in Id
      PROVE  JobAdvances(id)
  <2>1. CASE job[id] = None
    BY <2>1 DEF JobAdvances
  <2>2. CASE job[id] # None
    <3>1. job[id] \in JobRow /\ Counted(job[id])
      BY <1>1, <2>2 DEF JobsInv, QueueInv, QueueTypeOK, AllCounted
    <3>2. QED
      BY <1>1, <2>2, <3>1, JobsRemain, MovesOfJobs DEF JobAdvances
  <2>3. QED
    BY <2>1, <2>2
<1>2. JobsInv /\ KeptInv /\ [JobDeliveryNext]_jobDeliveryVars
         => [\A id \in Id : JobAdvances(id)]_jobDeliveryVars
  BY <1>1
<1>3. QED
  BY <1>2, KeptInvariant, PTL DEF JobDeliverySpec, JobsOnlyAdvance

\* How often a handler may see one job at most.
BegunBoundedly ==
    \A id \in Id : job[id] # None => job[id].started <= job[id].attempts + MaxStalled

\* A job is begun at most once for every attempt it has and once more for a
\* stall, so with JobsOnlyAdvance it changes at most twice as often: a job
\* without its own attempts reaches its handler at most twice.
THEOREM JobsBeginBoundedly == JobDeliverySpec => []BegunBoundedly
<1>1. ASSUME JobsInv, KeptInv, NEW id \in Id, job[id] # None
      PROVE  job[id].started <= job[id].attempts + MaxStalled
  <2>1. job[id] \in JobRow /\ Counted(job[id]) /\ StallsBounded(job[id])
    BY <1>1 DEF JobsInv, QueueInv, QueueTypeOK, AllCounted, KeptInv
  <2>2. QED
    BY <2>1 DEF JobRow, Counted, StallsBounded, MaxStalled
<1>2. JobsInv /\ KeptInv => BegunBoundedly
  BY <1>1 DEF BegunBoundedly
<1>3. QED
  BY <1>2, KeptInvariant, PTL
=============================================================================
