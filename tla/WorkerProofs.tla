---------------------------- MODULE WorkerProofs ----------------------------
(***************************************************************************)
(* WorkerInv is inductive, and from it: the worker process leaves no       *)
(* connection open, its exit code tells what happened, and nothing is      *)
(* started once a stop has begun; and a shutdown can always go on, with    *)
(* nothing but jobs that repeats.  For any set of jobs and concurrency.    *)
(***************************************************************************)
EXTENDS WorkerInvariant, TLAPS

\* Before the launch there is nothing.
LEMMA InitEstablishesInv == WorkerInit => WorkerInv
<1>1. WorkerInit => WorkerTypeOK
  BY DEF WorkerInit, QueueInit, WorkerTypeOK, QueueTypeOK, FlowsTypeOK, FlagsTypeOK
<1>2. WorkerInit => NotLaunched /\ Launched
  BY DEF WorkerInit, NotLaunched, Launched
<1>3. WorkerInit => ConnectionOwned /\ StartFlow /\ StopFlow /\ OutcomeFlow
  BY DEF WorkerInit, QueueInit, ConnectionOwned, StartFlow, StopFlow, OutcomeFlow, Settled
<1>4. QED
  BY <1>1, <1>2, <1>3 DEF WorkerInv

-----------------------------------------------------------------------------
(* Each action of the application keeps the invariant.                       *)

\* The start begins from an idle application that has nothing.
LEMMA LaunchKeepsInv ==
    ASSUME WorkerInv, Launch
    PROVE  WorkerInv'
<1>1. WorkerTypeOK'
  <2>1. QueueTypeOK /\ FlowsTypeOK /\ FlagsTypeOK
    BY DEF WorkerInv, WorkerTypeOK
  <2>2. QueueTypeOK'
    BY <2>1 DEF Launch, QueueTypeOK
  <2>3. FlowsTypeOK'
    BY <2>1 DEF Launch, FlowsTypeOK
  <2>4. FlagsTypeOK'
    BY <2>1 DEF Launch, FlagsTypeOK
  <2>5. QED BY <2>2, <2>3, <2>4 DEF WorkerTypeOK
<1>2. NotLaunched' /\ Launched'
  BY DEF Launch, NotLaunched, Launched
<1>3. ConnectionOwned'
  BY DEF Launch, WorkerInv, ConnectionOwned
<1>4. StartFlow'
  BY DEF Launch, WorkerInv, NotLaunched, QueueInit, StartFlow
<1>5. StopFlow'
  BY DEF Launch, WorkerInv, NotLaunched, StopFlow
<1>6. OutcomeFlow'
  BY DEF Launch, WorkerInv, OutcomeFlow
<1>7. QED BY <1>1, <1>2, <1>3, <1>4, <1>5, <1>6 DEF WorkerInv

\* Only a start that no stop has overtaken makes a queue worker.
LEMMA HealthKnownKeepsInv ==
    ASSUME WorkerInv, HealthKnown
    PROVE  WorkerInv'
<1>1. WorkerTypeOK'
  <2>1. QueueTypeOK /\ FlowsTypeOK /\ FlagsTypeOK
    BY DEF WorkerInv, WorkerTypeOK
  <2>2. QueueTypeOK'
    BY <2>1 DEF HealthKnown, StartQueueWorker, queueVars, QueueTypeOK
  <2>3. FlowsTypeOK'
    BY ZenonT(60), <2>1 DEF HealthKnown, StartQueueWorker, FlowsTypeOK
  <2>4. FlagsTypeOK'
    BY <2>1 DEF HealthKnown, StartQueueWorker, FlagsTypeOK
  <2>5. QED BY <2>2, <2>3, <2>4 DEF WorkerTypeOK
<1>2. NotLaunched' /\ Launched'
  BY DEF HealthKnown, StartQueueWorker, queueVars, WorkerInv, NotLaunched, Launched
<1>3. ConnectionOwned'
  BY DEF HealthKnown, StartQueueWorker, queueVars, WorkerInv, ConnectionOwned, StartFlow
<1>4. StartFlow'
  BY DEF HealthKnown, StartQueueWorker, queueVars, WorkerInv, NotLaunched, Launched,
         ConnectionOwned, StartFlow, StopFlow, WorkerTypeOK, FlowsTypeOK
<1>5. StopFlow'
  BY DEF HealthKnown, StartQueueWorker, queueVars, WorkerInv, StopFlow, Settled
<1>6. OutcomeFlow'
  BY DEF HealthKnown, StartQueueWorker, WorkerInv, OutcomeFlow
<1>7. QED BY <1>1, <1>2, <1>3, <1>4, <1>5, <1>6 DEF WorkerInv

\* A start that a stop has overtaken ends without running.
LEMMA QueueStartedKeepsInv ==
    ASSUME WorkerInv, QueueStarted
    PROVE  WorkerInv'
<1>1. WorkerTypeOK'
  <2>1. QueueTypeOK /\ FlowsTypeOK /\ FlagsTypeOK
    BY DEF WorkerInv, WorkerTypeOK
  <2>2. QueueTypeOK'
    BY <2>1 DEF QueueStarted, queueVars, QueueTypeOK
  <2>3. FlowsTypeOK'
    BY <2>1 DEF QueueStarted, FlowsTypeOK
  <2>4. FlagsTypeOK'
    BY <2>1 DEF QueueStarted, FlagsTypeOK
  <2>5. QED BY <2>2, <2>3, <2>4 DEF WorkerTypeOK
<1>2. NotLaunched' /\ Launched'
  BY DEF QueueStarted, queueVars, WorkerInv, NotLaunched, Launched
<1>3. ConnectionOwned'
  BY DEF QueueStarted, queueVars, WorkerInv, ConnectionOwned
<1>4. StartFlow'
  BY DEF QueueStarted, queueVars, WorkerInv, NotLaunched, Launched, StartFlow,
         StopFlow, WorkerTypeOK, FlowsTypeOK
<1>5. StopFlow'
  BY DEF QueueStarted, queueVars, WorkerInv, StartFlow, StopFlow, Settled
<1>6. OutcomeFlow'
  BY DEF QueueStarted, WorkerInv, OutcomeFlow
<1>7. QED BY <1>1, <1>2, <1>3, <1>4, <1>5, <1>6 DEF WorkerInv

\* A start that failed by itself forces the close of its queue worker.
LEMMA QueueNotStartedKeepsInv ==
    ASSUME WorkerInv, QueueNotStarted
    PROVE  WorkerInv'
<1>1. WorkerTypeOK'
  <2>1. QueueTypeOK /\ FlowsTypeOK /\ FlagsTypeOK
    BY DEF WorkerInv, WorkerTypeOK
  <2>2. QueueTypeOK'
    BY <2>1 DEF QueueNotStarted, queueVars, CallForcedClose, Abandoned, QueueTypeOK
  <2>3. FlowsTypeOK'
    BY ZenonT(60), <2>1 DEF QueueNotStarted, FlowsTypeOK
  <2>4. FlagsTypeOK'
    BY <2>1 DEF QueueNotStarted, FlagsTypeOK
  <2>5. QED BY <2>2, <2>3, <2>4 DEF WorkerTypeOK
<1>2. NotLaunched' /\ Launched'
  BY DEF QueueNotStarted, queueVars, CallForcedClose, WorkerInv, NotLaunched, Launched
<1>3. ConnectionOwned'
  BY DEF QueueNotStarted, queueVars, CallForcedClose, WorkerInv, ConnectionOwned
<1>4. StartFlow'
  BY DEF QueueNotStarted, queueVars, CallForcedClose, WorkerInv, NotLaunched, Launched,
         StartFlow, StopFlow, WorkerTypeOK, FlowsTypeOK
<1>5. StopFlow'
  BY DEF QueueNotStarted, queueVars, CallForcedClose, WorkerInv, StopFlow, Settled
<1>6. OutcomeFlow'
  BY DEF QueueNotStarted, CallForcedClose, WorkerInv, OutcomeFlow
<1>7. QED BY <1>1, <1>2, <1>3, <1>4, <1>5, <1>6 DEF WorkerInv

\* Its connection has been disconnected when the forced close began.
LEMMA StartGivenUpKeepsInv ==
    ASSUME WorkerInv, StartGivenUp
    PROVE  WorkerInv'
<1>1. WorkerTypeOK'
  <2>1. QueueTypeOK /\ FlowsTypeOK /\ FlagsTypeOK
    BY DEF WorkerInv, WorkerTypeOK
  <2>2. QueueTypeOK'
    BY <2>1 DEF StartGivenUp, queueVars, QueueTypeOK
  <2>3. FlowsTypeOK'
    BY <2>1 DEF StartGivenUp, FlowsTypeOK
  <2>4. FlagsTypeOK'
    BY <2>1 DEF StartGivenUp, FlagsTypeOK
  <2>5. QED BY <2>2, <2>3, <2>4 DEF WorkerTypeOK
<1>2. NotLaunched' /\ Launched'
  BY DEF StartGivenUp, queueVars, WorkerInv, NotLaunched, Launched
<1>3. ConnectionOwned'
  BY DEF StartGivenUp, queueVars, WorkerInv, ConnectionOwned
<1>4. StartFlow'
  BY DEF StartGivenUp, queueVars, WorkerInv, ConnectionOwned, StartFlow
<1>5. StopFlow'
  BY DEF StartGivenUp, queueVars, WorkerInv, StopFlow, Settled
<1>6. OutcomeFlow'
  BY DEF StartGivenUp, WorkerInv, OutcomeFlow
<1>7. QED BY <1>1, <1>2, <1>3, <1>4, <1>5, <1>6 DEF WorkerInv

\* The same for the stop that found a start under way.
LEMMA ForceClosedDuringStartKeepsInv ==
    ASSUME WorkerInv, ForceClosedDuringStart
    PROVE  WorkerInv'
<1>1. WorkerTypeOK'
  <2>1. QueueTypeOK /\ FlowsTypeOK /\ FlagsTypeOK
    BY DEF WorkerInv, WorkerTypeOK
  <2>2. QueueTypeOK'
    BY <2>1 DEF ForceClosedDuringStart, queueVars, QueueTypeOK
  <2>3. FlowsTypeOK'
    BY <2>1 DEF ForceClosedDuringStart, StopSettles, FlowsTypeOK
  <2>4. FlagsTypeOK'
    BY <2>1 DEF ForceClosedDuringStart, FlagsTypeOK
  <2>5. QED BY <2>2, <2>3, <2>4 DEF WorkerTypeOK
<1>2. NotLaunched' /\ Launched'
  BY DEF ForceClosedDuringStart, queueVars, StopSettles, WorkerInv, NotLaunched,
         Launched
<1>3. ConnectionOwned'
  BY DEF ForceClosedDuringStart, queueVars, WorkerInv, ConnectionOwned
<1>4. StartFlow'
  BY DEF ForceClosedDuringStart, queueVars, StopSettles, ForceRejected, WorkerInv,
         ConnectionOwned, StartFlow
<1>5. StopFlow'
  BY DEF ForceClosedDuringStart, queueVars, StopSettles, WorkerInv, ConnectionOwned,
         StartFlow, StopFlow, Settled
<1>6. OutcomeFlow'
  BY DEF ForceClosedDuringStart, StopSettles, WorkerInv, OutcomeFlow, Settled
<1>7. QED BY <1>1, <1>2, <1>3, <1>4, <1>5, <1>6 DEF WorkerInv

\* The stop that waited for the start leaves no connection: the start made
\* none, or the forced close ended it.
LEMMA StartAwaitedKeepsInv ==
    ASSUME WorkerInv, StartAwaited
    PROVE  WorkerInv'
<1>1. WorkerTypeOK'
  <2>1. QueueTypeOK /\ FlowsTypeOK /\ FlagsTypeOK
    BY DEF WorkerInv, WorkerTypeOK
  <2>2. QueueTypeOK'
    BY <2>1 DEF StartAwaited, queueVars, QueueTypeOK
  <2>3. FlowsTypeOK'
    BY <2>1 DEF StartAwaited, StopSettles, FlowsTypeOK
  <2>4. FlagsTypeOK'
    BY <2>1 DEF StartAwaited, FlagsTypeOK
  <2>5. QED BY <2>2, <2>3, <2>4 DEF WorkerTypeOK
<1>2. NotLaunched' /\ Launched'
  BY DEF StartAwaited, queueVars, StopSettles, WorkerInv, NotLaunched, Launched
<1>3. ConnectionOwned'
  BY DEF StartAwaited, queueVars, WorkerInv, ConnectionOwned
<1>4. StartFlow'
  BY DEF StartAwaited, queueVars, StopSettles, WorkerInv, StartFlow
<1>5. StopFlow'
  BY DEF StartAwaited, queueVars, StopSettles, WorkerInv, StopFlow, Settled
<1>6. OutcomeFlow'
  BY DEF StartAwaited, StopSettles, WorkerInv, OutcomeFlow, Settled
<1>7. QED BY <1>1, <1>2, <1>3, <1>4, <1>5, <1>6 DEF WorkerInv

\* A graceful close begins only for a worker that has been running.
LEMMA PausedKeepsInv ==
    ASSUME WorkerInv, Paused
    PROVE  WorkerInv'
<1>1. WorkerTypeOK'
  <2>1. QueueTypeOK /\ FlowsTypeOK /\ FlagsTypeOK
    BY DEF WorkerInv, WorkerTypeOK
  <2>2. QueueTypeOK'
    BY <2>1 DEF Paused, CallGracefulClose, QueueTypeOK
  <2>3. FlowsTypeOK'
    BY <2>1 DEF Paused, FlowsTypeOK
  <2>4. FlagsTypeOK'
    BY <2>1 DEF Paused, FlagsTypeOK
  <2>5. QED BY <2>2, <2>3, <2>4 DEF WorkerTypeOK
<1>2. NotLaunched' /\ Launched'
  BY DEF Paused, CallGracefulClose, WorkerInv, NotLaunched, Launched
<1>3. ConnectionOwned'
  BY DEF Paused, CallGracefulClose, WorkerInv, ConnectionOwned
<1>4. StartFlow'
  BY DEF Paused, CallGracefulClose, WorkerInv, StartFlow
<1>5. StopFlow'
  BY DEF Paused, CallGracefulClose, WorkerInv, StopFlow, Settled
<1>6. OutcomeFlow'
  BY DEF Paused, CallGracefulClose, WorkerInv, OutcomeFlow, Settled
<1>7. QED BY <1>1, <1>2, <1>3, <1>4, <1>5, <1>6 DEF WorkerInv

\* A graceful close that has succeeded ended the connection.
LEMMA GracefullyClosedKeepsInv ==
    ASSUME WorkerInv, GracefullyClosed
    PROVE  WorkerInv'
<1>1. WorkerTypeOK'
  <2>1. QueueTypeOK /\ FlowsTypeOK /\ FlagsTypeOK
    BY DEF WorkerInv, WorkerTypeOK
  <2>2. QueueTypeOK'
    BY <2>1 DEF GracefullyClosed, queueVars, QueueTypeOK
  <2>3. FlowsTypeOK'
    BY <2>1 DEF GracefullyClosed, StopSettles, FlowsTypeOK
  <2>4. FlagsTypeOK'
    BY <2>1 DEF GracefullyClosed, FlagsTypeOK
  <2>5. QED BY <2>2, <2>3, <2>4 DEF WorkerTypeOK
<1>2. NotLaunched' /\ Launched'
  BY DEF GracefullyClosed, queueVars, StopSettles, WorkerInv, NotLaunched, Launched
<1>3. ConnectionOwned'
  BY DEF GracefullyClosed, queueVars, WorkerInv, ConnectionOwned
<1>4. StartFlow'
  BY DEF GracefullyClosed, queueVars, StopSettles, WorkerInv, ConnectionOwned, StartFlow
<1>5. StopFlow'
  BY DEF GracefullyClosed, queueVars, StopSettles, WorkerInv, ConnectionOwned,
         StartFlow, StopFlow, Settled
<1>6. OutcomeFlow'
  BY DEF GracefullyClosed, StopSettles, WorkerInv, OutcomeFlow, Settled
<1>7. QED BY <1>1, <1>2, <1>3, <1>4, <1>5, <1>6 DEF WorkerInv

\* One that has failed is followed by a forced one.
LEMMA GracefulCloseFailedKeepsInv ==
    ASSUME WorkerInv, GracefulCloseFailed
    PROVE  WorkerInv'
<1>1. WorkerTypeOK'
  <2>1. QueueTypeOK /\ FlowsTypeOK /\ FlagsTypeOK
    BY DEF WorkerInv, WorkerTypeOK
  <2>2. QueueTypeOK'
    BY <2>1 DEF GracefulCloseFailed, queueVars, CallForcedClose, Abandoned, QueueTypeOK
  <2>3. FlowsTypeOK'
    BY <2>1 DEF GracefulCloseFailed, FlowsTypeOK
  <2>4. FlagsTypeOK'
    BY <2>1 DEF GracefulCloseFailed, FlagsTypeOK
  <2>5. QED BY <2>2, <2>3, <2>4 DEF WorkerTypeOK
<1>2. NotLaunched' /\ Launched'
  BY DEF GracefulCloseFailed, queueVars, CallForcedClose, WorkerInv, NotLaunched,
         Launched
<1>3. ConnectionOwned'
  BY DEF GracefulCloseFailed, queueVars, CallForcedClose, WorkerInv, ConnectionOwned,
         StartFlow, StopFlow
<1>4. StartFlow'
  BY DEF GracefulCloseFailed, queueVars, CallForcedClose, WorkerInv, StartFlow, StopFlow
<1>5. StopFlow'
  BY DEF GracefulCloseFailed, queueVars, CallForcedClose, WorkerInv, StopFlow, Settled
<1>6. OutcomeFlow'
  BY DEF GracefulCloseFailed, CallForcedClose, WorkerInv, OutcomeFlow, Settled
<1>7. QED BY <1>1, <1>2, <1>3, <1>4, <1>5, <1>6 DEF WorkerInv

\* So is one that takes too long, unless it has just ended.
LEMMA ShutdownTimeoutKeepsInv ==
    ASSUME WorkerInv, ShutdownTimeout
    PROVE  WorkerInv'
<1>1. WorkerTypeOK'
  <2>1. QueueTypeOK /\ FlowsTypeOK /\ FlagsTypeOK
    BY DEF WorkerInv, WorkerTypeOK
  <2>2. QueueTypeOK'
    BY <2>1 DEF ShutdownTimeout, queueVars, CallForcedClose, Abandoned, QueueTypeOK
  <2>3. FlowsTypeOK'
    BY <2>1 DEF ShutdownTimeout, FlowsTypeOK
  <2>4. FlagsTypeOK'
    BY <2>1 DEF ShutdownTimeout, FlagsTypeOK
  <2>5. QED BY <2>2, <2>3, <2>4 DEF WorkerTypeOK
<1>2. NotLaunched' /\ Launched'
  BY DEF ShutdownTimeout, queueVars, CallForcedClose, WorkerInv, NotLaunched, Launched
<1>3. ConnectionOwned'
  BY DEF ShutdownTimeout, queueVars, CallForcedClose, WorkerInv, ConnectionOwned,
         StartFlow, StopFlow
<1>4. StartFlow'
  BY DEF ShutdownTimeout, queueVars, CallForcedClose, WorkerInv, StartFlow, StopFlow
<1>5. StopFlow'
  BY DEF ShutdownTimeout, queueVars, CallForcedClose, WorkerInv, StopFlow, Settled
<1>6. OutcomeFlow'
  BY DEF ShutdownTimeout, CallForcedClose, WorkerInv, OutcomeFlow, Settled
<1>7. QED BY <1>1, <1>2, <1>3, <1>4, <1>5, <1>6 DEF WorkerInv

\* The stop settles after the forced close, whatever its outcome.
LEMMA ForceClosedKeepsInv ==
    ASSUME WorkerInv, ForceClosed
    PROVE  WorkerInv'
<1>1. WorkerTypeOK'
  <2>1. QueueTypeOK /\ FlowsTypeOK /\ FlagsTypeOK
    BY DEF WorkerInv, WorkerTypeOK
  <2>2. QueueTypeOK'
    BY <2>1 DEF ForceClosed, queueVars, QueueTypeOK
  <2>3. FlowsTypeOK'
    BY <2>1 DEF ForceClosed, StopSettles, FlowsTypeOK
  <2>4. FlagsTypeOK'
    BY <2>1 DEF ForceClosed, FlagsTypeOK
  <2>5. QED BY <2>2, <2>3, <2>4 DEF WorkerTypeOK
<1>2. NotLaunched' /\ Launched'
  BY DEF ForceClosed, queueVars, StopSettles, WorkerInv, NotLaunched, Launched
<1>3. ConnectionOwned'
  BY DEF ForceClosed, queueVars, WorkerInv, ConnectionOwned
<1>4. StartFlow'
  BY DEF ForceClosed, queueVars, StopSettles, ForceResolved, ForceRejected, WorkerInv,
         ConnectionOwned, StartFlow
<1>5. StopFlow'
  BY DEF ForceClosed, queueVars, StopSettles, WorkerInv, ConnectionOwned, StartFlow,
         StopFlow, Settled
<1>6. OutcomeFlow'
  BY DEF ForceClosed, StopSettles, WorkerInv, OutcomeFlow, Settled
<1>7. QED BY <1>1, <1>2, <1>3, <1>4, <1>5, <1>6 DEF WorkerInv

\* The lifecycle repeats how the start or the stop has settled.
LEMMA LifecycleSettlesKeepsInv ==
    ASSUME WorkerInv, LifecycleSettles
    PROVE  WorkerInv'
<1>1. WorkerTypeOK'
  <2>1. QueueTypeOK /\ FlowsTypeOK /\ FlagsTypeOK
    BY DEF WorkerInv, WorkerTypeOK
  <2>2. QueueTypeOK'
    BY <2>1 DEF LifecycleSettles, queueVars, QueueTypeOK
  <2>3. FlowsTypeOK'
    BY ZenonT(60), <2>1 DEF LifecycleSettles, FlowsTypeOK
  <2>4. FlagsTypeOK'
    BY <2>1 DEF LifecycleSettles, FlagsTypeOK
  <2>5. QED BY <2>2, <2>3, <2>4 DEF WorkerTypeOK
<1>2. NotLaunched' /\ Launched'
  BY DEF LifecycleSettles, queueVars, WorkerInv, NotLaunched, Launched
<1>3. ConnectionOwned'
  BY DEF LifecycleSettles, queueVars, WorkerInv, ConnectionOwned
<1>4. StartFlow'
  BY DEF LifecycleSettles, queueVars, WorkerInv, StartFlow
<1>5. StopFlow'
  BY DEF LifecycleSettles, queueVars, WorkerInv, StopFlow
<1>6. OutcomeFlow'
  BY DEF LifecycleSettles, WorkerInv, OutcomeFlow
<1>7. QED BY <1>1, <1>2, <1>3, <1>4, <1>5, <1>6 DEF WorkerInv

\* The bootstrap stops only what failed, or shares the stop of a signal.
LEMMA BootstrapFailsKeepsInv ==
    ASSUME WorkerInv, BootstrapFails
    PROVE  WorkerInv'
<1>1. WorkerTypeOK'
  <2>1. QueueTypeOK /\ FlowsTypeOK /\ FlagsTypeOK
    BY DEF WorkerInv, WorkerTypeOK
  <2>2. QueueTypeOK'
    BY <2>1 DEF BootstrapFails, queueVars, StopCalled, CallForcedClose, Abandoned,
                CallPause, QueueTypeOK
  <2>3. FlowsTypeOK'
    BY <2>1 DEF BootstrapFails, StopCalled, FlowsTypeOK
  <2>4. FlagsTypeOK'
    BY <2>1 DEF BootstrapFails, FlagsTypeOK
  <2>5. QED BY <2>2, <2>3, <2>4 DEF WorkerTypeOK
<1>2. NotLaunched' /\ Launched'
  BY DEF BootstrapFails, queueVars, StopCalled, CallForcedClose, CallPause, WorkerInv,
         NotLaunched, Launched
<1>3. ConnectionOwned'
  BY DEF BootstrapFails, queueVars, StopCalled, CallForcedClose, CallPause, WorkerInv,
         ConnectionOwned
<1>4. StartFlow'
  BY DEF BootstrapFails, queueVars, StopCalled, CallForcedClose, CallPause, WorkerInv,
         StartFlow
<1>5. StopFlow'
  BY DEF BootstrapFails, queueVars, StopCalled, CallForcedClose, CallPause, WorkerInv,
         ConnectionOwned, StartFlow, StopFlow, Settled
<1>6. OutcomeFlow'
  BY DEF BootstrapFails, StopCalled, CallForcedClose, WorkerInv, OutcomeFlow
<1>7. QED BY <1>1, <1>2, <1>3, <1>4, <1>5, <1>6 DEF WorkerInv

\* The exit changes nothing but the exit code.
LEMMA BootstrapEndsKeepsInv ==
    ASSUME WorkerInv, BootstrapEnds
    PROVE  WorkerInv'
<1>1. WorkerTypeOK'
  <2>1. QueueTypeOK /\ FlowsTypeOK /\ FlagsTypeOK
    BY DEF WorkerInv, WorkerTypeOK
  <2>2. QueueTypeOK'
    <3>1. UNCHANGED queueVars
      BY DEF BootstrapEnds
    <3>2. QED BY <2>1, <3>1 DEF queueVars, QueueTypeOK
  <2>3. FlowsTypeOK'
    BY ZenonT(60), <2>1 DEF BootstrapEnds, FlowsTypeOK
  <2>4. FlagsTypeOK'
    BY <2>1 DEF BootstrapEnds, FlagsTypeOK
  <2>5. QED BY <2>2, <2>3, <2>4 DEF WorkerTypeOK
<1>2. NotLaunched' /\ Launched'
  BY DEF BootstrapEnds, queueVars, WorkerInv, NotLaunched, Launched
<1>3. ConnectionOwned'
  BY DEF BootstrapEnds, queueVars, WorkerInv, ConnectionOwned
<1>4. StartFlow'
  BY DEF BootstrapEnds, queueVars, WorkerInv, StartFlow
<1>5. StopFlow'
  BY DEF BootstrapEnds, queueVars, WorkerInv, StopFlow
<1>6. OutcomeFlow'
  BY DEF BootstrapEnds, WorkerInv, OutcomeFlow, Settled
<1>7. QED BY <1>1, <1>2, <1>3, <1>4, <1>5, <1>6 DEF WorkerInv

\* A signal may find the application anywhere in its start.
LEMMA SignalKeepsInv ==
    ASSUME WorkerInv, Signal
    PROVE  WorkerInv'
<1>1. WorkerTypeOK'
  <2>1. QueueTypeOK /\ FlowsTypeOK /\ FlagsTypeOK
    BY DEF WorkerInv, WorkerTypeOK
  <2>2. QueueTypeOK'
    BY <2>1 DEF Signal, queueVars, StopCalled, CallForcedClose, Abandoned, CallPause,
                QueueTypeOK
  <2>3. FlowsTypeOK'
    BY <2>1 DEF Signal, StopCalled, FlowsTypeOK
  <2>4. FlagsTypeOK'
    BY <2>1 DEF Signal, FlagsTypeOK
  <2>5. QED BY <2>2, <2>3, <2>4 DEF WorkerTypeOK
<1>2. NotLaunched' /\ Launched'
  BY DEF Signal, queueVars, StopCalled, CallForcedClose, CallPause, WorkerInv,
         NotLaunched, Launched
<1>3. ConnectionOwned'
  BY DEF Signal, queueVars, StopCalled, CallForcedClose, CallPause, WorkerInv,
         ConnectionOwned
<1>4. StartFlow'
  BY DEF Signal, queueVars, StopCalled, CallForcedClose, CallPause, WorkerInv, StartFlow
<1>5. StopFlow'
  BY DEF Signal, queueVars, StopCalled, CallForcedClose, CallPause, WorkerInv,
         ConnectionOwned, StartFlow, StopFlow, OutcomeFlow, Settled
<1>6. OutcomeFlow'
  BY DEF Signal, StopCalled, CallForcedClose, WorkerInv, OutcomeFlow
<1>7. QED BY <1>1, <1>2, <1>3, <1>4, <1>5, <1>6 DEF WorkerInv

-----------------------------------------------------------------------------
(* So does what the queue worker does by itself.                             *)

\* The answer of Redis moves no promise of the application.
LEMMA CheckRedisHealthKeepsInv ==
    ASSUME WorkerInv, CheckRedisHealth, UNCHANGED appVars
    PROVE  WorkerInv'
<1>1. WorkerTypeOK'
  <2>1. QueueTypeOK /\ FlowsTypeOK /\ FlagsTypeOK
    BY DEF WorkerInv, WorkerTypeOK
  <2>2. QueueTypeOK'
    BY <2>1 DEF CheckRedisHealth, QueueTypeOK
  <2>3. FlowsTypeOK'
    BY ZenonT(60), <2>1 DEF appVars, FlowsTypeOK
  <2>4. FlagsTypeOK'
    BY <2>1 DEF appVars, FlagsTypeOK
  <2>5. QED BY <2>2, <2>3, <2>4 DEF WorkerTypeOK
<1>2. lifecycle # "none"
  BY DEF CheckRedisHealth, WorkerInv, NotLaunched, QueueInit
<1>3. NotLaunched' /\ Launched'
  BY <1>2 DEF CheckRedisHealth, appVars, WorkerInv, NotLaunched, Launched
<1>4. ConnectionOwned'
  BY DEF CheckRedisHealth, WorkerInv, ConnectionOwned
<1>5. StartFlow'
  BY DEF CheckRedisHealth, appVars, WorkerInv, StartFlow
<1>6. StopFlow'
  BY DEF CheckRedisHealth, appVars, WorkerInv, StopFlow
<1>7. OutcomeFlow'
  BY DEF CheckRedisHealth, appVars, WorkerInv, OutcomeFlow
<1>8. QED BY <1>1, <1>3, <1>4, <1>5, <1>6, <1>7 DEF WorkerInv

\* The jobs are not part of who owns the connection.
LEMMA JobStartsKeepsInv ==
    ASSUME WorkerInv, NEW j \in Job, JobStarts(j), UNCHANGED appVars
    PROVE  WorkerInv'
<1>1. WorkerTypeOK'
  <2>1. QueueTypeOK /\ FlowsTypeOK /\ FlagsTypeOK
    BY DEF WorkerInv, WorkerTypeOK
  <2>2. QueueTypeOK'
    BY <2>1 DEF JobStarts, QueueTypeOK
  <2>3. FlowsTypeOK'
    BY ZenonT(60), <2>1 DEF appVars, FlowsTypeOK
  <2>4. FlagsTypeOK'
    BY <2>1 DEF appVars, FlagsTypeOK
  <2>5. QED BY <2>2, <2>3, <2>4 DEF WorkerTypeOK
<1>2. lifecycle # "none"
  BY DEF JobStarts, WorkerInv, NotLaunched, QueueInit
<1>3. NotLaunched' /\ Launched'
  BY <1>2 DEF JobStarts, appVars, WorkerInv, NotLaunched, Launched
<1>4. ConnectionOwned'
  BY DEF JobStarts, WorkerInv, ConnectionOwned
<1>5. StartFlow'
  BY DEF JobStarts, appVars, WorkerInv, StartFlow
<1>6. StopFlow'
  BY DEF JobStarts, appVars, WorkerInv, StopFlow
<1>7. OutcomeFlow'
  BY DEF JobStarts, appVars, WorkerInv, OutcomeFlow
<1>8. QED BY <1>1, <1>3, <1>4, <1>5, <1>6, <1>7 DEF WorkerInv

\* Nor is their end.
LEMMA JobEndsKeepsInv ==
    ASSUME WorkerInv, NEW j \in Job, JobEnds(j), UNCHANGED appVars
    PROVE  WorkerInv'
<1>1. WorkerTypeOK'
  <2>1. QueueTypeOK /\ FlowsTypeOK /\ FlagsTypeOK
    BY DEF WorkerInv, WorkerTypeOK
  <2>2. QueueTypeOK'
    BY <2>1 DEF JobEnds, QueueTypeOK
  <2>3. FlowsTypeOK'
    BY ZenonT(60), <2>1 DEF appVars, FlowsTypeOK
  <2>4. FlagsTypeOK'
    BY <2>1 DEF appVars, FlagsTypeOK
  <2>5. QED BY <2>2, <2>3, <2>4 DEF WorkerTypeOK
<1>2. lifecycle # "none"
  BY DEF JobEnds, WorkerInv, NotLaunched, QueueInit
<1>3. NotLaunched' /\ Launched'
  BY <1>2 DEF JobEnds, appVars, WorkerInv, NotLaunched, Launched
<1>4. ConnectionOwned'
  BY DEF JobEnds, WorkerInv, ConnectionOwned
<1>5. StartFlow'
  BY DEF JobEnds, appVars, WorkerInv, StartFlow
<1>6. StopFlow'
  BY DEF JobEnds, appVars, WorkerInv, StopFlow
<1>7. OutcomeFlow'
  BY DEF JobEnds, appVars, WorkerInv, OutcomeFlow
<1>8. QED BY <1>1, <1>3, <1>4, <1>5, <1>6, <1>7 DEF WorkerInv

\* Readiness comes only while nobody has closed the connection.
LEMMA WaitUntilReadyKeepsInv ==
    ASSUME WorkerInv, WaitUntilReady, UNCHANGED appVars
    PROVE  WorkerInv'
<1>1. WorkerTypeOK'
  <2>1. QueueTypeOK /\ FlowsTypeOK /\ FlagsTypeOK
    BY DEF WorkerInv, WorkerTypeOK
  <2>2. QueueTypeOK'
    BY <2>1 DEF WaitUntilReady, QueueTypeOK
  <2>3. FlowsTypeOK'
    BY <2>1 DEF appVars, FlowsTypeOK
  <2>4. FlagsTypeOK'
    BY <2>1 DEF appVars, FlagsTypeOK
  <2>5. QED BY <2>2, <2>3, <2>4 DEF WorkerTypeOK
<1>2. lifecycle # "none"
  BY DEF WaitUntilReady, WorkerInv, NotLaunched, QueueInit
<1>3. NotLaunched' /\ Launched'
  BY <1>2 DEF WaitUntilReady, appVars, WorkerInv, NotLaunched, Launched
<1>4. ConnectionOwned'
  BY DEF WaitUntilReady, WorkerInv, ConnectionOwned
<1>5. StartFlow'
  BY DEF WaitUntilReady, appVars, WorkerInv, StartFlow
<1>6. StopFlow'
  BY DEF WaitUntilReady, appVars, WorkerInv, StopFlow
<1>7. OutcomeFlow'
  BY DEF WaitUntilReady, appVars, WorkerInv, OutcomeFlow
<1>8. QED BY <1>1, <1>3, <1>4, <1>5, <1>6, <1>7 DEF WorkerInv

\* A failed wait closes the BullMQ worker first ...
LEMMA WaitUntilReadyFailsKeepsInv ==
    ASSUME WorkerInv, WaitUntilReadyFails, UNCHANGED appVars
    PROVE  WorkerInv'
<1>1. WorkerTypeOK'
  <2>1. QueueTypeOK /\ FlowsTypeOK /\ FlagsTypeOK
    BY DEF WorkerInv, WorkerTypeOK
  <2>2. QueueTypeOK'
    BY <2>1 DEF WaitUntilReadyFails, Abandoned, QueueTypeOK
  <2>3. FlowsTypeOK'
    BY <2>1 DEF appVars, FlowsTypeOK
  <2>4. FlagsTypeOK'
    BY <2>1 DEF appVars, FlagsTypeOK
  <2>5. QED BY <2>2, <2>3, <2>4 DEF WorkerTypeOK
<1>2. lifecycle # "none"
  BY DEF WaitUntilReadyFails, WorkerInv, NotLaunched, QueueInit
<1>3. NotLaunched' /\ Launched'
  BY <1>2 DEF WaitUntilReadyFails, appVars, WorkerInv, NotLaunched, Launched
<1>4. ConnectionOwned'
  BY DEF WaitUntilReadyFails, WorkerInv, ConnectionOwned
<1>5. StartFlow'
  BY DEF WaitUntilReadyFails, appVars, WorkerInv, ConnectionOwned, StartFlow
<1>6. StopFlow'
  BY DEF WaitUntilReadyFails, appVars, WorkerInv, StopFlow
<1>7. OutcomeFlow'
  BY DEF WaitUntilReadyFails, appVars, WorkerInv, OutcomeFlow
<1>8. QED BY <1>1, <1>3, <1>4, <1>5, <1>6, <1>7 DEF WorkerInv

\* ... and the connection last.
LEMMA StartFailsKeepsInv ==
    ASSUME WorkerInv, StartFails, UNCHANGED appVars
    PROVE  WorkerInv'
<1>1. WorkerTypeOK'
  <2>1. QueueTypeOK /\ FlowsTypeOK /\ FlagsTypeOK
    BY DEF WorkerInv, WorkerTypeOK
  <2>2. QueueTypeOK'
    BY <2>1 DEF StartFails, QueueTypeOK
  <2>3. FlowsTypeOK'
    BY <2>1 DEF appVars, FlowsTypeOK
  <2>4. FlagsTypeOK'
    BY <2>1 DEF appVars, FlagsTypeOK
  <2>5. QED BY <2>2, <2>3, <2>4 DEF WorkerTypeOK
<1>2. lifecycle # "none"
  BY DEF StartFails, WorkerInv, NotLaunched, QueueInit
<1>3. NotLaunched' /\ Launched'
  BY <1>2 DEF StartFails, appVars, WorkerInv, NotLaunched, Launched
<1>4. ConnectionOwned'
  BY DEF StartFails, WorkerInv, ConnectionOwned
<1>5. StartFlow'
  BY DEF StartFails, appVars, WorkerInv, StartFlow
<1>6. StopFlow'
  BY DEF StartFails, appVars, WorkerInv, StopFlow
<1>7. OutcomeFlow'
  BY DEF StartFails, appVars, WorkerInv, OutcomeFlow
<1>8. QED BY <1>1, <1>3, <1>4, <1>5, <1>6, <1>7 DEF WorkerInv

\* The graceful close ends the worker first ...
LEMMA GracefulWorkerCloseKeepsInv ==
    ASSUME WorkerInv, GracefulWorkerClose, UNCHANGED appVars
    PROVE  WorkerInv'
<1>1. WorkerTypeOK'
  <2>1. QueueTypeOK /\ FlowsTypeOK /\ FlagsTypeOK
    BY DEF WorkerInv, WorkerTypeOK
  <2>2. QueueTypeOK'
    BY <2>1 DEF GracefulWorkerClose, QueueTypeOK
  <2>3. FlowsTypeOK'
    BY <2>1 DEF appVars, FlowsTypeOK
  <2>4. FlagsTypeOK'
    BY <2>1 DEF appVars, FlagsTypeOK
  <2>5. QED BY <2>2, <2>3, <2>4 DEF WorkerTypeOK
<1>2. lifecycle # "none"
  BY DEF GracefulWorkerClose, WorkerInv, NotLaunched, QueueInit
<1>3. NotLaunched' /\ Launched'
  BY <1>2 DEF GracefulWorkerClose, appVars, WorkerInv, NotLaunched, Launched
<1>4. ConnectionOwned'
  BY DEF GracefulWorkerClose, WorkerInv, ConnectionOwned, StartFlow, StopFlow
<1>5. StartFlow'
  BY DEF GracefulWorkerClose, appVars, WorkerInv, StartFlow, StopFlow
<1>6. StopFlow'
  BY DEF GracefulWorkerClose, appVars, WorkerInv, StopFlow
<1>7. OutcomeFlow'
  BY DEF GracefulWorkerClose, appVars, WorkerInv, OutcomeFlow
<1>8. QED BY <1>1, <1>3, <1>4, <1>5, <1>6, <1>7 DEF WorkerInv

\* ... and the connection with it, answered or not.
LEMMA GracefulConnectionCloseKeepsInv ==
    ASSUME WorkerInv, GracefulConnectionClose, UNCHANGED appVars
    PROVE  WorkerInv'
<1>1. WorkerTypeOK'
  <2>1. QueueTypeOK /\ FlowsTypeOK /\ FlagsTypeOK
    BY DEF WorkerInv, WorkerTypeOK
  <2>2. QueueTypeOK'
    BY <2>1 DEF GracefulConnectionClose, QueueTypeOK
  <2>3. FlowsTypeOK'
    BY <2>1 DEF appVars, FlowsTypeOK
  <2>4. FlagsTypeOK'
    BY <2>1 DEF appVars, FlagsTypeOK
  <2>5. QED BY <2>2, <2>3, <2>4 DEF WorkerTypeOK
<1>2. lifecycle # "none"
  BY DEF GracefulConnectionClose, WorkerInv, NotLaunched, QueueInit
<1>3. NotLaunched' /\ Launched'
  BY <1>2 DEF GracefulConnectionClose, appVars, WorkerInv, NotLaunched, Launched
<1>4. ConnectionOwned'
  BY DEF GracefulConnectionClose, WorkerInv, ConnectionOwned
<1>5. StartFlow'
  BY DEF GracefulConnectionClose, appVars, WorkerInv, StartFlow
<1>6. StopFlow'
  BY DEF GracefulConnectionClose, appVars, WorkerInv, StopFlow
<1>7. OutcomeFlow'
  BY DEF GracefulConnectionClose, appVars, WorkerInv, OutcomeFlow
<1>8. QED BY <1>1, <1>3, <1>4, <1>5, <1>6, <1>7 DEF WorkerInv

\* The connection had ended when the forced close was called.
LEMMA ForcedCloseKeepsInv ==
    ASSUME WorkerInv, ForcedClose, UNCHANGED appVars
    PROVE  WorkerInv'
<1>1. WorkerTypeOK'
  <2>1. QueueTypeOK /\ FlowsTypeOK /\ FlagsTypeOK
    BY DEF WorkerInv, WorkerTypeOK
  <2>2. QueueTypeOK'
    BY <2>1 DEF ForcedClose, QueueTypeOK
  <2>3. FlowsTypeOK'
    BY <2>1 DEF appVars, FlowsTypeOK
  <2>4. FlagsTypeOK'
    BY <2>1 DEF appVars, FlagsTypeOK
  <2>5. QED BY <2>2, <2>3, <2>4 DEF WorkerTypeOK
<1>2. lifecycle # "none"
  BY DEF ForcedClose, WorkerInv, NotLaunched, QueueInit
<1>3. NotLaunched' /\ Launched'
  BY <1>2 DEF ForcedClose, appVars, WorkerInv, NotLaunched, Launched
<1>4. ConnectionOwned'
  BY DEF ForcedClose, WorkerInv, ConnectionOwned
<1>5. StartFlow'
  BY DEF ForcedClose, appVars, WorkerInv, StartFlow
<1>6. StopFlow'
  BY DEF ForcedClose, appVars, WorkerInv, StopFlow
<1>7. OutcomeFlow'
  BY DEF ForcedClose, appVars, WorkerInv, OutcomeFlow
<1>8. QED BY <1>1, <1>3, <1>4, <1>5, <1>6, <1>7 DEF WorkerInv

-----------------------------------------------------------------------------
(* The theorems.                                                            *)

\* Every continuation, signal and event of the queue worker keeps WorkerInv.
LEMMA StepKeepsInv == WorkerInv /\ [WorkerNext]_workerVars => WorkerInv'
<1> SUFFICES ASSUME WorkerInv, [WorkerNext]_workerVars PROVE WorkerInv'
  OBVIOUS
<1>1. CASE Continue
  BY <1>1, LaunchKeepsInv, HealthKnownKeepsInv, QueueStartedKeepsInv,
     QueueNotStartedKeepsInv, StartGivenUpKeepsInv, ForceClosedDuringStartKeepsInv,
     StartAwaitedKeepsInv, PausedKeepsInv, GracefullyClosedKeepsInv,
     GracefulCloseFailedKeepsInv, ShutdownTimeoutKeepsInv, ForceClosedKeepsInv,
     LifecycleSettlesKeepsInv, BootstrapFailsKeepsInv, BootstrapEndsKeepsInv DEF
     Continue
<1>2. CASE Signal
  BY <1>2, SignalKeepsInv
<1>3. CASE QueueSettles /\ UNCHANGED appVars
  BY <1>3, CheckRedisHealthKeepsInv, StartFailsKeepsInv, ForcedCloseKeepsInv,
     WaitUntilReadyFailsKeepsInv DEF QueueSettles
<1>4. CASE QueueMay /\ UNCHANGED appVars
  BY <1>4, WaitUntilReadyKeepsInv, WaitUntilReadyFailsKeepsInv, GracefulWorkerCloseKeepsInv,
     GracefulConnectionCloseKeepsInv, JobStartsKeepsInv, JobEndsKeepsInv DEF QueueMay
<1>5. CASE UNCHANGED workerVars
  <2>1. UNCHANGED queueVars /\ UNCHANGED appVars
    BY <1>5 DEF workerVars
  <2>2. WorkerTypeOK'
    <3>1. QueueTypeOK /\ FlowsTypeOK /\ FlagsTypeOK
      BY DEF WorkerInv, WorkerTypeOK
    <3>2. QueueTypeOK'
      BY <2>1, <3>1 DEF QueueTypeOK, queueVars
    <3>3. FlowsTypeOK'
      BY ZenonT(60), <2>1, <3>1 DEF FlowsTypeOK, appVars
    <3>4. FlagsTypeOK'
      BY <2>1, <3>1 DEF FlagsTypeOK, appVars
    <3>5. QED
      BY <3>2, <3>3, <3>4 DEF WorkerTypeOK
  <2>3. NotLaunched' /\ Launched'
    BY <2>1 DEF WorkerInv, NotLaunched, Launched, QueueInit, queueVars, appVars
  <2>4. ConnectionOwned' /\ StartFlow' /\ StopFlow' /\ OutcomeFlow'
    BY ZenonT(60), <2>1
       DEF WorkerInv, ConnectionOwned, StartFlow, StopFlow, OutcomeFlow, queueVars, appVars
  <2>5. QED
    BY <2>2, <2>3, <2>4 DEF WorkerInv
<1>6. QED
  BY <1>1, <1>2, <1>3, <1>4, <1>5 DEF WorkerNext

\* At every await of the worker process its promises relate to each other and
\* to the connection as WorkerInv says.
THEOREM WorkerInvariantHolds == WorkerSpec => []WorkerInv
<1>1. QED
  BY InitEstablishesInv, StepKeepsInv, PTL DEF WorkerSpec

\* The variables of the worker process keep their types.
THEOREM WorkerTypeCorrect == WorkerSpec => []WorkerTypeOK
<1>1. WorkerInv => WorkerTypeOK
  BY DEF WorkerInv
<1>2. QED
  BY <1>1, WorkerInvariantHolds, PTL

\* However start, stop and failures interleave, a process that has exited has
\* ended its connection and closed its BullMQ worker.
THEOREM ProcessLeavesNothingOpen == WorkerSpec => []NothingLeftOpen
<1>1. WorkerInv => NothingLeftOpen
  <2> SUFFICES ASSUME WorkerInv, Exited
               PROVE  connection # "open" /\ worker \in {"none", "closed"}
    BY DEF NothingLeftOpen
  <2>1. stop \in Settled
    BY DEF WorkerInv, OutcomeFlow, Settled, Exited
  <2>2. connection # "open"
    BY <2>1 DEF WorkerInv, StopFlow
  <2>3. connection \in {"none", "end"}
    BY <2>2 DEF WorkerInv, WorkerTypeOK, QueueTypeOK
  <2>4. QED
    BY <2>2, <2>3 DEF WorkerInv, ConnectionOwned
<1>2. QED
  BY <1>1, WorkerInvariantHolds, PTL

\* The process exits with 0 only after a signal and a shutdown that went
\* through, and with 1 only after a start or a stop that failed.
THEOREM ExitCodeIsTruthful == WorkerSpec => []ExitCodeTells
<1>1. WorkerInv => ExitCodeTells
  BY DEF WorkerInv, OutcomeFlow, ExitCodeTells
<1>2. QED
  BY <1>1, WorkerInvariantHolds, PTL

\* Once a stop has begun, no step makes a queue worker, enters the running
\* state or reports a start.
THEOREM NothingStartsAfterStop == WorkerSpec => NoStartAfterStop
<1>1. WorkerInv /\ [WorkerNext]_workerVars =>
        [stop # "none" =>
            /\ worker = "none" => worker' = "none"
            /\ state # "running" => state' # "running"
            /\ wasRunning' = wasRunning]_workerVars
  <2> SUFFICES ASSUME WorkerInv, WorkerNext, stop # "none"
               PROVE  /\ worker = "none" => worker' = "none"
                      /\ state # "running" => state' # "running"
                      /\ wasRunning' = wasRunning
    OBVIOUS
  <2>1. state \in {"stopping", "stopped"}
    BY DEF WorkerInv, StopFlow
  <2>2. CASE Continue
    <3>1. worker = "none" => worker' = "none"
      BY <2>1, <2>2 DEF Continue, WorkerInv, ConnectionOwned, StartFlow, StopFlow,
         Launch, HealthKnown, QueueStarted, QueueNotStarted, StartGivenUp,
         ForceClosedDuringStart, StartAwaited, Paused, GracefullyClosed, GracefulCloseFailed,
         ShutdownTimeout, ForceClosed, LifecycleSettles, BootstrapFails, BootstrapEnds,
         CallForcedClose, CallGracefulClose, queueVars
    <3>2. state # "running" => state' # "running"
      BY <2>1, <2>2 DEF Continue, WorkerInv, NotLaunched,
         Launch, HealthKnown, QueueStarted, QueueNotStarted, StartGivenUp,
         ForceClosedDuringStart, StartAwaited, Paused, GracefullyClosed, GracefulCloseFailed,
         ShutdownTimeout, ForceClosed, LifecycleSettles, BootstrapFails, BootstrapEnds,
         StopSettles
    <3>3. wasRunning' = wasRunning
      <4>1. CASE QueueStarted
        BY <2>1, <4>1 DEF QueueStarted, WorkerInv, WorkerTypeOK, FlagsTypeOK, StartFlow
      <4>2. CASE ~QueueStarted
        BY <2>2, <4>2 DEF Continue, Launch, HealthKnown, QueueNotStarted, StartGivenUp,
           ForceClosedDuringStart, StartAwaited, Paused, GracefullyClosed,
           GracefulCloseFailed, ShutdownTimeout, ForceClosed, LifecycleSettles,
           BootstrapFails, BootstrapEnds
      <4>3. QED
        BY <4>1, <4>2
    <3>4. QED
      BY <3>1, <3>2, <3>3
  <2>3. CASE Signal
    BY <2>1, <2>3 DEF Signal, StopCalled, queueVars
  <2>4. CASE (QueueSettles \/ QueueMay) /\ UNCHANGED appVars
    <3>1. worker = "none" => worker' = "none"
      BY <2>4 DEF QueueSettles, QueueMay, WorkerInv, ConnectionOwned, StartFlow, StopFlow,
         CheckRedisHealth, StartFails, ForcedClose, WaitUntilReady, WaitUntilReadyFails,
         GracefulWorkerClose, GracefulConnectionClose, JobStarts, JobEnds
    <3>2. QED
      BY <2>4, <3>1 DEF appVars
  <2>5. QED
    BY <2>2, <2>3, <2>4 DEF WorkerNext
<1>2. QED
  BY <1>1, WorkerInvariantHolds, PTL DEF WorkerSpec, NoStartAfterStop

\* A queue worker whose start was reported has become ready, so its start can
\* no longer fail and close it.
StartedIsReady == wasRunning => starting = "resolved"

LEMMA StepKeepsStartedReady ==
    ASSUME WorkerInv, StartedIsReady, [WorkerNext]_workerVars
    PROVE  StartedIsReady'
<1> USE DEF StartedIsReady
<1>1. wasRunning => start = "resolved"
  BY DEF WorkerInv, StartFlow
<1>2. CASE Continue
  <2>1. CASE HealthKnown
    BY <1>1, <2>1 DEF HealthKnown, queueVars
  <2>2. CASE QueueStarted
    BY <1>1, <2>2 DEF QueueStarted, queueVars
  <2>3. CASE QueueNotStarted
    BY <1>1, <2>3 DEF QueueNotStarted, CallForcedClose, queueVars
  <2>4. CASE Launch \/ StartGivenUp \/ ForceClosedDuringStart \/ StartAwaited
             \/ GracefullyClosed \/ ForceClosed \/ LifecycleSettles \/ BootstrapEnds
    BY <2>4 DEF Launch, StartGivenUp, ForceClosedDuringStart, StartAwaited,
       GracefullyClosed, ForceClosed, LifecycleSettles, BootstrapEnds, queueVars
  <2>5. CASE Paused \/ GracefulCloseFailed \/ ShutdownTimeout
    BY <2>5 DEF Paused, GracefulCloseFailed, ShutdownTimeout, CallGracefulClose,
       CallForcedClose, queueVars
  <2>6. CASE BootstrapFails
    BY <2>6 DEF BootstrapFails, StopCalled, CallForcedClose, CallPause, queueVars
  <2>7. QED
    BY <1>2, <2>1, <2>2, <2>3, <2>4, <2>5, <2>6 DEF Continue
<1>3. CASE Signal
  BY <1>3 DEF Signal, StopCalled, CallForcedClose, CallPause, queueVars
<1>4. CASE (QueueSettles \/ QueueMay) /\ UNCHANGED appVars
  BY <1>4 DEF QueueSettles, QueueMay, CheckRedisHealth, StartFails, ForcedClose,
     WaitUntilReady, WaitUntilReadyFails, GracefulWorkerClose, GracefulConnectionClose,
     JobStarts, JobEnds, appVars
<1>5. CASE UNCHANGED workerVars
  BY <1>5 DEF workerVars, queueVars, appVars
<1>6. QED
  BY <1>2, <1>3, <1>4, <1>5 DEF WorkerNext

\* A worker that has started abandons the job in no step but the two that give
\* a graceful close up.
LEMMA OnlyGivingUpAbandons ==
    ASSUME NEW j \in Job, WorkerInv, StartedIsReady, WorkerNext,
           wasRunning, job[j] = "active", job'[j] = "abandoned"
    PROVE  timedOut' \/ graceful = "rejected"
<1>1. start = "resolved" /\ starting = "resolved" /\ state # "starting"
  BY DEF WorkerInv, StartFlow, StartedIsReady
<1>2. job' # job
  OBVIOUS
<1>3. CASE Continue
  <2>1. CASE GracefulCloseFailed \/ ShutdownTimeout
    BY <2>1 DEF GracefulCloseFailed, ShutdownTimeout
  <2>2. CASE Launch \/ HealthKnown \/ QueueStarted \/ QueueNotStarted \/ StartGivenUp
    BY <1>1, <1>2, <2>2 DEF WorkerInv, NotLaunched, Launch, HealthKnown, QueueStarted,
       QueueNotStarted, StartGivenUp, queueVars
  <2>3. CASE ForceClosedDuringStart \/ StartAwaited \/ GracefullyClosed \/ ForceClosed
             \/ LifecycleSettles \/ BootstrapEnds
    BY <1>2, <2>3 DEF ForceClosedDuringStart, StartAwaited, GracefullyClosed, ForceClosed,
       LifecycleSettles, BootstrapEnds, queueVars
  <2>4. CASE Paused
    BY <1>2, <2>4 DEF Paused, CallGracefulClose
  <2>5. CASE BootstrapFails
    BY <1>1, <1>2, <2>5 DEF BootstrapFails, StopCalled, CallPause, queueVars
  <2>6. QED
    BY <1>3, <2>1, <2>2, <2>3, <2>4, <2>5 DEF Continue
<1>4. CASE Signal
  BY <1>1, <1>2, <1>4 DEF Signal, StopCalled, CallPause, queueVars
<1>5. CASE (QueueSettles \/ QueueMay) /\ UNCHANGED appVars
  <2>1. PICK k \in Job : JobStarts(k) \/ JobEnds(k)
    BY <1>1, <1>2, <1>5 DEF QueueSettles, QueueMay, CheckRedisHealth, StartFails,
       ForcedClose, WaitUntilReady, WaitUntilReadyFails, GracefulWorkerClose,
       GracefulConnectionClose
  <2>2. job \in [Job -> {"waiting", "active", "finished", "abandoned"}]
    BY DEF WorkerInv, WorkerTypeOK, QueueTypeOK
  <2>3. job'[j] \in {job[j], "active", "finished"}
    BY <2>1, <2>2 DEF JobStarts, JobEnds
  <2>4. QED
    BY <2>3
<1>6. QED
  BY <1>3, <1>4, <1>5 DEF WorkerNext

\* A worker that has started leaves a job to be found stalled only once the
\* shutdown timeout is over or its graceful close has failed.
THEOREM JobsAreNotCutOff == WorkerSpec => JobsCutOffOnlyAfterTimeout
<1>1. WorkerInit => StartedIsReady
  BY DEF WorkerInit, StartedIsReady
<1>2. WorkerInv /\ StartedIsReady /\ [WorkerNext]_workerVars => StartedIsReady'
  BY StepKeepsStartedReady
<1>3. WorkerInv /\ StartedIsReady /\ [WorkerNext]_workerVars =>
        [\A j \in Job :
           wasRunning /\ job[j] = "active" /\ job'[j] = "abandoned" =>
              timedOut' \/ graceful = "rejected"]_workerVars
  BY OnlyGivingUpAbandons
<1>4. QED
  BY <1>1, <1>2, <1>3, WorkerInvariantHolds, PTL DEF WorkerSpec, JobsCutOffOnlyAfterTimeout

-----------------------------------------------------------------------------
(* The safety half of ShutdownEnds: a shutdown is never stuck, and nothing  *)
(* but a job goes on without bringing the process forward.                  *)

EndInv ==
    /\ lifecycle = "started" => start = "resolved"
    /\ main = "stopping" => stop # "none"

LEMMA StepKeepsEndInv ==
    ASSUME WorkerInv, EndInv, [WorkerNext]_workerVars
    PROVE  EndInv'
<1> USE DEF EndInv
<1>1. CASE UNCHANGED appVars
  BY <1>1 DEF appVars
<1>2. CASE Launch \/ HealthKnown \/ QueueStarted \/ QueueNotStarted \/ StartGivenUp
  BY <1>2 DEF Launch, HealthKnown, QueueStarted, QueueNotStarted, StartGivenUp, WorkerInv, StartFlow,
              NotLaunched
<1>3. CASE \/ ForceClosedDuringStart \/ StartAwaited \/ Paused \/ GracefullyClosed
           \/ GracefulCloseFailed \/ ShutdownTimeout \/ ForceClosed
  BY <1>3 DEF ForceClosedDuringStart, StartAwaited, Paused, GracefullyClosed, GracefulCloseFailed,
              ShutdownTimeout, ForceClosed, StopSettles
<1>4. CASE LifecycleSettles \/ BootstrapEnds
  BY <1>4 DEF LifecycleSettles, BootstrapEnds
<1>5. CASE BootstrapFails \/ Signal
  BY <1>5 DEF BootstrapFails, Signal, StopCalled
<1>6. QED
  BY <1>1, <1>2, <1>3, <1>4, <1>5 DEF WorkerNext, Continue, workerVars

LEMMA EndInvariant == WorkerSpec => [](WorkerInv /\ EndInv)
<1>1. WorkerInit => EndInv
  BY DEF WorkerInit, EndInv
<1>2. WorkerInv /\ EndInv /\ [WorkerNext]_workerVars => EndInv'
  BY StepKeepsEndInv
<1>3. QED
  BY <1>1, <1>2, WorkerInvariantHolds, PTL DEF WorkerSpec

\* A call to Redis or BullMQ is under way whose answer, or timeout, is certain;
\* these are the guards of QueueSettles ...
CanSettle ==
    \/ health = "checking"
    \/ starting = "closing"
    \/ starting = "waiting" /\ connection = "end"
    \/ forced = "closing"

ForcedCloseKnown == ForceResolved \/ ForceRejected

\* ... or what some continuation awaits has settled: the guards of Continue.
CanContinue ==
    \/ lifecycle = "none"
    \/ start = "health" /\ health \in {"healthy", "unhealthy"}
    \/ start = "ready" /\ starting \in Settled
    \/ start = "closing" /\ ForcedCloseKnown
    \/ stop \in {"forceClosing", "forcing"} /\ ForcedCloseKnown
    \/ stop = "awaiting" /\ start \in Settled
    \/ stop \in {"pausing", "racing"}
    \/ lifecycle = "racing" /\ start \in Settled
    \/ lifecycle \in {"racing", "started"} /\ signalled /\ stop \in Settled
    \/ main = "running" /\ lifecycle \in {"returned", "threw"}
    \/ main = "stopping" /\ stop \in Settled

NeverStuck == ~Exited /\ (signalled \/ start = "rejected") => CanSettle \/ CanContinue

\* After a signal or a failed start the process never waits for what may not
\* come: neither for a job, nor for a graceful close or a readiness that Redis
\* does not answer, nor for a start and a stop that wait for each other.
THEOREM ShutdownIsNeverStuck == WorkerSpec => []NeverStuck
<1>1. ASSUME WorkerInv, EndInv, ~Exited, signalled \/ start = "rejected", ~CanSettle, ~CanContinue
      PROVE  FALSE
  <2>1. /\ health \in {"none", "checking", "healthy", "unhealthy"}
        /\ connection \in {"none", "open", "end"}
        /\ starting \in {"none", "waiting", "closing", "resolved", "rejected"}
        /\ forced \in {"none", "closing", "resolved", "rejected"}
        /\ start \in {"none", "health", "ready", "closing", "resolved", "rejected"}
        /\ stop \in {"none", "forceClosing", "pausing", "racing", "forcing", "awaiting",
                     "resolved", "rejected"}
        /\ lifecycle \in {"none", "racing", "started", "returned", "threw"}
        /\ main \in {"running", "stopping", "exited 0", "exited 1"}
    BY <1>1 DEF WorkerInv, WorkerTypeOK, QueueTypeOK, FlowsTypeOK
  <2>2. lifecycle # "none" /\ start \notin {"none", "health", "closing"}
    <3>1. lifecycle # "none" /\ start # "none" /\ health \in {"healthy", "unhealthy"}
      BY <1>1, <2>1 DEF CanSettle, CanContinue, WorkerInv, Launched
    <3>2. start = "closing" => ForcedCloseKnown
      BY <1>1, <2>1 DEF WorkerInv, StartFlow, ForcedCloseKnown, ForceResolved, ForceRejected, CanSettle
    <3>3. QED
      BY <1>1, <3>1, <3>2 DEF CanContinue
  <2>3. start = "ready" => connection = "open"
    <3>1. start = "ready" => starting = "waiting" /\ worker # "none"
      BY <1>1, <2>1 DEF CanSettle, CanContinue, Settled, WorkerInv, StartFlow, ConnectionOwned
    <3>2. QED
      BY <1>1, <2>1, <3>1 DEF CanSettle, WorkerInv, ConnectionOwned
  <2>4. stop \in {"none", "resolved", "rejected"}
    <3>1. stop \in {"forceClosing", "forcing"} => ForcedCloseKnown
      BY <1>1, <2>1
         DEF WorkerInv, StopFlow, ForcedCloseKnown, ForceResolved, ForceRejected, CanSettle
    <3>2. stop = "awaiting" => start \in Settled
      BY <1>1, <2>1, <2>2, <2>3 DEF WorkerInv, StopFlow, Settled
    <3>3. QED
      BY <1>1, <2>1, <3>1, <3>2 DEF CanContinue
  <2>5. CASE lifecycle \in {"racing", "started"}
    BY <1>1, <2>4, <2>5 DEF CanContinue, Settled, EndInv, WorkerInv, OutcomeFlow
  <2>6. CASE lifecycle \in {"returned", "threw"}
    BY <1>1, <2>1, <2>4, <2>6 DEF CanContinue, Settled, EndInv, Exited
  <2>7. QED
    BY <2>1, <2>2, <2>5, <2>6
<1>2. WorkerInv /\ EndInv => NeverStuck
  BY <1>1 DEF NeverStuck
<1>3. QED
  BY <1>2, EndInvariant, PTL

\* How far each promise, flow and flag has come.
HealthStage == CASE health = "none" -> 0 [] health = "checking" -> 1 [] OTHER -> 2

StartingStage ==
    CASE starting = "none" -> 0 [] starting = "waiting" -> 1 [] starting = "closing" -> 2
      [] OTHER -> 3

GracefulStage ==
    CASE graceful = "none" -> 0 [] graceful = "worker" -> 1 [] graceful = "connection" -> 2
      [] OTHER -> 3

ForcedStage == CASE forced = "none" -> 0 [] forced = "closing" -> 1 [] OTHER -> 2

StartStage ==
    CASE start = "none" -> 0 [] start = "health" -> 1 [] start = "ready" -> 2
      [] start = "closing" -> 3 [] OTHER -> 4

StopStage ==
    CASE stop = "none" -> 0 [] stop \in {"forceClosing", "pausing"} -> 1
      [] stop \in {"awaiting", "racing"} -> 2 [] stop = "forcing" -> 3 [] OTHER -> 4

SignalStage == IF signalled THEN 1 ELSE 0

LifecycleStage ==
    CASE lifecycle = "none" -> 0 [] lifecycle = "racing" -> 1 [] lifecycle = "started" -> 2
      [] OTHER -> 3

MainStage == CASE main = "running" -> 0 [] main = "stopping" -> 1 [] OTHER -> 2

Stage ==
    HealthStage + StartingStage + GracefulStage + ForcedStage +
    StartStage + StopStage + SignalStage + LifecycleStage + MainStage

\* A step is of one job, or it brings the process forward.
JobRuns == (\E j \in Job : JobStarts(j) \/ JobEnds(j)) /\ UNCHANGED appVars

OnlyJobsRepeat == [][JobRuns \/ Stage < Stage']_workerVars

\* A part of the state is as it was or further on.
HealthOn == UNCHANGED health \/ HealthStage < HealthStage'
StartingOn == UNCHANGED starting \/ StartingStage < StartingStage'
GracefulOn == UNCHANGED graceful \/ GracefulStage < GracefulStage'
ForcedOn == UNCHANGED forced \/ ForcedStage < ForcedStage'
StartOn == UNCHANGED start \/ StartStage < StartStage'
StopOn == UNCHANGED stop \/ StopStage < StopStage'
SignalOn == UNCHANGED signalled \/ SignalStage < SignalStage'
LifecycleOn == UNCHANGED lifecycle \/ LifecycleStage < LifecycleStage'
MainOn == UNCHANGED main \/ MainStage < MainStage'

QueueOn == HealthOn /\ StartingOn /\ GracefulOn /\ ForcedOn
FlowsOn == StartOn /\ StopOn /\ SignalOn /\ LifecycleOn /\ MainOn

LEMMA StageRises ==
    ASSUME QueueOn, FlowsOn,
           \/ HealthStage < HealthStage' \/ StartingStage < StartingStage'
           \/ GracefulStage < GracefulStage' \/ ForcedStage < ForcedStage'
           \/ StartStage < StartStage' \/ StopStage < StopStage' \/ SignalStage < SignalStage'
           \/ LifecycleStage < LifecycleStage' \/ MainStage < MainStage'
    PROVE  Stage < Stage'
<1>1. PICK a \in 0..4, a1 \in 0..4 :
         a = HealthStage /\ a1 = HealthStage' /\ (a = a1 \/ a < a1)
  <2>1. HealthStage \in 0..4 /\ HealthStage' \in 0..4
    BY DEF HealthStage
  <2>2. UNCHANGED health => HealthStage = HealthStage'
    BY DEF HealthStage
  <2>3. QED
    BY Zenon, <2>1, <2>2 DEF QueueOn, HealthOn
<1>2. PICK b \in 0..4, b1 \in 0..4 :
         b = StartingStage /\ b1 = StartingStage' /\ (b = b1 \/ b < b1)
  <2>1. StartingStage \in 0..4 /\ StartingStage' \in 0..4
    BY DEF StartingStage
  <2>2. UNCHANGED starting => StartingStage = StartingStage'
    BY DEF StartingStage
  <2>3. QED
    BY Zenon, <2>1, <2>2 DEF QueueOn, StartingOn
<1>3. PICK c \in 0..4, c1 \in 0..4 :
         c = GracefulStage /\ c1 = GracefulStage' /\ (c = c1 \/ c < c1)
  <2>1. GracefulStage \in 0..4 /\ GracefulStage' \in 0..4
    BY DEF GracefulStage
  <2>2. UNCHANGED graceful => GracefulStage = GracefulStage'
    BY DEF GracefulStage
  <2>3. QED
    BY Zenon, <2>1, <2>2 DEF QueueOn, GracefulOn
<1>4. PICK d \in 0..4, d1 \in 0..4 :
         d = ForcedStage /\ d1 = ForcedStage' /\ (d = d1 \/ d < d1)
  <2>1. ForcedStage \in 0..4 /\ ForcedStage' \in 0..4
    BY DEF ForcedStage
  <2>2. UNCHANGED forced => ForcedStage = ForcedStage'
    BY DEF ForcedStage
  <2>3. QED
    BY Zenon, <2>1, <2>2 DEF QueueOn, ForcedOn
<1>5. PICK e \in 0..4, e1 \in 0..4 :
         e = StartStage /\ e1 = StartStage' /\ (e = e1 \/ e < e1)
  <2>1. StartStage \in 0..4 /\ StartStage' \in 0..4
    BY DEF StartStage
  <2>2. UNCHANGED start => StartStage = StartStage'
    BY DEF StartStage
  <2>3. QED
    BY Zenon, <2>1, <2>2 DEF FlowsOn, StartOn
<1>6. PICK f \in 0..4, f1 \in 0..4 :
         f = StopStage /\ f1 = StopStage' /\ (f = f1 \/ f < f1)
  <2>1. StopStage \in 0..4 /\ StopStage' \in 0..4
    BY DEF StopStage
  <2>2. UNCHANGED stop => StopStage = StopStage'
    BY DEF StopStage
  <2>3. QED
    BY Zenon, <2>1, <2>2 DEF FlowsOn, StopOn
<1>7. PICK g \in 0..4, g1 \in 0..4 :
         g = SignalStage /\ g1 = SignalStage' /\ (g = g1 \/ g < g1)
  <2>1. SignalStage \in 0..4 /\ SignalStage' \in 0..4
    BY DEF SignalStage
  <2>2. UNCHANGED signalled => SignalStage = SignalStage'
    BY DEF SignalStage
  <2>3. QED
    BY Zenon, <2>1, <2>2 DEF FlowsOn, SignalOn
<1>8. PICK h \in 0..4, h1 \in 0..4 :
         h = LifecycleStage /\ h1 = LifecycleStage' /\ (h = h1 \/ h < h1)
  <2>1. LifecycleStage \in 0..4 /\ LifecycleStage' \in 0..4
    BY DEF LifecycleStage
  <2>2. UNCHANGED lifecycle => LifecycleStage = LifecycleStage'
    BY DEF LifecycleStage
  <2>3. QED
    BY Zenon, <2>1, <2>2 DEF FlowsOn, LifecycleOn
<1>9. PICK i \in 0..4, i1 \in 0..4 :
         i = MainStage /\ i1 = MainStage' /\ (i = i1 \/ i < i1)
  <2>1. MainStage \in 0..4 /\ MainStage' \in 0..4
    BY DEF MainStage
  <2>2. UNCHANGED main => MainStage = MainStage'
    BY DEF MainStage
  <2>3. QED
    BY Zenon, <2>1, <2>2 DEF FlowsOn, MainOn
<1>10. \/ a < a1 \/ b < b1 \/ c < c1 \/ d < d1 \/ e < e1
       \/ f < f1 \/ g < g1 \/ h < h1 \/ i < i1
  BY Zenon, <1>1, <1>2, <1>3, <1>4, <1>5, <1>6, <1>7, <1>8, <1>9
<1>11. /\ a \in 0..4 /\ a1 \in 0..4 /\ b \in 0..4 /\ b1 \in 0..4 /\ c \in 0..4 /\ c1 \in 0..4
       /\ d \in 0..4 /\ d1 \in 0..4 /\ e \in 0..4 /\ e1 \in 0..4 /\ f \in 0..4 /\ f1 \in 0..4
       /\ g \in 0..4 /\ g1 \in 0..4 /\ h \in 0..4 /\ h1 \in 0..4 /\ i \in 0..4 /\ i1 \in 0..4
       /\ (a = a1 \/ a < a1) /\ (b = b1 \/ b < b1) /\ (c = c1 \/ c < c1)
       /\ (d = d1 \/ d < d1) /\ (e = e1 \/ e < e1) /\ (f = f1 \/ f < f1)
       /\ (g = g1 \/ g < g1) /\ (h = h1 \/ h < h1) /\ (i = i1 \/ i < i1)
  BY Zenon, <1>1, <1>2, <1>3, <1>4, <1>5, <1>6, <1>7, <1>8, <1>9
<1>12. a + b + c + d + e + f + g + h + i < a1 + b1 + c1 + d1 + e1 + f1 + g1 + h1 + i1
  BY SMT, <1>10, <1>11
<1>13. /\ Stage = a + b + c + d + e + f + g + h + i
       /\ Stage' = a1 + b1 + c1 + d1 + e1 + f1 + g1 + h1 + i1
  BY Zenon, <1>1, <1>2, <1>3, <1>4, <1>5, <1>6, <1>7, <1>8, <1>9 DEF Stage
<1>14. QED
  BY Zenon, <1>12, <1>13

\* What the application calls brings the promises of the queue worker forward.
LEMMA CallsOn ==
    ASSUME CallPause \/ CallGracefulClose \/ CallForcedClose \/ UNCHANGED queueVars
    PROVE  QueueOn
<1>1. HealthOn /\ StartingOn
  BY DEF CallPause, CallGracefulClose, CallForcedClose, queueVars, HealthOn, StartingOn
<1>2. GracefulOn
  <2>1. UNCHANGED graceful \/ (graceful = "none" /\ graceful' = "worker")
    BY DEF CallPause, CallGracefulClose, CallForcedClose, queueVars
  <2>2. QED
    BY <2>1 DEF GracefulOn, GracefulStage
<1>3. ForcedOn
  <2>1. UNCHANGED forced \/ (forced = "none" /\ forced' = "closing")
    BY DEF CallPause, CallGracefulClose, CallForcedClose, queueVars
  <2>2. QED
    BY <2>1 DEF ForcedOn, ForcedStage
<1>4. QED
  BY <1>1, <1>2, <1>3 DEF QueueOn

LEMMA StopCalledOn ==
    ASSUME WorkerInv, stop = "none", StopCalled
    PROVE  QueueOn /\ StopStage < StopStage'
<1>1. QueueOn
  BY CallsOn DEF StopCalled
<1>2. stop' \in {"resolved", "awaiting", "forceClosing", "pausing"}
  BY DEF StopCalled
<1>3. QED
  BY <1>1, <1>2 DEF StopStage

LEMMA StartRises ==
    ASSUME WorkerInv, Launch \/ HealthKnown \/ QueueStarted \/ QueueNotStarted \/ StartGivenUp
    PROVE  Stage < Stage'
<1>1. /\ start' # start
      /\ \/ start = "none" /\ start' = "health"
         \/ start = "health" /\ start' \in {"ready", "resolved", "rejected"}
         \/ start = "ready" /\ start' \in {"closing", "resolved"}
         \/ start = "closing" /\ start' = "rejected"
      /\ UNCHANGED <<stop, signalled, main>>
      /\ UNCHANGED lifecycle \/ (lifecycle = "none" /\ lifecycle' = "racing")
  BY DEF Launch, HealthKnown, QueueStarted, QueueNotStarted, StartGivenUp, WorkerInv, NotLaunched
<1>2. StartStage < StartStage' /\ StartOn
  BY <1>1 DEF StartStage, StartOn
<1>3. StopOn /\ SignalOn /\ MainOn /\ LifecycleOn
  BY <1>1 DEF StopOn, SignalOn, MainOn, LifecycleOn, LifecycleStage
<1>4. QueueOn
  <2>1. CASE Launch
    <3>1. health = "none" /\ health' = "checking" /\ UNCHANGED <<starting, graceful, forced>>
      BY <2>1 DEF Launch, WorkerInv, NotLaunched, QueueInit
    <3>2. QED
      BY <3>1 DEF QueueOn, HealthOn, HealthStage, StartingOn, GracefulOn, ForcedOn
  <2>2. CASE HealthKnown
    <3>1. /\ UNCHANGED <<health, graceful, forced>>
          /\ UNCHANGED starting \/ (starting = "none" /\ starting' = "waiting")
      BY <2>2 DEF HealthKnown, StartQueueWorker, queueVars, WorkerInv, StartFlow, ConnectionOwned
    <3>2. QED
      BY <3>1 DEF QueueOn, HealthOn, StartingOn, StartingStage, GracefulOn, ForcedOn
  <2>3. CASE QueueStarted \/ QueueNotStarted \/ StartGivenUp
    BY <2>3, CallsOn DEF QueueStarted, QueueNotStarted, StartGivenUp
  <2>4. QED
    BY <2>1, <2>2, <2>3
<1>5. QED
  BY <1>2, <1>3, <1>4, StageRises DEF FlowsOn

LEMMA StopRises ==
    ASSUME WorkerInv,
           \/ ForceClosedDuringStart \/ StartAwaited \/ Paused \/ GracefullyClosed
           \/ GracefulCloseFailed \/ ShutdownTimeout \/ ForceClosed
    PROVE  Stage < Stage'
<1>1. /\ \/ stop = "forceClosing" /\ stop' \in {"awaiting", "rejected"}
         \/ stop = "awaiting" /\ stop' = "resolved"
         \/ stop = "pausing" /\ stop' = "racing"
         \/ stop = "racing" /\ stop' \in {"resolved", "forcing"}
         \/ stop = "forcing" /\ stop' \in {"resolved", "rejected"}
      /\ UNCHANGED <<start, signalled, lifecycle, main>>
  BY DEF ForceClosedDuringStart, StartAwaited, Paused, GracefullyClosed, GracefulCloseFailed,
         ShutdownTimeout, ForceClosed, StopSettles
<1>2. StopStage < StopStage' /\ StopOn
  BY <1>1 DEF StopStage, StopOn
<1>3. StartOn /\ SignalOn /\ MainOn /\ LifecycleOn
  BY <1>1 DEF StartOn, SignalOn, MainOn, LifecycleOn
<1>4. QueueOn
  BY CallsOn DEF ForceClosedDuringStart, StartAwaited, Paused, GracefullyClosed,
                 GracefulCloseFailed, ShutdownTimeout, ForceClosed
<1>5. QED
  BY <1>2, <1>3, <1>4, StageRises DEF FlowsOn

LEMMA EndRises ==
    ASSUME WorkerInv, ~Exited, Signal \/ LifecycleSettles \/ BootstrapFails \/ BootstrapEnds
    PROVE  Stage < Stage'
<1>1. CASE Signal
  <2>1. CASE stop = "none"
    BY <1>1, <2>1, StopCalledOn, StageRises
       DEF Signal, FlowsOn, StartOn, StopOn, SignalOn, SignalStage, LifecycleOn, MainOn
  <2>2. CASE stop # "none"
    <3>1. main # "running"
      BY <1>1, <2>2 DEF Signal, WorkerInv, OutcomeFlow
    <3>2. QED
      BY <1>1, <3>1 DEF Signal, WorkerInv, OutcomeFlow
  <2>3. QED
    BY <2>1, <2>2
<1>2. CASE LifecycleSettles
  <2>1. /\ \/ lifecycle = "racing" /\ lifecycle' \in {"started", "threw", "returned"}
           \/ lifecycle = "started" /\ lifecycle' \in {"threw", "returned"}
        /\ UNCHANGED <<queueVars, start, stop, signalled, main>>
    BY <1>2 DEF LifecycleSettles
  <2>2. LifecycleStage < LifecycleStage' /\ LifecycleOn
    BY <2>1 DEF LifecycleStage, LifecycleOn
  <2>3. QED
    BY <2>1, <2>2, CallsOn, StageRises DEF FlowsOn, StartOn, StopOn, SignalOn, MainOn
<1>3. CASE BootstrapFails
  <2>1. /\ main = "running" /\ main' = "stopping" /\ UNCHANGED <<start, signalled, lifecycle>>
        /\ IF stop = "none" THEN StopCalled ELSE UNCHANGED <<queueVars, stop>>
    BY <1>3 DEF BootstrapFails
  <2>2. MainStage < MainStage' /\ MainOn
    BY <2>1 DEF MainStage, MainOn
  <2>3. QueueOn /\ StopOn
    BY <2>1, CallsOn, StopCalledOn DEF StopOn
  <2>4. QED
    BY <2>1, <2>2, <2>3, StageRises DEF FlowsOn, StartOn, SignalOn, LifecycleOn
<1>4. CASE BootstrapEnds
  <2>1. /\ main \in {"running", "stopping"} /\ main' \in {"exited 0", "exited 1"}
        /\ UNCHANGED <<queueVars, start, stop, signalled, lifecycle>>
    BY <1>4 DEF BootstrapEnds
  <2>2. MainStage = 0 \/ MainStage = 1
    BY <2>1 DEF MainStage
  <2>3. MainStage' = 2
    BY <2>1 DEF MainStage
  <2>4. MainOn /\ MainStage < MainStage'
    BY <2>2, <2>3 DEF MainOn
  <2>5. QED
    BY <2>1, <2>4, CallsOn, StageRises DEF FlowsOn, StartOn, StopOn, SignalOn, LifecycleOn
<1>5. QED
  BY <1>1, <1>2, <1>3, <1>4

LEMMA QueueRises ==
    ASSUME WorkerInv, UNCHANGED appVars,
           \/ CheckRedisHealth \/ StartFails \/ ForcedClose \/ WaitUntilReady \/ WaitUntilReadyFails
           \/ GracefulWorkerClose \/ GracefulConnectionClose
    PROVE  Stage < Stage'
<1>1. FlowsOn
  BY DEF appVars, FlowsOn, StartOn, StopOn, SignalOn, LifecycleOn, MainOn
<1>2. CASE CheckRedisHealth
  <2>1. HealthStage < HealthStage' /\ UNCHANGED <<starting, graceful, forced>>
    BY <1>2 DEF CheckRedisHealth, HealthStage
  <2>2. QED
    BY <1>1, <2>1, StageRises DEF QueueOn, HealthOn, StartingOn, GracefulOn, ForcedOn
<1>3. CASE StartFails \/ WaitUntilReady \/ WaitUntilReadyFails
  <2>1. /\ UNCHANGED <<health, graceful, forced>>
        /\ \/ starting = "waiting" /\ starting' \in {"closing", "resolved"}
           \/ starting = "closing" /\ starting' = "rejected"
    BY <1>3 DEF StartFails, WaitUntilReady, WaitUntilReadyFails
  <2>2. StartingStage < StartingStage'
    BY <2>1 DEF StartingStage
  <2>3. QED
    BY <1>1, <2>1, <2>2, StageRises DEF QueueOn, HealthOn, StartingOn, GracefulOn, ForcedOn
<1>4. CASE GracefulWorkerClose \/ GracefulConnectionClose
  <2>1. /\ UNCHANGED <<health, starting, forced>>
        /\ \/ graceful = "worker" /\ graceful' \in {"connection", "rejected"}
           \/ graceful = "connection" /\ graceful' \in {"resolved", "rejected"}
    BY <1>4 DEF GracefulWorkerClose, GracefulConnectionClose
  <2>2. GracefulStage < GracefulStage'
    BY <2>1 DEF GracefulStage
  <2>3. QED
    BY <1>1, <2>1, <2>2, StageRises DEF QueueOn, HealthOn, StartingOn, GracefulOn, ForcedOn
<1>5. CASE ForcedClose
  <2>1. /\ UNCHANGED <<health, starting, graceful>>
        /\ forced = "closing" /\ forced' \in {"resolved", "rejected"}
    BY <1>5 DEF ForcedClose
  <2>2. ForcedStage < ForcedStage'
    BY <2>1 DEF ForcedStage
  <2>3. QED
    BY <1>1, <2>1, <2>2, StageRises DEF QueueOn, HealthOn, StartingOn, GracefulOn, ForcedOn
<1>6. QED
  BY <1>2, <1>3, <1>4, <1>5

\* Apart from the jobs nothing in the process ever goes round: no promise is
\* taken back and no flow retried, so that a process whose jobs are done or
\* abandoned has at most as many steps to take as its stages have room for.
THEOREM ProcessOnlyAdvances == WorkerSpec => OnlyJobsRepeat
<1>1. WorkerInv /\ [WorkerNext]_workerVars =>
         [JobRuns \/ Stage < Stage']_workerVars
  BY StartRises, StopRises, EndRises, QueueRises DEF WorkerNext, Continue, QueueSettles, QueueMay, JobRuns
<1>2. QED
  BY <1>1, WorkerInvariantHolds, PTL DEF WorkerSpec, OnlyJobsRepeat
=============================================================================
