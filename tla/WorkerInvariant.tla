--------------------------- MODULE WorkerInvariant ---------------------------
(***************************************************************************)
(* Why the worker process leaves nothing open and tells the truth about    *)
(* its end: how the promises of the queue worker, of the application and   *)
(* of the lifecycle relate to each other at every await.                   *)
(***************************************************************************)
EXTENDS WorkerProcess

Settled == {"resolved", "rejected"}

NotLaunched ==
    lifecycle = "none" =>
        /\ QueueInit
        /\ state = "idle" /\ start = "none" /\ stop = "none"
        /\ main = "running" /\ ~signalled /\ ~wasRunning

Launched ==
    lifecycle # "none" => state # "idle" /\ start # "none" /\ health # "none"

\* The queue worker has its connection from its creation on; whoever closes it
\* ends the connection last.
ConnectionOwned ==
    /\ worker = "none" <=> connection = "none"
    /\ worker = "none" <=> starting = "none"
    /\ connection = "end" \/ starting = "closing" \/ graceful = "connection" => worker = "closed"
    /\ forced # "none" \/ graceful = "resolved" \/ starting = "rejected" => connection = "end"

\* The start creates one queue worker, and either it succeeds before any stop
\* or it leaves the worker to the stop or closes it.
StartFlow ==
    /\ start = "health" => worker = "none" /\ state # "stopped"
    /\ start \in {"ready", "closing"} => worker # "none"
    /\ start = "closing" => forced # "none"
    /\ state = "starting" => stop = "none" /\ start \in {"health", "ready", "closing"}
    /\ state = "running" => stop = "none" /\ start = "resolved" /\ wasRunning
    /\ wasRunning => start = "resolved" /\ worker # "none"
    /\ start = "resolved" /\ ~wasRunning => stop # "none"
    /\ start = "rejected" => state = "stopped" /\ connection # "open"

\* A stop forces the close of what a start has left behind, and closes what
\* has been running gracefully before it forces it.
StopFlow ==
    /\ stop # "none" => state \in {"stopping", "stopped"}
    /\ state \in {"stopping", "stopped"} => stop # "none" \/ start = "rejected"
    /\ stop = "forceClosing" => ~wasRunning /\ forced # "none"
    /\ stop = "awaiting" => ~wasRunning /\ connection # "open"
    /\ stop \in {"pausing", "racing", "forcing"} => wasRunning
    /\ graceful # "none" => wasRunning /\ stop \in {"racing", "forcing"} \cup Settled
    /\ stop = "forcing" => forced # "none" \/ graceful = "resolved"
    /\ stop = "resolved" => start \in Settled
    /\ stop \in Settled => state = "stopped" /\ start # "health" /\ connection # "open"

\* Only a signal stops a process that did not fail; the lifecycle ends as the
\* start or the stop did.
OutcomeFlow ==
    /\ signalled => stop # "none"
    /\ stop # "none" /\ ~signalled => start = "rejected" /\ main # "running"
    /\ lifecycle = "returned" => signalled /\ stop = "resolved"
    /\ lifecycle = "threw" => start = "rejected" \/ stop = "rejected"
    /\ main # "running" => lifecycle \in {"returned", "threw"}
    /\ main = "exited 0" => lifecycle = "returned"
    /\ main \in {"stopping", "exited 1"} => lifecycle = "threw"
    /\ main = "exited 1" => stop \in Settled

WorkerInv ==
    /\ WorkerTypeOK
    /\ NotLaunched /\ Launched
    /\ ConnectionOwned /\ StartFlow /\ StopFlow /\ OutcomeFlow
=============================================================================
