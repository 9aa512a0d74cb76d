----------------------------- MODULE ApiProcess -----------------------------
(***************************************************************************)
(* The API process: bootstrap, the HTTP server with the requests it has    *)
(* accepted, and the shutdown that Nest runs for a signal or for           *)
(* application.close(), whose last hook closes the database runtime.       *)
(*                                                                         *)
(* Nest is external.  Its shutdown closes the HTTP server, which waits for *)
(* the requests in flight, then calls onApplicationShutdown; after a       *)
(* signal it kills the process, or exits with 1 if a hook threw.           *)
(***************************************************************************)
EXTENDS DatabaseRuntime

CONSTANT MaxUses        \* bound: how often a request uses the database

ASSUME UsesAssumption == MaxUses \in Nat \ {0}

VARIABLES
    main,           \* bootstrap, and the end of the process
    server,         \* the HTTP server; "late" if it opened after its close
    shutdown,       \* Nest's shutdown, by whoever asked for it
    handling,       \* the requests in flight
    uses            \* how often each request has used the database

apiVars == <<main, server, shutdown, handling, uses>>
processVars == <<runtimeVars, apiVars>>

Closer == {"bootstrap", "signal"}
Ends == {"failed", "stopped", "exited 1", "killed"}

ApiTypeOK ==
    /\ RuntimeTypeOK
    /\ main \in {"creating", "listening", "started", "closingApplication",
                 "closingDatabase"} \cup Ends
    /\ server \in {"none", "open", "late", "closing", "closed"}
    /\ shutdown \in [Closer -> {"none", "disposing", "closingDatabase", "done", "threw"}]
    /\ handling \subseteq Client
    /\ uses \in [Request -> 0..MaxUses]

ApiInit ==
    /\ RuntimeInit
    /\ main = "creating"
    /\ server = "none"
    /\ shutdown = [x \in Closer |-> "none"]
    /\ handling = {}
    /\ uses = [r \in Request |-> 0]

Over == main \in Ends

-----------------------------------------------------------------------------
(* Nest's shutdown.                                                         *)

\* Mutant: the database is closed on module destruction, before the server.
DisposeAndClose(x) ==
    /\ shutdown' = [shutdown EXCEPT ![x] = "disposing"]
    /\ server' = IF server = "open" THEN "closing" ELSE server
    /\ CallClose

\* A server that does not listen yet has nothing to close, and may listen
\* later.
Dispose(x) ==
    /\ shutdown' = [shutdown EXCEPT ![x] = "disposing"]
    /\ server' = IF server \in {"open", "late"} THEN "closing" ELSE server
    /\ UNCHANGED runtimeVars

ServerCloses ==
    /\ server = "closing" /\ handling = {}
    /\ server' = "closed"
    /\ UNCHANGED <<runtimeVars, main, shutdown, handling, uses>>

\* DatabaseLifecycle.onApplicationShutdown.
OnApplicationShutdown(x) ==
    /\ shutdown[x] = "disposing" /\ server # "closing"
    /\ shutdown' = [shutdown EXCEPT ![x] = "closingDatabase"]
    /\ CallClose
    /\ UNCHANGED <<main, server, handling, uses>>

ShutdownSettles(x) ==
    /\ shutdown[x] = "closingDatabase" /\ Closed
    /\ shutdown' = [shutdown EXCEPT ![x] = IF closePromise = "resolved" THEN "done" ELSE "threw"]
    /\ main' = IF x = "bootstrap" THEN main
               ELSE IF closePromise = "resolved" THEN "stopped" ELSE "exited 1"
    /\ UNCHANGED <<runtimeVars, server, handling, uses>>

-----------------------------------------------------------------------------
(* bootstrap.                                                               *)

CreateApiApplication ==
    /\ main = "creating"
    /\ main' = "listening"
    /\ UNCHANGED <<runtimeVars, server, shutdown, handling, uses>>

\* Mutant: without an application there is nothing to close.
CreationFailsUnclosed ==
    /\ main = "creating"
    /\ main' = "failed"
    /\ UNCHANGED <<runtimeVars, server, shutdown, handling, uses>>

\* Without an application the database runtime is closed directly.
CreationFails ==
    /\ main = "creating"
    /\ main' = "closingDatabase"
    /\ CallClose
    /\ UNCHANGED <<server, shutdown, handling, uses>>

Listen ==
    /\ main = "listening"
    /\ main' = "started"
    /\ server' = IF shutdown["signal"] = "none" THEN "open" ELSE "late"
    /\ UNCHANGED <<runtimeVars, shutdown, handling, uses>>

ListenFails ==
    /\ main = "listening"
    /\ main' = "closingApplication"
    /\ Dispose("bootstrap")
    /\ UNCHANGED <<handling, uses>>

\* Whether application.close() went through or not.
CloseDatabase ==
    /\ main = "closingApplication" /\ shutdown["bootstrap"] \in {"done", "threw"}
    /\ main' = "closingDatabase"
    /\ CallClose
    /\ UNCHANGED <<server, shutdown, handling, uses>>

BootstrapFailed ==
    /\ main = "closingDatabase" /\ Closed
    /\ main' = "failed"
    /\ UNCHANGED <<runtimeVars, server, shutdown, handling, uses>>

\* Nest listens to the signals once the application has been created, and until
\* an application.close() has gone through.
ShutdownHooksEnabled ==
    \/ main \in {"listening", "started"}
    \/ shutdown["bootstrap"] \in {"disposing", "closingDatabase", "threw"}

\* The first signal; Nest ignores the others until it is done.
Signal ==
    /\ shutdown["signal"] = "none"
    /\ \/ ShutdownHooksEnabled /\ Dispose("signal") /\ UNCHANGED main
       \/ ~ShutdownHooksEnabled /\ main' = "killed"
          /\ UNCHANGED <<runtimeVars, server, shutdown>>
    /\ UNCHANGED <<handling, uses>>

-----------------------------------------------------------------------------
(* HTTP requests.                                                           *)

\* The session is looked up first.
AcceptRequest(r) ==
    /\ server \in {"open", "late"} /\ r \notin handling
    /\ handling' = handling \cup {r}
    /\ uses' = [uses EXCEPT ![r] = 1]
    /\ Ask(r)
    /\ UNCHANGED <<main, server, shutdown>>

UseDatabase(r) ==
    /\ r \in handling /\ statement[r] = "succeeded" /\ uses[r] < MaxUses
    /\ uses' = [uses EXCEPT ![r] = @ + 1]
    /\ Ask(r)
    /\ UNCHANGED <<main, server, shutdown, handling>>

Answer(r) ==
    /\ r \in handling /\ statement[r] \in {"succeeded", "failed"}
    /\ handling' = handling \ {r}
    /\ uses' = [uses EXCEPT ![r] = 0]
    /\ UNCHANGED <<runtimeVars, main, server, shutdown>>

\* The readiness check races its statement against a timer; a closed runtime
\* is not asked and answers at once.
AcceptReadiness(k) ==
    /\ server \in {"open", "late"} /\ k \notin handling /\ ~Closed
    /\ handling' = handling \cup {k}
    /\ Ask(k)
    /\ UNCHANGED <<main, server, shutdown, uses>>

CheckAnswered(k) ==
    /\ k \in handling /\ statement[k] \in {"succeeded", "failed"}
    /\ handling' = handling \ {k}
    /\ UNCHANGED <<runtimeVars, main, server, shutdown, uses>>

\* Mutant: only a statement that has been sent is given up.
CheckTimeoutOnceRunning(k) ==
    /\ k \in handling /\ statement[k] = "running"
    /\ handling' = handling \ {k}
    /\ UNCHANGED <<runtimeVars, main, server, shutdown, uses>>

\* Its statement goes on without it, and so does its use of the pool.
CheckTimeout(k) ==
    /\ k \in handling /\ statement[k] \in {"waiting", "running"}
    /\ handling' = handling \ {k}
    /\ UNCHANGED <<runtimeVars, main, server, shutdown, uses>>

-----------------------------------------------------------------------------

Bootstrap ==
    \/ CreateApiApplication \/ CreationFails \/ Listen \/ ListenFails
    \/ CloseDatabase \/ BootstrapFailed

Shutdown == ServerCloses \/ \E x \in Closer : OnApplicationShutdown(x) \/ ShutdownSettles(x)

Pool(c) == ConnectionFails(c) \/ StatementSucceeds(c) \/ StatementFails(c)

ApiNext ==
    /\ ~Over
    /\ \/ Bootstrap \/ Shutdown \/ Signal
       \/ \E r \in Request : AcceptRequest(r) \/ UseDatabase(r) \/ Answer(r)
       \/ \E k \in Check : AcceptReadiness(k) \/ CheckAnswered(k) \/ CheckTimeout(k)
       \/ (Destroyed \/ DestroyFails) /\ UNCHANGED apiVars
       \/ \E c \in Client : (Connect(c) \/ Pool(c)) /\ UNCHANGED apiVars

\* The timer of a readiness check, and what runs once it or the statement ended.
CheckFairness == \A k \in Check : WF_processVars(~Over /\ (CheckAnswered(k) \/ CheckTimeout(k)))

\* The code never waits without a bound of its own: handlers answer, statements
\* and the wait for a connection time out.  Nothing is assumed of PostgreSQL,
\* which may never let anyone connect.
ApiFairness ==
    /\ WF_processVars(~Over /\ Bootstrap)
    /\ WF_processVars(~Over /\ Shutdown)
    /\ \A r \in Request : WF_processVars(~Over /\ (UseDatabase(r) \/ Answer(r)))
    /\ CheckFairness
    /\ \A c \in Client : WF_processVars(~Over /\ Pool(c) /\ UNCHANGED apiVars)
    /\ WF_processVars(~Over /\ Destroyed /\ UNCHANGED apiVars)

-----------------------------------------------------------------------------
(* Properties.                                                              *)

\* Who has closed the database runtime, and how that went.
ApiInv ==
    /\ ApiTypeOK
    /\ closePromise # "none" =>
          \/ \E x \in Closer : shutdown[x] \in {"closingDatabase", "done", "threw"}
          \/ main \in {"closingDatabase", "failed", "killed"}
    /\ \A x \in Closer :
          /\ shutdown[x] \in {"closingDatabase", "done", "threw"} =>
                closePromise # "none" /\ server \notin {"open", "closing"}
          /\ shutdown[x] = "done" => closePromise = "resolved"
          /\ shutdown[x] = "threw" => closePromise = "rejected"
    /\ main = "closingDatabase" => closePromise # "none"
    /\ handling # {} => server \in {"open", "late", "closing"}

\* Neither the close of the database nor the end of the process cuts off a
\* request that was accepted before the shutdown closed the server.
NoRequestCutOff ==
    closePromise # "none" \/ Over => handling = {} \/ server = "late"

\* DATABASE.md: Nest shutdown closes the pool.  A process that a signal stops
\* has closed it, and one that failed has at least tried to.
EndsWithPoolClosed ==
    /\ main = "stopped" => closePromise = "resolved"
    /\ main = "failed" => Closed
    /\ main = "exited 1" => closePromise = "rejected"

\* DATABASE.md: readiness returns after its timeout even if the attempt still
\* needs its connection or statement timeout, or has a full pool before it.
ReadinessAnswers == \A k \in Check : k \in handling ~> k \notin handling \/ Over

\* A process that is told to stop, or has failed to start, ends.
ShutdownEnds ==
    shutdown["signal"] # "none" \/ main \in {"closingApplication", "closingDatabase"} ~> Over
=============================================================================
