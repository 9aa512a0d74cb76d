------------------------------ MODULE ApiProofs ------------------------------
(***************************************************************************)
(* Proofs about the API process, from its start to its end: a shutdown     *)
(* never cuts off a request, the ways in which a process ends say truly    *)
(* what became of the pool, and it starts with the configuration that it   *)
(* was given.  A shutdown can always go on, and only leads to the end.     *)
(*                                                                         *)
(* Then about what it writes down: redactSensitiveValues yields exactly    *)
(* what stands at the end of every trail of a graph, and so no credential  *)
(* but in the name of an error; and what a client is told of an exception  *)
(* can be found in the log, as far as LOG_LEVEL lets it through.           *)
(***************************************************************************)
EXTENDS ApiStart, ApiRequests, SequenceTheorems, FiniteSetTheorems, WellFoundedInduction, TLAPS

\* Where the server can be at all, and what that says of the shutdowns: it
\* opens after the start only, closes with the first shutdown, and a shutdown
\* that came before it left it alone.
ServerFollows ==
    /\ main \in {"creating", "listening", "started"} => shutdown["bootstrap"] = "none"
    /\ server # "none" => main \in {"started", "stopped", "exited 1"}
    /\ server = "late" => shutdown["signal"] # "none"
    /\ \A x \in Closer : shutdown[x] # "none" => server # "open"

ProcessInv == ApiInv /\ ServerFollows /\ EndsWithPoolClosed

-----------------------------------------------------------------------------

\* What the pool does to a statement concerns nothing but that statement.
LEMMA StatementsStayTyped ==
    ASSUME ApiTypeOK, NEW c \in Client,
           NEW outcome \in {"none", "waiting", "running", "succeeded", "failed"},
           Settle(c, outcome)
    PROVE  RuntimeTypeOK' /\ UNCHANGED closePromise
  BY DEF ApiTypeOK, RuntimeTypeOK, Settle

LEMMA AskSettles ==
    ASSUME NEW c \in Client, Ask(c)
    PROVE  \E outcome \in {"waiting", "failed"} : Settle(c, outcome)
  BY DEF Ask

\* A step of the pool, the server or the requests that leaves the close, the
\* bootstrap and the shutdowns as they are.
LEMMA QuietStep ==
    ASSUME ProcessInv, RuntimeTypeOK', UNCHANGED <<closePromise, main, shutdown, server>>,
           handling' \subseteq Client, uses' \in [Request -> 0..MaxUses],
           handling' # {} => server \in {"open", "late", "closing"}
    PROVE  ProcessInv'
<1>1. ApiInv'
  BY DEF ProcessInv, ApiInv, ApiTypeOK, RuntimeTypeOK
<1>2. ServerFollows' /\ EndsWithPoolClosed'
  BY DEF ProcessInv, ServerFollows, EndsWithPoolClosed, Closed
<1>3. QED
  BY <1>1, <1>2 DEF ProcessInv

\* The close of the runtime is called once and settles once.
LEMMA CloseIsTyped ==
    ASSUME ApiTypeOK, CallClose
    PROVE  /\ RuntimeTypeOK' /\ closePromise' # "none"
           /\ closePromise # "none" => closePromise' = closePromise
  BY DEF ApiTypeOK, RuntimeTypeOK, CallClose

-----------------------------------------------------------------------------
(* Bootstrap, shutdown and signals                                          *)

LEMMA DisposeKeepsInv ==
    ASSUME ProcessInv, ~Over, NEW x \in Closer, Dispose(x), UNCHANGED <<handling, uses>>,
           shutdown[x] = "none",
           \/ x = "signal" /\ UNCHANGED main
           \/ x = "bootstrap" /\ main = "listening" /\ main' = "closingApplication"
    PROVE  ProcessInv'
<1>1. ApiTypeOK'
  BY DEF ProcessInv, ApiInv, ApiTypeOK, Dispose, RuntimeTypeOK, runtimeVars, Closer, Ends
<1>2. /\ shutdown'[x] = "disposing" /\ \A y \in Closer \ {x} : shutdown'[y] = shutdown[y]
      /\ UNCHANGED <<statement, closePromise>>
  BY DEF ProcessInv, ApiInv, ApiTypeOK, Dispose, runtimeVars
<1>3. server' \notin {"open", "late"} \/ server' = "none"
  BY DEF Dispose
<1>4. server \in {"open", "late"} => x = "signal" /\ server = "open" /\ main = "started"
                                     /\ shutdown["bootstrap"] = "none"
  BY DEF ProcessInv, ServerFollows, Over, Ends, Closer
<1>5. ServerFollows'
  BY <1>2, <1>3, <1>4 DEF ProcessInv, ServerFollows, Dispose, Closer
<1>6. ApiInv'
  <2>1. closePromise' # "none" =>
          \/ \E y \in Closer : shutdown'[y] \in {"closingDatabase", "done", "threw"}
          \/ main' \in {"closingDatabase", "failed", "killed"}
    BY <1>2 DEF ProcessInv, ApiInv
  <2>2. \A y \in Closer : shutdown'[y] \in {"closingDatabase", "done", "threw"} =>
                             closePromise' # "none" /\ server' \notin {"open", "closing"}
    BY <1>2, <1>4 DEF ProcessInv, ApiInv, Dispose, Closer
  <2>3. QED
    BY <1>1, <1>2, <2>1, <2>2 DEF ProcessInv, ApiInv, Dispose
<1>7. EndsWithPoolClosed'
  BY <1>2 DEF ProcessInv, EndsWithPoolClosed, Over, Ends, Closed
<1>8. QED
  BY <1>5, <1>6, <1>7 DEF ProcessInv

LEMMA BootstrapKeepsInv ==
    ASSUME ProcessInv, ~Over, Bootstrap
    PROVE  ProcessInv'
<1> USE DEF ProcessInv, ApiInv, ServerFollows
<1>1. CASE CreateApiApplication
  BY <1>1
     DEF CreateApiApplication, ApiTypeOK, RuntimeTypeOK, runtimeVars, EndsWithPoolClosed, Closed
<1>2. CASE CreationFails
  BY <1>2, CloseIsTyped DEF CreationFails, ApiTypeOK, EndsWithPoolClosed
<1>3. CASE Listen
  BY <1>3 DEF Listen, ApiTypeOK, RuntimeTypeOK, runtimeVars, EndsWithPoolClosed, Closed, Closer
<1>4. CASE ListenFails
  BY <1>4, DisposeKeepsInv DEF ListenFails, Closer
<1>5. CASE CloseDatabase
  BY <1>5, CloseIsTyped DEF CloseDatabase, ApiTypeOK, EndsWithPoolClosed
<1>6. CASE BootstrapFailed
  BY <1>6
     DEF BootstrapFailed, ApiTypeOK, RuntimeTypeOK, runtimeVars, EndsWithPoolClosed, Closed, Ends
<1>7. QED
  BY <1>1, <1>2, <1>3, <1>4, <1>5, <1>6 DEF Bootstrap

LEMMA ShutdownKeepsInv ==
    ASSUME ProcessInv, ~Over, Shutdown
    PROVE  ProcessInv'
<1>1. CASE ServerCloses
  BY <1>1 DEF ServerCloses, ProcessInv, ApiInv, ServerFollows, ApiTypeOK, RuntimeTypeOK,
              runtimeVars, EndsWithPoolClosed, Closed
<1>2. ASSUME NEW x \in Closer, OnApplicationShutdown(x) PROVE ProcessInv'
  <2>1. /\ shutdown[x] = "disposing" /\ shutdown'[x] = "closingDatabase" /\ server # "closing"
        /\ \A y \in Closer \ {x} : shutdown'[y] = shutdown[y]
        /\ UNCHANGED <<main, server, handling, uses>>
    BY <1>2 DEF OnApplicationShutdown, ProcessInv, ApiInv, ApiTypeOK
  <2>2. server # "open"
    BY <2>1 DEF ProcessInv, ServerFollows
  <2>3. /\ RuntimeTypeOK' /\ closePromise' # "none"
        /\ closePromise # "none" => closePromise' = closePromise
    BY <1>2, CloseIsTyped DEF OnApplicationShutdown, ProcessInv, ApiInv
  <2>4. ApiTypeOK'
    BY <1>2, <2>1, <2>3 DEF OnApplicationShutdown, ProcessInv, ApiInv, ApiTypeOK
  <2>5. ApiInv'
    BY <2>1, <2>2, <2>3, <2>4 DEF ProcessInv, ApiInv
  <2>6. ServerFollows' /\ EndsWithPoolClosed'
    BY <2>1, <2>3 DEF ProcessInv, ServerFollows, EndsWithPoolClosed, Closed, Over, Ends, Closer
  <2>7. QED
    BY <2>5, <2>6 DEF ProcessInv
<1>3. ASSUME NEW x \in Closer, ShutdownSettles(x) PROVE ProcessInv'
  <2>1. /\ shutdown[x] = "closingDatabase"
        /\ shutdown'[x] = IF closePromise = "resolved" THEN "done" ELSE "threw"
        /\ \A y \in Closer \ {x} : shutdown'[y] = shutdown[y]
        /\ UNCHANGED <<server, handling, uses, statement, closePromise>>
        /\ closePromise \in {"resolved", "rejected"}
    BY <1>3 DEF ShutdownSettles, ProcessInv, ApiInv, ApiTypeOK, runtimeVars, Closed
  <2>2. main' = IF x = "bootstrap" THEN main
                ELSE IF closePromise = "resolved" THEN "stopped" ELSE "exited 1"
    BY <1>3 DEF ShutdownSettles
  <2>3. ApiTypeOK'
    BY <1>3, <2>1, <2>2 DEF ShutdownSettles, ProcessInv, ApiInv, ApiTypeOK, RuntimeTypeOK, Ends
  <2>4. ApiInv'
    BY <2>1, <2>2, <2>3 DEF ProcessInv, ApiInv
  <2>5. ServerFollows' /\ EndsWithPoolClosed'
    BY <2>1, <2>2 DEF ProcessInv, ServerFollows, EndsWithPoolClosed, Closed, Over, Ends, Closer
  <2>6. QED
    BY <2>4, <2>5 DEF ProcessInv
<1>4. QED
  BY <1>1, <1>2, <1>3 DEF Shutdown

LEMMA SignalKeepsInv ==
    ASSUME ProcessInv, ~Over, Signal
    PROVE  ProcessInv'
<1>1. CASE ShutdownHooksEnabled /\ Dispose("signal") /\ UNCHANGED main
  BY <1>1, DisposeKeepsInv DEF Signal, Closer
<1>2. CASE ~ShutdownHooksEnabled /\ main' = "killed" /\ UNCHANGED <<runtimeVars, server, shutdown>>
  <2>1. server = "none"
    BY <1>2 DEF ShutdownHooksEnabled, ProcessInv, ServerFollows, Over, Ends
  <2>2. QED
    BY <1>2, <2>1 DEF Signal, ProcessInv, ApiInv, ServerFollows, ApiTypeOK, RuntimeTypeOK,
                      runtimeVars, EndsWithPoolClosed, Closed, Ends
<1>3. QED
  BY <1>1, <1>2 DEF Signal

-----------------------------------------------------------------------------
(* The requests and the pool                                                *)

LEMMA RequestKeepsInv ==
    ASSUME ProcessInv, NEW r \in Request, AcceptRequest(r) \/ UseDatabase(r) \/ Answer(r)
    PROVE  ProcessInv'
<1>1. r \in Client
  BY DEF Client
<1>2. CASE AcceptRequest(r)
  <2>1. RuntimeTypeOK' /\ UNCHANGED closePromise
    BY <1>1, <1>2, AskSettles, StatementsStayTyped DEF AcceptRequest, ProcessInv, ApiInv
  <2>2. QED
    BY <1>1, <1>2, <2>1, QuietStep, UsesAssumption
       DEF AcceptRequest, ProcessInv, ApiInv, ApiTypeOK
<1>3. CASE UseDatabase(r)
  <2>1. RuntimeTypeOK' /\ UNCHANGED closePromise
    BY <1>1, <1>3, AskSettles, StatementsStayTyped DEF UseDatabase, ProcessInv, ApiInv
  <2>2. uses' \in [Request -> 0..MaxUses]
    BY <1>3, UsesAssumption DEF UseDatabase, ProcessInv, ApiInv, ApiTypeOK
  <2>3. QED
    BY <1>3, <2>1, <2>2, QuietStep DEF UseDatabase, ProcessInv, ApiInv, ApiTypeOK
<1>4. CASE Answer(r)
  BY <1>4, QuietStep, UsesAssumption
     DEF Answer, ProcessInv, ApiInv, ApiTypeOK, RuntimeTypeOK, runtimeVars
<1>5. QED
  BY <1>2, <1>3, <1>4

LEMMA CheckKeepsInv ==
    ASSUME ProcessInv, NEW k \in Check, AcceptReadiness(k) \/ CheckAnswered(k) \/ CheckTimeout(k)
    PROVE  ProcessInv'
<1>1. k \in Client
  BY DEF Client
<1>2. CASE AcceptReadiness(k)
  <2>1. RuntimeTypeOK' /\ UNCHANGED closePromise
    BY <1>1, <1>2, AskSettles, StatementsStayTyped DEF AcceptReadiness, ProcessInv, ApiInv
  <2>2. QED
    BY <1>1, <1>2, <2>1, QuietStep DEF AcceptReadiness, ProcessInv, ApiInv, ApiTypeOK
<1>3. CASE CheckAnswered(k) \/ CheckTimeout(k)
  BY <1>3, QuietStep
     DEF CheckAnswered, CheckTimeout, ProcessInv, ApiInv, ApiTypeOK, RuntimeTypeOK, runtimeVars
<1>4. QED
  BY <1>2, <1>3

LEMMA PoolKeepsInv ==
    ASSUME ProcessInv, NEW c \in Client, Connect(c) \/ Pool(c), UNCHANGED apiVars
    PROVE  ProcessInv'
<1>1. \E outcome \in {"running", "succeeded", "failed"} : Settle(c, outcome)
  BY DEF Connect, Pool, ConnectionFails, StatementSucceeds, StatementFails
<1>2. RuntimeTypeOK' /\ UNCHANGED closePromise
  BY <1>1, StatementsStayTyped DEF ProcessInv, ApiInv
<1>3. QED
  BY <1>2, QuietStep DEF apiVars, ProcessInv, ApiInv, ApiTypeOK

LEMMA DestroyKeepsInv ==
    ASSUME ProcessInv, ~Over, Destroyed \/ DestroyFails, UNCHANGED apiVars
    PROVE  ProcessInv'
<1>1. /\ closePromise = "destroying" /\ closePromise' \in {"resolved", "rejected"}
      /\ UNCHANGED <<statement, main, server, shutdown, handling, uses>>
  BY DEF Destroyed, DestroyFails, apiVars
<1>2. QED
  BY <1>1 DEF ProcessInv, ApiInv, ApiTypeOK, RuntimeTypeOK, ServerFollows, EndsWithPoolClosed,
              Closed, Over, Ends

LEMMA ProcessStepKeepsInv ==
    ASSUME ProcessInv, ApiNext
    PROVE  ProcessInv'
  BY BootstrapKeepsInv, ShutdownKeepsInv, SignalKeepsInv, RequestKeepsInv, CheckKeepsInv,
     PoolKeepsInv, DestroyKeepsInv
     DEF ApiNext

-----------------------------------------------------------------------------

LEMMA UnchangedProcessKeepsInv ==
    ASSUME ProcessInv, UNCHANGED processVars
    PROVE  ProcessInv'
  BY ZenonT(60)
     DEF processVars, runtimeVars, apiVars, ProcessInv, ApiInv, ApiTypeOK, RuntimeTypeOK,
         ServerFollows, EndsWithPoolClosed, Closed

LEMMA ProcessInvInit == StartInit => ProcessInv
  BY UsesAssumption
     DEF StartInit, ApiInit, RuntimeInit, ProcessInv, ApiInv, ApiTypeOK, RuntimeTypeOK,
         ServerFollows, EndsWithPoolClosed, Closed, Closer, Ends

\* Who has closed the runtime and how that went, which of the shutdowns the
\* server has seen, and where it can be: from the start of the process, before
\* it has a configuration, to its end.
THEOREM ApiInvariant == StartSpec => []ProcessInv
<1>1. ASSUME ProcessInv, [StartNext]_startVars PROVE ProcessInv'
  <2>1. CASE UNCHANGED processVars
    BY <1>1, <2>1, UnchangedProcessKeepsInv
  <2>2. CASE ~Over /\ Signal
    BY <1>1, <2>2, SignalKeepsInv
  <2>3. CASE ApiNext
    BY <1>1, <2>3, ProcessStepKeepsInv
  <2>4. QED
    BY <1>1, <2>1, <2>2, <2>3
       DEF StartNext, LoadApiConfigFromEnvironment, CreateDatabase, startVars
<1>2. QED
  BY <1>1, ProcessInvInit, PTL DEF StartSpec

\* The invariant that the runs check.
THEOREM ApiTypeCorrect == StartSpec => []ApiInv
<1>1. ProcessInv => ApiInv
  BY DEF ProcessInv
<1>2. QED
  BY <1>1, ApiInvariant, PTL

\* Neither the close of the database nor the end of the process cuts off a
\* request that was accepted before the shutdown closed the server, however
\* many requests and connections there are and whenever a signal arrives.
THEOREM RequestsAreServed == StartSpec => []NoRequestCutOff
<1>1. ProcessInv => NoRequestCutOff
  BY DEF ProcessInv, ApiInv, ServerFollows, EndsWithPoolClosed, Closed, NoRequestCutOff, Over,
         Ends, ApiTypeOK
<1>2. QED
  BY <1>1, ApiInvariant, PTL

\* A process that a signal stops has closed its pool, one that failed has at
\* least tried to, and exit code 1 after a signal says that it could not.
THEOREM EndsAreTrue == StartSpec => []EndsWithPoolClosed
<1>1. ProcessInv => EndsWithPoolClosed
  BY DEF ProcessInv
<1>2. QED
  BY <1>1, ApiInvariant, PTL

-----------------------------------------------------------------------------
(* The safety half of ShutdownEndsFairly: a shutdown is never stuck, and    *)
(* each step of it brings it forward.                                       *)

\* Who is in flight has asked the database; only a configured process shuts
\* down; who waits for a shutdown has called it; and a signal's shutdown that
\* is through has ended the process.
ShutdownInv ==
    /\ \A c \in handling : statement[c] # "none"
    /\ config # InUse => main \in {"creating", "killed"} /\ \A x \in Closer : shutdown[x] = "none"
    /\ main = "closingApplication" => shutdown["bootstrap"] # "none"
    /\ shutdown["signal"] \in {"done", "threw"} => main \in {"stopped", "exited 1"}

LEMMA ShutdownInvInit == StartInit => ShutdownInv
  BY ConfigurationAssumption DEF StartInit, ApiInit, ShutdownInv, Closer

LEMMA StatementsRemain ==
    ASSUME ProcessInv, ApiNext, NEW c \in Client, statement[c] # "none"
    PROVE  statement'[c] # "none"
<1>0. statement \in [Client -> {"none", "waiting", "running", "succeeded", "failed"}]
  BY DEF ProcessInv, ApiInv, ApiTypeOK, RuntimeTypeOK
<1>1. \/ UNCHANGED statement
      \/ \E d \in Client, outcome \in {"waiting", "running", "succeeded", "failed"} : Settle(d, outcome)
  BY DEF ApiNext, Bootstrap, CreateApiApplication, CreationFails, Listen, ListenFails, CloseDatabase,
         BootstrapFailed, Shutdown, ServerCloses, OnApplicationShutdown, ShutdownSettles, Signal,
         Dispose, CallClose, AcceptRequest, UseDatabase, Answer, AcceptReadiness, CheckAnswered,
         CheckTimeout, Ask, Connect, Pool, ConnectionFails, StatementSucceeds, StatementFails,
         Destroyed, DestroyFails, runtimeVars, Client
<1>2. QED
  BY <1>0, <1>1 DEF Settle

LEMMA InFlightHasAsked ==
    ASSUME ProcessInv, ApiNext, \A c \in handling : statement[c] # "none"
    PROVE  \A c \in handling' : statement'[c] # "none"
<1>0. /\ statement \in [Client -> {"none", "waiting", "running", "succeeded", "failed"}]
      /\ handling \subseteq Client
  BY DEF ProcessInv, ApiInv, ApiTypeOK, RuntimeTypeOK
<1>1. \A c \in handling : statement'[c] # "none"
  BY <1>0, StatementsRemain
<1>2. ASSUME NEW c \in Client, handling' = handling \cup {c}, Ask(c)
      PROVE  statement'[c] # "none"
  BY <1>0, <1>2 DEF Ask, Settle
<1>3. \/ handling' \subseteq handling
      \/ \E c \in Client : handling' = handling \cup {c} /\ Ask(c)
  BY DEF ApiNext, Bootstrap, CreateApiApplication, CreationFails, Listen, ListenFails, CloseDatabase,
         BootstrapFailed, Shutdown, ServerCloses, OnApplicationShutdown, ShutdownSettles, Signal,
         AcceptRequest, UseDatabase, Answer, AcceptReadiness, CheckAnswered, CheckTimeout, apiVars,
         Client
<1>4. QED
  BY <1>1, <1>2, <1>3

\* The end of the pool is a step of its own.
PoolEnds == (Destroyed \/ DestroyFails) /\ UNCHANGED apiVars

\* The steps that bootstrap, server, shutdowns and close take; the others leave
\* all of them alone.
Controlled == UNCHANGED <<main, server, shutdown, closePromise>>

LEMMA RequestsLeaveControl ==
    ASSUME ApiNext
    PROVE  Bootstrap \/ Shutdown \/ Signal \/ PoolEnds \/ Controlled
<1>1. ASSUME NEW r \in Request, AcceptRequest(r) \/ UseDatabase(r) \/ Answer(r) PROVE Controlled
  BY <1>1 DEF Controlled, AcceptRequest, UseDatabase, Answer, Ask, Settle, runtimeVars
<1>2. ASSUME NEW k \in Check, AcceptReadiness(k) \/ CheckAnswered(k) \/ CheckTimeout(k)
      PROVE  Controlled
  BY <1>2 DEF Controlled, AcceptReadiness, CheckAnswered, CheckTimeout, Ask, Settle, runtimeVars
<1>3. ASSUME NEW c \in Client, Connect(c) \/ Pool(c), UNCHANGED apiVars PROVE Controlled
  BY <1>3 DEF Controlled, Connect, Pool, ConnectionFails, StatementSucceeds, StatementFails, Settle,
              apiVars
<1>4. QED
  BY <1>1, <1>2, <1>3 DEF ApiNext, PoolEnds

LEMMA StepKeepsShutdownInv ==
    ASSUME ProcessInv, ShutdownInv, [StartNext]_startVars
    PROVE  ShutdownInv'
<1>0. shutdown \in [Closer -> {"none", "disposing", "closingDatabase", "done", "threw"}]
  BY DEF ProcessInv, ApiInv, ApiTypeOK
<1>1. CASE UNCHANGED processVars /\ (config = InUse => config' = InUse)
  BY <1>1 DEF processVars, apiVars, runtimeVars, ShutdownInv
<1>2. CASE config = InUse /\ ApiNext /\ UNCHANGED config
  <2>1. \A c \in handling' : statement'[c] # "none"
    BY <1>2, InFlightHasAsked DEF ShutdownInv
  <2>2. CASE Bootstrap \/ Signal
    BY <1>0, <1>2, <2>1, <2>2
       DEF Bootstrap, CreateApiApplication, CreationFails, Listen, ListenFails, CloseDatabase,
           BootstrapFailed, Signal, Dispose, ShutdownInv, Closer, ApiNext, Over, Ends, ProcessInv,
           ServerFollows
  <2>3. CASE Shutdown
    BY <1>0, <1>2, <2>1, <2>3
       DEF Shutdown, ServerCloses, OnApplicationShutdown, ShutdownSettles, ShutdownInv, Closer
  <2>4. CASE PoolEnds \/ Controlled
    BY <1>2, <2>1, <2>4 DEF PoolEnds, Controlled, apiVars, ShutdownInv
  <2>5. QED
    BY <1>2, <2>2, <2>3, <2>4, RequestsLeaveControl
<1>3. CASE config = NoConfiguration /\ Signal /\ UNCHANGED config
  <2>1. CASE config = InUse
    BY <1>3, <2>1, ConfigurationAssumption
  <2>2. CASE config # InUse
    <3>1. ~ShutdownHooksEnabled
      BY <2>2 DEF ShutdownInv, ShutdownHooksEnabled, Closer
    <3>2. /\ main' = "killed" /\ UNCHANGED <<runtimeVars, shutdown, handling>>
      BY <1>3, <3>1 DEF Signal
    <3>3. QED
      BY <1>3, <2>2, <3>2 DEF ShutdownInv, runtimeVars, Closer
  <2>3. QED
    BY <2>1, <2>2
<1>4. CASE config = InUse /\ ~Over /\ Signal /\ UNCHANGED config
  BY <1>2, <1>4 DEF ApiNext
<1>5. QED
  BY <1>1, <1>2, <1>3, <1>4, ConfigurationAssumption
     DEF StartNext, LoadApiConfigFromEnvironment, CreateDatabase, startVars

LEMMA ShutdownInvariant == StartSpec => [](ProcessInv /\ ShutdownInv)
<1>1. ProcessInv /\ ShutdownInv /\ [StartNext]_startVars => ShutdownInv'
  BY StepKeepsShutdownInv
<1>2. QED
  BY <1>1, ShutdownInvInit, ApiInvariant, PTL DEF StartSpec

ShuttingDown ==
    ~Over /\ (shutdown["signal"] # "none" \/ main \in {"closingApplication", "closingDatabase"})

\* Someone does not wait for another: the bootstrap, a shutdown, the server
\* that nobody is in flight at, a request or a check in flight, of which every
\* wait is bounded, or the pool at its end.
CanGoOn ==
    \/ main \in {"creating", "listening"}
    \/ main = "closingApplication" /\ shutdown["bootstrap"] \in {"done", "threw"}
    \/ main = "closingDatabase" /\ Closed
    \/ \E x \in Closer : \/ shutdown[x] = "disposing" /\ server # "closing"
                         \/ shutdown[x] = "closingDatabase" /\ Closed
    \/ server = "closing" /\ handling = {}
    \/ \E c \in handling : statement[c] # "none"
    \/ closePromise = "destroying"

NeverStuck == ShuttingDown => config = InUse /\ CanGoOn

\* The shutdown waits for the server, the server for the requests, the requests
\* for the pool, and the end of the pool for its statements: never one of them
\* for another that waits for it, however signals, a failing start and requests
\* interleave and however small the pool is.
THEOREM ShutdownIsNeverStuck == StartSpec => []NeverStuck
<1>1. ASSUME ProcessInv, ShutdownInv, ShuttingDown PROVE config = InUse /\ CanGoOn
  <2>1. config = InUse
    BY <1>1 DEF ShuttingDown, ShutdownInv, Over, Ends, Closer
  <2>2. closePromise \in {"none", "destroying", "resolved", "rejected"}
    BY <1>1 DEF ProcessInv, ApiInv, ApiTypeOK, RuntimeTypeOK
  <2>3. ASSUME NEW x \in Closer, shutdown[x] # "none" PROVE CanGoOn \/ shutdown[x] \in {"done", "threw"}
    <3>1. CASE shutdown[x] = "disposing"
      BY <1>1, <3>1 DEF CanGoOn, ShutdownInv
    <3>2. CASE shutdown[x] = "closingDatabase"
      BY <1>1, <2>2, <3>2 DEF CanGoOn, Closed, ProcessInv, ApiInv
    <3>3. QED
      BY <1>1, <2>3, <3>1, <3>2 DEF ProcessInv, ApiInv, ApiTypeOK
  <2>4. CASE shutdown["signal"] # "none"
    BY <1>1, <2>1, <2>3, <2>4 DEF ShuttingDown, ShutdownInv, Over, Ends, Closer
  <2>5. CASE main = "closingApplication"
    <3>1. CanGoOn \/ shutdown["bootstrap"] \in {"done", "threw"}
      BY <1>1, <2>3, <2>5 DEF ShutdownInv, Closer
    <3>2. QED
      BY <2>1, <2>5, <3>1 DEF CanGoOn
  <2>6. CASE main = "closingDatabase"
    BY <1>1, <2>1, <2>2, <2>6 DEF CanGoOn, Closed, ProcessInv, ApiInv
  <2>7. QED
    BY <1>1, <2>1, <2>4, <2>5, <2>6 DEF ShuttingDown
<1>2. ProcessInv /\ ShutdownInv => NeverStuck
  BY <1>1 DEF NeverStuck
<1>3. QED
  BY <1>2, ShutdownInvariant, PTL

\* How far bootstrap, server, shutdowns and close have come.
MainStage ==
    CASE main = "creating" -> 0 [] main = "listening" -> 1
      [] main \in {"started", "closingApplication"} -> 2 [] main = "closingDatabase" -> 3
      [] OTHER -> 4

ServerStage ==
    CASE server = "none" -> 0 [] server \in {"open", "late"} -> 1 [] server = "closing" -> 2
      [] OTHER -> 3

ShutdownStage(x) ==
    CASE shutdown[x] = "none" -> 0 [] shutdown[x] = "disposing" -> 1
      [] shutdown[x] = "closingDatabase" -> 2 [] OTHER -> 3

CloseStage == CASE closePromise = "none" -> 0 [] closePromise = "destroying" -> 1 [] OTHER -> 2

Stage ==
    MainStage + ServerStage + ShutdownStage("bootstrap") + ShutdownStage("signal") + CloseStage

\* How much a request in flight may still have to do.
LeftToDo(r) ==
    3 * (MaxUses - uses[r]) +
    (CASE statement[r] = "waiting" -> 2 [] statement[r] = "running" -> 1 [] OTHER -> 0)

\* Nothing of a shutdown is ever taken back, and while it waits for the server
\* none joins the requests in flight and each has less to do with every step.
Advances ==
    /\ UNCHANGED <<main, server, shutdown, closePromise>> \/ Stage < Stage'
    /\ server = "closing" =>
          \A r \in Request \cap handling' :
             r \in handling /\ (UNCHANGED <<statement[r], uses[r]>> \/ LeftToDo(r)' < LeftToDo(r))

ShutdownAdvances == [][Advances]_startVars

\* A part of the state is as it was or further on.
MainOn == UNCHANGED main \/ MainStage < MainStage'
ServerOn == UNCHANGED server \/ ServerStage < ServerStage'
ShutdownOn(x) == shutdown'[x] = shutdown[x] \/ ShutdownStage(x) < ShutdownStage(x)'
CloseOn == UNCHANGED closePromise \/ CloseStage < CloseStage'

LEMMA OneStageRises ==
    ASSUME MainOn, ServerOn, ShutdownOn("bootstrap"), ShutdownOn("signal"), CloseOn,
           \/ MainStage < MainStage' \/ ServerStage < ServerStage' \/ CloseStage < CloseStage'
           \/ ShutdownStage("bootstrap") < ShutdownStage("bootstrap")'
           \/ ShutdownStage("signal") < ShutdownStage("signal")'
    PROVE  Stage < Stage'
<1>1. /\ MainStage \in 0..4 /\ MainStage' \in 0..4
      /\ UNCHANGED main => MainStage' = MainStage
  BY DEF MainStage
<1>2. /\ ServerStage \in 0..4 /\ ServerStage' \in 0..4
      /\ UNCHANGED server => ServerStage' = ServerStage
  BY DEF ServerStage
<1>3. /\ CloseStage \in 0..4 /\ CloseStage' \in 0..4
      /\ UNCHANGED closePromise => CloseStage' = CloseStage
  BY DEF CloseStage
<1>4. ASSUME NEW x
      PROVE  /\ ShutdownStage(x) \in 0..4 /\ ShutdownStage(x)' \in 0..4
             /\ shutdown'[x] = shutdown[x] => ShutdownStage(x)' = ShutdownStage(x)
  BY DEF ShutdownStage
<1>5. QED
  BY <1>1, <1>2, <1>3, <1>4 DEF Stage, MainOn, ServerOn, ShutdownOn, CloseOn

LEMMA CallCloseOn == CallClose => CloseOn
  BY DEF CallClose, CloseOn, CloseStage

LEMMA DisposeRises ==
    ASSUME ProcessInv, ~Over, NEW x \in Closer, shutdown[x] = "none", Dispose(x),
           UNCHANGED main \/ (main = "listening" /\ main' = "closingApplication")
    PROVE  Stage < Stage'
<1>1. /\ shutdown'[x] = "disposing" /\ \A y \in Closer \ {x} : shutdown'[y] = shutdown[y]
      /\ UNCHANGED closePromise
  BY DEF ProcessInv, ApiInv, ApiTypeOK, Dispose, runtimeVars
<1>2. MainOn /\ CloseOn
  BY <1>1 DEF MainOn, MainStage, CloseOn
<1>3. ServerOn
  BY DEF Dispose, ServerOn, ServerStage
<1>4. ShutdownStage(x) < ShutdownStage(x)'
  BY <1>1 DEF ShutdownStage
<1>5. \A y \in Closer : ShutdownOn(y)
  BY <1>1, <1>4 DEF ShutdownOn
<1>6. QED
  BY <1>2, <1>3, <1>4, <1>5, OneStageRises DEF Closer

LEMMA BootstrapRises ==
    ASSUME ProcessInv, ~Over, Bootstrap
    PROVE  Stage < Stage'
<1>1. CASE ListenFails
  BY <1>1, DisposeRises DEF ListenFails, ProcessInv, ServerFollows, Closer
<1>2. CASE ~ListenFails
  <2>1. /\ \/ main = "creating" /\ main' \in {"listening", "closingDatabase"}
           \/ main = "listening" /\ main' = "started"
           \/ main = "closingApplication" /\ main' = "closingDatabase"
           \/ main = "closingDatabase" /\ main' = "failed"
        /\ UNCHANGED shutdown /\ (CallClose \/ UNCHANGED closePromise)
        /\ UNCHANGED server \/ (main = "listening" /\ server' \in {"open", "late"})
    BY <1>2 DEF Bootstrap, CreateApiApplication, CreationFails, Listen, CloseDatabase,
                BootstrapFailed, runtimeVars
  <2>2. MainStage < MainStage' /\ MainOn
    BY <2>1 DEF MainStage, MainOn
  <2>3. main = "listening" => server = "none"
    BY DEF ProcessInv, ServerFollows
  <2>4. ServerOn
    BY <2>1, <2>3 DEF ServerOn, ServerStage
  <2>5. CloseOn /\ \A x \in Closer : ShutdownOn(x)
    BY <2>1, CallCloseOn DEF CloseOn, ShutdownOn
  <2>6. QED
    BY <2>2, <2>4, <2>5, OneStageRises DEF Closer
<1>3. QED
  BY <1>1, <1>2

LEMMA ShutdownRises ==
    ASSUME ProcessInv, ~Over, Shutdown \/ Signal \/ PoolEnds
    PROVE  Stage < Stage'
<1>0. /\ shutdown \in [Closer -> {"none", "disposing", "closingDatabase", "done", "threw"}]
      /\ main \in {"creating", "listening", "started", "closingApplication", "closingDatabase"}
  BY DEF ProcessInv, ApiInv, ApiTypeOK, Over
<1>1. CASE ServerCloses
  <2>1. ServerStage < ServerStage' /\ UNCHANGED <<main, shutdown, closePromise>>
    BY <1>1 DEF ServerCloses, runtimeVars, ServerStage
  <2>2. QED
    BY <2>1, OneStageRises DEF MainOn, ServerOn, ShutdownOn, CloseOn
<1>2. ASSUME NEW x \in Closer, OnApplicationShutdown(x) \/ ShutdownSettles(x) PROVE Stage < Stage'
  <2>1. /\ UNCHANGED server /\ \A y \in Closer \ {x} : shutdown'[y] = shutdown[y]
        /\ \/ shutdown[x] = "disposing" /\ shutdown'[x] = "closingDatabase"
           \/ shutdown[x] = "closingDatabase" /\ shutdown'[x] \in {"done", "threw"}
        /\ UNCHANGED main \/ main' \in {"stopped", "exited 1"}
        /\ CallClose \/ UNCHANGED closePromise
    <3>1. CASE OnApplicationShutdown(x)
      BY <1>0, <3>1 DEF OnApplicationShutdown
    <3>2. CASE ShutdownSettles(x)
      BY <1>0, <3>2 DEF ShutdownSettles, runtimeVars
    <3>3. QED
      BY <1>2, <3>1, <3>2
  <2>2. ServerOn /\ CloseOn
    BY <2>1, CallCloseOn DEF ServerOn, CloseOn
  <2>3. MainOn
    <3>1. CASE main' \in {"stopped", "exited 1"}
      <4>1. MainStage \in 0..3
        BY <1>0 DEF MainStage
      <4>2. MainStage' = 4
        BY <3>1 DEF MainStage
      <4>3. QED
        BY <4>1, <4>2 DEF MainOn
    <3>2. QED
      BY <2>1, <3>1 DEF MainOn
  <2>4. ShutdownStage(x) < ShutdownStage(x)'
    <3>1. CASE shutdown[x] = "disposing" /\ shutdown'[x] = "closingDatabase"
      BY <3>1 DEF ShutdownStage
    <3>2. CASE shutdown[x] = "closingDatabase" /\ shutdown'[x] \in {"done", "threw"}
      BY <3>2 DEF ShutdownStage
    <3>3. QED
      BY <2>1, <3>1, <3>2
  <2>5. \A y \in Closer : ShutdownOn(y)
    BY <2>1, <2>4 DEF ShutdownOn
  <2>6. QED
    BY <2>2, <2>3, <2>4, <2>5, OneStageRises DEF Closer
<1>3. CASE Signal
  <2>1. CASE ShutdownHooksEnabled /\ Dispose("signal") /\ UNCHANGED main
    BY <1>3, <2>1, DisposeRises DEF Signal, Closer
  <2>2. CASE main' = "killed" /\ UNCHANGED <<runtimeVars, server, shutdown>>
    <3>1. MainStage < MainStage' /\ UNCHANGED <<server, shutdown, closePromise>>
      BY <1>0, <2>2 DEF MainStage, runtimeVars
    <3>2. QED
      BY <3>1, OneStageRises DEF MainOn, ServerOn, ShutdownOn, CloseOn
  <2>3. QED
    BY <1>3, <2>1, <2>2 DEF Signal
<1>4. CASE PoolEnds
  <2>1. CloseStage < CloseStage' /\ UNCHANGED <<main, server, shutdown>>
    BY <1>4 DEF PoolEnds, Destroyed, DestroyFails, apiVars, CloseStage
  <2>2. QED
    BY <2>1, OneStageRises DEF MainOn, ServerOn, ShutdownOn, CloseOn
<1>5. QED
  BY <1>1, <1>2, <1>3, <1>4 DEF Shutdown

\* A statement that was waited for or ran, and goes on.
LEMMA LessIsLeft ==
    ASSUME ProcessInv, ApiNext, server = "closing", NEW r \in Request \cap handling'
    PROVE  r \in handling /\ (UNCHANGED <<statement[r], uses[r]>> \/ LeftToDo(r)' < LeftToDo(r))
<1> DEFINE S == {"none", "waiting", "running", "succeeded", "failed"}
<1>0. /\ statement \in [Client -> S] /\ uses \in [Request -> 0..MaxUses] /\ r \in Client
      /\ MaxUses \in Nat
  BY UsesAssumption DEF ProcessInv, ApiInv, ApiTypeOK, RuntimeTypeOK, Client
<1>1. handling' \subseteq handling
  BY DEF ApiNext, Bootstrap, CreateApiApplication, CreationFails, Listen, ListenFails, CloseDatabase,
         BootstrapFailed, Shutdown, ServerCloses, OnApplicationShutdown, ShutdownSettles, Signal,
         AcceptRequest, UseDatabase, Answer, AcceptReadiness, CheckAnswered, CheckTimeout, apiVars
<1>2. ASSUME NEW q \in Request, UseDatabase(q)
      PROVE  UNCHANGED <<statement[r], uses[r]>> \/ LeftToDo(r)' < LeftToDo(r)
  <2>1. PICK outcome \in {"waiting", "failed"} : statement' = [statement EXCEPT ![q] = outcome]
    BY <1>2, AskSettles DEF UseDatabase, Settle, Client
  <2>2. CASE q # r
    BY <1>0, <1>2, <2>1, <2>2 DEF UseDatabase
  <2>3. CASE q = r
    <3>1. /\ uses'[r] = uses[r] + 1 /\ statement'[r] = outcome /\ statement[r] = "succeeded"
          /\ uses[r] \in 0..MaxUses
      BY <1>0, <1>2, <2>1, <2>3 DEF UseDatabase
    <3>2. QED
      BY <1>0, <3>1 DEF LeftToDo
  <2>4. QED
    BY <2>2, <2>3
<1>3. ASSUME NEW c \in Client, Connect(c) \/ Pool(c), UNCHANGED apiVars
      PROVE  UNCHANGED <<statement[r], uses[r]>> \/ LeftToDo(r)' < LeftToDo(r)
  <2>1. PICK outcome \in {"running", "succeeded", "failed"} :
           /\ statement' = [statement EXCEPT ![c] = outcome] /\ uses' = uses
           /\ \/ statement[c] = "waiting" /\ outcome \in {"running", "failed"}
              \/ statement[c] = "running" /\ outcome \in {"succeeded", "failed"}
    BY <1>3 DEF Connect, Pool, ConnectionFails, StatementSucceeds, StatementFails, Settle, apiVars
  <2>2. CASE c # r
    BY <1>0, <2>1, <2>2
  <2>3. CASE c = r
    <3>1. uses'[r] = uses[r] /\ statement'[r] = outcome /\ uses[r] \in 0..MaxUses
      BY <1>0, <2>1, <2>3
    <3>2. QED
      BY <1>0, <2>1, <2>3, <3>1 DEF LeftToDo
  <2>4. QED
    BY <2>2, <2>3
<1>4. ASSUME NEW q \in Request, Answer(q)
      PROVE  UNCHANGED <<statement[r], uses[r]>>
  <2>1. statement' = statement /\ r # q
    BY <1>4 DEF Answer, runtimeVars
  <2>2. uses'[r] = uses[r]
    BY <1>0, <1>4, <2>1 DEF Answer
  <2>3. QED
    BY <2>1, <2>2
<1>5. CASE UNCHANGED <<statement, uses>>
  BY <1>1, <1>5
<1>6. QED
  BY <1>1, <1>2, <1>3, <1>4, <1>5
     DEF ApiNext, Bootstrap, CreateApiApplication, CreationFails, Listen, ListenFails, CloseDatabase,
         BootstrapFailed, Shutdown, ServerCloses, OnApplicationShutdown, ShutdownSettles, Signal,
         Dispose, CallClose, AcceptRequest, AcceptReadiness, CheckAnswered, CheckTimeout,
         Destroyed, DestroyFails, apiVars, runtimeVars

\* Every step of bootstrap, shutdowns, server and close leads on and none back,
\* so there are at most as many of them as there are stages; and the server
\* waits for requests that come to their end with a bounded number of steps.
THEOREM ShutdownOnlyAdvances == StartSpec => ShutdownAdvances
<1>1. ASSUME ProcessInv, ApiNext PROVE Advances
  <2>1. UNCHANGED <<main, server, shutdown, closePromise>> \/ Stage < Stage'
    BY <1>1, RequestsLeaveControl, BootstrapRises, ShutdownRises DEF Controlled, ApiNext
  <2>2. QED
    BY <1>1, <2>1, LessIsLeft DEF Advances
<1>2. ASSUME ProcessInv, ~Over, Signal PROVE Advances
  <2>1. ApiNext
    BY <1>2 DEF ApiNext
  <2>2. QED
    BY <1>1, <1>2, <2>1
<1>3. ASSUME ProcessInv, UNCHANGED processVars PROVE Advances
  BY <1>3 DEF processVars, runtimeVars, apiVars, Advances
<1>4. ProcessInv /\ [StartNext]_startVars => [Advances]_startVars
  BY <1>1, <1>2, <1>3 DEF StartNext, LoadApiConfigFromEnvironment, CreateDatabase
<1>5. QED
  BY <1>4, ApiInvariant, PTL DEF StartSpec, ShutdownAdvances

-----------------------------------------------------------------------------
(* The configuration                                                        *)

\* Every directory above the working directory is one step further up.
LEMMA LeastOf ==
    ASSUME NEW S \in SUBSET Nat, S # {}
    PROVE  \E m \in S : \A n \in S : m <= n
<1> DEFINE Below == {pair \in Nat \X Nat : pair[1] < pair[2]}
<1>1. IsWellFoundedOn(Below, Nat)
  BY NatLessThanWellFounded DEF OpToRel
<1>2. \A m, n \in S : n < m => <<n, m>> \in Below
  OBVIOUS
<1>3. \E m \in S : \A n \in S : <<n, m>> \notin Below
  <2> HIDE DEF Below
  <2>1. QED
    BY <1>1, WFMin
<1> HIDE DEF Below
<1>4. PICK m \in S : \A n \in S : <<n, m>> \notin Below
  BY <1>3
<1>5. \A n \in S : ~(n < m)
  BY <1>2, <1>4
<1>6. QED
  BY <1>5

LEMMA MinOf ==
    ASSUME NEW S \in SUBSET Nat, S # {}
    PROVE  Min(S) \in S /\ \A n \in S : Min(S) <= n
  BY LeastOf DEF Min

\* Directory d holds the .env that is found: Given's condition.
Nearest(d) == files[d] # Unset /\ \A e \in 0..(d - 1) : files[e] = Unset /\ e \notin marked

\* The search upwards, from the working directory to the nearest root of a
\* repository, finds what Given describes and nothing else.
LEMMA FoundIsNearest ==
    ASSUME marked \in SUBSET Directory
    PROVE  LocalEnvironmentFiles(marked, files) =
              IF marked # {} /\ \E d \in Directory : Nearest(d)
              THEN {CHOOSE d \in Directory : Nearest(d)} ELSE {}
<1> DEFINE inside == {d \in Directory : \E root \in RepositoryRoots(marked) : d <= root}
           found == {d \in inside : files[d] # Unset}
<1>1. Directory \subseteq Nat /\ \A d \in Directory : \A e \in 0..(d - 1) : e \in Directory
  BY TopAssumption DEF Directory
<1>2. RepositoryRoots(marked) # {} <=> marked # {}
  BY <1>1, LeastOf DEF RepositoryRoots
<1>3. \A d \in Directory : d \in inside <=> marked # {} /\ \A e \in 0..(d - 1) : e \notin marked
  <2>1. CASE marked = {}
    BY <2>1 DEF RepositoryRoots
  <2>2. CASE marked # {}
    <3>1. PICK root \in marked : \A e \in marked : root <= e
      <4>1. marked \in SUBSET Nat
        BY <1>1
      <4>2. QED
        BY <2>2, <4>1, LeastOf
    <3>2. RepositoryRoots(marked) = {root}
      <4>1. \A d \in marked : d \in Nat
        BY <1>1
      <4>2. ASSUME NEW d \in marked, d <= root PROVE d = root
        <5>1. root <= d /\ d \in Nat /\ root \in Nat
          BY <3>1, <4>1
        <5>2. QED
          BY <4>2, <5>1
      <4>3. QED
        BY <3>1, <4>2 DEF RepositoryRoots
    <3>3. \A d \in Directory : d \in inside <=> d <= root
      BY <3>2
    <3>4. root \in Nat /\ Directory \subseteq Nat /\ marked \subseteq Nat
      BY <1>1
    <3>5. \A d \in Directory : d <= root <=> \A e \in 0..(d - 1) : e \notin marked
      <4>1. ASSUME NEW d \in Directory, d <= root, NEW e \in 0..(d - 1), e \in marked PROVE FALSE
        BY <3>1, <3>4, <4>1
      <4>2. ASSUME NEW d \in Directory, ~(d <= root) PROVE root \in 0..(d - 1)
        BY <3>4, <4>2
      <4>3. QED
        BY <4>1, <4>2
    <3>6. QED
      BY <2>2, <3>3, <3>5
  <2>3. QED
    BY <2>1, <2>2
<1>4. \A d \in inside : \A e \in 0..(d - 1) : e \in inside
  BY <1>1, <1>3
<1> HIDE DEF inside
<1>5. found \in SUBSET Nat
  BY <1>1 DEF inside
<1>6. \A d \in Directory :
         marked # {} /\ Nearest(d) <=> d \in found /\ \A n \in found : d <= n
  BY <1>1, <1>3, <1>4 DEF Nearest, inside
<1>7. LocalEnvironmentFiles(marked, files) = IF found = {} THEN {} ELSE {Min(found)}
  BY DEF LocalEnvironmentFiles, inside
<1>8. CASE found = {}
  BY <1>6, <1>7, <1>8
<1>9. CASE found # {}
  <2> HIDE DEF found
  <2>1. Min(found) \in found /\ \A n \in found : Min(found) <= n
    BY <1>5, <1>9, MinOf
  <2>2. Min(found) \in Directory
    BY <2>1 DEF found, inside
  <2>3. marked # {} /\ Nearest(Min(found))
    BY <1>6, <2>1, <2>2
  <2>4. \A d \in Directory : Nearest(d) => d = Min(found)
    <3>1. ASSUME NEW d \in Directory, Nearest(d) PROVE d = Min(found)
      <4>1. d \in found /\ d <= Min(found) /\ Min(found) <= d
        BY <1>6, <2>1, <2>3, <3>1
      <4>2. d \in Nat /\ Min(found) \in Nat
        BY <1>5, <2>1, <4>1
      <4>3. QED
        BY <4>1, <4>2
    <3>2. QED
      BY <3>1
  <2>5. (CHOOSE d \in Directory : Nearest(d)) = Min(found)
    BY <2>2, <2>3, <2>4
  <2>6. QED
    BY <1>7, <1>9, <2>2, <2>3, <2>5
<1>10. QED
  BY <1>8, <1>9

\* What the process starts from, as long as it has not loaded it.
Surrounded ==
    config = NoConfiguration =>
        /\ environment \in Environment
        /\ marked \in SUBSET Directory
        /\ files \in [Directory -> File \cup {Unset}]

LEMMA LoadsWhatIsGiven ==
    ASSUME Surrounded, config = NoConfiguration
    PROVE  LET loaded == LoadLocalEnvironment(environment, marked, files)
           IN  /\ \A v \in DOMAIN environment : loaded[v] = Given(v)
               /\ DOMAIN environment = {"NODE_ENV", "WEB_ORIGIN", "DB_POOL_MAX"}
               /\ loaded \in Environment
<1> DEFINE loaded == LoadLocalEnvironment(environment, marked, files)
           located == LocalEnvironmentFiles(marked, files)
           some == marked # {} /\ \E d \in Directory : Nearest(d)
           nearest == CHOOSE d \in Directory : Nearest(d)
<1>1. located = IF some THEN {nearest} ELSE {}
  BY FoundIsNearest DEF Surrounded
<1>2. DOMAIN environment = {"NODE_ENV", "WEB_ORIGIN", "DB_POOL_MAX"}
  BY DEF Surrounded, Environment
<1>3. \A v : Given(v) = IF environment[v] # Unset THEN environment[v]
                        ELSE IF environment.NODE_ENV # "production" /\ some
                        THEN files[nearest][v] ELSE Unset
  BY DEF Given, Nearest
<1>4. loaded = IF environment.NODE_ENV = "production" \/ ~some THEN environment
               ELSE Dotenv(environment, files[nearest])
  <2> HIDE DEF nearest, some
  <2>1. CASE some
    <3>1. located = {nearest} /\ Min(located) \in located
      <4>1. located = {nearest}
        BY <1>1, <2>1
      <4>2. nearest \in Nat
        BY <2>1, TopAssumption DEF some, nearest, Directory
      <4>3. QED
        BY <4>1, <4>2, MinOf
    <3>2. QED
      BY <2>1, <3>1 DEF LoadLocalEnvironment
  <2>2. CASE ~some
    BY <1>1, <2>2 DEF LoadLocalEnvironment
  <2>3. QED
    BY <2>1, <2>2
<1>5. some => files[nearest] \in Environment
  <2>1. some => nearest \in Directory /\ files[nearest] # Unset
    BY DEF Nearest
  <2> HIDE DEF nearest, some
  <2>2. QED
    BY <2>1, EnvironmentAssumption DEF Surrounded
<1> HIDE DEF nearest, some, loaded
<1>6. \A v \in DOMAIN environment : loaded[v] = Given(v)
  BY <1>3, <1>4 DEF Dotenv
<1>7. loaded \in Environment
  <2>1. CASE loaded = environment
    BY <2>1 DEF Surrounded
  <2>2. CASE loaded # environment
    <3> DEFINE file == files[nearest]
    <3>1. loaded = Dotenv(environment, file) /\ file \in Environment
      BY <1>4, <1>5, <2>2
    <3> HIDE DEF file
    <3>2. QED
      BY <1>2, <3>1 DEF Dotenv, Surrounded, Environment
  <2>3. QED
    BY <2>1, <2>2
<1>8. QED
  BY <1>2, <1>6, <1>7 DEF loaded

LEMMA SurroundedHolds == StartSpec => []Surrounded
<1>1. StartInit => Surrounded
  BY EnvironmentAssumption DEF StartInit, Surrounded
<1>2. Surrounded /\ [StartNext]_startVars => Surrounded'
  BY ConfigurationAssumption
     DEF StartNext, LoadApiConfigFromEnvironment, CreateDatabase, startVars, surroundings, Surrounded
<1>3. QED
  BY <1>1, <1>2, PTL DEF StartSpec

\* A variable has the value it was given, by the process's environment, by the
\* nearest .env within the repository, or by its default; what does not make a
\* whole and valid configuration is refused: for every depth of directories.
THEOREM ConfiguredAsGiven == StartSpec => StartsAsConfigured
<1> DEFINE Step == config = NoConfiguration /\ config' # NoConfiguration
           Says(v, value, default) == value = IF Given(v) = Unset THEN default ELSE Given(v)
           Reason == \/ \E v \in DOMAIN environment : Given(v) = Invalid
                     \/ Given("WEB_ORIGIN") = Unset
                     \/ Given("NODE_ENV") = "production" /\ Given("WEB_ORIGIN") # "https"
                     \/ Given("DB_POOL_MAX") \in {0, 101}
           Told == /\ Says("NODE_ENV", config'.environment, "development")
                   /\ Says("WEB_ORIGIN", config'.webOrigin, Unset)
                   /\ Says("DB_POOL_MAX", config'.maxConnections, 10)
                   /\ config'.maxConnections \in 1..100
                   /\ config'.environment = "production" => config'.webOrigin = "https"
<1>1. ASSUME Surrounded, StartNext, Step
      PROVE  IF config' = Refused THEN Reason ELSE Told
  <2> DEFINE env == LoadLocalEnvironment(environment, marked, files)
  <2>1. config' \in IF LoadApiConfig(env) = {} THEN {Refused} ELSE LoadApiConfig(env)
    BY <1>1 DEF StartNext, LoadApiConfigFromEnvironment, CreateDatabase
  <2>2. /\ env.NODE_ENV = Given("NODE_ENV") /\ env.WEB_ORIGIN = Given("WEB_ORIGIN")
        /\ env.DB_POOL_MAX = Given("DB_POOL_MAX") /\ env \in Environment
        /\ DOMAIN environment = {"NODE_ENV", "WEB_ORIGIN", "DB_POOL_MAX"}
    BY <1>1, LoadsWhatIsGiven
  <2> HIDE DEF env
  <2>3. LoadApiConfig(env) \subseteq ApiConfig
    BY <2>2 DEF LoadApiConfig, ApiConfig, Enumerated, WebOrigin, BoundedInteger
  <2>4. CASE LoadApiConfig(env) = {}
    <3> DEFINE node == IF env.NODE_ENV = Unset THEN "development" ELSE env.NODE_ENV
               pool == IF env.DB_POOL_MAX = Unset THEN 10 ELSE env.DB_POOL_MAX
               made == [environment |-> node, webOrigin |-> env.WEB_ORIGIN, maxConnections |-> pool]
    <3>1. SUFFICES ASSUME ~Reason PROVE FALSE
      BY <2>1, <2>4
    <3>2. /\ node \in Enumerated(env.NODE_ENV, "development", {"development", "production"})
          /\ env.WEB_ORIGIN \in WebOrigin(env.WEB_ORIGIN)
          /\ pool \in BoundedInteger(env.DB_POOL_MAX, 10, 1, 100)
      <4>1. /\ env.NODE_ENV \in {"development", "production", Invalid, Unset}
            /\ env.WEB_ORIGIN \in {"http", "https", Invalid, Unset}
            /\ env.DB_POOL_MAX \in {0, 1, 100, 101, Invalid, Unset}
        BY <2>2 DEF Environment
      <4>2. /\ env.NODE_ENV # Invalid /\ env.WEB_ORIGIN \notin {Invalid, Unset}
            /\ env.DB_POOL_MAX \notin {0, 101, Invalid}
        BY <2>2, <3>1
      <4>3. node \in Enumerated(env.NODE_ENV, "development", {"development", "production"})
        BY <4>1, <4>2 DEF Enumerated
      <4>4. env.WEB_ORIGIN \in WebOrigin(env.WEB_ORIGIN)
        BY <4>1, <4>2 DEF WebOrigin
      <4>5. pool \in BoundedInteger(env.DB_POOL_MAX, 10, 1, 100)
        <5>1. CASE env.DB_POOL_MAX = Unset
          BY <5>1 DEF BoundedInteger
        <5>2. CASE env.DB_POOL_MAX # Unset
          <6>1. env.DB_POOL_MAX \in {1, 100}
            BY <4>1, <4>2, <5>2
          <6>2. env.DB_POOL_MAX \in 1..100
            BY <6>1
          <6>3. QED
            BY <5>2, <6>2 DEF BoundedInteger
        <5>3. QED
          BY <5>1, <5>2
      <4>6. QED
        BY <4>3, <4>4, <4>5
    <3>3. Consistent(made)
      BY <2>2, <3>1 DEF Consistent
    <3>4. made \in LoadApiConfig(env)
      BY <3>2, <3>3 DEF LoadApiConfig
    <3>5. QED
      BY <2>4, <3>4
  <2>5. CASE LoadApiConfig(env) # {}
    <3>1. config' \in LoadApiConfig(env) /\ config' # Refused
      BY <2>1, <2>3, <2>5, ConfigurationAssumption
    <3>2. Told
      BY <2>2, <3>1 DEF LoadApiConfig, Enumerated, WebOrigin, BoundedInteger, Consistent
    <3>3. QED
      BY <3>1, <3>2
  <2>6. QED
    BY <2>4, <2>5
<1>2. Surrounded /\ [StartNext]_startVars =>
         [Step => IF config' = Refused THEN Reason ELSE Told]_startVars
  BY <1>1
<1>3. QED
  BY <1>2, SurroundedHolds, PTL DEF StartSpec, StartsAsConfigured

-----------------------------------------------------------------------------
(* Redaction                                                                *)

\* What is written, and what stands there, with the walk inside the objects `seen`.
WrittenIn(graph, value, seen, trail) == Written(graph, value, trail) /\ Met(trail) \cap seen = {}

ExpectedIn(graph, value, seen, trail) ==
    IF End(graph, value, trail) \in seen /\ ~(trail # <<>> /\ Last(trail)[2] \in SensitiveKey)
    THEN "[Circular]" ELSE Expected(graph, value, trail)

Step == Node \X Key

Yield(graph, value, seen) ==
    [leaves |-> {<<Path(graph, trail), ExpectedIn(graph, value, seen, trail)>> :
                    trail \in {t \in Seq(Step) : WrittenIn(graph, value, seen, t)}},
     seen   |-> seen]

-----------------------------------------------------------------------------
(* Trails                                                                   *)

LEMMA GraphsAreTyped ==
    ASSUME NEW graph \in Graph, NEW node \in Node
    PROVE  /\ graph[node].kind \in Kind
           /\ DOMAIN graph[node].own \subseteq Key
           /\ \A key \in DOMAIN graph[node].own : graph[node].own[key] \in Text \cup Node
<1>1. graph[node] \in [kind : Kind, own : Properties]
  BY DEF Graph
<1>2. PICK keys \in SUBSET Key : graph[node].own \in [keys -> Text \cup Node]
  BY <1>1 DEF Properties
<1>3. QED
  BY <1>1, <1>2

\* An error's name is a text, on which no trail goes on.
LEMMA NamesAreTexts ==
    ASSUME NEW graph \in Graph, NEW node \in Node, NEW key, IsErrorName(graph, node, key)
    PROVE  graph[node].own[key] \in Text
BY DEF Graph, IsErrorName

\* A trail of one more step.
Onto(value, key, u) == << <<value, key>> >> \o u

LEMMA Longer ==
    ASSUME NEW value \in Node, NEW key \in Key, NEW u \in Seq(Step), NEW t,
           t = Onto(value, key, u)
    PROVE  /\ t \in Seq(Step) /\ t # <<>> /\ Len(t) = Len(u) + 1
           /\ Len(u) \in Nat /\ DOMAIN u = 1..Len(u) /\ DOMAIN t = 1..(Len(u) + 1)
           /\ t[1] = <<value, key>>
           /\ \A i \in 1..Len(u) : t[i + 1] = u[i] /\ u[i] \in Step
           /\ \A i \in 1..(Len(u) + 1) : i # 1 => i - 1 \in 1..Len(u) /\ t[i] = u[i - 1]
<1>1. << <<value, key>> >> \in Seq(Step) /\ Len(<< <<value, key>> >>) = 1
  BY DEF Step
<1>2. /\ t \in Seq(Step) /\ Len(t) = Len(u) + 1
      /\ \A i \in 1..(1 + Len(u)) : t[i] = IF i <= 1 THEN << <<value, key>> >>[i] ELSE u[i - 1]
  BY <1>1, ConcatProperties DEF Onto
<1>3. Len(u) \in Nat /\ u \in [1..Len(u) -> Step] /\ DOMAIN t = 1..Len(t)
  BY <1>2, LenProperties
<1>4. Len(u) \in Nat /\ DOMAIN u = 1..Len(u) /\ DOMAIN t = 1..(Len(u) + 1) /\ t # <<>>
  BY <1>2, <1>3, EmptySeq
<1>5. t[1] = <<value, key>>
  BY <1>1, <1>2, <1>4
<1>6. \A i \in 1..Len(u) : t[i + 1] = u[i] /\ u[i] \in Step
  BY <1>2, <1>3, <1>4
<1>7. \A i \in 1..(Len(u) + 1) : i # 1 => i - 1 \in 1..Len(u) /\ t[i] = u[i - 1]
  BY <1>2, <1>4
<1>8. QED
  BY <1>2, <1>4, <1>5, <1>6, <1>7

LEMMA FollowsLonger ==
    ASSUME NEW graph \in Graph, NEW value \in Node, NEW key \in Key, NEW u \in Seq(Step), NEW t,
           t = Onto(value, key, u)
    PROVE  Follows(graph, value, t) <=>
              key \in DOMAIN graph[value].own /\ Follows(graph, graph[value].own[key], u)
<1> DEFINE n == Len(u)
           next == graph[value].own[key]
           Holds(x, i) == x[i] \in Steps(graph)
           Leads(x, i) == x[i + 1][1] = graph[x[i][1]].own[x[i][2]]
<1>1. /\ t # <<>> /\ n \in Nat /\ Len(t) = n + 1 /\ DOMAIN t = 1..(n + 1) /\ DOMAIN u = 1..n
      /\ t[1] = <<value, key>>
      /\ \A i \in 1..n : t[i + 1] = u[i]
      /\ \A i \in 1..(n + 1) : i # 1 => i - 1 \in 1..n /\ t[i] = u[i - 1]
  BY Longer
<1>2. (\A i \in 1..(n + 1) : Holds(t, i)) <=>
         key \in DOMAIN graph[value].own /\ \A i \in 1..n : Holds(u, i)
  <2>1. Holds(t, 1) <=> key \in DOMAIN graph[value].own
    BY <1>1 DEF Steps
  <2>2. \A i \in 1..n : i + 1 \in 1..(n + 1) /\ (Holds(t, i + 1) <=> Holds(u, i))
    BY <1>1
  <2>3. \A i \in 1..(n + 1) : i = 1 \/ (i - 1 \in 1..n /\ (Holds(t, i) <=> Holds(u, i - 1)))
    BY <1>1
  <2>4. 1 \in 1..(n + 1)
    BY <1>1
  <2> HIDE DEF Holds
  <2>5. ASSUME \A i \in 1..(n + 1) : Holds(t, i), NEW i \in 1..n PROVE Holds(u, i)
    BY <2>2, <2>5
  <2>6. ASSUME Holds(t, 1), \A i \in 1..n : Holds(u, i), NEW i \in 1..(n + 1) PROVE Holds(t, i)
    BY <2>3, <2>6
  <2>7. QED
    BY <2>1, <2>4, <2>5, <2>6
<1>3. (\A i \in 1..n : Leads(t, i)) <=>
         (u # <<>> => u[1][1] = next) /\ \A i \in 1..(n - 1) : Leads(u, i)
  <2>1. u # <<>> <=> n # 0
    BY EmptySeq
  <2>2. n # 0 => 1 \in 1..n /\ (Leads(t, 1) <=> u[1][1] = next)
    BY <1>1
  <2>3. \A i \in 1..(n - 1) : i + 1 \in 1..n /\ (Leads(t, i + 1) <=> Leads(u, i))
    BY <1>1
  <2>4. \A i \in 1..n : n # 0 /\ (i = 1 \/ (i - 1 \in 1..(n - 1) /\ (Leads(t, i) <=> Leads(u, i - 1))))
    BY <1>1
  <2> HIDE DEF Leads, next
  <2>5. ASSUME \A i \in 1..n : Leads(t, i), NEW i \in 1..(n - 1) PROVE Leads(u, i)
    BY <2>3, <2>5
  <2>6. ASSUME u # <<>> => u[1][1] = next, \A i \in 1..(n - 1) : Leads(u, i), NEW i \in 1..n
        PROVE  Leads(t, i)
    BY <2>1, <2>2, <2>4, <2>6
  <2>7. QED
    BY <2>1, <2>2, <2>5, <2>6
<1>4. Follows(graph, value, t) <=>
         (\A i \in 1..(n + 1) : Holds(t, i)) /\ (\A i \in 1..n : Leads(t, i))
  <2>1. Len(t) - 1 = n
    BY <1>1
  <2>2. t[1][1] = value
    BY <1>1
  <2>3. QED
    BY <1>1, <2>1, <2>2 DEF Follows
<1>5. Follows(graph, next, u) <=>
         /\ \A i \in 1..n : Holds(u, i)
         /\ u # <<>> => u[1][1] = next
         /\ \A i \in 1..(n - 1) : Leads(u, i)
  BY <1>1 DEF Follows
<1> HIDE DEF Holds, Leads
<1>6. QED
  BY <1>2, <1>3, <1>4, <1>5

LEMMA MetLonger ==
    ASSUME NEW value \in Node, NEW key \in Key, NEW u \in Seq(Step), NEW t,
           t = Onto(value, key, u)
    PROVE  Met(t) = Met(u) \cup {value}
<1> DEFINE n == Len(u)
<1>1. /\ n \in Nat /\ DOMAIN t = 1..(n + 1) /\ DOMAIN u = 1..n
      /\ t[1] = <<value, key>>
      /\ \A i \in 1..n : t[i + 1] = u[i]
      /\ \A i \in 1..(n + 1) : i # 1 => i - 1 \in 1..n /\ t[i] = u[i - 1]
  BY Longer
<1>2. /\ \A x : x \in Met(t) <=> \E i \in 1..(n + 1) : x = t[i][1]
      /\ \A x : x \in Met(u) <=> \E i \in 1..n : x = u[i][1]
  BY <1>1 DEF Met
<1>3. \A i \in 1..n : i + 1 \in 1..(n + 1) /\ t[i + 1][1] = u[i][1]
  BY <1>1
<1>4. \A i \in 1..(n + 1) : i = 1 \/ (i - 1 \in 1..n /\ t[i][1] = u[i - 1][1])
  BY <1>1
<1>5. t[1][1] = value /\ 1 \in 1..(n + 1)
  BY <1>1
<1>6. ASSUME NEW x \in Met(t) PROVE x \in Met(u) \cup {value}
  <2>1. PICK i \in 1..(n + 1) : x = t[i][1]
    BY <1>2, <1>6
  <2>2. QED
    BY <1>2, <1>4, <1>5, <2>1
<1>7. ASSUME NEW x \in Met(u) PROVE x \in Met(t)
  <2>1. PICK i \in 1..n : x = u[i][1]
    BY <1>2, <1>7
  <2>2. i + 1 \in 1..(n + 1) /\ x = t[i + 1][1]
    BY <1>3, <2>1
  <2>3. QED
    BY <1>2, <2>2
<1>8. value \in Met(t)
  BY <1>2, <1>5
<1>9. QED
  BY <1>6, <1>7, <1>8

\* Of a longer trail, the first step is a new one, and its key is not censored.
LEMMA WrittenLonger ==
    ASSUME NEW graph \in Graph, NEW value \in Node, NEW key \in Key, NEW u \in Seq(Step), NEW t,
           NEW seen \in SUBSET Node, value \notin seen, t = Onto(value, key, u)
    PROVE  WrittenIn(graph, value, seen, t) <=>
              /\ key \in DOMAIN graph[value].own
              /\ u = <<>> \/ key \notin SensitiveKey
              /\ WrittenIn(graph, graph[value].own[key], seen \cup {value}, u)
<1> DEFINE n == Len(u)
           Free(x, i) == x[i][2] \notin SensitiveKey
<1>1. /\ t # <<>> /\ n \in Nat /\ Len(t) = n + 1 /\ DOMAIN t = 1..(n + 1) /\ DOMAIN u = 1..n
      /\ t[1] = <<value, key>>
      /\ \A i \in 1..n : t[i + 1] = u[i]
      /\ \A i \in 1..(n + 1) : i # 1 => i - 1 \in 1..n /\ t[i] = u[i - 1]
  BY Longer
<1>2. (\A i \in 1..n : Free(t, i)) <=>
         (u = <<>> \/ key \notin SensitiveKey) /\ \A i \in 1..(n - 1) : Free(u, i)
  <2>1. u = <<>> <=> n = 0
    BY EmptySeq
  <2>2. \A i \in 1..(n - 1) : i + 1 \in 1..n /\ (Free(t, i + 1) <=> Free(u, i))
    BY <1>1
  <2>3. \A i \in 1..n : i = 1 \/ (i - 1 \in 1..(n - 1) /\ (Free(t, i) <=> Free(u, i - 1)))
    BY <1>1
  <2>4. Free(t, 1) <=> key \notin SensitiveKey
    BY <1>1
  <2>5. n = 0 <=> 1 \notin 1..n
    BY <1>1
  <2> HIDE DEF Free
  <2>6. ASSUME \A i \in 1..n : Free(t, i), NEW i \in 1..(n - 1) PROVE Free(u, i)
    BY <2>2, <2>6
  <2>7. ASSUME key \notin SensitiveKey, \A i \in 1..(n - 1) : Free(u, i), NEW i \in 1..n
        PROVE  Free(t, i)
    BY <2>3, <2>4, <2>7
  <2>8. n = 0 => 1..n = {} /\ 1..(n - 1) = {}
    BY <1>1
  <2>9. QED
    BY <2>1, <2>4, <2>5, <2>6, <2>7, <2>8
<1>3. /\ \A i, j \in 1..(n + 1) : t[i][1] = t[j][1] => i = j
      /\ Met(t) \cap seen = {}
      <=>
      /\ \A i, j \in 1..n : u[i][1] = u[j][1] => i = j
      /\ Met(u) \cap (seen \cup {value}) = {}
  <2>1. /\ \A x : x \in Met(t) <=> \E i \in 1..(n + 1) : x = t[i][1]
        /\ \A x : x \in Met(u) <=> \E i \in 1..n : x = u[i][1]
    BY <1>1 DEF Met
  <2>2. Met(t) = Met(u) \cup {value}
    BY MetLonger
  <2>3. ASSUME \A i, j \in 1..(n + 1) : t[i][1] = t[j][1] => i = j
        PROVE  (\A i, j \in 1..n : u[i][1] = u[j][1] => i = j) /\ value \notin Met(u)
    <3>1. \A i \in 1..n : i + 1 \in 1..(n + 1) /\ t[i + 1][1] = u[i][1] /\ i + 1 # 1
      BY <1>1
    <3>2. ASSUME NEW i \in 1..n, NEW j \in 1..n, u[i][1] = u[j][1] PROVE i = j
      <4>1. t[i + 1][1] = t[j + 1][1] /\ i + 1 \in 1..(n + 1) /\ j + 1 \in 1..(n + 1)
        BY <3>1, <3>2
      <4> HIDE DEF n
      <4>2. i + 1 = j + 1
        BY ONLY <2>3, <4>1
      <4>3. QED
        BY <4>2
    <3>3. \A i \in 1..n : u[i][1] # value
      BY <1>1, <2>3, <3>1
    <3>4. QED
      BY <2>1, <3>2, <3>3
  <2>4. ASSUME \A i, j \in 1..n : u[i][1] = u[j][1] => i = j, value \notin Met(u),
               NEW i \in 1..(n + 1), NEW j \in 1..(n + 1), t[i][1] = t[j][1]
        PROVE  i = j
    <3>1. \A k \in 1..(n + 1) : k # 1 => k - 1 \in 1..n /\ t[k][1] = u[k - 1][1]
      BY <1>1
    <3>2. \A k \in 1..n : u[k][1] # value
      BY <2>1, <2>4
    <3>3. (i = 1 <=> j = 1)
      BY <1>1, <2>4, <3>1, <3>2
    <3>4. CASE i # 1
      <4>1. i - 1 = j - 1
        BY <2>4, <3>1, <3>3, <3>4
      <4>2. QED
        BY <4>1
    <3>5. QED
      BY <3>3, <3>4
  <2>5. QED
    BY <2>2, <2>3, <2>4
<1>4. Follows(graph, value, t) <=>
         key \in DOMAIN graph[value].own /\ Follows(graph, graph[value].own[key], u)
  BY FollowsLonger
<1>5. Len(t) - 1 = n
  BY <1>1
<1> HIDE DEF Free
<1>6. WrittenIn(graph, value, seen, t) <=>
         /\ Follows(graph, value, t)
         /\ \A i \in 1..n : Free(t, i)
         /\ \A i, j \in 1..(n + 1) : t[i][1] = t[j][1] => i = j
         /\ Met(t) \cap seen = {}
  BY <1>1, <1>5 DEF WrittenIn, Written, Free
<1>7. \A next : WrittenIn(graph, next, seen \cup {value}, u) <=>
         /\ Follows(graph, next, u)
         /\ \A i \in 1..(n - 1) : Free(u, i)
         /\ \A i, j \in 1..n : u[i][1] = u[j][1] => i = j
         /\ Met(u) \cap (seen \cup {value}) = {}
  BY <1>1 DEF WrittenIn, Written, Free
<1>8. QED
  BY <1>2, <1>3, <1>4, <1>6, <1>7

LEMMA PathLonger ==
    ASSUME NEW graph, NEW value \in Node, NEW key \in Key, NEW u \in Seq(Step)
    PROVE  Path(graph, Onto(value, key, u)) = <<WrittenKey(graph, value, key)>> \o Path(graph, u)
<1> PICK t : t = Onto(value, key, u)
  OBVIOUS
<1> DEFINE n == Len(u)
           names == Key \cup {"type"}
           K(step) == WrittenKey(graph, step[1], step[2])
           first == K(<<value, key>>)
<1>1. /\ n \in Nat /\ Len(t) = n + 1 /\ DOMAIN t = 1..(n + 1) /\ DOMAIN u = 1..n
      /\ t[1] = <<value, key>>
      /\ \A i \in 1..(n + 1) : i # 1 => i - 1 \in 1..n /\ t[i] = u[i - 1]
  BY Longer
<1>2. t \in Seq(Step) /\ <<value, key>> \in Step
  BY Longer DEF Step
<1>3. ASSUME NEW step \in Step PROVE K(step) \in names
  BY DEF Step, WrittenKey
<1>4. /\ Path(graph, u) = [i \in DOMAIN u |-> K(u[i])]
      /\ Path(graph, t) = [i \in DOMAIN t |-> K(t[i])]
  BY DEF Path
<1>5. first \in names /\ first = WrittenKey(graph, value, key)
  BY <1>2, <1>3
<1> HIDE DEF K, names, first
<1> DEFINE shorter == Path(graph, u)
           after == Path(graph, t)
<1>6. shorter \in Seq(names) /\ Len(shorter) = n /\ \A i \in 1..n : shorter[i] = K(u[i])
  <2>1. \A i \in 1..n : K(u[i]) \in names
    BY <1>3, LenProperties
  <2>2. QED
    BY <1>1, <1>4, <2>1
<1>7. after \in Seq(names) /\ Len(after) = n + 1 /\ \A i \in 1..(n + 1) : after[i] = K(t[i])
  <2>1. \A i \in 1..(n + 1) : K(t[i]) \in names
    BY <1>1, <1>2, <1>3, LenProperties
  <2>2. QED
    BY <1>1, <1>4, <2>1
<1>8. <<first>> \in Seq(names) /\ Len(<<first>>) = 1 /\ <<first>>[1] = first
  BY <1>5
<1> DEFINE p == <<first>> \o shorter
<1> HIDE DEF shorter, after
<1>9. /\ p \in Seq(names) /\ Len(p) = n + 1
      /\ \A i \in 1..(n + 1) : p[i] = IF i <= 1 THEN <<first>>[i] ELSE shorter[i - 1]
  BY <1>1, <1>6, <1>8, ConcatProperties
<1> HIDE DEF p
<1>10. ASSUME NEW i \in 1..(n + 1) PROVE p[i] = after[i]
  <2>1. CASE i = 1
    <3>1. p[1] = first
      BY <1>1, <1>8, <1>9
    <3>2. 1 \in 1..(n + 1) /\ after[1] = K(<<value, key>>)
      <4>1. 1 \in 1..(n + 1)
        BY <1>1
      <4>2. K(t[1]) = K(<<value, key>>)
        BY <1>1
      <4>3. QED
        BY <1>7, <4>1, <4>2
    <3>3. QED
      BY <2>1, <3>1, <3>2 DEF first
  <2>2. CASE i # 1
    <3>1. i - 1 \in 1..n /\ t[i] = u[i - 1] /\ ~(i <= 1)
      BY <1>1, <2>2
    <3>2. p[i] = shorter[i - 1]
      BY <1>9, <3>1
    <3>3. after[i] = K(t[i]) /\ shorter[i - 1] = K(u[i - 1])
      BY <1>6, <1>7, <3>1
    <3>4. QED
      BY <3>1, <3>2, <3>3
  <2>3. QED
    BY <2>1, <2>2
<1>11. after = p
  BY <1>7, <1>9, <1>10, SeqEqual
<1>12. QED
  BY <1>5, <1>11 DEF p, shorter, after

\* Below an object the walk goes on as it would from the property's value,
\* inside one object more, ...
Property(graph, value, key) == graph[value].own[key]

LEMMA ExpectedLonger ==
    ASSUME NEW graph \in Graph, NEW value \in Node, NEW key \in Key \ SensitiveKey,
           NEW u \in Seq(Step), NEW t, NEW seen \in SUBSET Node, t = Onto(value, key, u),
           ~IsErrorName(graph, value, key)
    PROVE  ExpectedIn(graph, value, seen, t) =
              ExpectedIn(graph, Property(graph, value, key), seen \cup {value}, u)
<1> DEFINE n == Len(u)
           next == graph[value].own[key]
<1> USE DEF Property
<1>1. /\ t # <<>> /\ n \in Nat /\ Len(t) = n + 1 /\ t[1] = <<value, key>>
      /\ \A i \in 1..n : t[i + 1] = u[i]
  BY Longer
<1>2. u = <<>> <=> n = 0
  BY EmptySeq
<1>3. Met(t) = Met(u) \cup {value}
  BY MetLonger
<1>4. value \notin Text
  BY NodeAssumption
<1>5. CASE u = <<>>
  <2>1. Last(t) = <<value, key>> /\ End(graph, value, t) = next /\ End(graph, next, u) = next
    BY <1>1, <1>2, <1>5 DEF Last, End
  <2>2. Met(u) = {} /\ Last(t)[2] = key /\ ~IsErrorName(graph, Last(t)[1], Last(t)[2])
    BY <1>5, <2>1 DEF Met
  <2> HIDE DEF next
  <2>3. QED
    BY <1>1, <1>3, <1>4, <1>5, <2>1, <2>2, NodeAssumption DEF ExpectedIn, Expected, next
<1>6. CASE u # <<>>
  <2>1. Last(t) = Last(u) /\ End(graph, value, t) = End(graph, next, u)
    BY <1>1, <1>2, <1>6 DEF Last, End
  <2>2. IsErrorName(graph, Last(u)[1], Last(u)[2]) => End(graph, next, u) \in Text
    <3>1. Last(u) = u[n] /\ u[n] \in Step
      BY <1>1, <1>2, <1>6, LenProperties DEF Last
    <3>2. u[n][1] \in Node
      BY <3>1 DEF Step
    <3> HIDE DEF next
    <3>3. QED
      BY <1>6, <3>1, <3>2, NamesAreTexts DEF End
  <2> DEFINE end == End(graph, next, u)
             last == Last(u)
  <2> HIDE DEF next, end, last
  <2>3. ExpectedIn(graph, value, seen, t) = ExpectedIn(graph, next, seen \cup {value}, u)
    <3>1. end \in Text => end \notin Met(t) /\ end \notin seen \cup {value} /\ end \notin seen
      <4>1. Met(t) \subseteq Node
        <5>1. Met(u) \subseteq Node
          <6>1. \A i \in DOMAIN u : u[i] \in Step
            BY LenProperties
          <6>2. QED
            BY <6>1 DEF Met, Step
        <5>2. QED
          BY <1>3, <5>1
      <4>2. QED
        BY <4>1, NodeAssumption
    <3>2. Expected(graph, value, t) =
             IF last[2] \in SensitiveKey THEN Censor
             ELSE IF IsErrorName(graph, last[1], last[2]) THEN end
             ELSE IF end \in Text THEN RedactSensitiveText(end)
             ELSE IF end \in Met(t) THEN "[Circular]" ELSE graph[end].kind
      BY <1>1, <2>1 DEF Expected, end, last
    <3>3. Expected(graph, next, u) =
             IF last[2] \in SensitiveKey THEN Censor
             ELSE IF IsErrorName(graph, last[1], last[2]) THEN end
             ELSE IF end \in Text THEN RedactSensitiveText(end)
             ELSE IF end \in Met(u) THEN "[Circular]" ELSE graph[end].kind
      BY <1>6 DEF Expected, end, last
    <3>4. ExpectedIn(graph, value, seen, t) =
             IF end \in seen /\ last[2] \notin SensitiveKey THEN "[Circular]" ELSE Expected(graph, value, t)
      BY <1>1, <2>1 DEF ExpectedIn, end, last
    <3>5. ExpectedIn(graph, next, seen \cup {value}, u) =
             IF end \in seen \cup {value} /\ last[2] \notin SensitiveKey
             THEN "[Circular]" ELSE Expected(graph, next, u)
      BY <1>6 DEF ExpectedIn, end, last
    <3>6. IsErrorName(graph, last[1], last[2]) => end \in Text
      BY <2>2 DEF end, last
    <3>7. QED
      BY <1>3, <3>1, <3>2, <3>3, <3>4, <3>5, <3>6
  <2>4. QED
    BY <2>3 DEF next
<1>7. QED
  BY <1>5, <1>6

\* ... unless the property is censored.
LEMMA ExpectedCensored ==
    ASSUME NEW graph, NEW value \in Node, NEW key \in Key, key \in SensitiveKey, NEW seen
    PROVE  ExpectedIn(graph, value, seen, Onto(value, key, <<>>)) = Censor
<1> DEFINE t == Onto(value, key, <<>>)
<1>1. t = << <<value, key>> >>
  BY DEF Onto
<1>2. t # <<>> /\ Last(t)[2] = key
  BY <1>1 DEF Last
<1> HIDE DEF t
<1>3. ExpectedIn(graph, value, seen, t) = Censor
  BY <1>2 DEF ExpectedIn, Expected
<1>4. QED
  BY <1>3 DEF t

\* ... or an error's name, which stands as it is.
LEMMA ExpectedOfName ==
    ASSUME NEW graph \in Graph, NEW value \in Node, NEW key \in Key \ SensitiveKey,
           NEW seen \in SUBSET Node, IsErrorName(graph, value, key)
    PROVE  ExpectedIn(graph, value, seen, Onto(value, key, <<>>)) = Property(graph, value, key)
<1> DEFINE t == Onto(value, key, <<>>)
<1>1. t = << <<value, key>> >>
  BY DEF Onto
<1>2. t # <<>> /\ Last(t) = <<value, key>> /\ Last(t)[1] = value /\ Last(t)[2] = key
  BY <1>1 DEF Last
<1> HIDE DEF t
<1>3. End(graph, value, t) = Property(graph, value, key)
  BY <1>2 DEF End, Property
<1>4. Property(graph, value, key) \notin seen
  BY NamesAreTexts, NodeAssumption DEF Property
<1>5. ExpectedIn(graph, value, seen, t) = Property(graph, value, key)
  BY <1>2, <1>3, <1>4 DEF ExpectedIn, Expected
<1>6. QED
  BY <1>5 DEF t

\* A trail that is not empty starts with a step from its value.
LEMMA FirstStep ==
    ASSUME NEW graph, NEW value, NEW t \in Seq(Step), t # <<>>, Follows(graph, value, t)
    PROVE  /\ value \in Node /\ t[1][2] \in Key /\ Tail(t) \in Seq(Step)
           /\ t = Onto(value, t[1][2], Tail(t))
<1>1. /\ t[1] \in Step /\ t[1][1] = value /\ Len(t) \in Nat /\ Len(t) # 0 /\ Head(t) = t[1]
      /\ Tail(t) \in Seq(Step) /\ Len(Tail(t)) = Len(t) - 1
      /\ \A i \in 1..(Len(t) - 1) : Tail(t)[i] = t[i + 1]
  BY EmptySeq, LenProperties, HeadTailProperties DEF Follows
<1>2. PICK key \in Key : t[1] = <<value, key>> /\ value \in Node
  BY <1>1 DEF Step
<1> DEFINE x == Onto(value, key, Tail(t))
<1>3. /\ x \in Seq(Step) /\ Len(x) = Len(t) /\ x[1] = <<value, key>>
      /\ \A i \in 1..Len(t) : i # 1 => i - 1 \in 1..(Len(t) - 1) /\ x[i] = Tail(t)[i - 1]
  <2> DEFINE u == Tail(t)
  <2> HIDE DEF x
  <2>1. /\ x \in Seq(Step) /\ Len(x) = Len(u) + 1 /\ x[1] = <<value, key>>
        /\ \A i \in 1..(Len(u) + 1) : i # 1 => i - 1 \in 1..Len(u) /\ x[i] = u[i - 1]
    <3> HIDE DEF u
    <3>1. u \in Seq(Step) /\ x = Onto(value, key, u)
      BY <1>1 DEF u, x
    <3>2. QED
      BY <1>2, <3>1, Longer
  <2>2. QED
    BY <1>1, <2>1
<1> HIDE DEF x
<1>4. ASSUME NEW i \in 1..Len(t) PROVE x[i] = t[i]
  <2>1. CASE i = 1
    BY <1>2, <1>3, <2>1
  <2>2. CASE i # 1
    <3>1. i - 1 \in 1..(Len(t) - 1) /\ x[i] = Tail(t)[i - 1] /\ (i - 1) + 1 = i
      BY <1>1, <1>3, <2>2
    <3>2. Tail(t)[i - 1] = t[(i - 1) + 1]
      BY <1>1, <3>1
    <3>3. QED
      BY <3>1, <3>2
  <2>3. QED
    BY <2>1, <2>2
<1>5. x = t
  BY <1>3, <1>4, SeqEqual
<1>6. t[1][2] = key
  BY <1>2
<1>7. QED
  BY <1>1, <1>2, <1>5, <1>6 DEF x

LEMMA NoStep ==
    ASSUME NEW graph, NEW value, NEW seen
    PROVE  /\ <<>> \in Seq(Step) /\ WrittenIn(graph, value, seen, <<>>)
           /\ Path(graph, <<>>) = <<>> /\ Met(<<>>) = {}
           /\ ExpectedIn(graph, value, seen, <<>>) =
                 IF value \in seen THEN "[Circular]"
                 ELSE IF value \in Text THEN RedactSensitiveText(value)
                 ELSE graph[value].kind
<1> DEFINE no == <<>>
<1>1. no \in Seq(Step) /\ DOMAIN no = {} /\ Len(no) = 0 /\ 1..(Len(no) - 1) = {} /\ no = <<>>
  OBVIOUS
<1> HIDE DEF no
<1>2. Met(no) = {} /\ WrittenIn(graph, value, seen, no)
  BY <1>1 DEF Met, WrittenIn, Written, Follows
<1>3. Path(graph, no) = <<>>
  BY <1>1 DEF Path
<1>4. End(graph, value, no) = value
  BY <1>1 DEF End
<1>5. Expected(graph, value, no) =
        IF value \in Text THEN RedactSensitiveText(value) ELSE graph[value].kind
  BY <1>1, <1>2, <1>4 DEF Expected
<1>6. ExpectedIn(graph, value, seen, no) =
         IF value \in seen THEN "[Circular]" ELSE Expected(graph, value, no)
  BY <1>1, <1>4 DEF ExpectedIn
<1>7. QED
  BY <1>1, <1>2, <1>3, <1>5, <1>6

\* A value that is not walked is one leaf.
LEMMA YieldOfLeaf ==
    ASSUME NEW graph, NEW seen \in SUBSET Node, NEW value \in Text \cup seen
    PROVE  Yield(graph, value, seen).leaves =
              Leaf(IF value \in Text THEN RedactSensitiveText(value) ELSE "[Circular]")
<1>1. ASSUME NEW t \in Seq(Step), WrittenIn(graph, value, seen, t), t # <<>> PROVE FALSE
  <2>1. Follows(graph, value, t)
    BY <1>1 DEF WrittenIn, Written
  <2>2. value \in Node
    BY <1>1, <2>1, FirstStep
  <2>3. value \in seen
    BY <2>2, NodeAssumption
  <2>4. 1 \in DOMAIN t /\ t[1][1] = value
    <3>1. Len(t) \in Nat /\ DOMAIN t = 1..Len(t) /\ Len(t) # 0
      BY <1>1, LenProperties, EmptySeq
    <3>2. QED
      BY <1>1, <2>1, <3>1 DEF Follows
  <2>5. value \in Met(t)
    BY <2>4 DEF Met
  <2>6. QED
    BY <1>1, <2>3, <2>5 DEF WrittenIn
<1>2. {t \in Seq(Step) : WrittenIn(graph, value, seen, t)} = {<<>>}
  <2>1. <<>> \in Seq(Step) /\ WrittenIn(graph, value, seen, <<>>)
    BY NoStep
  <2>2. QED
    BY <1>1, <2>1, Zenon
<1>3. Yield(graph, value, seen).leaves = {<<Path(graph, <<>>), ExpectedIn(graph, value, seen, <<>>)>>}
  BY <1>2 DEF Yield
<1>4. value \in Text => value \notin seen
  BY NodeAssumption
<1>5. QED
  BY <1>3, <1>4, NoStep DEF Leaf

\* Where no trail goes on, and what stands below each key of an object.
StopsAt(graph, value, key) == key \in SensitiveKey \/ IsErrorName(graph, value, key)

Stands(graph, value, seen, key, u) ==
    IF key \in SensitiveKey THEN Censor
    ELSE IF IsErrorName(graph, value, key) THEN Property(graph, value, key)
    ELSE ExpectedIn(graph, Property(graph, value, key), seen \cup {value}, u)

LEMMA ExpectedBelow ==
    ASSUME NEW graph \in Graph, NEW value \in Node, NEW key \in Key, NEW u \in Seq(Step), NEW t,
           NEW seen \in SUBSET Node, t = Onto(value, key, u), u = <<>> \/ ~StopsAt(graph, value, key)
    PROVE  ExpectedIn(graph, value, seen, t) = Stands(graph, value, seen, key, u)
<1>1. CASE key \in SensitiveKey
  BY <1>1, ExpectedCensored DEF StopsAt, Stands
<1>2. CASE key \notin SensitiveKey /\ IsErrorName(graph, value, key)
  BY <1>2, ExpectedOfName DEF StopsAt, Stands
<1>3. CASE key \notin SensitiveKey /\ ~IsErrorName(graph, value, key)
  BY <1>3, ExpectedLonger DEF Stands
<1>4. QED
  BY <1>1, <1>2, <1>3

\* What an object yields: itself, and below each of its keys what the value
\* there yields, the censor, or its name.
Below(graph, value, seen, key) ==
    IF key \in SensitiveKey THEN Leaf(Censor)
    ELSE IF IsErrorName(graph, value, key) THEN Leaf(Property(graph, value, key))
    ELSE Yield(graph, Property(graph, value, key), seen \cup {value}).leaves

Goes(graph, value, seen, key) ==
    {u \in Seq(Step) : /\ u = <<>> \/ ~StopsAt(graph, value, key)
                       /\ WrittenIn(graph, Property(graph, value, key), seen \cup {value}, u)}

LEMMA BelowIs ==
    ASSUME NEW graph, NEW value, NEW seen, NEW key
    PROVE  Below(graph, value, seen, key) =
              {<<Path(graph, u), Stands(graph, value, seen, key, u)>> : u \in Goes(graph, value, seen, key)}
<1> DEFINE below == Below(graph, value, seen, key)
           goes == Goes(graph, value, seen, key)
<1>1. CASE StopsAt(graph, value, key)
  <2>1. PICK end : below = Leaf(end) /\ \A u : Stands(graph, value, seen, key, u) = end
    BY <1>1 DEF StopsAt, Stands, Below
  <2>2. <<>> \in Seq(Step) /\ Path(graph, <<>>) = <<>>
        /\ WrittenIn(graph, Property(graph, value, key), seen \cup {value}, <<>>)
    BY NoStep
  <2>3. goes = {<<>>}
    BY <1>1, <2>2 DEF Goes
  <2> HIDE DEF goes, below
  <2>4. below = {<<Path(graph, u), Stands(graph, value, seen, key, u)>> : u \in goes}
    BY <2>1, <2>2, <2>3 DEF Leaf
  <2>5. QED
    BY <2>4 DEF goes, below
<1>2. CASE ~StopsAt(graph, value, key)
  BY <1>2 DEF StopsAt, Stands, Below, Yield, Goes
<1>3. QED
  BY <1>1, <1>2

LEMMA YieldOfObject ==
    ASSUME NEW graph \in Graph, NEW seen \in SUBSET Node, NEW value \in Node \ seen
    PROVE  Yield(graph, value, seen).leaves =
              Leaf(graph[value].kind)
                 \cup UNION {Under(WrittenKey(graph, value, key), Below(graph, value, seen, key)) :
                                key \in DOMAIN graph[value].own}
<1> DEFINE own == graph[value].own
           As(key) == WrittenKey(graph, value, key)
           rest == UNION {Under(As(key), Below(graph, value, seen, key)) : key \in DOMAIN own}
           all == Yield(graph, value, seen).leaves
<1>1. DOMAIN own \subseteq Key /\ value \in Node /\ value \notin seen
  BY GraphsAreTyped
<1>2. all = {<<Path(graph, t), ExpectedIn(graph, value, seen, t)>> :
                t \in {t \in Seq(Step) : WrittenIn(graph, value, seen, t)}}
  BY DEF Yield
<1>3. Leaf(graph[value].kind) = {<<Path(graph, <<>>), ExpectedIn(graph, value, seen, <<>>)>>}
  BY NoStep, NodeAssumption DEF Leaf
<1>4. ASSUME NEW key \in Key, NEW u \in Seq(Step), NEW t \in Seq(Step), t = Onto(value, key, u),
             u = <<>> \/ ~StopsAt(graph, value, key)
      PROVE  <<Path(graph, t), ExpectedIn(graph, value, seen, t)>> =
                <<<<As(key)>> \o Path(graph, u), Stands(graph, value, seen, key, u)>>
  <2> HIDE DEF own, rest, all
  <2>1. Path(graph, t) = <<As(key)>> \o Path(graph, u)
    <3>1. Path(graph, Onto(value, key, u)) = <<WrittenKey(graph, value, key)>> \o Path(graph, u)
      BY <1>1, <1>4, PathLonger
    <3>2. QED
      BY <1>4, <3>1
  <2>2. ExpectedIn(graph, value, seen, t) = Stands(graph, value, seen, key, u)
    BY <1>1, <1>4, ExpectedBelow
  <2>3. QED
    BY <2>1, <2>2
<1>5. ASSUME NEW leaf \in all PROVE leaf \in Leaf(graph[value].kind) \cup rest
  <2>1. PICK t \in Seq(Step) : /\ WrittenIn(graph, value, seen, t)
                               /\ leaf = <<Path(graph, t), ExpectedIn(graph, value, seen, t)>>
    BY <1>2, <1>5
  <2>2. CASE t = <<>>
    BY <1>3, <2>1, <2>2
  <2>3. CASE t # <<>>
    <3>1. Follows(graph, value, t)
      BY <2>1 DEF WrittenIn, Written
    <3> DEFINE key == t[1][2]
               u == Tail(t)
    <3>2. key \in Key /\ u \in Seq(Step) /\ t = Onto(value, key, u)
      BY <2>3, <3>1, FirstStep
    <3> HIDE DEF key, u
    <3>3. /\ key \in DOMAIN own /\ (u = <<>> \/ key \notin SensitiveKey)
          /\ WrittenIn(graph, own[key], seen \cup {value}, u)
      BY <1>1, <2>1, <3>2, WrittenLonger
    <3>4. u = <<>> \/ ~StopsAt(graph, value, key)
      <4>1. ASSUME u # <<>>, IsErrorName(graph, value, key) PROVE FALSE
        <5>1. own[key] \in Text
          BY <1>1, <4>1, NamesAreTexts
        <5>2. Follows(graph, own[key], u)
          BY <3>3 DEF WrittenIn, Written
        <5>3. own[key] \in Node
          BY <3>2, <4>1, <5>2, FirstStep
        <5>4. QED
          BY <5>1, <5>3, NodeAssumption
      <4>2. QED
        BY <3>3, <4>1 DEF StopsAt
    <3> DEFINE below == <<Path(graph, u), Stands(graph, value, seen, key, u)>>
    <3>5. below \in Below(graph, value, seen, key)
      BY <3>2, <3>3, <3>4, BelowIs DEF Property, Goes
    <3>6. leaf = << <<As(key)>> \o below[1], below[2] >>
      BY <1>4, <2>1, <3>2, <3>4
    <3> HIDE DEF below
    <3>7. leaf \in Under(As(key), Below(graph, value, seen, key))
      BY <3>5, <3>6 DEF Under
    <3>8. QED
      BY <3>3, <3>7
  <2>4. QED
    BY <2>2, <2>3
<1>6. ASSUME NEW leaf \in rest PROVE leaf \in all
  <2>1. PICK key \in DOMAIN own : leaf \in Under(As(key), Below(graph, value, seen, key))
    BY <1>6
  <2>2. PICK below \in Below(graph, value, seen, key) : leaf = << <<As(key)>> \o below[1], below[2] >>
    BY <2>1 DEF Under
  <2>3. PICK u \in Seq(Step) :
           /\ u = <<>> \/ ~StopsAt(graph, value, key)
           /\ WrittenIn(graph, Property(graph, value, key), seen \cup {value}, u)
           /\ below = <<Path(graph, u), Stands(graph, value, seen, key, u)>>
    <3>1. below \in Below(graph, value, seen, key)
      BY <2>2
    <3>2. PICK u \in Goes(graph, value, seen, key) :
             below = <<Path(graph, u), Stands(graph, value, seen, key, u)>>
      BY <3>1, BelowIs
    <3>3. QED
      BY <3>2 DEF Goes
  <2> DEFINE t == Onto(value, key, u)
  <2>4. key \in Key
    BY <1>1
  <2>5. t \in Seq(Step) /\ t = Onto(value, key, u)
    BY <2>4, Longer
  <2> HIDE DEF t
  <2>6. WrittenIn(graph, value, seen, t)
    BY <1>1, <2>3, <2>4, <2>5, WrittenLonger DEF StopsAt, Property
  <2>7. <<Path(graph, t), ExpectedIn(graph, value, seen, t)>> = leaf
    <3>1. below[1] = Path(graph, u) /\ below[2] = Stands(graph, value, seen, key, u)
      BY <2>3
    <3>2. QED
      BY <1>4, <2>2, <2>3, <2>4, <2>5, <3>1
  <2>8. QED
    BY <1>2, <2>5, <2>6, <2>7
<1>7. Leaf(graph[value].kind) \subseteq all
  <2>1. <<>> \in Seq(Step) /\ WrittenIn(graph, value, seen, <<>>)
    BY NoStep
  <2> HIDE DEF all
  <2>2. QED
    BY <1>2, <1>3, <2>1
<1> HIDE DEF rest, all
<1>8. all = Leaf(graph[value].kind) \cup rest
  BY <1>5, <1>6, <1>7
<1>9. QED
  BY <1>8 DEF rest, all

-----------------------------------------------------------------------------
(* The walk                                                                 *)

\* SetToSeq lists every element.
LEMMA SetToSeqLists ==
    ASSUME NEW S, IsFiniteSet(S)
    PROVE  /\ Cardinality(S) \in Nat /\ Len(SetToSeq(S)) = Cardinality(S)
           /\ SetToSeq(S) \in [1..Cardinality(S) -> S]
           /\ \A x \in S : \E i \in 1..Cardinality(S) : SetToSeq(S)[i] = x
<1> DEFINE n == Cardinality(S)
           keys == SetToSeq(S)
<1>1. n \in Nat /\ \E f \in [1..n -> S] : IsInjective(f)
  BY FS_CardinalityType DEF ExistsBijection, Bijection, Injection
<1>2. keys \in [1..n -> S] /\ IsInjective(keys)
  BY <1>1 DEF SetToSeq
<1>3. keys \in Injection(1..n, S)
  BY <1>2 DEF Injection
<1> HIDE DEF n, keys
<1>4. IsFiniteSet(1..n) /\ Cardinality(1..n) = n
  BY <1>1, FS_Interval
<1>5. keys \in Surjection(1..n, S)
  BY <1>3, <1>4, FS_Injection DEF n
<1>6. Len(keys) = n
  BY <1>1, <1>2
<1>7. \A x \in S : \E i \in 1..n : keys[i] = x
  BY <1>5 DEF Surjection
<1>8. QED
  BY <1>1, <1>2, <1>6, <1>7 DEF n, keys

LEMMA UnionOfOneMore ==
    ASSUME NEW f, NEW S, NEW x
    PROVE  UNION {f[j] : j \in S \cup {x}} = (UNION {f[j] : j \in S}) \cup f[x]
<1> DEFINE some == {f[j] : j \in S}
           more == {f[j] : j \in S \cup {x}}
<1>1. \A y : y \in more <=> y \in some \/ y = f[x]
  <2>1. \A y : y \in some <=> \E j \in S : y = f[j]
    BY Zenon
  <2>2. \A y : y \in more <=> \E j \in S \cup {x} : y = f[j]
    BY Zenon
  <2> HIDE DEF some, more
  <2>3. QED
    BY <2>1, <2>2, Zenon
<1> HIDE DEF some, more
<1>2. \A z : z \in UNION more <=> z \in UNION some \/ z \in f[x]
  <2>1. \A z : z \in UNION more <=> \E y \in more : z \in y
    OBVIOUS
  <2>2. \A z : z \in UNION some <=> \E y \in some : z \in y
    OBVIOUS
  <2>3. QED
    BY <1>1, <2>1, <2>2, Zenon
<1>3. UNION more = (UNION some) \cup f[x]
  BY <1>2
<1>4. QED
  BY <1>3 DEF some, more

\* The own properties of an object, if the walk below each of them leaves
\* `seen` as it was.
LEMMA PropertiesAre ==
    ASSUME NEW redact, NEW graph \in Graph, NEW node \in Node, NEW seen,
           \A key \in DOMAIN graph[node].own :
              RedactProperty(redact, graph, node, key, seen).seen = seen
    PROVE  RedactProperties(redact, graph, node, seen) =
              [leaves |-> Leaf(graph[node].kind)
                             \cup UNION {Under(WrittenKey(graph, node, key),
                                                  RedactProperty(redact, graph, node, key, seen).leaves) :
                                            key \in DOMAIN graph[node].own},
               seen   |-> seen]
<1> DEFINE D == DOMAIN graph[node].own
           n == Cardinality(D)
           keys == SetToSeq(D)
           As(key) == WrittenKey(graph, node, key)
           base == [leaves |-> Leaf(graph[node].kind), seen |-> seen]
           After(done, key) ==
              [leaves |-> done.leaves
                             \cup Under(As(key), RedactProperty(redact, graph, node, key, done.seen).leaves),
               seen   |-> RedactProperty(redact, graph, node, key, done.seen).seen]
           Walk(w) == [i \in 0..n |-> IF i = 0 THEN base ELSE After(w[i - 1], keys[i])]
           new == [i \in 1..n |-> Under(As(keys[i]), RedactProperty(redact, graph, node, keys[i], seen).leaves)]
           Listed(i) == [leaves |-> Leaf(graph[node].kind) \cup UNION {new[j] : j \in 1..i},
                         seen   |-> seen]
           listed == [i \in 0..n |-> Listed(i)]
<1>1. D \subseteq Key /\ IsFiniteSet(D)
  BY GraphsAreTyped, KeyAssumption, FS_Subset
<1>2. /\ n \in Nat /\ Len(keys) = n /\ keys \in [1..n -> D]
      /\ \A key \in D : \E i \in 1..n : keys[i] = key
  <2> HIDE DEF D
  <2>1. QED
    BY <1>1, SetToSeqLists
<1>3. RedactProperties(redact, graph, node, seen) = (CHOOSE w : w = Walk(w))[n]
  BY <1>2 DEF RedactProperties
<1> HIDE DEF n, keys
<1>4. ASSUME NEW i \in 1..n PROVE After(Listed(i - 1), keys[i]) = Listed(i)
  <2>1. 1..i = 1..(i - 1) \cup {i}
    BY <1>2
  <2>2. UNION {new[j] : j \in 1..i} = (UNION {new[j] : j \in 1..(i - 1)}) \cup new[i]
    <3> DEFINE some == 1..(i - 1)
    <3> HIDE DEF new, some
    <3>1. UNION {new[j] : j \in some \cup {i}} = (UNION {new[j] : j \in some}) \cup new[i]
      BY UnionOfOneMore
    <3>2. QED
      BY <2>1, <3>1 DEF some
  <2>3. RedactProperty(redact, graph, node, keys[i], seen).seen = seen
    BY <1>2
  <2>4. /\ Listed(i - 1).seen = seen
        /\ Listed(i - 1).leaves = Leaf(graph[node].kind) \cup UNION {new[j] : j \in 1..(i - 1)}
    OBVIOUS
  <2> DEFINE sofar == Listed(i - 1)
  <2>5. After(sofar, keys[i]) =
           [leaves |-> sofar.leaves \cup new[i],
            seen   |-> RedactProperty(redact, graph, node, keys[i], seen).seen]
    BY <2>4
  <2> HIDE DEF sofar, new, After
  <2>6. sofar.leaves \cup new[i] = Leaf(graph[node].kind) \cup UNION {new[j] : j \in 1..i}
    BY <2>2, <2>4 DEF sofar
  <2>7. QED
    BY <2>3, <2>5, <2>6 DEF sofar
<1>5. Listed(0) = base
  <2>1. 1..0 = {}
    OBVIOUS
  <2>2. QED
    BY <2>1
<1> HIDE DEF Listed, After, base
<1>6. listed = Walk(listed)
  <2>1. ASSUME NEW i \in 0..n PROVE listed[i] = IF i = 0 THEN base ELSE After(listed[i - 1], keys[i])
    <3>1. CASE i = 0
      BY <1>2, <1>5, <3>1
    <3>2. CASE i # 0
      <4>1. i \in 1..n /\ i - 1 \in 0..n
        BY <1>2, <3>2
      <4>2. QED
        BY <1>4, <3>2, <4>1
    <3>3. QED
      BY <3>1, <3>2
  <2>2. QED
    BY <2>1
<1> DEFINE walk == CHOOSE w : w = Walk(w)
<1>7. walk = Walk(walk)
  <2> HIDE DEF Walk, listed
  <2>1. \E w : w = Walk(w)
    BY <1>6
  <2>2. QED
    BY <2>1
<1> HIDE DEF walk
<1>8. \A i \in 0..n : walk[i] = IF i = 0 THEN base ELSE After(walk[i - 1], keys[i])
  BY <1>7
<1> HIDE DEF listed, Walk
<1> DEFINE wrong == {i \in 0..n : walk[i] # Listed(i)}
<1>9. wrong = {}
  <2>1. SUFFICES ASSUME wrong # {} PROVE FALSE
    OBVIOUS
  <2>2. PICK i \in wrong : \A j \in wrong : i <= j
    <3>1. wrong \in SUBSET Nat
      BY <1>2
    <3> HIDE DEF wrong
    <3>2. QED
      BY <2>1, <3>1, LeastOf
  <2>3. i # 0
    BY <1>5, <1>8
  <2>4. i \in 1..n /\ i - 1 \in 0..n /\ i - 1 \notin wrong
    BY <1>2, <2>2, <2>3
  <2>5. walk[i - 1] = Listed(i - 1)
    BY <2>4
  <2>6. walk[i] = Listed(i)
    BY <1>4, <1>8, <2>3, <2>4, <2>5
  <2>7. QED
    BY <2>6
<1>10. walk[n] = Listed(n)
  <2>1. n \in 0..n
    BY <1>2
  <2>2. QED
    BY <1>9, <2>1
<1>11. UNION {new[j] : j \in 1..n} =
          UNION {Under(As(key), RedactProperty(redact, graph, node, key, seen).leaves) : key \in D}
  BY <1>2
<1>12. QED
  BY <1>3, <1>10, <1>11 DEF walk, Listed

\* The walk of an object, if inside it the walk yields what it has to.
LEMMA ObjectIs ==
    ASSUME NEW redact, NEW graph \in Graph, NEW seen \in SUBSET Node, NEW node \in Node \ seen,
           \A value \in Text \cup Node :
              redact[seen \cup {node}][value] = Yield(graph, value, seen \cup {node})
    PROVE  RedactObject(redact, graph, node, seen) = Yield(graph, node, seen)
<1> DEFINE inside == seen \cup {node}
           own == graph[node].own
           As(key) == WrittenKey(graph, node, key)
           P(key) == RedactProperty(redact, graph, node, key, inside)
<1>1. ASSUME NEW key \in DOMAIN own
      PROVE  P(key).seen = inside /\ P(key).leaves = Below(graph, node, seen, key)
  <2>1. own[key] \in Text \cup Node
    BY GraphsAreTyped
  <2>2. redact[inside][own[key]] = Yield(graph, own[key], inside)
    BY <2>1
  <2>3. CASE key \in SensitiveKey
    BY <2>3 DEF RedactProperty, Below
  <2>4. CASE key \notin SensitiveKey /\ IsErrorName(graph, node, key)
    BY <2>4 DEF RedactProperty, Below, Property
  <2>5. CASE key \notin SensitiveKey /\ ~IsErrorName(graph, node, key)
    <3>1. P(key) = Yield(graph, own[key], inside)
      BY <2>2, <2>5 DEF RedactProperty
    <3>2. Below(graph, node, seen, key) = Yield(graph, own[key], inside).leaves
      BY <2>5 DEF Below, Property
    <3>3. Yield(graph, own[key], inside).seen = inside
      BY DEF Yield
    <3> HIDE DEF P, inside, own
    <3>4. QED
      BY <3>1, <3>2, <3>3
  <2>6. QED
    BY <2>3, <2>4, <2>5
<1>2. RedactProperties(redact, graph, node, inside) =
         [leaves |-> Leaf(graph[node].kind) \cup UNION {Under(As(key), P(key).leaves) : key \in DOMAIN own},
          seen   |-> inside]
  <2>1. \A key \in DOMAIN graph[node].own : RedactProperty(redact, graph, node, key, inside).seen = inside
    BY <1>1
  <2> HIDE DEF inside
  <2>2. QED
    BY <2>1, PropertiesAre
<1>3. {Under(As(key), P(key).leaves) : key \in DOMAIN own} =
         {Under(As(key), Below(graph, node, seen, key)) : key \in DOMAIN own}
  BY <1>1
<1>4. Yield(graph, node, seen).leaves =
         Leaf(graph[node].kind) \cup UNION {Under(As(key), P(key).leaves) : key \in DOMAIN own}
  BY <1>3, YieldOfObject
<1>5. inside \ {node} = seen
  OBVIOUS
<1>6. RedactObject(redact, graph, node, seen) = [leaves |-> Yield(graph, node, seen).leaves, seen |-> seen]
  <2> DEFINE walked == RedactProperties(redact, graph, node, inside)
  <2>1. walked.leaves = Yield(graph, node, seen).leaves /\ walked.seen = inside
    <3> HIDE DEF P, inside
    <3>1. QED
      BY <1>2, <1>4
  <2>2. RedactObject(redact, graph, node, seen) = [leaves |-> walked.leaves, seen |-> walked.seen \ {node}]
    BY DEF RedactObject
  <2> HIDE DEF walked, inside
  <2>3. QED
    BY <1>5, <2>1, <2>2
<1>7. QED
  BY <1>6 DEF Yield

\* redactValue yields what it has to, of every value and inside all objects.
LEMMA RedactValueIs ==
    ASSUME NEW graph \in Graph
    PROVE  \A seen \in SUBSET Node : \A value \in Text \cup Node :
              RedactValue(graph)[seen][value] = Yield(graph, value, seen)
<1> DEFINE One(redact, seen, value) ==
              IF value \in Text THEN [leaves |-> Leaf(RedactSensitiveText(value)), seen |-> seen]
              ELSE IF value \in seen THEN [leaves |-> Leaf("[Circular]"), seen |-> seen]
              ELSE RedactObject(redact, graph, value, seen)
           All(redact) == [seen \in SUBSET Node |-> [value \in Text \cup Node |-> One(redact, seen, value)]]
           yields == [seen \in SUBSET Node |-> [value \in Text \cup Node |-> Yield(graph, value, seen)]]
<1>1. ASSUME NEW redact, NEW seen \in SUBSET Node, NEW value \in Text \cup Node,
             value \in Node \ seen => \A v \in Text \cup Node :
                redact[seen \cup {value}][v] = Yield(graph, v, seen \cup {value})
      PROVE  One(redact, seen, value) = Yield(graph, value, seen)
  <2>1. CASE value \in Text \cup seen
    <3>1. Yield(graph, value, seen) = [leaves |-> Yield(graph, value, seen).leaves, seen |-> seen]
      BY DEF Yield
    <3>2. QED
      BY <2>1, <3>1, YieldOfLeaf
  <2>2. CASE value \notin Text \cup seen
    <3>1. value \in Node \ seen
      BY <2>2
    <3>2. RedactObject(redact, graph, value, seen) = Yield(graph, value, seen)
      BY <1>1, <3>1, ObjectIs
    <3>3. QED
      BY <2>2, <3>2
  <2>3. QED
    BY <2>1, <2>2
<1> HIDE DEF One
<1>2. yields = All(yields)
  <2>1. ASSUME NEW seen \in SUBSET Node, NEW value \in Text \cup Node
        PROVE  Yield(graph, value, seen) = One(yields, seen, value)
    <3>1. value \in Node \ seen => seen \cup {value} \in SUBSET Node
      OBVIOUS
    <3>2. value \in Node \ seen => \A v \in Text \cup Node :
             yields[seen \cup {value}][v] = Yield(graph, v, seen \cup {value})
      BY <3>1
    <3> HIDE DEF yields
    <3>3. QED
      BY <1>1, <3>2
  <2>2. QED
    BY <2>1
<1> DEFINE redact == RedactValue(graph)
<1>3. redact = All(redact)
  <2>1. \E f : f = All(f)
    BY <1>2
  <2>2. redact = CHOOSE f : f = All(f)
    BY DEF RedactValue, One
  <2> HIDE DEF redact, All
  <2>3. QED
    BY <2>1, <2>2
<1> HIDE DEF redact
<1>4. \A seen \in SUBSET Node : \A value \in Text \cup Node : redact[seen][value] = One(redact, seen, value)
  BY <1>3
<1> HIDE DEF yields, All
<1> DEFINE Wrong(seen) == \E value \in Text \cup Node : redact[seen][value] # Yield(graph, value, seen)
           sizes == {n \in Nat : \E seen \in SUBSET Node : Wrong(seen) /\ n = Cardinality(Node \ seen)}
<1>5. ASSUME NEW seen \in SUBSET Node, Wrong(seen)
      PROVE  \E value \in Node \ seen : Wrong(seen \cup {value})
  <2>1. PICK value \in Text \cup Node : redact[seen][value] # Yield(graph, value, seen)
    BY <1>5
  <2>2. One(redact, seen, value) # Yield(graph, value, seen)
    BY <1>4, <2>1
  <2>3. value \in Node \ seen /\ Wrong(seen \cup {value})
    BY <1>1, <2>2
  <2>4. QED
    BY <2>3
<1> HIDE DEF Wrong
<1>6. ASSUME NEW seen \in SUBSET Node, NEW value \in Node \ seen
      PROVE  /\ Cardinality(Node \ seen) \in Nat
             /\ Cardinality(Node \ (seen \cup {value})) = Cardinality(Node \ seen) - 1
  <2> DEFINE outside == Node \ seen
  <2>1. IsFiniteSet(outside)
    BY NodeAssumption, FS_Subset
  <2>2. outside \ {value} = Node \ (seen \cup {value}) /\ value \in outside
    OBVIOUS
  <2> HIDE DEF outside
  <2>3. Cardinality(outside) \in Nat /\ Cardinality(outside \ {value}) = Cardinality(outside) - 1
    BY <2>1, <2>2, FS_CardinalityType, FS_RemoveElement
  <2>4. QED
    BY <2>2, <2>3 DEF outside
<1>7. sizes = {}
  <2>1. SUFFICES ASSUME sizes # {} PROVE FALSE
    OBVIOUS
  <2>2. PICK n \in sizes : \A m \in sizes : n <= m
    <3>1. sizes \in SUBSET Nat
      OBVIOUS
    <3> HIDE DEF sizes
    <3>2. QED
      BY <2>1, <3>1, LeastOf
  <2>3. PICK seen \in SUBSET Node : Wrong(seen) /\ n = Cardinality(Node \ seen)
    BY <2>2
  <2>4. PICK value \in Node \ seen : Wrong(seen \cup {value})
    BY <1>5, <2>3
  <2>5. n \in Nat /\ Cardinality(Node \ (seen \cup {value})) = n - 1 /\ seen \cup {value} \in SUBSET Node
    BY <1>6, <2>3
  <2>6. Cardinality(Node \ (seen \cup {value})) \in Nat
    <3>1. IsFiniteSet(Node \ (seen \cup {value}))
      BY NodeAssumption, FS_Subset
    <3>2. QED
      BY <3>1, FS_CardinalityType
  <2>7. n - 1 \in sizes
    BY <2>4, <2>5, <2>6
  <2>8. QED
    BY <2>2, <2>5, <2>7
<1>8. ASSUME NEW seen \in SUBSET Node PROVE ~Wrong(seen)
  <2>1. Cardinality(Node \ seen) \in Nat
    <3>1. IsFiniteSet(Node \ seen)
      BY NodeAssumption, FS_Subset
    <3>2. QED
      BY <3>1, FS_CardinalityType
  <2>2. QED
    BY <1>7, <2>1
<1>9. QED
  BY <1>8 DEF Wrong, redact

\* A trail that is written meets no object twice, so none is longer than the
\* graph has objects.
LEMMA WrittenIsTrail ==
    ASSUME NEW graph, NEW value
    PROVE  {t \in Trails(graph) : Written(graph, value, t)} = {t \in Seq(Step) : Written(graph, value, t)}
<1> DEFINE most == Cardinality(Node)
<1>1. most \in Nat
  BY NodeAssumption, FS_CardinalityType
<1>2. ASSUME NEW t \in Trails(graph) PROVE t \in Seq(Step)
  <2>1. PICK n \in 0..most : t \in [1..n -> Steps(graph)]
    BY DEF Trails
  <2>2. t \in [1..n -> Step]
    BY <2>1 DEF Step, Steps
  <2>3. QED
    BY <1>1, <2>2
<1>3. ASSUME NEW t \in Seq(Step), Written(graph, value, t) PROVE t \in Trails(graph)
  <2> DEFINE n == Len(t)
             met == [i \in 1..n |-> t[i][1]]
  <2>1. n \in Nat /\ DOMAIN t = 1..n /\ t \in [1..n -> Step] /\ \A i \in 1..n : t[i] \in Step
    BY LenProperties
  <2>2. \A i \in 1..n : t[i][1] \in Node
    BY <2>1 DEF Step
  <2>3. \A i, j \in 1..n : t[i][1] = t[j][1] => i = j
    BY <1>3, <2>1 DEF Written
  <2> HIDE DEF n
  <2>4. met \in Injection(1..n, Node)
    BY <2>2, <2>3 DEF Injection, IsInjective
  <2>5. Cardinality(1..n) <= most
    <3> HIDE DEF met
    <3>1. QED
      BY <2>4, NodeAssumption, FS_Injection
  <2>6. Cardinality(1..n) = n
    BY <2>1, FS_Interval
  <2>7. n \in 0..most
    BY <1>1, <2>1, <2>5, <2>6
  <2>8. t \in [1..n -> Steps(graph)]
    BY <1>3, <2>1 DEF Written, Follows
  <2>9. QED
    BY <2>7, <2>8 DEF Trails
<1>4. QED
  BY <1>2, <1>3

\* redactSensitiveValues yields what stands at the end of every trail that is
\* to be written, and nothing else: of every graph over any finite set of
\* objects and of keys, with shared objects and cycles.
THEOREM RedactionIsReference ==
    \A graph \in Graph : \A value \in Text \cup Node :
       RedactSensitiveValues(graph, value) = Reference(graph, value)
<1> SUFFICES ASSUME NEW graph \in Graph, NEW value \in Text \cup Node
             PROVE  RedactSensitiveValues(graph, value) = Reference(graph, value)
  OBVIOUS
<1>1. RedactSensitiveValues(graph, value) = Yield(graph, value, {}).leaves
  <2>1. RedactValue(graph)[{}][value] = Yield(graph, value, {})
    BY RedactValueIs
  <2>2. QED
    BY <2>1 DEF RedactSensitiveValues
<1>2. \A t : /\ WrittenIn(graph, value, {}, t) <=> Written(graph, value, t)
             /\ ExpectedIn(graph, value, {}, t) = Expected(graph, value, t)
  BY DEF WrittenIn, ExpectedIn
<1>3. Yield(graph, value, {}).leaves =
         {<<Path(graph, t), Expected(graph, value, t)>> : t \in {t \in Seq(Step) : Written(graph, value, t)}}
  BY <1>2 DEF Yield
<1>4. QED
  BY <1>1, <1>3, WrittenIsTrail DEF Reference

\* No credential but as the `type` of an error, and nothing below a sensitive
\* key but the censor.
Safe(leaves) ==
    \A leaf \in leaves :
       /\ leaf[2] = "credential" => leaf[1] # <<>> /\ Last(leaf[1]) = "type"
       /\ \A i \in 1..Len(leaf[1]) : leaf[1][i] \in SensitiveKey =>
             i = Len(leaf[1]) /\ leaf[2] = Censor

LEMMA RedactionIsSafe ==
    ASSUME NEW graph \in Graph, NEW value \in Text \cup Node
    PROVE  Safe(RedactSensitiveValues(graph, value))
<1>1. SUFFICES ASSUME NEW t \in Seq(Step), Written(graph, value, t)
               PROVE  /\ Expected(graph, value, t) = "credential" =>
                            Path(graph, t) # <<>> /\ Last(Path(graph, t)) = "type"
                      /\ \A i \in 1..Len(Path(graph, t)) : Path(graph, t)[i] \in SensitiveKey =>
                            i = Len(Path(graph, t)) /\ Expected(graph, value, t) = Censor
  <2>1. RedactSensitiveValues(graph, value) =
           {<<Path(graph, t), Expected(graph, value, t)>> : t \in {t \in Seq(Step) : Written(graph, value, t)}}
    BY RedactionIsReference, WrittenIsTrail DEF Reference
  <2>2. QED
    BY <2>1 DEF Safe
<1> DEFINE n == Len(t)
           end == End(graph, value, t)
           path == Path(graph, t)
           K(i) == WrittenKey(graph, t[i][1], t[i][2])
<1>2. n \in Nat /\ DOMAIN t = 1..n /\ (\A i \in 1..n : t[i] \in Step) /\ (t = <<>> <=> n = 0)
  BY LenProperties, EmptySeq
<1>3. end \in Text \cup Node
  <2>1. CASE t = <<>>
    BY <2>1 DEF End
  <2>2. CASE t # <<>>
    <3>1. n \in 1..n /\ Last(t) = t[n] /\ t[n][1] \in Node
      BY <1>2, <2>2 DEF Last, Step
    <3>2. t[n][2] \in DOMAIN graph[t[n][1]].own
      BY <1>1, <1>2, <3>1 DEF Written, Follows, Steps
    <3>3. graph[t[n][1]].own[t[n][2]] \in Text \cup Node
      BY <3>1, <3>2, GraphsAreTyped
    <3>4. QED
      BY <2>2, <3>1, <3>3 DEF End
  <2>3. QED
    BY <2>1, <2>2
<1>4. path = [i \in 1..n |-> K(i)] /\ Len(path) = n /\ \A i \in 1..n : path[i] = K(i)
  BY <1>2 DEF Path
<1>5. ASSUME Expected(graph, value, t) = "credential"
      PROVE  path # <<>> /\ Last(path) = "type"
  <2>1. end \in Node => graph[end].kind \in {"object", "error"}
    BY GraphsAreTyped DEF Kind
  <2>2. t # <<>> /\ IsErrorName(graph, Last(t)[1], Last(t)[2])
    <3> HIDE DEF end
    <3>1. QED
      BY <1>3, <1>5, <2>1 DEF Expected, RedactSensitiveText, Censor, Text, end
  <2>3. n \in 1..n /\ Last(t) = t[n]
    BY <1>2, <2>2 DEF Last
  <2>4. K(n) = "type"
    BY <2>2, <2>3 DEF WrittenKey
  <2>5. path[n] = "type" /\ path # <<>>
    <3> HIDE DEF K, path, n
    <3>1. path[n] = "type" /\ Len(path) # 0
      BY <1>2, <1>4, <2>3, <2>4
    <3>2. QED
      BY <3>1
  <2>6. Last(path) = path[n]
    BY <1>4 DEF Last
  <2>7. QED
    BY <2>5, <2>6
<1>6. ASSUME NEW i \in 1..n, K(i) \in SensitiveKey
      PROVE  i = n /\ Expected(graph, value, t) = Censor
  <2>1. \A j \in 1..(n - 1) : t[j][2] \notin SensitiveKey
    BY <1>1 DEF Written
  <2>2. t[i][2] \in SensitiveKey
    <3>1. "type" \notin SensitiveKey
      BY KeyAssumption
    <3>2. QED
      BY <1>6, <3>1 DEF WrittenKey
  <2>3. i = n
    <3>1. i \notin 1..(n - 1) /\ n \in Nat
      BY <1>2, <2>1, <2>2
    <3> HIDE DEF n
    <3>2. QED
      BY <3>1
  <2>4. t # <<>> /\ Last(t)[2] \in SensitiveKey
    BY <1>2, <2>2, <2>3 DEF Last
  <2>5. QED
    BY <2>3, <2>4 DEF Expected
<1>7. QED
  BY <1>4, <1>5, <1>6

-----------------------------------------------------------------------------
(* What the log says about the requests                                     *)

Ids == {None} \cup {NewRequestId(r) : r \in HttpRequest}
CorrelationIds == {None} \cup CorrelationId \cup {NewCorrelationId(r) : r \in HttpRequest}
Statuses == {200, 404, 409, 418, 500, 503}
Phases == {"none", "handling", "logged", "thrown", "answered", "queued", "finished", "lost"}
Codes == {None, "its own", "by status", "BAD_REQUEST", "INTERNAL_SERVER_ERROR"}
Redacted == {{}} \cup {RedactSensitiveValues(graph, Details) : graph \in Thrown}

Contexts == [requestId : Ids, correlationId : CorrelationIds]
Threw == {[error |-> thrown, graph |-> graph] : thrown \in Exception, graph \in Thrown \cup {None}}
Responses == [requestId : Ids, correlationId : CorrelationIds, status : {None} \cup Statuses,
              code : Codes, message : {None, FixedText}, bodyId : Ids, details : Redacted]

\* What a record of the log may be: its leaves are those of its graph.
Redacts(record) ==
    /\ record.graph = None \/ record.graph \in Graph
    /\ record.leaves = IF record.graph = None THEN {} ELSE RedactSensitiveValues(record.graph, Root)

RequestTypes ==
    /\ level \in LogLevel
    /\ phase \in [HttpRequest -> Phases]
    /\ before \in [HttpRequest -> HttpRequest \cup {None}]
    /\ store \in [HttpRequest -> Contexts]
    /\ finishStore \in [HttpRequest -> Contexts]
    /\ exception \in [HttpRequest -> {None} \cup Threw]
    /\ response \in [HttpRequest -> Responses]
    /\ \A record \in DOMAIN records : Redacts(record)

\* A request and what its store, its exception and its response hold of it.
Known(r) ==
    /\ ~serving => phase[r] = "none"
    /\ phase[r] = "none" => before[r] = None
    /\ phase[r] = "queued" => before[r] # None
    /\ phase[r] # "none" => /\ store[r].requestId = NewRequestId(r)
                            /\ response[r].requestId = NewRequestId(r)
                            /\ response[r].correlationId = store[r].correlationId
    /\ phase[r] \in {"none", "handling", "logged"} => exception[r] = None
    /\ phase[r] = "thrown" => /\ exception[r] \in Threw
                              /\ MayBe(exception[r].error, exception[r].graph)
    /\ Answered(r) =>
          response[r].bodyId \in IF exception[r] # None THEN {NewRequestId(r)} ELSE {NewRequestId(r), None}

Tells(r, record) ==
    /\ records[record] = 1
    /\ record.status = response[r].status
    /\ record.correlationId = response[r].correlationId

Errors(r) == About(NewRequestId(r), ErrorEvents)
Completions(r) == About(NewRequestId(r), {"http.request.completed"})

\* The log holds the one record of its error, from when it is answered, at
\* the levels at which that is written, ...
ErrorTold(r) ==
    IF Answered(r) /\ exception[r] # None /\ (Unexpected(r) \/ level # "error")
    THEN \E record : /\ Errors(r) = {record} /\ Tells(r, record)
                     /\ record.event = "api.error.unhandled" <=> Unexpected(r)
    ELSE Errors(r) = {}

\* ... and, if nothing else was on its connection, the one record of its
\* completion, once it is finished.
CompletionTold(r) ==
    /\ phase[r] = "none" => Completions(r) = {}
    /\ Alone(r) =>
          IF phase[r] = "finished" /\ level \in {"debug", "info"}
          THEN \E record : Completions(r) = {record} /\ Tells(r, record)
          ELSE Completions(r) = {}

\* The listeners of a finished request ran in its own store, or in that of a
\* request that was not alone on its connection.
FinishedIn(r) ==
    phase[r] = "finished" =>
        \E s \in HttpRequest : /\ phase[s] # "none" /\ (s = r \/ ~Alone(s))
                               /\ finishStore[r].requestId = NewRequestId(s)

Accounted(r) == Known(r) /\ ErrorTold(r) /\ CompletionTold(r)

RequestInv == RequestTypes /\ \A r \in HttpRequest : Accounted(r) /\ FinishedIn(r)

-----------------------------------------------------------------------------

\* One record is added to the log.
Added(record) == records' = records (+) SetToBag({record})

Ending == ErrorEvents \cup {"http.request.completed"}

LEMMA AddedIs ==
    ASSUME NEW record, Added(record)
    PROVE  /\ DOMAIN records' = DOMAIN records \cup {record}
           /\ \A other \in DOMAIN records : other # record /\ records[other] = 1 => records'[other] = 1
           /\ record \notin DOMAIN records => records'[record] = 1
BY DEF Added, SetToBag, (+)

\* Whether it is depends on LOG_LEVEL.
LEMMA WriteIs ==
    ASSUME level \in LogLevel, NEW severity, NEW record, Write(severity, record)
    PROVE  /\ Added(record) \/ records' = records
           /\ severity = "error" => Added(record)
           /\ severity = "warn" => IF level # "error" THEN Added(record) ELSE records' = records
           /\ severity = "info" => IF level \in {"debug", "info"} THEN Added(record) ELSE records' = records
<1>1. records' = IF severity \in Logged(level) THEN records (+) SetToBag({record}) ELSE records
  BY DEF Write
<1>2. /\ "error" \in Logged(level)
      /\ "warn" \in Logged(level) <=> level # "error"
      /\ "info" \in Logged(level) <=> level \in {"debug", "info"}
  BY DEF LogLevel, Logged
<1>3. QED
  BY <1>1, <1>2 DEF Added

LEMMA RequestsApart ==
    ASSUME NEW r \in HttpRequest, NEW q \in HttpRequest, NewRequestId(r) = NewRequestId(q)
    PROVE  r = q
BY DEF NewRequestId

\* A record that is not about a request's end changes nothing about that.
LEMMA AddedOther ==
    ASSUME NEW r, NEW record, Added(record),
           ~(record.requestId = NewRequestId(r) /\ record.event \in Ending)
    PROVE  /\ Errors(r)' = Errors(r) /\ Completions(r)' = Completions(r)
           /\ \A other \in Errors(r) \cup Completions(r) : records[other] = 1 => records'[other] = 1
<1>1. DOMAIN records' = DOMAIN records \cup {record}
  BY AddedIs
<1>2. Errors(r)' = Errors(r) /\ Completions(r)' = Completions(r)
  BY <1>1 DEF Errors, Completions, About, BagToSet, NewRequestId, Ending
<1>3. \A other \in Errors(r) \cup Completions(r) : other \in DOMAIN records /\ other # record
  BY DEF Errors, Completions, About, BagToSet, Ending
<1>4. QED
  BY <1>2, <1>3, AddedIs

LEMMA NothingAdded ==
    ASSUME NEW r, records' = records
    PROVE  /\ Errors(r)' = Errors(r) /\ Completions(r)' = Completions(r)
           /\ \A other \in Errors(r) \cup Completions(r) : records[other] = 1 => records'[other] = 1
BY DEF Errors, Completions, About, BagToSet, NewRequestId

\* What stands in the log about a request stays as it is.
Untold(r) ==
    \/ records' = records
    \/ \E record : Added(record) /\ ~(record.requestId = NewRequestId(r) /\ record.event \in Ending)

LEMMA UntoldKeeps ==
    ASSUME NEW r, Untold(r)
    PROVE  /\ Errors(r)' = Errors(r) /\ Completions(r)' = Completions(r)
           /\ \A other \in Errors(r) \cup Completions(r) : records[other] = 1 => records'[other] = 1
BY AddedOther, NothingAdded DEF Untold

\* A request that a step does not touch.
LEMMA Untouched ==
    ASSUME NEW r \in HttpRequest, Accounted(r), serving' = serving, level' = level,
           phase'[r] = phase[r], before'[r] = before[r], store'[r] = store[r],
           exception'[r] = exception[r], response'[r] = response[r], Alone(r)' => Alone(r),
           Untold(r)
    PROVE  Accounted(r)'
<1>1. /\ Errors(r)' = Errors(r) /\ Completions(r)' = Completions(r)
      /\ \A other \in Errors(r) \cup Completions(r) : records[other] = 1 => records'[other] = 1
  BY UntoldKeeps
<1>2. Known(r)'
  BY DEF Accounted, Known, Answered, NewRequestId, MayBe
<1>3. ErrorTold(r)'
  BY <1>1 DEF Accounted, ErrorTold, Tells, Answered, Unexpected
<1>4. CompletionTold(r)'
  BY <1>1 DEF Accounted, CompletionTold, Tells
<1>5. QED
  BY <1>2, <1>3, <1>4 DEF Accounted

LEMMA AloneStays ==
    ASSUME before' = before, NEW r PROVE Alone(r)' <=> Alone(r)
BY DEF Alone

\* As long as no request is finished and none comes, ...
LEMMA FinishedStays ==
    ASSUME NEW r \in HttpRequest, FinishedIn(r), phase'[r] = "finished" => phase[r] = "finished",
           finishStore'[r] = finishStore[r],
           \A s \in HttpRequest : /\ phase[s] # "none" => phase'[s] # "none"
                                  /\ Alone(s)' => Alone(s)
    PROVE  FinishedIn(r)'
BY DEF FinishedIn, NewRequestId

LEMMA RequestsStart == ApiRequestsInit => RequestInv
<1> SUFFICES ASSUME ApiRequestsInit PROVE RequestInv
  OBVIOUS
<1>1. DOMAIN records = {}
  BY DEF ApiRequestsInit, EmptyBag, SetToBag
<1>2. RequestTypes
  BY <1>1 DEF ApiRequestsInit, RequestTypes, NoContext, NoResponse, Ids, CorrelationIds, Phases,
              Redacted, Contexts, Responses, Codes
<1>3. ASSUME NEW r \in HttpRequest PROVE Accounted(r) /\ FinishedIn(r)
  BY <1>1 DEF ApiRequestsInit, Accounted, Known, ErrorTold, CompletionTold, Errors, Completions,
              About, BagToSet, Answered, NoResponse, FinishedIn
<1>4. QED
  BY <1>2, <1>3 DEF RequestInv

LEMMA RecordRedacts ==
    ASSUME NEW event, NEW status, NEW metadata, NEW context, NEW graph,
           graph = None \/ graph \in Graph
    PROVE  Redacts(Record(event, status, metadata, context, graph))
BY DEF Record, Redacts

\* Writing such a record leaves the others what they are.
LEMMA AddedRedacts ==
    ASSUME NEW record, Added(record) \/ records' = records, Redacts(record),
           \A other \in DOMAIN records : Redacts(other)
    PROVE  \A other \in DOMAIN records' : Redacts(other)
<1>1. CASE Added(record)
  <2>1. DOMAIN records' = DOMAIN records \cup {record}
    BY <1>1, AddedIs
  <2>2. QED
    BY <2>1
<1>2. CASE records' = records
  BY <1>2
<1>3. QED
  BY <1>1, <1>2

\* The ids of a request's records are those of its store.
LEMMA RecordOfRequest ==
    ASSUME NEW r \in HttpRequest, Known(r), phase[r] # "none",
           NEW event, NEW status, NEW metadata, NEW graph
    PROVE  LET record == Record(event, status, metadata, store[r], graph)
           IN  /\ record.event = event /\ record.status = status
               /\ record.requestId = NewRequestId(r)
               /\ record.correlationId = response[r].correlationId
<1>1. store[r] # NoContext
  BY IdAssumption DEF Known, NoContext
<1>2. QED
  BY <1>1 DEF Record, Known

LEMMA AnswerIdOfRequest ==
    ASSUME NEW r \in HttpRequest, Known(r), phase[r] # "none"
    PROVE  AnswerId(r) = NewRequestId(r)
BY IdAssumption DEF AnswerId, Known, NoContext

\* The response is made, and sent in its turn.
LEMMA RespondIs ==
    ASSUME NEW r \in HttpRequest, phase \in [HttpRequest -> Phases], Respond(r)
    PROVE  /\ phase' \in [HttpRequest -> Phases]
           /\ phase'[r] \in {"answered", "queued"}
           /\ phase'[r] = "queued" => before[r] # None
           /\ \A q \in HttpRequest : q # r => phase'[q] = phase[q]
           /\ \A q \in HttpRequest : phase'[q] = "finished" => phase[q] = "finished"
           /\ \A q \in HttpRequest : phase[q] # "none" => phase'[q] # "none"
BY DEF Respond, Phases

LEMMA ServeKeeps == RequestInv /\ Serve => RequestInv'
<1> SUFFICES ASSUME RequestInv, Serve PROVE RequestInv'
  OBVIOUS
<1>1. DOMAIN records' = {} /\ serving' /\ level' = level /\ UNCHANGED requestVars
  BY DEF Serve, EmptyBag, SetToBag
<1>2. RequestTypes'
  BY <1>1 DEF RequestInv, RequestTypes, requestVars
<1>3. ASSUME NEW r \in HttpRequest PROVE Accounted(r)' /\ FinishedIn(r)'
  <2>1. Known(r) /\ phase[r] = "none" /\ phase'[r] = "none"
    BY <1>1 DEF RequestInv, Accounted, Known, Serve, requestVars
  <2>2. Known(r)' /\ ~Answered(r)'
    BY <1>1, <2>1 DEF Known, Answered, requestVars, NewRequestId
  <2>3. Errors(r)' = {} /\ Completions(r)' = {}
    BY <1>1 DEF Errors, Completions, About, BagToSet
  <2>4. QED
    BY <2>1, <2>2, <2>3 DEF Accounted, ErrorTold, CompletionTold, FinishedIn
<1>4. QED
  BY <1>2, <1>3 DEF RequestInv

LEMMA NestLogKeeps == RequestInv /\ NestLog => RequestInv'
<1> SUFFICES ASSUME RequestInv, NestLog PROVE RequestInv'
  OBVIOUS
<1>1. PICK severity \in Logged("debug"), graph \in Metadata :
         Write(severity, Record("nest.framework", None, NoContext, NoContext, graph))
  BY DEF NestLog
<1> DEFINE record == Record("nest.framework", None, NoContext, NoContext, graph)
<1>2. serving' = serving /\ level' = level /\ UNCHANGED requestVars
  BY DEF NestLog
<1>3. Redacts(record) /\ record.event = "nest.framework"
  <2>1. graph \in Graph
    BY GraphAssumption
  <2>2. Redacts(record)
    BY <2>1, RecordRedacts
  <2>3. QED
    BY <2>2 DEF Record
<1> HIDE DEF record
<1>4. Added(record) \/ records' = records
  BY <1>1, WriteIs DEF RequestInv, RequestTypes, record
<1>5. RequestTypes'
  <2>1. \A other \in DOMAIN records' : Redacts(other)
    BY <1>3, <1>4, AddedRedacts DEF RequestInv, RequestTypes
  <2>2. QED
    BY <1>2, <2>1 DEF RequestInv, RequestTypes, requestVars
<1>6. ASSUME NEW r \in HttpRequest PROVE Accounted(r)' /\ FinishedIn(r)'
  <2>1. Untold(r)
    BY <1>3, <1>4 DEF Untold, Ending, ErrorEvents
  <2>2. Accounted(r) /\ FinishedIn(r)
    BY DEF RequestInv
  <2>3. before' = before
    BY <1>2 DEF requestVars
  <2>4. Accounted(r)'
    BY <1>2, <2>1, <2>2, <2>3, AloneStays, Untouched DEF requestVars
  <2>5. FinishedIn(r)'
    BY <1>2, <2>2, <2>3, AloneStays, FinishedStays DEF requestVars
  <2>6. QED
    BY <2>4, <2>5
<1>7. QED
  BY <1>5, <1>6 DEF RequestInv

LEMMA ReceiveKeeps ==
    ASSUME NEW r \in HttpRequest, NEW inbound \in CorrelationId \cup {None},
           NEW predecessor \in Predecessors \cup {None}
    PROVE  RequestInv /\ Receive(r, inbound, predecessor) => RequestInv'
<1> SUFFICES ASSUME RequestInv, Receive(r, inbound, predecessor) PROVE RequestInv'
  OBVIOUS
<1> DEFINE id == NewRequestId(r)
           correlation == ResolveCorrelationId(r, inbound)
<1>1. /\ phase[r] = "none" /\ serving /\ serving' = serving /\ level' = level
      /\ UNCHANGED <<exception, finishStore, records>>
      /\ phase' = [phase EXCEPT ![r] = "handling"]
      /\ before' = [before EXCEPT ![r] = predecessor]
      /\ store' = [store EXCEPT ![r] = [requestId |-> id, correlationId |-> correlation]]
      /\ response' = [response EXCEPT ![r] =
            [response[r] EXCEPT !.requestId = id, !.correlationId = correlation]]
  BY DEF Receive, RunWithRequestContext
<1>2. id \in Ids /\ correlation \in CorrelationIds
  BY DEF Ids, CorrelationIds, ResolveCorrelationId
<1>3. predecessor \in HttpRequest \cup {None} /\ (predecessor \in HttpRequest => phase[predecessor] # "none")
  <2>1. predecessor \in Predecessors => predecessor \in HttpRequest /\ phase[predecessor] # "none"
    BY DEF Predecessors, Underway
  <2>2. None \notin HttpRequest
    BY RootAssumption
  <2>3. QED
    BY <2>1, <2>2
<1> HIDE DEF id, correlation
<1>4. /\ phase \in [HttpRequest -> Phases] /\ store \in [HttpRequest -> Contexts]
      /\ before \in [HttpRequest -> HttpRequest \cup {None}]
      /\ response \in [HttpRequest -> Responses]
  BY DEF RequestInv, RequestTypes
<1>5. /\ phase' \in [HttpRequest -> Phases] /\ store' \in [HttpRequest -> Contexts]
      /\ before' \in [HttpRequest -> HttpRequest \cup {None}]
  BY <1>1, <1>2, <1>3, <1>4 DEF Phases, Contexts
<1>6. response' \in [HttpRequest -> Responses]
  <2>1. [response[r] EXCEPT !.requestId = id, !.correlationId = correlation] \in Responses
    BY <1>2, <1>4, ZenonT(30) DEF Responses
  <2>2. QED
    BY <1>1, <1>4, <2>1
<1>7. RequestTypes'
  BY <1>1, <1>5, <1>6 DEF RequestInv, RequestTypes
<1>8. Known(r) /\ before[r] = None /\ Errors(r) = {} /\ Completions(r) = {}
  BY <1>1 DEF RequestInv, Accounted, Known, ErrorTold, CompletionTold, Answered
<1>9. ASSUME NEW q \in HttpRequest PROVE q # r /\ Alone(q)' => Alone(q)
  <2>1. ASSUME q # r, NEW p \in HttpRequest, before'[p] # q PROVE before[p] # q
    <3>1. CASE p = r
      BY <1>8, <2>1, <3>1, RootAssumption
    <3>2. CASE p # r
      BY <1>1, <1>4, <2>1, <3>2
    <3>3. QED
      BY <3>1, <3>2
  <2>2. q # r => before'[q] = before[q]
    BY <1>1, <1>4
  <2>3. QED
    BY <2>1, <2>2 DEF Alone
<1>10. Accounted(r)'
  <2>1. Errors(r)' = {} /\ Completions(r)' = {}
    BY <1>1, <1>8, NothingAdded
  <2>2. /\ phase'[r] = "handling" /\ store'[r].requestId = id /\ store'[r].correlationId = correlation
        /\ response'[r].requestId = id /\ response'[r].correlationId = correlation
    BY <1>1, <1>4 DEF Responses
  <2>3. exception'[r] = None
    BY <1>1, <1>8 DEF Known
  <2>4. Known(r)'
    BY <1>1, <2>2, <2>3 DEF Known, Answered, NewRequestId, id
  <2>5. QED
    BY <2>1, <2>2, <2>4 DEF Accounted, ErrorTold, CompletionTold, Answered
<1>11. ASSUME NEW q \in HttpRequest, q # r PROVE Accounted(q)'
  <2>1. /\ phase'[q] = phase[q] /\ store'[q] = store[q] /\ exception'[q] = exception[q]
        /\ before'[q] = before[q] /\ response'[q] = response[q] /\ Untold(q)
    BY <1>1, <1>4, <1>11 DEF Untold
  <2>2. QED
    BY <1>1, <1>9, <1>11, <2>1, Untouched DEF RequestInv
<1>12. ASSUME NEW q \in HttpRequest PROVE FinishedIn(q)'
  <2>1. SUFFICES ASSUME phase'[q] = "finished" PROVE FinishedIn(q)'
    BY DEF FinishedIn
  <2>2. q # r /\ phase[q] = "finished"
    BY <1>1, <1>4, <2>1
  <2>3. PICK s \in HttpRequest : /\ phase[s] # "none" /\ (s = q \/ ~Alone(s))
                                 /\ finishStore[q].requestId = NewRequestId(s)
    BY <2>2 DEF RequestInv, FinishedIn
  <2>4. s # r /\ phase'[s] # "none" /\ (s = q \/ ~Alone(s)')
    BY <1>1, <1>4, <1>9, <2>3
  <2>5. QED
    BY <1>1, <2>3, <2>4 DEF FinishedIn, NewRequestId
<1>13. QED
  BY <1>7, <1>10, <1>11, <1>12 DEF RequestInv

\* A step of one request that answers nothing and writes nothing about an end.
LEMMA HandlingStep ==
    ASSUME RequestInv, NEW r \in HttpRequest, phase[r] \in {"handling", "logged"},
           NEW next \in {"logged", "thrown"}, phase' = [phase EXCEPT ![r] = next],
           UNCHANGED <<level, serving, before, store, response, finishStore>>,
           \A q \in HttpRequest : q # r => exception'[q] = exception[q],
           exception' \in [HttpRequest -> {None} \cup Threw],
           IF next = "thrown" THEN exception'[r] \in Threw /\ MayBe(exception'[r].error, exception'[r].graph)
           ELSE exception'[r] = None,
           \A q \in HttpRequest : Untold(q), \A record \in DOMAIN records' : Redacts(record)
    PROVE  RequestInv'
<1>1. phase \in [HttpRequest -> Phases] /\ phase' \in [HttpRequest -> Phases]
  BY DEF RequestInv, RequestTypes, Phases
<1>2. RequestTypes'
  BY <1>1 DEF RequestInv, RequestTypes
<1>3. \A s : Alone(s)' <=> Alone(s)
  BY AloneStays
<1>4. Accounted(r)'
  <2>1. phase'[r] = next
    BY <1>1
  <2>2. Known(r) /\ Errors(r) = {} /\ (Alone(r) => Completions(r) = {})
    BY DEF RequestInv, Accounted, ErrorTold, CompletionTold, Answered
  <2>3. Errors(r)' = {} /\ (Alone(r) => Completions(r)' = {})
    BY <2>2, UntoldKeeps
  <2>4. Known(r)'
    BY <2>1, <2>2 DEF Known, Answered, NewRequestId, MayBe
  <2>5. QED
    BY <1>3, <2>1, <2>3, <2>4 DEF Accounted, ErrorTold, CompletionTold, Answered
<1>5. ASSUME NEW q \in HttpRequest, q # r PROVE Accounted(q)'
  <2>1. phase'[q] = phase[q] /\ Accounted(q)
    BY <1>1, <1>5 DEF RequestInv
  <2>2. QED
    BY <1>3, <1>5, <2>1, Untouched
<1>6. ASSUME NEW q \in HttpRequest PROVE FinishedIn(q)'
  <2>1. \A s \in HttpRequest : phase[s] # "none" => phase'[s] # "none"
    BY <1>1
  <2>2. phase'[q] = "finished" => phase[q] = "finished"
    BY <1>1
  <2>3. QED
    BY <1>3, <2>1, <2>2, FinishedStays DEF RequestInv
<1>7. QED
  BY <1>2, <1>4, <1>5, <1>6 DEF RequestInv

LEMMA HandlerLogsKeeps ==
    ASSUME NEW r \in HttpRequest PROVE RequestInv /\ HandlerLogs(r) => RequestInv'
<1> SUFFICES ASSUME RequestInv, HandlerLogs(r) PROVE RequestInv'
  OBVIOUS
<1> DEFINE record == Record("service", None, NoContext, store[r], None)
<1>1. /\ phase[r] = "handling" /\ phase' = [phase EXCEPT ![r] = "logged"]
      /\ UNCHANGED <<level, serving, before, store, exception, response, finishStore>>
      /\ Added(record) \/ records' = records
  BY WriteIs DEF HandlerLogs, RequestInv, RequestTypes
<1>2. Redacts(record) /\ record.event = "service"
  <2>1. Redacts(record)
    BY RecordRedacts
  <2>2. QED
    BY <2>1 DEF Record
<1> HIDE DEF record
<1>3. \A q \in HttpRequest : Untold(q)
  BY <1>1, <1>2 DEF Untold, Ending, ErrorEvents
<1>4. \A other \in DOMAIN records' : Redacts(other)
  BY <1>1, <1>2, AddedRedacts DEF RequestInv, RequestTypes
<1>5. exception' \in [HttpRequest -> {None} \cup Threw] /\ exception'[r] = None
  BY <1>1 DEF RequestInv, RequestTypes, Accounted, Known
<1>6. QED
  BY <1>1, <1>3, <1>4, <1>5, HandlingStep

LEMMA HandlerThrowsKeeps ==
    ASSUME NEW r \in HttpRequest, NEW thrown \in Exception, NEW graph \in Thrown \cup {None}
    PROVE  RequestInv /\ HandlerThrows(r, thrown, graph) => RequestInv'
<1> SUFFICES ASSUME RequestInv, HandlerThrows(r, thrown, graph) PROVE RequestInv'
  OBVIOUS
<1> DEFINE new == [error |-> thrown, graph |-> graph]
<1>1. /\ phase[r] \in {"handling", "logged"} /\ phase' = [phase EXCEPT ![r] = "thrown"]
      /\ exception' = [exception EXCEPT ![r] = new] /\ MayBe(thrown, graph)
      /\ UNCHANGED <<level, serving, before, store, response, finishStore, records>>
  BY DEF HandlerThrows, Handling
<1>2. new \in Threw /\ MayBe(new.error, new.graph)
  BY <1>1 DEF Threw
<1> HIDE DEF new
<1>3. exception \in [HttpRequest -> {None} \cup Threw]
  BY DEF RequestInv, RequestTypes
<1>4. /\ exception' \in [HttpRequest -> {None} \cup Threw] /\ exception'[r] = new
      /\ \A q \in HttpRequest : q # r => exception'[q] = exception[q]
  BY <1>1, <1>2, <1>3
<1>5. \A q \in HttpRequest : Untold(q)
  BY <1>1 DEF Untold
<1>6. \A other \in DOMAIN records' : Redacts(other)
  BY <1>1 DEF RequestInv, RequestTypes
<1>7. QED
  BY <1>1, <1>2, <1>4, <1>5, <1>6, HandlingStep

LEMMA HandlerReturnsKeeps ==
    ASSUME NEW r \in HttpRequest, NEW returned \in Returned
    PROVE  RequestInv /\ HandlerReturns(r, returned) => RequestInv'
<1> SUFFICES ASSUME RequestInv, HandlerReturns(r, returned) PROVE RequestInv'
  OBVIOUS
<1> DEFINE id == IF returned.tellsId THEN AnswerId(r) ELSE None
           new == [response[r] EXCEPT !.status = returned.status, !.bodyId = id]
<1>1. /\ phase[r] \in {"handling", "logged"} /\ Respond(r)
      /\ response' = [response EXCEPT ![r] = new]
      /\ UNCHANGED <<level, serving, before, store, exception, finishStore, records>>
  BY DEF HandlerReturns, Handling
<1>2. Known(r) /\ exception[r] = None /\ Errors(r) = {} /\ (Alone(r) => Completions(r) = {})
  BY <1>1 DEF RequestInv, Accounted, Known, ErrorTold, CompletionTold, Answered
<1>3. id \in {NewRequestId(r), None} /\ id \in Ids
  BY <1>1, <1>2, AnswerIdOfRequest DEF Ids
<1>4. phase \in [HttpRequest -> Phases] /\ response \in [HttpRequest -> Responses]
  BY DEF RequestInv, RequestTypes
<1>5. new \in Responses
  <2>1. returned.status \in {None} \cup Statuses
    BY DEF Returned, Statuses
  <2> HIDE DEF id
  <2>2. QED
    BY <1>3, <1>4, <2>1, ZenonT(30) DEF Responses
<1>6. /\ new.requestId = response[r].requestId /\ new.correlationId = response[r].correlationId
      /\ new.bodyId = id
  <2> HIDE DEF id
  <2>1. QED
    BY <1>4, ZenonT(30) DEF Responses
<1> HIDE DEF new, id
<1>7. /\ phase' \in [HttpRequest -> Phases] /\ phase'[r] \in {"answered", "queued"}
      /\ phase'[r] = "queued" => before[r] # None
      /\ \A q \in HttpRequest : q # r => phase'[q] = phase[q]
      /\ \A q \in HttpRequest : phase'[q] = "finished" => phase[q] = "finished"
      /\ \A q \in HttpRequest : phase[q] # "none" => phase'[q] # "none"
  BY <1>1, <1>4, RespondIs
<1>8. response' \in [HttpRequest -> Responses] /\ response'[r] = new
      /\ \A q \in HttpRequest : q # r => response'[q] = response[q]
  BY <1>1, <1>4, <1>5
<1>9. RequestTypes'
  BY <1>1, <1>7, <1>8 DEF RequestInv, RequestTypes
<1>10. \A s : Alone(s)' <=> Alone(s)
  BY <1>1, AloneStays
<1>11. Accounted(r)'
  <2>1. Errors(r)' = {} /\ (Alone(r) => Completions(r)' = {})
    BY <1>1, <1>2, NothingAdded
  <2>2. Known(r)'
    BY <1>1, <1>2, <1>3, <1>6, <1>7, <1>8 DEF Known, Answered, NewRequestId
  <2>3. QED
    BY <1>1, <1>2, <1>7, <1>10, <2>1, <2>2 DEF Accounted, ErrorTold, CompletionTold
<1>12. ASSUME NEW q \in HttpRequest, q # r PROVE Accounted(q)'
  <2>1. Untold(q) /\ Accounted(q)
    BY <1>1 DEF Untold, RequestInv
  <2>2. QED
    BY <1>1, <1>7, <1>8, <1>10, <1>12, <2>1, Untouched
<1>13. ASSUME NEW q \in HttpRequest PROVE FinishedIn(q)'
  BY <1>1, <1>7, <1>10, FinishedStays DEF RequestInv
<1>14. QED
  BY <1>9, <1>11, <1>12, <1>13 DEF RequestInv

\* What the filter makes of an exception: one of those statuses, a text of the
\* source, and the exception itself if the status is a server error.
NormalizedAs(normalized, graph) ==
    /\ normalized.status \in Statuses
    /\ normalized.code \in Codes
    /\ normalized.message = FixedText
    /\ normalized.details \in Redacted
    /\ normalized.unexpected = IF normalized.status >= 500 THEN graph ELSE None

LEMMA NormalizedErrors ==
    ASSUME NEW error \in Exception, NEW graph \in Thrown \cup {None}, MayBe(error, graph)
    PROVE  NormalizedAs(NormalizeError(error, graph), graph)
<1> DEFINE unexpected == IF error.status >= 500 THEN graph ELSE None
<1>1. CASE error.type = "application"
  <2>1. error \in [type : {"application"}, status : {409, 500}, details : BOOLEAN]
    BY <1>1, ZenonT(30) DEF Exception
  <2>2. error.status \in {409, 500}
    BY <2>1
  <2>3. (graph = None => error.type = "unknown") /\ (graph # None => graph[Root].own["message"] = "plain")
    BY <1>1 DEF MayBe
  <2>4. graph \in Thrown /\ graph[Root].own["message"] = FixedText
    <3>1. graph # None
      BY <1>1, <2>3
    <3>2. QED
      BY <2>3, <3>1 DEF FixedText
  <2> DEFINE details == IF error.details THEN RedactSensitiveValues(graph, Details) ELSE {}
             message == graph[Root].own["message"]
             normalized == NormalizedError(error.status, "its own", message, details, unexpected)
  <2>5. NormalizeError(error, graph) = normalized
    BY <1>1 DEF NormalizeError
  <2>6. details \in Redacted
    BY <2>4 DEF Redacted
  <2> HIDE DEF details, unexpected, message
  <2>7. /\ normalized.status = error.status /\ normalized.code = "its own"
        /\ normalized.message = message /\ normalized.details = details
        /\ normalized.unexpected = unexpected
    BY DEF NormalizedError
  <2> HIDE DEF normalized
  <2>8. normalized.message = FixedText /\ normalized.details \in Redacted
    BY <2>4, <2>6, <2>7 DEF message
  <2>9. normalized.status \in Statuses /\ normalized.code \in Codes
    <3>1. \A status \in {409, 500} : status \in Statuses
      BY DEF Statuses
    <3>2. normalized.status \in {409, 500}
      BY <2>2, <2>7, Zenon
    <3>3. normalized.code \in Codes
      BY <2>7 DEF Codes
    <3>4. QED
      BY <3>1, <3>2, <3>3
  <2>10. normalized.unexpected = IF normalized.status >= 500 THEN graph ELSE None
    BY <2>7 DEF unexpected
  <2>11. QED
    BY <2>5, <2>8, <2>9, <2>10 DEF NormalizedAs
<1>2. CASE error.type = "http" /\ error.status \in {404, 500}
  <2> DEFINE normalized == NormalizedError(error.status, "by status", FixedText, {}, unexpected)
  <2>1. error.type # "application" /\ error.status # 418
    BY <1>2
  <2>2. NormalizeError(error, graph) = normalized
    BY <1>2, <2>1, ZenonT(30) DEF NormalizeError
  <2> HIDE DEF unexpected
  <2>3. /\ normalized.status = error.status /\ normalized.code = "by status"
        /\ normalized.message = FixedText /\ normalized.details = {}
        /\ normalized.unexpected = unexpected
    BY DEF NormalizedError
  <2> HIDE DEF normalized
  <2>4. normalized.details \in Redacted /\ normalized.code \in Codes
    BY <2>3 DEF Redacted, Codes
  <2>5. normalized.status \in Statuses
    <3>1. \A status \in {404, 500} : status \in Statuses
      BY DEF Statuses
    <3>2. QED
      BY <1>2, <2>3, <3>1
  <2>6. normalized.unexpected = IF normalized.status >= 500 THEN graph ELSE None
    BY <2>3 DEF unexpected
  <2>7. QED
    BY <2>2, <2>3, <2>4, <2>5, <2>6 DEF NormalizedAs
<1>3. CASE error.type = "http" /\ error.status = 418
  <2> DEFINE normalized == NormalizedError(418, "BAD_REQUEST", FixedText, {}, None)
  <2>1. NormalizeError(error, graph) = normalized
    BY <1>3 DEF NormalizeError
  <2>2. QED
    BY <2>1 DEF NormalizedAs, NormalizedError, Statuses, Redacted, Codes
<1>4. CASE error.type # "application" /\ ~(error.type = "http" /\ error.status \in {404, 418, 500})
  <2>1. NormalizeError(error, graph) = Generic(graph)
    BY <1>4, ZenonT(30) DEF NormalizeError
  <2>2. QED
    BY <2>1 DEF NormalizedAs, Generic, NormalizedError, Statuses, Redacted, Codes
<1>5. QED
  BY <1>1, <1>2, <1>3, <1>4, ZenonT(30)

LEMMA CatchKeeps ==
    ASSUME NEW r \in HttpRequest PROVE RequestInv /\ Catch(r) => RequestInv'
<1> SUFFICES ASSUME RequestInv, Catch(r) PROVE RequestInv'
  OBVIOUS
<1> DEFINE graph == exception[r].graph
           normalized == NormalizeError(exception[r].error, graph)
           logged == normalized.unexpected
           event == IF logged = None THEN "api.error.handled" ELSE "api.error.unhandled"
           id == NewRequestId(r)
           new == [response[r] EXCEPT !.requestId = id, !.bodyId = id, !.status = normalized.status,
                                      !.code = normalized.code, !.message = normalized.message,
                                      !.details = normalized.details]
<1>1. /\ phase \in [HttpRequest -> Phases] /\ response \in [HttpRequest -> Responses]
      /\ exception \in [HttpRequest -> {None} \cup Threw] /\ level \in LogLevel
      /\ \A other \in DOMAIN records : Redacts(other)
  BY DEF RequestInv, RequestTypes
<1>2. /\ phase[r] = "thrown" /\ Known(r) /\ Errors(r) = {} /\ (Alone(r) => Completions(r) = {})
  BY DEF Catch, RequestInv, Accounted, ErrorTold, CompletionTold, Answered
<1>3. /\ exception[r].error \in Exception /\ graph \in Thrown \cup {None}
      /\ MayBe(exception[r].error, graph) /\ exception[r] # None
  BY <1>2, ExceptionAssumption DEF Known, Threw
<1>4. NormalizedAs(normalized, graph)
  <2> HIDE DEF graph
  <2>1. QED
    BY <1>3, NormalizedErrors
<1>5. AnswerId(r) = id
  BY <1>2, AnswerIdOfRequest
<1>6. PICK record : record = Record(event, normalized.status, NoContext, store[r], logged)
  OBVIOUS
<1>7. /\ Respond(r) /\ response' = [response EXCEPT ![r] = new]
      /\ UNCHANGED <<level, serving, before, store, exception, finishStore>>
      /\ IF logged = None THEN Write("warn", record) ELSE Write("error", record)
  <2> HIDE DEF normalized
  <2>1. QED
    BY <1>5, <1>6 DEF Catch, normalized
<1> HIDE DEF normalized, graph, logged
<1>8. logged = IF normalized.status >= 500 THEN graph ELSE None
  BY <1>4 DEF NormalizedAs, logged
<1>9. /\ record.event = event /\ record.status = normalized.status /\ record.requestId = id
      /\ record.correlationId = response[r].correlationId
  BY <1>2, <1>6, RecordOfRequest
<1>10. Redacts(record)
  <2>1. logged = None \/ logged \in Graph
    BY <1>3, <1>8, GraphAssumption
  <2>2. QED
    BY <1>6, <2>1, RecordRedacts
<1>11. event \in ErrorEvents /\ event # "http.request.completed"
  BY DEF ErrorEvents
<1>12. record \notin DOMAIN records
  <2> HIDE DEF event
  <2>1. QED
    BY <1>2, <1>9, <1>11 DEF Errors, About, BagToSet
<1>13. /\ Added(record) \/ records' = records
       /\ IF logged # None \/ level # "error" THEN Added(record) ELSE records' = records
  BY <1>1, <1>7, WriteIs
<1>14. /\ normalized.status \in {None} \cup Statuses /\ normalized.code \in Codes
       /\ normalized.message \in {None, FixedText} /\ normalized.details \in Redacted /\ id \in Ids
  BY <1>4 DEF NormalizedAs, Ids
<1> HIDE DEF id
<1>15. new \in Responses
  BY <1>1, <1>14, ZenonT(60) DEF Responses
<1>16. /\ new.requestId = id /\ new.bodyId = id /\ new.status = normalized.status
       /\ new.correlationId = response[r].correlationId
  <2>1. response[r] \in Responses
    BY <1>1
  <2>2. QED
    BY <2>1 DEF Responses
<1> HIDE DEF new, event
<1>17. /\ phase' \in [HttpRequest -> Phases] /\ phase'[r] \in {"answered", "queued"}
       /\ phase'[r] = "queued" => before[r] # None
       /\ \A q \in HttpRequest : q # r => phase'[q] = phase[q]
       /\ \A q \in HttpRequest : phase'[q] = "finished" => phase[q] = "finished"
       /\ \A q \in HttpRequest : phase[q] # "none" => phase'[q] # "none"
  BY <1>1, <1>7, RespondIs
<1>18. response' \in [HttpRequest -> Responses] /\ response'[r] = new
       /\ \A q \in HttpRequest : q # r => response'[q] = response[q]
  BY <1>1, <1>7, <1>15
<1>19. RequestTypes'
  <2>1. \A other \in DOMAIN records' : Redacts(other)
    BY <1>1, <1>10, <1>13, AddedRedacts
  <2>2. QED
    BY <1>7, <1>17, <1>18, <2>1 DEF RequestInv, RequestTypes
<1>20. \A s : Alone(s)' <=> Alone(s)
  BY <1>7, AloneStays
<1>21. Accounted(r)'
  <2>1. Known(r)'
    BY <1>2, <1>3, <1>7, <1>16, <1>17, <1>18 DEF Known, Answered, NewRequestId, id
  <2>2. Unexpected(r)' <=> logged # None
    <3>1. Unexpected(r)' <=> graph # None /\ normalized.status >= 500
      BY <1>3, <1>7, <1>16, <1>18 DEF Unexpected, graph
    <3>2. QED
      BY <1>8, <3>1
  <2>3. Completions(r)' = Completions(r)
    <3>1. CASE Added(record)
      <4>1. DOMAIN records' = DOMAIN records \cup {record} /\ record.event # "http.request.completed"
        BY <1>9, <1>11, <3>1, AddedIs
      <4>2. QED
        BY <4>1 DEF Completions, About, BagToSet, NewRequestId
    <3>2. CASE records' = records
      BY <3>2, NothingAdded
    <3>3. QED
      BY <1>13, <3>1, <3>2
  <2>4. CASE logged # None \/ level # "error"
    <3>1. DOMAIN records' = DOMAIN records \cup {record} /\ records'[record] = 1
      BY <1>12, <1>13, <2>4, AddedIs
    <3>2. Errors(r)' = {record}
      <4>1. \A other \in DOMAIN records : ~(other.requestId = id /\ other.event \in ErrorEvents)
        BY <1>2 DEF Errors, About, BagToSet, id
      <4>2. QED
        BY <1>9, <1>11, <3>1, <4>1 DEF Errors, About, BagToSet, NewRequestId, id
    <3>3. Tells(r, record)'
      BY <1>9, <1>16, <1>18, <3>1 DEF Tells
    <3>4. record.event = "api.error.unhandled" <=> logged # None
      BY <1>9 DEF event
    <3>5. ErrorTold(r)'
      BY <1>3, <1>7, <1>17, <2>2, <2>4, <3>2, <3>3, <3>4 DEF ErrorTold, Answered
    <3>6. QED
      BY <1>2, <1>17, <1>20, <2>1, <2>3, <3>5 DEF Accounted, CompletionTold
  <2>5. CASE logged = None /\ level = "error"
    <3>1. Errors(r)' = {}
      BY <1>2, <1>13, <2>5, NothingAdded
    <3>2. ErrorTold(r)'
      BY <1>7, <2>2, <2>5, <3>1 DEF ErrorTold
    <3>3. QED
      BY <1>2, <1>17, <1>20, <2>1, <2>3, <3>2 DEF Accounted, CompletionTold
  <2>6. QED
    BY <2>4, <2>5
<1>22. ASSUME NEW q \in HttpRequest, q # r PROVE Accounted(q)'
  <2>1. record.requestId # NewRequestId(q)
    BY <1>9, <1>22, RequestsApart DEF id
  <2>2. Untold(q) /\ Accounted(q)
    BY <1>13, <2>1 DEF Untold, RequestInv
  <2>3. QED
    BY <1>7, <1>17, <1>18, <1>20, <1>22, <2>2, Untouched
<1>23. ASSUME NEW q \in HttpRequest PROVE FinishedIn(q)'
  BY <1>7, <1>17, <1>20, FinishedStays DEF RequestInv
<1>24. QED
  BY <1>19, <1>21, <1>22, <1>23 DEF RequestInv

LEMMA FinishKeeps ==
    ASSUME NEW r \in HttpRequest PROVE RequestInv /\ Finish(r) => RequestInv'
<1> SUFFICES ASSUME RequestInv, Finish(r) PROVE RequestInv'
  OBVIOUS
<1>1. PICK context \in FinishStores(r) :
         /\ finishStore' = [finishStore EXCEPT ![r] = context]
         /\ Write("info", Record("http.request.completed", response[r].status,
                                 response[r], context, None))
  BY DEF Finish
<1>2. PICK record : record = Record("http.request.completed", response[r].status, response[r], context, None)
  OBVIOUS
<1>3. /\ phase[r] \in {"answered", "queued"} /\ phase' = [phase EXCEPT ![r] = "finished"]
      /\ phase[r] = "queued" => phase[before[r]] = "finished"
      /\ UNCHANGED <<level, serving, before, store, exception, response>>
      /\ Write("info", record)
  BY <1>1, <1>2 DEF Finish
<1>4. /\ phase \in [HttpRequest -> Phases] /\ level \in LogLevel
      /\ before \in [HttpRequest -> HttpRequest \cup {None}]
      /\ store \in [HttpRequest -> Contexts] /\ finishStore \in [HttpRequest -> Contexts]
  BY DEF RequestInv, RequestTypes
<1>5. Known(r) /\ ErrorTold(r) /\ (Alone(r) => Completions(r) = {})
  BY <1>3 DEF RequestInv, Accounted, CompletionTold
<1>6. ASSUME phase[r] = "queued"
      PROVE  before[r] \in HttpRequest /\ FinishedIn(before[r]) /\ phase[before[r]] = "finished"
  <2>1. before[r] \in HttpRequest
    BY <1>4, <1>5, <1>6 DEF Known
  <2>2. QED
    BY <1>3, <1>6, <2>1 DEF RequestInv
<1>7. ASSUME Alone(r) PROVE phase[r] = "answered" /\ context = store[r]
  <2>1. phase[r] = "answered"
    BY <1>3, <1>5, <1>7 DEF Alone, Known
  <2>2. QED
    BY <1>1, <2>1 DEF FinishStores
<1>8. context \in Contexts
  BY <1>1, <1>4, <1>6 DEF FinishStores
<1>9. PICK s \in HttpRequest : /\ phase[s] # "none" /\ (s = r \/ ~Alone(s))
                               /\ context.requestId = NewRequestId(s)
  <2>1. CASE context = store[r]
    BY <1>3, <1>5, <2>1 DEF Known
  <2>2. CASE context # store[r]
    <3>1. phase[r] = "queued" /\ context = finishStore[before[r]]
      BY <1>1, <2>2 DEF FinishStores
    <3>2. PICK s \in HttpRequest : /\ phase[s] # "none" /\ (s = before[r] \/ ~Alone(s))
                                   /\ context.requestId = NewRequestId(s)
      BY <1>6, <3>1 DEF FinishedIn
    <3>3. ~Alone(s)
      BY <3>2 DEF Alone
    <3>4. QED
      BY <3>2, <3>3
  <2>3. QED
    BY <2>1, <2>2
<1>10. /\ record.event = "http.request.completed" /\ record.status = response[r].status
       /\ record.requestId = NewRequestId(s)
  <2>1. context # NoContext
    BY <1>9, IdAssumption DEF NoContext
  <2>2. QED
    BY <1>2, <1>9, <2>1 DEF Record
<1>11. Redacts(record)
  BY <1>2, RecordRedacts
<1>12. /\ Added(record) \/ records' = records
       /\ IF level \in {"debug", "info"} THEN Added(record) ELSE records' = records
  BY <1>3, <1>4, WriteIs
<1>13. /\ phase' \in [HttpRequest -> Phases] /\ phase'[r] = "finished"
       /\ \A q \in HttpRequest : q # r => phase'[q] = phase[q]
       /\ \A q \in HttpRequest : phase[q] # "none" => phase'[q] # "none"
  BY <1>3, <1>4 DEF Phases
<1>14. finishStore' \in [HttpRequest -> Contexts] /\ finishStore'[r] = context
       /\ \A q \in HttpRequest : q # r => finishStore'[q] = finishStore[q]
  BY <1>1, <1>4, <1>8
<1>15. RequestTypes'
  <2>1. \A other \in DOMAIN records' : Redacts(other)
    BY <1>11, <1>12, AddedRedacts DEF RequestInv, RequestTypes
  <2>2. QED
    BY <1>3, <1>13, <1>14, <2>1 DEF RequestInv, RequestTypes
<1>16. \A q : Alone(q)' <=> Alone(q)
  BY <1>3, AloneStays
<1>17. ASSUME NEW q \in HttpRequest
       PROVE  Errors(q)' = Errors(q) /\ \A other \in Errors(q) : records[other] = 1 => records'[other] = 1
  <2>1. CASE records' = records
    BY <2>1, NothingAdded
  <2>2. CASE Added(record)
    <3>1. /\ DOMAIN records' = DOMAIN records \cup {record} /\ record.event \notin ErrorEvents
          /\ \A other \in DOMAIN records : other # record /\ records[other] = 1 => records'[other] = 1
      BY <1>10, <2>2, AddedIs DEF ErrorEvents
    <3>2. QED
      BY <3>1 DEF Errors, About, BagToSet, NewRequestId
  <2>3. QED
    BY <1>12, <2>1, <2>2
<1>18. ASSUME NEW q \in HttpRequest PROVE ErrorTold(q)'
  <2>1. ErrorTold(q) /\ (Answered(q)' <=> Answered(q))
    BY <1>3, <1>13 DEF RequestInv, Accounted, Answered
  <2>2. QED
    BY <1>3, <1>17, <2>1 DEF ErrorTold, Tells, Unexpected
<1>19. ASSUME NEW q \in HttpRequest, record.requestId # NewRequestId(q)
       PROVE  /\ Completions(q)' = Completions(q)
              /\ \A other \in Completions(q) : records[other] = 1 => records'[other] = 1
  <2>1. Untold(q)
    BY <1>12, <1>19 DEF Untold
  <2>2. QED
    BY <2>1, UntoldKeeps
<1>20. Accounted(r)'
  <2>1. Known(r)'
    BY <1>3, <1>5, <1>13 DEF Known, Answered, NewRequestId
  <2>2. ASSUME Alone(r), level \in {"debug", "info"}
        PROVE  Completions(r)' = {record} /\ Tells(r, record)'
    <3>1. record.requestId = NewRequestId(r) /\ record.correlationId = response[r].correlationId
      BY <1>2, <1>3, <1>5, <1>7, <2>2, RecordOfRequest
    <3>2. \A other \in DOMAIN records :
             ~(other.requestId = NewRequestId(r) /\ other.event = "http.request.completed")
      BY <1>5, <2>2 DEF Completions, About, BagToSet
    <3>3. record \notin DOMAIN records
      BY <1>10, <3>1, <3>2
    <3>4. DOMAIN records' = DOMAIN records \cup {record} /\ records'[record] = 1
      BY <1>12, <2>2, <3>3, AddedIs
    <3>5. Completions(r)' = {record}
      BY <1>10, <3>1, <3>2, <3>4 DEF Completions, About, BagToSet, NewRequestId
    <3>6. Tells(r, record)'
      BY <1>3, <1>10, <3>1, <3>4 DEF Tells
    <3>7. QED
      BY <3>5, <3>6
  <2>3. ASSUME Alone(r), level \notin {"debug", "info"} PROVE Completions(r)' = {}
    BY <1>5, <1>12, <2>3, NothingAdded
  <2>4. CompletionTold(r)'
    BY <1>3, <1>13, <1>16, <2>2, <2>3 DEF CompletionTold
  <2>5. QED
    BY <1>18, <2>1, <2>4 DEF Accounted
<1>21. ASSUME NEW q \in HttpRequest, q # r PROVE Accounted(q)'
  <2>1. Known(q) /\ CompletionTold(q)
    BY DEF RequestInv, Accounted
  <2>2. Known(q)'
    BY <1>3, <1>13, <1>21, <2>1 DEF Known, Answered, NewRequestId, MayBe
  <2>3. CASE record.requestId # NewRequestId(q)
    <3>1. CompletionTold(q)'
      BY <1>3, <1>13, <1>16, <1>19, <1>21, <2>1, <2>3 DEF CompletionTold, Tells
    <3>2. QED
      BY <1>18, <2>2, <3>1 DEF Accounted
  <2>4. CASE record.requestId = NewRequestId(q)
    <3>1. q = s
      BY <1>10, <2>4, RequestsApart
    <3>2. ~Alone(q)' /\ phase'[q] # "none"
      BY <1>9, <1>13, <1>16, <1>21, <3>1
    <3>3. CompletionTold(q)'
      BY <3>2 DEF CompletionTold
    <3>4. QED
      BY <1>18, <2>2, <3>3 DEF Accounted
  <2>5. QED
    BY <2>3, <2>4
<1>22. ASSUME NEW q \in HttpRequest PROVE FinishedIn(q)'
  <2>1. CASE q = r
    <3>1. phase'[s] # "none" /\ (s = r \/ ~Alone(s)') /\ finishStore'[r].requestId = NewRequestId(s)
      BY <1>9, <1>13, <1>14, <1>16
    <3>2. QED
      BY <2>1, <3>1 DEF FinishedIn, NewRequestId
  <2>2. CASE q # r
    BY <1>13, <1>14, <1>16, <2>2, FinishedStays DEF RequestInv
  <2>3. QED
    BY <2>1, <2>2
<1>23. QED
  BY <1>15, <1>20, <1>21, <1>22 DEF RequestInv

LEMMA ClientLostKeeps ==
    ASSUME NEW r \in HttpRequest PROVE RequestInv /\ ClientLost(r) => RequestInv'
<1> SUFFICES ASSUME RequestInv, ClientLost(r) PROVE RequestInv'
  OBVIOUS
<1>1. /\ phase[r] \in {"answered", "queued"} /\ phase' = [phase EXCEPT ![r] = "lost"]
      /\ UNCHANGED <<level, serving, before, store, exception, response, finishStore, records>>
  BY DEF ClientLost
<1>2. phase \in [HttpRequest -> Phases]
  BY DEF RequestInv, RequestTypes
<1>3. /\ phase' \in [HttpRequest -> Phases] /\ phase'[r] = "lost"
      /\ \A q \in HttpRequest : q # r => phase'[q] = phase[q]
      /\ \A q \in HttpRequest : phase'[q] = "finished" => phase[q] = "finished"
      /\ \A q \in HttpRequest : phase[q] # "none" => phase'[q] # "none"
  BY <1>1, <1>2 DEF Phases
<1>4. RequestTypes'
  BY <1>1, <1>3 DEF RequestInv, RequestTypes
<1>5. \A q : Alone(q)' <=> Alone(q)
  BY <1>1, AloneStays
<1>6. Accounted(r)'
  <2>1. /\ Errors(r)' = Errors(r) /\ Completions(r)' = Completions(r)
    BY <1>1, NothingAdded
  <2>2. Known(r) /\ ErrorTold(r) /\ (Alone(r) => Completions(r) = {})
    BY <1>1 DEF RequestInv, Accounted, CompletionTold
  <2>3. Known(r)'
    BY <1>1, <1>3, <2>2 DEF Known, Answered, NewRequestId
  <2>4. ErrorTold(r)'
    BY <1>1, <1>3, <2>1, <2>2 DEF ErrorTold, Tells, Answered, Unexpected
  <2>5. QED
    BY <1>3, <1>5, <2>1, <2>2, <2>3, <2>4 DEF Accounted, CompletionTold
<1>7. ASSUME NEW q \in HttpRequest, q # r PROVE Accounted(q)'
  <2>1. Untold(q) /\ Accounted(q)
    BY <1>1 DEF Untold, RequestInv
  <2>2. QED
    BY <1>1, <1>3, <1>5, <1>7, <2>1, Untouched
<1>8. ASSUME NEW q \in HttpRequest PROVE FinishedIn(q)'
  BY <1>1, <1>3, <1>5, FinishedStays DEF RequestInv
<1>9. QED
  BY <1>4, <1>6, <1>7, <1>8 DEF RequestInv

\* The requests' types, and what store, response and log hold of each of them:
\* at every LOG_LEVEL, whatever handlers return and throw, undefined included,
\* and however requests are pipelined.
THEOREM RequestInvariant == ApiRequestsSpec => []RequestInv
<1>1. RequestInv /\ [ApiRequestsNext]_apiRequestVars => RequestInv'
  <2> SUFFICES ASSUME RequestInv, [ApiRequestsNext]_apiRequestVars PROVE RequestInv'
    OBVIOUS
  <2>1. CASE Serve
    BY <2>1, ServeKeeps
  <2>2. CASE NestLog
    BY <2>2, NestLogKeeps
  <2>3. ASSUME NEW r \in HttpRequest, NEW inbound \in CorrelationId \cup {None},
               NEW predecessor \in Predecessors \cup {None}, Receive(r, inbound, predecessor)
        PROVE  RequestInv'
    BY <2>3, ReceiveKeeps
  <2>4. ASSUME NEW r \in HttpRequest, NEW thrown \in Exception, NEW graph \in Thrown \cup {None},
               HandlerThrows(r, thrown, graph)
        PROVE  RequestInv'
    BY <2>4, HandlerThrowsKeeps
  <2>5. ASSUME NEW r \in HttpRequest, NEW returned \in Returned, HandlerReturns(r, returned)
        PROVE  RequestInv'
    BY <2>5, HandlerReturnsKeeps
  <2>6. ASSUME NEW r \in HttpRequest, HandlerLogs(r) \/ Catch(r) \/ Finish(r) \/ ClientLost(r)
        PROVE  RequestInv'
    BY <2>6, HandlerLogsKeeps, CatchKeeps, FinishKeeps, ClientLostKeeps
  <2>7. CASE UNCHANGED apiRequestVars
    <3>1. UNCHANGED <<level, serving, phase, before, store, exception, response, finishStore, records>>
      BY <2>7 DEF apiRequestVars, requestVars
    <3>2. RequestTypes'
      BY <3>1 DEF RequestInv, RequestTypes
    <3>3. ASSUME NEW r \in HttpRequest PROVE Accounted(r)' /\ FinishedIn(r)'
      <4>1. Untold(r) /\ Accounted(r) /\ FinishedIn(r) /\ \A s : Alone(s)' <=> Alone(s)
        BY <3>1, AloneStays DEF Untold, RequestInv
      <4>2. Accounted(r)'
        BY <3>1, <4>1, Untouched
      <4>3. FinishedIn(r)'
        BY <3>1, <4>1, FinishedStays
      <4>4. QED
        BY <4>2, <4>3
    <3>4. QED
      BY <3>2, <3>3 DEF RequestInv
  <2>8. QED
    BY <2>1, <2>2, <2>3, <2>4, <2>5, <2>6, <2>7 DEF ApiRequestsNext
<1>2. QED
  BY <1>1, RequestsStart, PTL DEF ApiRequestsSpec

\* Whatever a client is told about an exception can be found in the log under
\* the id of its answer, as far as LOG_LEVEL lets it through: for any number of
\* requests, however they interleave and are pipelined.
THEOREM AnswersAreTraceable == ApiRequestsSpec => []AnswersTraceable
<1>1. ASSUME RequestInv, NEW r \in HttpRequest, Answered(r)
      PROVE  LET id == response[r].requestId
                 thrown == exception[r] # None
                 errors == About(id, ErrorEvents)
                 completions == About(id, {"http.request.completed"})
                 Told(record) == /\ records[record] = 1
                                 /\ record.status = response[r].status
                                 /\ record.correlationId = response[r].correlationId
             IN  /\ id = NewRequestId(r)
                 /\ response[r].bodyId \in IF thrown THEN {id} ELSE {id, None}
                 /\ Cardinality(errors) =
                       IF thrown /\ (Unexpected(r) \/ level # "error") THEN 1 ELSE 0
                 /\ \A record \in errors :
                       Told(record) /\ (record.event = "api.error.unhandled" <=> Unexpected(r))
                 /\ Alone(r) =>
                       /\ Cardinality(completions) =
                             IF phase[r] = "finished" /\ level \in {"debug", "info"} THEN 1 ELSE 0
                       /\ \A record \in completions : Told(record)
  <2>1. Known(r) /\ ErrorTold(r) /\ CompletionTold(r)
    BY <1>1 DEF RequestInv, Accounted
  <2>2. response[r].requestId = NewRequestId(r)
    BY <1>1, <2>1 DEF Known, Answered
  <2>3. response[r].bodyId \in IF exception[r] # None THEN {NewRequestId(r)} ELSE {NewRequestId(r), None}
    BY <1>1, <2>1 DEF Known
  <2> DEFINE logged == exception[r] # None /\ (Unexpected(r) \/ level # "error")
  <2>4. /\ Cardinality(Errors(r)) = IF logged THEN 1 ELSE 0
        /\ \A record \in Errors(r) :
              Tells(r, record) /\ (record.event = "api.error.unhandled" <=> Unexpected(r))
    <3>1. CASE ~logged
      BY <2>1, <3>1, FS_EmptySet DEF ErrorTold
    <3>2. CASE logged
      <4>1. PICK record : /\ Errors(r) = {record} /\ Tells(r, record)
                          /\ record.event = "api.error.unhandled" <=> Unexpected(r)
        BY <1>1, <2>1, <3>2 DEF ErrorTold
      <4>2. Cardinality(Errors(r)) = 1
        BY <4>1, FS_Singleton
      <4> HIDE DEF logged
      <4>3. QED
        BY <3>2, <4>1, <4>2
    <3>3. QED
      BY <3>1, <3>2
  <2>5. ASSUME Alone(r)
        PROVE  /\ Cardinality(Completions(r)) =
                     IF phase[r] = "finished" /\ level \in {"debug", "info"} THEN 1 ELSE 0
               /\ \A record \in Completions(r) : Tells(r, record)
    BY <2>1, <2>5, FS_Singleton, FS_EmptySet DEF CompletionTold
  <2>6. QED
    BY <2>2, <2>3, <2>4, <2>5 DEF Errors, Completions, Tells
<1>2. RequestInv => AnswersTraceable
  BY <1>1 DEF AnswersTraceable
<1>3. QED
  BY <1>2, RequestInvariant, PTL

\* No record and no answer holds a credential, but for the names of errors:
\* neither in what is redacted, nor in the text of an answer.
THEOREM NothingSecretIsTold == ApiRequestsSpec => []NothingSecretLeaves
<1>1. Safe({})
  BY DEF Safe
<1>2. \A graph \in Graph : /\ Safe(RedactSensitiveValues(graph, Root))
                           /\ Safe(RedactSensitiveValues(graph, Details))
  BY RedactionIsSafe, RootAssumption
<1>3. ASSUME NEW text, text # "credential" PROVE Safe(Leaf(text))
  <2>1. \A leaf \in Leaf(text) : leaf = << <<>>, text >>
    BY DEF Leaf
  <2>2. \A leaf \in Leaf(text) : leaf[2] = text /\ leaf[1] = <<>> /\ 1..Len(leaf[1]) = {}
    BY <2>1
  <2>3. QED
    BY <1>3, <2>2 DEF Safe
<1>4. ASSUME RequestInv, NEW leaves \in Output PROVE Safe(leaves)
  <2>1. CASE \E record \in DOMAIN records : leaves = record.leaves
    BY <1>1, <1>2, <1>4, <2>1 DEF RequestInv, RequestTypes, Redacts
  <2>2. CASE \E r \in HttpRequest : leaves = response[r].details
    <3>1. leaves \in Redacted
      <4>1. PICK r \in HttpRequest : leaves = response[r].details
        BY <2>2
      <4>2. response[r] \in Responses
        BY <1>4 DEF RequestInv, RequestTypes
      <4>3. QED
        BY <4>1, <4>2 DEF Responses
    <3>2. QED
      BY <1>1, <1>2, <3>1, GraphAssumption DEF Redacted
  <2>3. CASE \E r \in HttpRequest : leaves = Leaf(response[r].message)
    <3>1. PICK r \in HttpRequest : leaves = Leaf(response[r].message)
      BY <2>3
    <3>2. response[r] \in Responses
      BY <1>4 DEF RequestInv, RequestTypes
    <3>3. response[r].message \in {None, FixedText}
      BY <3>2 DEF Responses
    <3>4. response[r].message # "credential"
      BY <3>3, RootAssumption DEF FixedText, Text
    <3>5. QED
      BY <1>3, <3>1, <3>4
  <2>4. QED
    BY <2>1, <2>2, <2>3 DEF Output, BagToSet
<1>5. RequestInv => NothingSecretLeaves
  BY <1>4 DEF NothingSecretLeaves, Safe
<1>6. QED
  BY <1>5, RequestInvariant, PTL

\* ... and every record holds everything else that its graph does.
THEOREM RestIsKept == ApiRequestsSpec => []RedactionKeepsTheRest
<1>1. RequestInv => RedactionKeepsTheRest
  <2> SUFFICES ASSUME RequestInv, NEW record \in DOMAIN records, record.graph # None
               PROVE  record.leaves = Reference(record.graph, Root)
    BY DEF RedactionKeepsTheRest, BagToSet
  <2>1. record.graph \in Graph /\ record.leaves = RedactSensitiveValues(record.graph, Root)
    BY DEF RequestInv, RequestTypes, Redacts
  <2>2. QED
    BY <2>1, RedactionIsReference, RootAssumption
<1>2. QED
  BY <1>1, RequestInvariant, PTL
=============================================================================
