------------------------------ MODULE ApiStart ------------------------------
(***************************************************************************)
(* The API process from its very start: main.ts loads the configuration,   *)
(* and only with a valid one creates the database runtime and goes on as   *)
(* ApiProcess says.                                                        *)
(***************************************************************************)
EXTENDS ApiProcess, Configuration

CONSTANTS
    ProcessEnvironment,     \* the environments that the process is started in
    File,                   \* what a .env file may hold
    NoConfiguration,        \* none has been loaded yet,
    Refused,                \* it was refused,
    InUse                   \* or it has been handed out

ASSUME EnvironmentAssumption == ProcessEnvironment \subseteq Environment /\ File \subseteq Environment
ASSUME ConfigurationAssumption == NoConfiguration # InUse /\ Refused \notin ApiConfig

VARIABLES
    environment,    \* process.env as the process found it
    marked,         \* the directories that look like the root of a repository
    files,          \* the .env file in each directory
    config          \* the configuration

surroundings == <<environment, marked, files>>
startVars == <<processVars, surroundings, config>>

StartInit ==
    /\ ApiInit
    /\ environment \in ProcessEnvironment
    /\ marked \in SUBSET Directory
    /\ files \in [Directory -> File \cup {Unset}]
    /\ config = NoConfiguration

\* A ConfigurationError leaves nothing to close: its message, of names and
\* constraints, is written to stderr and the process exits with 1.
LoadApiConfigFromEnvironment ==
    /\ config = NoConfiguration /\ ~Over
    /\ LET loaded == LoadApiConfig(LoadLocalEnvironment(environment, marked, files))
       IN  config' \in IF loaded = {} THEN {Refused} ELSE loaded
    /\ UNCHANGED <<processVars, surroundings>>

\* The logger and the database runtime are created from it.
\* Bound: what it says, and where it was found, is forgotten then.
CreateDatabase ==
    /\ config \notin {NoConfiguration, Refused, InUse} /\ ~Over
    /\ config' = InUse
    /\ environment' = Unset /\ marked' = {} /\ files' = Unset
    /\ UNCHANGED processVars

StartNext ==
    \/ LoadApiConfigFromEnvironment
    \/ CreateDatabase
    \/ config \in {NoConfiguration, InUse} /\ ~Over /\ Signal /\ UNCHANGED <<surroundings, config>>
    \/ config = InUse /\ ApiNext /\ UNCHANGED <<surroundings, config>>

\* Not even the pool's own timeouts are assumed here.
StartSpec == StartInit /\ [][StartNext]_startVars /\ CheckFairness
-----------------------------------------------------------------------------
(* Properties.                                                              *)

\* A variable has the value it was given; failing that, and unless the process
\* was started with NODE_ENV=production, the one in the nearest .env of the
\* repository, which hides those further up and all outside; failing that its
\* default.  What does not make a whole and valid configuration is refused, and
\* so is a production that is not on HTTPS.  OBSERVABILITY.md and
\* ARCHITECTURE.md promise more of production: see ProductionLoadsNoFile.
Given(v) ==
    LET Nearest(d) == files[d] # Unset /\ \A e \in 0..(d - 1) : files[e] = Unset /\ e \notin marked
    IN  IF environment[v] # Unset THEN environment[v]
        ELSE IF environment.NODE_ENV # "production" /\ marked # {} /\ \E d \in Directory : Nearest(d)
        THEN LET d == CHOOSE d \in Directory : Nearest(d) IN files[d][v]
        ELSE Unset

StartsAsConfigured ==
    [][config = NoConfiguration /\ config' # NoConfiguration =>
          LET Says(v, value, default) == value = IF Given(v) = Unset THEN default ELSE Given(v)
          IN  IF config' = Refused
              THEN \/ \E v \in DOMAIN environment : Given(v) = Invalid
                   \/ Given("WEB_ORIGIN") = Unset
                   \/ Given("NODE_ENV") = "production" /\ Given("WEB_ORIGIN") # "https"
                   \/ Given("DB_POOL_MAX") \in {0, 101}
              ELSE /\ Says("NODE_ENV", config'.environment, "development")
                   /\ Says("WEB_ORIGIN", config'.webOrigin, Unset)
                   /\ Says("DB_POOL_MAX", config'.maxConnections, 10)
                   /\ config'.maxConnections \in 1..100
                   /\ config'.environment = "production" => config'.webOrigin = "https"]_startVars

\* OBSERVABILITY.md: "production never loads a local dotenv file"; ARCHITECTURE.md:
\* production "reads the process environment only and never depends on an .env
\* file".  What a process that runs in production is configured with is then what
\* its own environment gives.  The code looks at NODE_ENV before it loads the
\* file, which may be what sets it: so this does not hold.
ProductionLoadsNoFile ==
    config \notin {NoConfiguration, Refused, InUse} /\ config.environment = "production" =>
        config \in LoadApiConfig(environment)

\* A process that is told to stop, or has failed to start, ends: that takes the
\* pool's timeouts and handlers that answer.
ShutdownEndsFairly == ApiFairness => ShutdownEnds
=============================================================================
