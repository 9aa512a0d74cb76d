---------------------------- MODULE Configuration ----------------------------
(***************************************************************************)
(* Where the configuration of the API process comes from: its environment, *)
(* completed outside of production from a .env file that is looked for     *)
(* from the working directory upwards but never above the repository, and  *)
(* validated as a whole before anything is created.                        *)
(*                                                                         *)
(* Three variables stand for the kinds there are: one with a fixed set of  *)
(* values, one that is required and checked against another, and a bounded *)
(* number with a default.  Invalid is any text that a variable's own check *)
(* refuses, the empty one included.                                        *)
(***************************************************************************)
EXTENDS FiniteSetsExt, Integers

CONSTANTS
    Top,            \* bound: the working directory is 0, the file system's root Top
    Unset,          \* no such variable, no such file
    Invalid         \* a text that is refused

ASSUME TopAssumption == Top \in Nat

Directory == 0..Top

Environment == [NODE_ENV : {"development", "production", Invalid, Unset},
                WEB_ORIGIN : {"http", "https", Invalid, Unset},
                DB_POOL_MAX : {0, 1, 100, 101, Invalid, Unset}]

-----------------------------------------------------------------------------
(* Finding the file                                                         *)

\* The nearest directory with a .git or a pnpm-workspace.yaml.
RepositoryRoots(marked) == {d \in marked : \A e \in marked : d <= e}

\* Mutant: the search goes on to the root of the file system.
LocalEnvironmentFilesAnywhere(marked, files) ==
    {d \in Directory : files[d] # Unset /\ \A e \in 0..(d - 1) : files[e] = Unset}

\* The nearest .env on the way to the repository's root; at most one.
LocalEnvironmentFiles(marked, files) ==
    LET inside == {d \in Directory : \E root \in RepositoryRoots(marked) : d <= root}
        found == {d \in inside : files[d] # Unset}
    IN  IF found = {} THEN {} ELSE {Min(found)}

\* dotenv with override: false sets what is not set.
Dotenv(environment, file) ==
    [v \in DOMAIN environment |-> IF environment[v] = Unset THEN file[v] ELSE environment[v]]

LoadLocalEnvironment(environment, marked, files) ==
    LET found == LocalEnvironmentFiles(marked, files)
    IN  IF environment.NODE_ENV = "production" \/ found = {} THEN environment
        ELSE Dotenv(environment, files[Min(found)])

-----------------------------------------------------------------------------
(* Validating what is there                                                 *)

BoundedInteger(value, default, minimum, maximum) ==
    IF value = Unset THEN {default} ELSE {value} \cap minimum..maximum

Enumerated(value, default, values) ==
    IF value = Unset THEN {default} ELSE {value} \cap values

\* An origin of HTTP or HTTPS is required.
WebOrigin(value) == {value} \cap {"http", "https"}

\* What relates one variable to another.
Consistent(config) == config.environment = "production" => config.webOrigin = "https"

ApiConfig == [environment : {"development", "production"}, webOrigin : {"http", "https"},
              maxConnections : 1..100]

\* The configurations that a record of variables gives: one, or none if any
\* issue is found.
LoadApiConfig(environment) ==
    {config \in
        [environment : Enumerated(environment.NODE_ENV, "development", {"development", "production"}),
         webOrigin : WebOrigin(environment.WEB_ORIGIN),
         maxConnections : BoundedInteger(environment.DB_POOL_MAX, 10, 1, 100)] :
     Consistent(config)}
=============================================================================
