SPECIFICATION FairWorkerSpec
CONSTANTS
    Job = {j1, j2, j3}
    Concurrency = 2
INVARIANTS WorkerInv NothingLeftOpen ExitCodeTells
PROPERTIES NoStartAfterStop JobsCutOffOnlyAfterTimeout ShutdownEnds
CHECK_DEADLOCK FALSE
