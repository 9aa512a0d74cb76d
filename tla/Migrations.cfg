SPECIFICATION FairSpec
CONSTANTS
    Runner = {r1, r2}
    None = None
INVARIANTS SchemaMatchesRecord NoConflict
PROPERTIES SuccessMeansLatest ImplementsSchemaVersion CommandsEnd
