SPECIFICATION FairSpec
CONSTANTS
    p1 = p1
    p2 = p2
    Processes = {p1, p2}
    Environments <- MCEnvironments
    Migrations <- MCMigrations
    AppliedBefore <- MCAppliedBefore
    LedgerTable = "schema_migrations"
    Unset = Unset
    Garbage = Garbage
    None = None
    MaxFaults = 1
INVARIANTS
    TypeOK
    LedgerMatchesSchema
    ServingHasFullSchema
    PostgresStartsTogether
    RepositoryOutlivesRequests
PROPERTIES
    RaceIsLost
    StartSucceeds
CHECK_DEADLOCK FALSE
