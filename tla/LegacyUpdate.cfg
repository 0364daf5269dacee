\* An Update of a versioned model in an older transaction.
CONSTANTS
    Parts = {"tx"}
    Clients = {c1, c2}
    MaxWrites = 3
    MaxTries = 2
    MaxRetries = 1
    TxKeys = {k1, k2}
    MaxRecorded = 2
    MaxOthers = 1
    MaxCommits = 1
    Encrypted = {"e1", "e2"}
    Plain = {}
    MaxClauses = 2
    MaxExecutes = 2
    MaxKMSFails = 1
    IndexNames = {"a", "b", "l"}
    Definitions <- definitions
    IsLSIName <- isLSIName
    Managers = {m1, m2}
    LastKey = 3
    PageSize = 2
    MaxBatch = 2
    MaxBatchRetries = 2
    TargetKey <- targetKey
    Indexes = {"i1"}
    Wanted = {"i1"}
    MaxRuns = 2
    MaxTableWrites = 1
    MaxFailures = 1
SPECIFICATION ItemsSpec
CHECK_DEADLOCK FALSE
INVARIANTS
    VersionedUpdateValid
