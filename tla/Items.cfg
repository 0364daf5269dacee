\* Two clients and three writes of one item; a transaction of two operations on
\* two keys; an UpdateBuilder of two clauses executed twice; two managers that
\* migrate a table of three items.  The calls are bounded: the model stops.
CONSTANTS
    Parts = {"item", "tx", "enc", "value", "registry", "schema"}
    Clients = {c1, c2}
    MaxWrites = 3
    MaxTries = 2
    MaxRetries = 1
    TxKeys = {k1, k2}
    MaxRecorded = 2
    MaxOthers = 1
    MaxCommits = 1
    Encrypted = {"e1", "e2"}
    Plain = {}
    MaxClauses = 2
    MaxExecutes = 2
    MaxKMSFails = 1
    IndexNames = {"a", "b", "l"}
    Definitions <- definitions
    IsLSIName <- isLSIName
    Managers = {m1, m2}
    LastKey = 3
    PageSize = 2
    MaxBatch = 2
    MaxBatchRetries = 2
    TargetKey <- targetKey
    Indexes = {"i1"}
    Wanted = {"i1"}
    MaxRuns = 2
    MaxTableWrites = 1
    MaxFailures = 1
SPECIFICATION ItemsSpec
SYMMETRY ItemsSymmetry
CHECK_DEADLOCK FALSE
INVARIANTS
    NoLostUpdate
    WriteAnswered
    ReadsOwnWrite
    TransactionFuncAtomic
    EncryptedReadsBack
    ReadBack
    RegisteredAsTagged
PROPERTIES
    MigrationComplete
