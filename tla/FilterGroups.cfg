\* A read with conditions in groups beside others.
CONSTANTS
    Parts = {"query"}
    reservedWords = {"status"}
    InvalidNames = {"bad name"}
    Encrypted = {"Secret"}
    VersionField = "Version"
    CreatedAt = {"Made"}
    UpdatedAt = {"Changed"}
    OmitEmpty = {"G"}
    FieldLists <- fieldLists
    Modes = {"read", "write", "update"}
    UpdateFields = {"G", "Status"}
    MaxCalls = 3
    DBName <- dbName
    PrimaryKey <- primaryKey
    Indexes <- indexes
    Conditions <- conditions
    GroupConditions <- groupConditions
    RawValues <- rawValues
    Models <- models
    Items <- tableItems
    LastPosition = 4
    Segments = {0, 1}
    SegmentOf <- segmentOf
    KeyOf <- keyOf
    Limits = {0, 2}
    Retries <- retryCounts
    MaxWrites = 1
    MaxFailures = 1
    Queries <- plannedQueries
    Users = {"u1", "u2"}
    maxParallelism = 3
    planCacheTTL = 1
    FewItems = 2
    ManyItems = 3
    FewSegments = 2
    Enough = 1
    MaxTime = 1
    MaxRecords = 2
    FieldsOf = {"N", "C", "S"}
    Ops = {">=", "like"}
    Bounds = {1, 7}
    TextBounds = {7}
    MaxChained = 2
SPECIFICATION QueriesSpec
CHECK_DEADLOCK FALSE
INVARIANTS
    GroupsMeanCalls
