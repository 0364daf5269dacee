\* Connections: two partners around four ticks, the shortest session AWS grants,
\* and one failed refresh; the intervals are those of the code, in units of five
\* minutes.  Three goroutines ask for the session, two calls each; its
\* initialization may fail.  Batches: up to three keys or items, in chunks and
\* batches of two or one; one retry of a read or an update, two attempts of a
\* write.
CONSTANTS
    Partners = {p1, p2}
    Configs = {a1}
    Callers = {c1}
    Nobody = Nobody
    Session = 3
    RefreshPeriod = 1
    ExpiryLead = 1
    RefreshLead = 2
    MaxClock = 4
    MaxFailures = 1
    MaxRefreshes = 1
    Goroutines = {g1, g2, g3}
    MaxInitFailures = 1
    MaxCalls = 2
    Keys = {k1, k2}
    BadKey = BadKey
    Nil = Nil
    None = None
    KeysProjected = TRUE
    MaxChunk = 2
    MaxBatch = 2
    MaxRetries = 1
    MaxAttempts = 2
    DefaultConcurrency = 2
    ChunkSizes = {0, 1}
    Sizes = {0, 1}
    Concurrencies = {0, 2}
    MaxKeys = 3
    MaxItems = 3
SPECIFICATION CallsSpec
INVARIANTS
    StaysFresh
    Singleton
    AlignedAndQuiet
    WrittenOrReported
PROPERTIES
    CallsSettle
