\* Batch writes and updates of a model with encrypted fields, when DynamoDB
\* leaves some of them unprocessed or asks for a retry.
CONSTANTS
    Keys = {k1, k2}
    BadKey = BadKey
    Nil = Nil
    None = None
    KeysProjected = TRUE
    MaxChunk = 2
    MaxBatch = 2
    MaxRetries = 1
    MaxAttempts = 2
    DefaultConcurrency = 2
    ChunkSizes = {0, 1}
    Sizes = {0, 1}
    Concurrencies = {0, 2}
    MaxKeys = 3
    MaxItems = 3
SPECIFICATION Spec
INVARIANTS
    DecryptedOnRead
