\* Two goroutines race over two keys, one Execute each.
CONSTANTS
    k1 = k1
    k2 = k2
    b1 = b1
    b2 = b2
    Keys = {k1, k2}
    MaxValue = 2
    Builders = {b1, b2}
    Calls <- RacingCalls
    maxTransactOperations = 2
    MaxRetries = 1
    NoFailure = "None"
    FailureCodes = {"ConditionalCheckFailed", "TransactionConflict"}
    MaxResends = 1
    MaxExecutes = 1
SPECIFICATION Spec
SYMMETRY BuilderSymmetry
INVARIANTS
    TruthfulAnswer
PROPERTIES
    CreateNeverOverwrites
    ImplementsStore
