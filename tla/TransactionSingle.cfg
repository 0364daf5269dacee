\* One builder, composed and executed twice.
CONSTANTS
    k1 = k1
    k2 = k2
    b1 = b1
    b2 = b2
    Keys = {k1, k2}
    MaxValue = 2
    Builders = {b1}
    Calls <- MixedCalls
    maxTransactOperations = 2
    MaxRetries = 1
    NoFailure = "None"
    FailureCodes = {"ConditionalCheckFailed", "TransactionConflict"}
    MaxResends = 1
    MaxExecutes = 2
SPECIFICATION FairSpec
INVARIANTS
    AppliedAtMostOnce
PROPERTIES
    ExecuteReturns
