\* Three requests over two slots, two tokens, one back per tick.  Three callers
\* over two batch slots, batches of a legal and of an excessive size; the bucket
\* of one token is refilled at every tick.  Two controllers restart a monitor
\* that raises alerts.  A bucket by itself: 7 ticks to a second at 2 requests per
\* second, so a token every 3 ticks.  A monitor may be left alone, and see
\* MemoryRestart.cfg: the model may stop.
CONSTANTS
    Requests = {r1, r2, r3}
    MaxConcurrentReq = 2
    Second = 7
    RequestsPerSecond = 7
    BurstSize = 2
    MaxClock = 1
    Callers = {c1, c2, c3}
    MaxConcurrentBatch = 2
    MaxBatchSize = 1
    Sizes = {1, 2}
    BatchRateLimit = 7
    BatchMaxClock = 2
    MaxAcquires = 2
    Controllers = {o1, o2}
    Free = Free
    MaxCalls = 4
    MaxLevel = 2
    Threshold = 2
    MaxAlerts = 2
    Rate = 2
    Burst = 2
    LastTick = 10
SPECIFICATION ProtectorSpec
CHECK_DEADLOCK FALSE
INVARIANTS
    SlotsMatchHolders
    GaugeWithinSlots
    MaximumIsExact
    CountersExact
    OneMonitor
    RunningIsServed
    NoDoubleClose
    RateTypeOK
    WindowBound
    RefusedOnlyAfterAdmission
PROPERTIES
    RequestsReturn
    OnlyAlertsBlockStart
