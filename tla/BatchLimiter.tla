----------------------------- MODULE BatchLimiter -----------------------------
(***************************************************************************)
(* BatchLimiter.AcquireBatch and ReleaseBatch of                           *)
(* pkg/protection/resource_limiter.go.  Callers acquire a slot, work, and  *)
(* release it, each of them several times; ReleaseBatch is called by those *)
(* whose AcquireBatch returned nil, once each.                             *)
(***************************************************************************)
EXTENDS SimpleLimiter, FiniteSets

CONSTANTS
    Callers,
    MaxConcurrentBatch, \* capacity of batchSemaphore
    MaxBatchSize, Sizes,
    BatchRateLimit,
    MaxClock,           \* bound: the last tick
    MaxAcquires         \* bound: calls of AcquireBatch per caller

VARIABLES
    clock, batchLimiter,
    batchSemaphore,  \* slots taken
    concurrent,      \* stats.ConcurrentBatchOps
    maxConcurrent,   \* stats.MaxConcurrentBatch
    total, rejected, \* stats.TotalBatchOps, stats.RejectedBatchOps
    pc,
    current, seen,   \* the locals `current' and `maxConcurrent'
    calls,           \* calls of AcquireBatch per caller
    highest          \* history: the highest value `concurrent' ever had

counters == <<total, rejected>>
gauge    == <<concurrent, maxConcurrent, highest>>
locals   == <<current, seen>>
time     == <<clock, batchLimiter>>
vars     == <<clock, batchLimiter, batchSemaphore, concurrent, maxConcurrent,
              total, rejected, pc, current, seen, calls, highest>>

\* NewResourceProtector: a tenth of the rate, but at least one token.
batchBurstSize == IF BatchRateLimit \div 10 < 1 THEN 1 ELSE BatchRateLimit \div 10

Init ==
    /\ clock = 0
    /\ batchLimiter = NewSimpleLimiter(BatchRateLimit, batchBurstSize, 0)
    /\ batchSemaphore = 0
    /\ concurrent = 0 /\ maxConcurrent = 0 /\ highest = 0
    /\ total = 0 /\ rejected = 0
    /\ pc = [c \in Callers |-> "idle"]
    /\ current = [c \in Callers |-> 0]
    /\ seen = [c \in Callers |-> 0]
    /\ calls = [c \in Callers |-> 0]

Goto(c, l) == pc' = [pc EXCEPT ![c] = l]

Tick ==
    /\ clock < MaxClock
    /\ clock' = clock + 1
    /\ UNCHANGED <<batchLimiter, batchSemaphore, counters, gauge, pc, locals, calls>>

Reject(c) ==
    /\ rejected' = rejected + 1
    /\ Goto(c, "idle")
    /\ UNCHANGED <<total, gauge, locals>>

------------------------------------------------------------------------------
\* AcquireBatch: the size is checked first.
AcquireBatch(c) ==
    /\ pc[c] = "idle"
    /\ calls[c] < MaxAcquires
    /\ calls' = [calls EXCEPT ![c] = @ + 1]
    /\ \E size \in Sizes :
        IF size > MaxBatchSize THEN Reject(c)
        ELSE /\ Goto(c, "limit")
             /\ UNCHANGED <<counters, gauge, locals>>
    /\ UNCHANGED <<time, batchSemaphore>>

RateLimit(c) ==
    /\ pc[c] = "limit"
    /\ batchLimiter' = AfterAllow(batchLimiter, clock)
    /\ IF Allowed(batchLimiter, clock)
       THEN Goto(c, "acquire") /\ UNCHANGED <<counters, gauge, locals>>
       ELSE Reject(c)
    /\ UNCHANGED <<clock, batchSemaphore, calls>>

Acquire(c) ==
    /\ pc[c] = "acquire"
    /\ batchSemaphore < MaxConcurrentBatch
    /\ batchSemaphore' = batchSemaphore + 1
    /\ Goto(c, "count")
    /\ UNCHANGED <<time, counters, gauge, locals, calls>>

\* Mutation: the error path gives back a slot it never took.
AcquireRejectedReleasing(c) ==
    /\ pc[c] = "acquire"
    /\ Reject(c)
    /\ batchSemaphore' = IF batchSemaphore = 0 THEN 0 ELSE batchSemaphore - 1
    /\ UNCHANGED <<time, calls>>

\* The context is done, with or without a free slot (select picks any ready
\* case), or neither channel is ready and the default is taken.
AcquireRejected(c) ==
    /\ pc[c] = "acquire"
    /\ Reject(c)
    /\ UNCHANGED <<time, batchSemaphore, calls>>

Count(c) ==
    /\ pc[c] = "count"
    /\ concurrent' = concurrent + 1
    /\ current' = [current EXCEPT ![c] = concurrent + 1]
    /\ highest' = IF concurrent + 1 > highest THEN concurrent + 1 ELSE highest
    /\ total' = total + 1
    /\ Goto(c, "load")
    /\ UNCHANGED <<time, batchSemaphore, maxConcurrent, rejected, seen, calls>>

\* The compare-and-swap loop that raises the maximum.
Load(c) ==
    /\ pc[c] = "load"
    /\ seen' = [seen EXCEPT ![c] = maxConcurrent]
    /\ Goto(c, IF current[c] <= maxConcurrent THEN "working" ELSE "swap")
    /\ UNCHANGED <<time, batchSemaphore, counters, gauge, current, calls>>

\* Mutation: a failed compare-and-swap is not retried.
SwapOnce(c) ==
    /\ pc[c] = "swap"
    /\ maxConcurrent' = IF maxConcurrent = seen[c] THEN current[c] ELSE maxConcurrent
    /\ Goto(c, "working")
    /\ UNCHANGED <<time, batchSemaphore, counters, concurrent, highest, locals, calls>>

Swap(c) ==
    /\ pc[c] = "swap"
    /\ IF maxConcurrent = seen[c]
       THEN maxConcurrent' = current[c] /\ Goto(c, "working")
       ELSE UNCHANGED maxConcurrent /\ Goto(c, "load")
    /\ UNCHANGED <<time, batchSemaphore, counters, concurrent, highest, locals, calls>>

\* ReleaseBatch: the gauge first, then the slot.
Uncount(c) ==
    /\ pc[c] = "working"
    /\ concurrent' = concurrent - 1
    /\ Goto(c, "release")
    /\ UNCHANGED <<time, batchSemaphore, counters, maxConcurrent, highest, locals, calls>>

\* The receive blocks while the channel is empty.
Release(c) ==
    /\ pc[c] = "release"
    /\ batchSemaphore > 0
    /\ batchSemaphore' = batchSemaphore - 1
    /\ Goto(c, "idle")
    /\ UNCHANGED <<time, counters, gauge, locals, calls>>

------------------------------------------------------------------------------
Step(c) ==
    \/ RateLimit(c) \/ Acquire(c) \/ AcquireRejected(c) \/ Count(c) \/ Load(c)
    \/ Swap(c) \/ Uncount(c) \/ Release(c)

AllIdle == \A c \in Callers : pc[c] = "idle"

Done == AllIdle /\ UNCHANGED vars

Next == Tick \/ (\E c \in Callers : AcquireBatch(c) \/ Step(c)) \/ Done

Spec == Init /\ [][Next]_vars

\* Callers inside AcquireBatch, their batch or ReleaseBatch keep going.
FairSpec == Spec /\ \A c \in Callers : WF_vars(Step(c))

------------------------------------------------------------------------------
\* The semaphore is a channel: it never holds more than its capacity.
TypeOK ==
    /\ clock \in 0..MaxClock
    /\ batchSemaphore \in 0..MaxConcurrentBatch
    /\ concurrent \in Nat /\ maxConcurrent \in Nat /\ highest \in Nat
    /\ total \in Nat /\ rejected \in Nat
    /\ pc \in [Callers -> {"idle", "limit", "acquire", "count", "load", "swap",
                           "working", "release"}]
    /\ current \in [Callers -> Nat] /\ seen \in [Callers -> Nat]
    /\ calls \in [Callers -> 0..MaxAcquires]

Holders == {c \in Callers : pc[c] \in {"count", "load", "swap", "working", "release"}}

\* Each holder has a slot of its own: ReleaseBatch never blocks and never
\* takes another caller's slot.
SlotsMatchHolders == batchSemaphore = Cardinality(Holders)

\* Racing updates never lose the maximum.
MaximumIsExact ==
    (\A c \in Callers : pc[c] \notin {"load", "swap"}) => maxConcurrent = highest

\* Between calls the gauge is back at zero and every call of AcquireBatch was
\* counted exactly once, as started or as rejected.
CallsMade == {x \in Callers \X (1..MaxAcquires) : x[2] <= calls[x[1]]}

CallsAccounted ==
    AllIdle => concurrent = 0 /\ total + rejected = Cardinality(CallsMade)

\* Every caller gets out of AcquireBatch and of ReleaseBatch.
NobodyBlocks == \A c \in Callers : pc[c] # "idle" ~> pc[c] = "idle"
==============================================================================
