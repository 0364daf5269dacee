----------------------------- MODULE MCProtection -----------------------------
(***************************************************************************)
(* A ResourceProtector: the limits on requests (SecureBodyReader) and on   *)
(* batches (BatchLimiter), each with a semaphore, counters and a bucket of *)
(* its own, the monitor of memory (MemoryMonitor), and such a bucket by    *)
(* itself (RateLimit).  They share no state, so that one of them is used   *)
(* at a time and the others stay as NewResourceProtector made them.        *)
(***************************************************************************)
EXTENDS SecureBodyReader, MemoryMonitor, RateLimit

CONSTANTS Callers, MaxConcurrentBatch, MaxBatchSize, Sizes, BatchRateLimit,
    BatchMaxClock, MaxAcquires

ASSUME BatchAssumption ==
    /\ IsFiniteSet(Callers)
    /\ MaxConcurrentBatch \in Nat
    /\ MaxBatchSize \in Nat /\ Sizes \subseteq Nat
    /\ BatchRateLimit \in 1..Second
    /\ BatchMaxClock \in Nat /\ MaxAcquires \in Nat

VARIABLES used, batchClock, batchLimiter, batchSemaphore, batchConcurrent,
    batchMaxConcurrent, batchTotal, batchRejected, batchPc, batchCurrent, batchSeen,
    batchCalls, batchHighest

B == INSTANCE BatchLimiter WITH
        clock <- batchClock, concurrent <- batchConcurrent,
        maxConcurrent <- batchMaxConcurrent, total <- batchTotal,
        rejected <- batchRejected, pc <- batchPc, current <- batchCurrent,
        seen <- batchSeen, highest <- batchHighest, calls <- batchCalls, MaxClock <- BatchMaxClock

batchVars == <<batchClock, batchLimiter, batchSemaphore, batchConcurrent,
               batchMaxConcurrent, batchTotal, batchRejected, batchPc, batchCurrent,
               batchSeen, batchCalls, batchHighest>>

all == <<used, vars, batchVars, monitorVars, rateVars>>

ProtectorInit ==
    /\ used \in {"requests", "batches", "monitor", "bucket"}
    /\ Init /\ B!Init /\ MonitorInit /\ RateInit

Requesting(A) == used = "requests" /\ A /\ UNCHANGED <<used, batchVars, monitorVars, rateVars>>
Batching(A)   == used = "batches" /\ A /\ UNCHANGED <<used, vars, monitorVars, rateVars>>
Monitoring(A) == used = "monitor" /\ A /\ UNCHANGED <<used, vars, batchVars, rateVars>>
Limiting(A)   == used = "bucket" /\ A /\ UNCHANGED <<used, vars, batchVars, monitorVars>>

ProtectorNext ==
    Requesting(Next) \/ Batching(B!Next) \/ Monitoring(MonitorNext) \/ Limiting(RateNext)

\* The fairness of the modules that have any.
ProtectorSpec ==
    /\ ProtectorInit /\ [][ProtectorNext]_all
    /\ \A r \in Requests : WF_all(Requesting(Step(r)))
    /\ \A c \in Callers : WF_all(Batching(B!Step(c)))
    /\ \A c \in Controllers : /\ SF_all(Monitoring(StartRunning(c) \/ StartStopped(c)))
                              /\ WF_all(Monitoring(StartSpawn(c)))
    /\ \A m \in Monitors : WF_all(Monitoring(Monitor(m)))

------------------------------------------------------------------------------
\* The types of the three parts.
ProtectorTypeOK == TypeOK /\ B!TypeOK /\ MonitorTypeOK

\* Every request and every batch is accounted for once the races are over, as
\* started, rejected or timed out.  The batch semaphore, a channel, holds a slot
\* for each holder and never more than its capacity, so that ReleaseBatch takes
\* nobody else's slot; racing updates never lose the largest number of
\* concurrent batches.
CountersExact ==
    /\ ProtectorTypeOK /\ CallsAccounted
    /\ B!SlotsMatchHolders /\ B!MaximumIsExact /\ B!CallsAccounted

\* Every request returns and every slot comes back, bodies or no bodies; every
\* caller gets out of AcquireBatch and of ReleaseBatch.
RequestsReturn == (used = "requests" => EveryRequestReturns) /\ B!NobodyBlocks
==============================================================================
