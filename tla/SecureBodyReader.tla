--------------------------- MODULE SecureBodyReader ---------------------------
(***************************************************************************)
(* ResourceProtector.SecureBodyReader of pkg/protection/resource_limiter.go *)
(* run by concurrent HTTP requests: rate limit, concurrency slot, counters *)
(* updated with atomics, and a body read in a goroutine of its own that    *)
(* races a timeout.  The deferred calls run in reverse order: the counter  *)
(* goes down before the slot is given back.                                *)
(***************************************************************************)
EXTENDS SimpleLimiter, FiniteSets

CONSTANTS
    Requests,          \* goroutines, each reading one body
    MaxConcurrentReq,  \* capacity of requestSemaphore
    RequestsPerSecond, BurstSize,
    MaxClock           \* bound: the last tick

ASSUME SecureBodyReaderAssumption ==
    /\ IsFiniteSet(Requests)
    /\ MaxConcurrentReq \in Nat
    /\ RequestsPerSecond \in 1..Second
    /\ BurstSize \in Nat
    /\ MaxClock \in Nat

VARIABLES
    clock, globalLimiter,
    requestSemaphore,   \* slots taken
    concurrent,         \* stats.ConcurrentRequests
    maxConcurrent,      \* stats.MaxConcurrentReq
    total, rejected, rateLimitHits,
    pc,
    current, seen,      \* the locals `current' and `maxConcurrent'
    reader,             \* the goroutine that reads the body
    outcome,            \* what the call returned
    highest             \* history: the highest value `concurrent' ever had

counters == <<total, rejected, rateLimitHits>>
gauge    == <<concurrent, maxConcurrent, highest>>
locals   == <<current, seen>>
time     == <<clock, globalLimiter>>
vars     == <<clock, globalLimiter, requestSemaphore, concurrent, maxConcurrent,
              total, rejected, rateLimitHits, pc, current, seen, reader, outcome,
              highest>>

Init ==
    /\ clock = 0
    /\ globalLimiter = NewSimpleLimiter(RequestsPerSecond, BurstSize, 0)
    /\ requestSemaphore = 0
    /\ concurrent = 0 /\ maxConcurrent = 0 /\ highest = 0
    /\ total = 0 /\ rejected = 0 /\ rateLimitHits = 0
    /\ pc = [r \in Requests |-> "limit"]
    /\ current = [r \in Requests |-> 0]
    /\ seen = [r \in Requests |-> 0]
    /\ reader = [r \in Requests |-> "none"]
    /\ outcome = [r \in Requests |-> "none"]

Goto(r, l)   == pc' = [pc EXCEPT ![r] = l]
Return(r, o) == outcome' = [outcome EXCEPT ![r] = o]

Tick ==
    /\ clock < MaxClock
    /\ clock' = clock + 1
    /\ UNCHANGED <<globalLimiter, requestSemaphore, counters, gauge, pc, locals,
                   reader, outcome>>

------------------------------------------------------------------------------
RateLimit(r) ==
    /\ pc[r] = "limit"
    /\ globalLimiter' = AfterAllow(globalLimiter, clock)
    /\ IF Allowed(globalLimiter, clock)
       THEN /\ Goto(r, "acquire")
            /\ UNCHANGED <<rateLimitHits, outcome>>
       ELSE /\ rateLimitHits' = rateLimitHits + 1
            /\ Return(r, "rateLimited")
            /\ Goto(r, "returned")
    /\ UNCHANGED <<clock, requestSemaphore, total, rejected, gauge, locals, reader>>

\* Mutation: an unbuffered count in place of the channel's capacity.
AcquireUnbounded(r) ==
    /\ pc[r] = "acquire"
    /\ requestSemaphore' = requestSemaphore + 1
    /\ Goto(r, "count")
    /\ UNCHANGED <<time, counters, gauge, locals, reader, outcome>>

\* select with a default: a full semaphore rejects at once.
Acquire(r) ==
    /\ pc[r] = "acquire"
    /\ IF requestSemaphore < MaxConcurrentReq
       THEN /\ requestSemaphore' = requestSemaphore + 1
            /\ Goto(r, "count")
            /\ UNCHANGED <<rejected, outcome>>
       ELSE /\ rejected' = rejected + 1
            /\ Return(r, "rejected")
            /\ Goto(r, "returned")
            /\ UNCHANGED requestSemaphore
    /\ UNCHANGED <<time, total, rateLimitHits, gauge, locals, reader>>

Count(r) ==
    /\ pc[r] = "count"
    /\ concurrent' = concurrent + 1
    /\ current' = [current EXCEPT ![r] = concurrent + 1]
    /\ highest' = IF concurrent + 1 > highest THEN concurrent + 1 ELSE highest
    /\ total' = total + 1
    /\ Goto(r, "load")
    /\ UNCHANGED <<time, requestSemaphore, maxConcurrent, rejected, rateLimitHits,
                   seen, reader, outcome>>

\* The compare-and-swap loop that raises the maximum.
Load(r) ==
    /\ pc[r] = "load"
    /\ seen' = [seen EXCEPT ![r] = maxConcurrent]
    /\ Goto(r, IF current[r] <= maxConcurrent THEN "read" ELSE "swap")
    /\ UNCHANGED <<time, requestSemaphore, counters, gauge, current, reader, outcome>>

\* Mutation: a plain store in place of the compare-and-swap.
SwapBlindly(r) ==
    /\ pc[r] = "swap"
    /\ maxConcurrent' = current[r]
    /\ Goto(r, "read")
    /\ UNCHANGED <<time, requestSemaphore, counters, concurrent, highest, locals,
                   reader, outcome>>

Swap(r) ==
    /\ pc[r] = "swap"
    /\ IF maxConcurrent = seen[r]
       THEN maxConcurrent' = current[r] /\ Goto(r, "read")
       ELSE UNCHANGED maxConcurrent /\ Goto(r, "load")
    /\ UNCHANGED <<time, requestSemaphore, counters, concurrent, highest, locals,
                   reader, outcome>>

StartReader(r) ==
    /\ pc[r] = "read"
    /\ reader' = [reader EXCEPT ![r] = "reading"]
    /\ Goto(r, "select")
    /\ UNCHANGED <<time, requestSemaphore, counters, gauge, locals, outcome>>

\* io.ReadAll ends, with the body or an error; or never, if the client stalls.
ReaderDone(r) ==
    /\ reader[r] = "reading"
    /\ reader' = [reader EXCEPT ![r] = "done"]
    /\ UNCHANGED <<time, requestSemaphore, counters, gauge, pc, locals, outcome>>

SelectDone(r) ==
    /\ pc[r] = "select"
    /\ reader[r] = "done"
    /\ Return(r, "body")
    /\ Goto(r, "uncount")
    /\ UNCHANGED <<time, requestSemaphore, counters, gauge, locals, reader>>

\* Mutations: the timeout returns past the deferred calls; the request waits
\* for its reader even after the deadline.
SelectTimeoutLeaking(r) ==
    /\ pc[r] = "select"
    /\ rejected' = rejected + 1
    /\ Return(r, "timeout")
    /\ Goto(r, "returned")
    /\ UNCHANGED <<time, requestSemaphore, total, rateLimitHits, gauge, locals, reader>>

SelectTimeoutJoin(r) ==
    /\ pc[r] = "select"
    /\ reader[r] = "done"
    /\ rejected' = rejected + 1
    /\ Return(r, "timeout")
    /\ Goto(r, "uncount")
    /\ UNCHANGED <<time, requestSemaphore, total, rateLimitHits, gauge, locals, reader>>

\* The reader is left behind: it may run on after the slot is given back.
SelectTimeout(r) ==
    /\ pc[r] = "select"
    /\ rejected' = rejected + 1
    /\ Return(r, "timeout")
    /\ Goto(r, "uncount")
    /\ UNCHANGED <<time, requestSemaphore, total, rateLimitHits, gauge, locals, reader>>

\* Mutation: the deferred calls in the order they were deferred.
UncountSecond(r) ==
    /\ pc[r] = "uncount"
    /\ requestSemaphore' = requestSemaphore - 1
    /\ Goto(r, "release")
    /\ UNCHANGED <<time, counters, gauge, locals, reader, outcome>>

Uncount(r) ==
    /\ pc[r] = "uncount"
    /\ concurrent' = concurrent - 1
    /\ Goto(r, "release")
    /\ UNCHANGED <<time, requestSemaphore, counters, maxConcurrent, highest, locals,
                   reader, outcome>>

Release(r) ==
    /\ pc[r] = "release"
    /\ requestSemaphore' = requestSemaphore - 1
    /\ Goto(r, "returned")
    /\ UNCHANGED <<time, counters, gauge, locals, reader, outcome>>

------------------------------------------------------------------------------
Step(r) ==
    \/ RateLimit(r) \/ Acquire(r) \/ Count(r) \/ Load(r) \/ Swap(r)
    \/ StartReader(r) \/ SelectDone(r) \/ SelectTimeout(r)
    \/ Uncount(r) \/ Release(r)

AllReturned == \A r \in Requests : pc[r] = "returned"

Done == AllReturned /\ UNCHANGED vars

Next == Tick \/ (\E r \in Requests : Step(r) \/ ReaderDone(r)) \/ Done

Spec == Init /\ [][Next]_vars

\* Goroutines keep running and deadlines pass; no body need ever arrive.
FairSpec == Spec /\ \A r \in Requests : WF_vars(Step(r))

------------------------------------------------------------------------------
Places == {"limit", "acquire", "count", "load", "swap", "read", "select",
           "uncount", "release", "returned"}

TypeOK ==
    /\ clock \in 0..MaxClock
    /\ requestSemaphore \in 0..MaxConcurrentReq
    /\ concurrent \in Nat /\ maxConcurrent \in Nat /\ highest \in Nat
    /\ total \in Nat /\ rejected \in Nat /\ rateLimitHits \in Nat
    /\ pc \in [Requests -> Places]
    /\ current \in [Requests -> Nat] /\ seen \in [Requests -> Nat]
    /\ reader \in [Requests -> {"none", "reading", "done"}]
    /\ outcome \in [Requests -> {"none", "rateLimited", "rejected", "body", "timeout"}]

Holders == {r \in Requests : pc[r] \notin {"limit", "acquire", "returned"}}
Counted == {r \in Requests : pc[r] \in {"load", "swap", "read", "select", "uncount"}}

\* The slots taken are those of the requests inside: none is leaked on a
\* timeout or an error, none is given back twice.
SlotsMatchHolders == requestSemaphore = Cardinality(Holders)

\* The published gauge never shows more requests than hold slots.
GaugeWithinSlots == concurrent >= 0 /\ concurrent <= requestSemaphore

\* Racing updates never lose the maximum: once no request is inside the loop,
\* it is the highest number of requests there ever were at a time.
MaximumIsExact ==
    (\A r \in Requests : pc[r] \notin {"load", "swap"}) => maxConcurrent = highest

\* After the last request every call is accounted for: once, or twice if it
\* was admitted and then timed out.
CallsAccounted ==
    AllReturned =>
        /\ concurrent = 0
        /\ total + rejected + rateLimitHits
             = Cardinality(Requests) + Cardinality({r \in Requests : outcome[r] = "timeout"})

\* Every request returns and every slot comes back, bodies or no bodies.
EveryRequestReturns == <>[](AllReturned /\ requestSemaphore = 0)
==============================================================================
