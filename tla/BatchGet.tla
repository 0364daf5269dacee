------------------------------- MODULE BatchGet -------------------------------
(***************************************************************************)
(* Query.BatchGetWithOptions of pkg/query/batch_get.go over                *)
(* queryExecutor.ExecuteBatchGet of query_executor.go: the keys of one     *)
(* call are cut into chunks, read one after the other or by goroutines     *)
(* that share a semaphore; keys DynamoDB left unprocessed are asked for    *)
(* again; what comes back, in any order, is put in the order of the keys.  *)
(*                                                                         *)
(* An item is the key it is stored under.                                  *)
(***************************************************************************)
EXTENDS Integers, Sequences, FiniteSets

CONSTANTS
    Keys,
    BadKey,       \* a key that cannot be converted
    Nil,          \* an empty slot
    KeysProjected, \* items come with their key attributes: no projection, or
                  \* one that names them
    MaxChunk,     \* 100 in the code: the largest chunk
    MaxRetries,   \* RetryPolicy.MaxRetries
    ChunkSizes, Concurrencies, \* what callers ask for
    MaxKeys       \* bound: keys per call

VARIABLES
    keys, table,       \* the call, and what is stored
    opts,              \* its options
    stage,             \* "new", "running", then the outcome: "ok" or "error"
    result,            \* the items the call answered with
    pc, remaining, collected, attempts, current, \* per chunk: place and locals
    ordered,           \* slots, by index of the key
    retrieved,         \* the counter of the progress reporter
    skipped,           \* history: chunks whose error the handler took
    callbacks, highest \* history: calls of the progress callback, largest count

call   == <<keys, table>>
report == <<retrieved, callbacks, highest>>
chunk  == <<pc, remaining, collected, attempts, current>>
vars   == <<keys, table, opts, stage, result, pc, remaining, collected, attempts,
            current, ordered, retrieved, skipped, callbacks, highest>>

Elements(s) == {s[i] : i \in DOMAIN s}

------------------------------------------------------------------------------
Options == [size : ChunkSizes, parallel : BOOLEAN, concurrency : Concurrencies,
            retry : BOOLEAN, handler : BOOLEAN]

\* A nil retry policy stays nil: the caller wants no retries.
normalizeBatchGetOptions(o) ==
    LET size        == IF o.size <= 0 \/ o.size > MaxChunk THEN MaxChunk ELSE o.size
        concurrency == IF o.concurrency <= 0 THEN 1 ELSE o.concurrency
        parallel    == o.parallel /\ concurrency # 1
    IN  [size |-> size, parallel |-> parallel, retry |-> o.retry, handler |-> o.handler,
         concurrency |-> IF parallel THEN concurrency ELSE 1]

First(c) == (c - 1) * opts.size + 1
Last(c)  == IF c * opts.size > Len(keys) THEN Len(keys) ELSE c * opts.size

ChunkCount(n, size) == (n + size - 1) \div size

Chunks == {c \in 1..MaxKeys : pc[c] # "none"}

ChunkKeys(c) == {keys[i] : i \in First(c)..Last(c)}

\* The chunk that key i is in.
ChunkOf(i) == ((i - 1) \div opts.size) + 1

Init ==
    /\ keys \in UNION {[1..n -> Keys \cup {BadKey}] : n \in 0..MaxKeys}
    /\ table \in SUBSET Keys
    /\ opts \in Options
    /\ stage = "new" /\ result = <<>>
    /\ pc = [c \in 1..MaxKeys |-> "none"]
    /\ remaining = [c \in 1..MaxKeys |-> {}]
    /\ collected = [c \in 1..MaxKeys |-> <<>>]
    /\ attempts = [c \in 1..MaxKeys |-> 0]
    /\ current = [c \in 1..MaxKeys |-> 0]
    /\ ordered = <<>>
    /\ retrieved = 0 /\ skipped = {} /\ callbacks = 0 /\ highest = 0

convertBatchGetKeysFails == BadKey \in Elements(keys)

\* Without keys, or with one that cannot be converted, nothing is sent.
Refuse ==
    /\ stage = "new"
    /\ keys = <<>> \/ convertBatchGetKeysFails
    /\ stage' = "error"
    /\ UNCHANGED <<call, opts, result, chunk, ordered, report, skipped>>

buildBatchGetPlan ==
    /\ stage = "new"
    /\ keys # <<>> /\ ~convertBatchGetKeysFails
    /\ stage' = "running"
    /\ opts' = normalizeBatchGetOptions(opts)
    /\ pc' = [c \in 1..MaxKeys |->
                IF c <= ChunkCount(Len(keys), opts'.size) THEN "waiting" ELSE "none"]
    /\ ordered' = [i \in DOMAIN keys |-> Nil]
    /\ UNCHANGED <<call, result, remaining, collected, attempts, current, report, skipped>>

------------------------------------------------------------------------------
Goto(c, l) == pc' = [pc EXCEPT ![c] = l]

InFlight == {c \in Chunks : pc[c] \notin {"waiting", "done", "error"}}

\* Goroutines take a slot of the semaphore in any order; the loop takes the
\* chunks in turn and leaves at the first error.
Slot(c) ==
    IF opts.parallel THEN Cardinality(InFlight) < opts.concurrency
    ELSE \A d \in 1..c - 1 : pc[d] = "done"

ProcessChunk(c) ==
    /\ stage = "running"
    /\ pc[c] = "waiting" /\ Slot(c)
    /\ Goto(c, "request")
    /\ remaining' = [remaining EXCEPT ![c] = ChunkKeys(c)]
    /\ UNCHANGED <<call, opts, stage, result, collected, attempts, current, ordered,
                   report, skipped>>

\* DynamoDB refuses a request that names a key twice.
Acceptable(c) == Cardinality(ChunkKeys(c)) = Last(c) - First(c) + 1

\* The items of some keys, in any order.
Responses(ks) ==
    {s \in [1..Cardinality(ks) -> ks] : Elements(s) = ks}

mayRetry(c) == opts.retry /\ attempts[c] < MaxRetries

\* One request of executeBatchGetWithRetry and what is made of its answer.
BatchGetItem(c) ==
    /\ pc[c] = "request" /\ Acceptable(c)
    /\ \E processed \in SUBSET remaining[c] :
        LET left == remaining[c] \ processed
        IN  /\ \E items \in Responses(processed \cap table) :
                  collected' = [collected EXCEPT ![c] = @ \o items]
            /\ remaining' = [remaining EXCEPT ![c] = left]
            /\ IF left = {} THEN Goto(c, "align") /\ UNCHANGED attempts
               ELSE IF mayRetry(c)
               THEN Goto(c, "backoff") /\ attempts' = [attempts EXCEPT ![c] = @ + 1]
               ELSE Goto(c, "failed") /\ UNCHANGED attempts
    /\ UNCHANGED <<call, opts, stage, result, current, ordered, report, skipped>>

Backoff(c) ==
    /\ pc[c] = "backoff"
    /\ Goto(c, "request")
    /\ UNCHANGED <<call, opts, stage, result, remaining, collected, attempts, current,
                   ordered, report, skipped>>

\* The deadline is near, there is no client, DynamoDB says no, or an item
\* cannot be decrypted.
RequestFails(c) ==
    /\ pc[c] = "request"
    /\ Goto(c, "failed")
    /\ UNCHANGED <<call, opts, stage, result, remaining, collected, attempts, current,
                   ordered, report, skipped>>

\* OnChunkError may take the error; what the chunk has collected is dropped.
HandlerTakes(c) ==
    /\ pc[c] = "failed" /\ opts.handler
    /\ skipped' = skipped \cup {c}
    /\ Goto(c, "done")
    /\ UNCHANGED <<call, opts, stage, result, remaining, collected, attempts, current,
                   ordered, report>>

ChunkError(c) ==
    /\ pc[c] = "failed"
    /\ Goto(c, "error")
    /\ UNCHANGED <<call, opts, stage, result, remaining, collected, attempts, current,
                   ordered, report, skipped>>

------------------------------------------------------------------------------
keyMatchesItem(k, item) == KeysProjected /\ item = k

\* The first item not yet used that has the key, or 0.
findMatchingItem(k, items, used) ==
    LET found == {i \in DOMAIN items \ used : keyMatchesItem(k, items[i])}
    IN  IF found = {} THEN 0 ELSE CHOOSE i \in found : \A j \in found : i <= j

\* Mutation: items are taken to come back in the order of the keys.
alignByPosition(c, items) ==
    [ordered |-> [i \in DOMAIN keys |->
                    IF i - First(c) + 1 \in DOMAIN items /\ i <= Last(c)
                    THEN items[i - First(c) + 1] ELSE ordered[i]],
     matched |-> Len(items)]

\* Key by key: the slots after the keys up to the i-th were looked for.
alignChunkResults(c, items) ==
    LET aligned[i \in First(c) - 1..Last(c)] ==
            IF i < First(c) THEN [ordered |-> ordered, used |-> {}, matched |-> 0]
            ELSE LET before == aligned[i - 1]
                     idx    == findMatchingItem(keys[i], items, before.used)
                 IN  IF idx = 0 THEN before
                     ELSE [ordered |-> [before.ordered EXCEPT ![i] = items[idx]],
                           used    |-> before.used \cup {idx},
                           matched |-> before.matched + 1]
        last == aligned[Last(c)]
    IN  [ordered |-> last.ordered, matched |-> last.matched]

\* Chunks write different slots; the counter is read and written under a lock.
AlignChunk(c) ==
    /\ pc[c] = "align"
    /\ LET aligned == alignChunkResults(c, collected[c])
       IN  /\ ordered' = aligned.ordered
           /\ retrieved' = retrieved + aligned.matched
           /\ current' = [current EXCEPT ![c] = retrieved']
    /\ Goto(c, "callback")
    /\ UNCHANGED <<call, opts, stage, result, remaining, collected, attempts,
                   callbacks, highest, skipped>>

\* The callback runs outside the lock: calls may come in another order.
ProgressCallback(c) ==
    /\ pc[c] = "callback"
    /\ callbacks' = callbacks + 1
    /\ highest' = IF current[c] > highest THEN current[c] ELSE highest
    /\ Goto(c, "done")
    /\ UNCHANGED <<call, opts, stage, result, remaining, collected, attempts, current,
                   ordered, retrieved, skipped>>

------------------------------------------------------------------------------
\* Mutation: the call does not wait for the other goroutines.
FinishedAtError == \E c \in Chunks : pc[c] = "error"

\* The goroutines are waited for; the loop is left at once.
Finished ==
    IF opts.parallel THEN \A c \in Chunks : pc[c] \in {"done", "error"}
    ELSE \E c \in Chunks : pc[c] = "error"

ReturnError ==
    /\ stage = "running" /\ Finished
    /\ \E c \in Chunks : pc[c] = "error"
    /\ stage' = "error"
    /\ UNCHANGED <<call, opts, result, chunk, ordered, report, skipped>>

flattenBatchGetResults(slots) ==
    LET filled(item) == item # Nil IN SelectSeq(slots, filled)

ReturnItems ==
    /\ stage = "running"
    /\ \A c \in Chunks : pc[c] = "done"
    /\ stage' = "ok"
    /\ result' = flattenBatchGetResults(ordered)
    /\ UNCHANGED <<call, opts, chunk, ordered, report, skipped>>

------------------------------------------------------------------------------
Chunk(c) ==
    \/ ProcessChunk(c) \/ BatchGetItem(c) \/ Backoff(c) \/ RequestFails(c)
    \/ HandlerTakes(c) \/ ChunkError(c) \/ AlignChunk(c) \/ ProgressCallback(c)

Return == Refuse \/ buildBatchGetPlan \/ ReturnError \/ ReturnItems

Returned == stage \in {"ok", "error"}

Done == Returned /\ UNCHANGED vars

Next == (\E c \in 1..MaxKeys : Chunk(c)) \/ Return \/ Done

\* The goroutines run, and DynamoDB answers: the SDK's calls end.
Fairness == (\A c \in 1..MaxKeys : WF_vars(Chunk(c))) /\ WF_vars(Return)

Spec == Init /\ [][Next]_vars

FairSpec == Spec /\ Fairness

------------------------------------------------------------------------------
\* Slots hold keys of their own, and every chunk is at one of its places.
TypeOK ==
    /\ stage \in {"new", "running", "ok", "error"}
    /\ table \subseteq Keys
    /\ pc \in [1..MaxKeys -> {"none", "waiting", "request", "backoff", "failed",
                              "align", "callback", "done", "error"}]
    /\ \A c \in 1..MaxKeys : remaining[c] \subseteq Keys
    /\ \A c \in 1..MaxKeys : Elements(collected[c]) \subseteq table
    /\ attempts \in [1..MaxKeys -> 0..MaxRetries]
    /\ current \in [1..MaxKeys -> 0..MaxKeys]
    /\ Elements(ordered) \subseteq Keys \cup {Nil}
    /\ retrieved \in 0..MaxKeys /\ highest \in 0..MaxKeys
    /\ skipped \subseteq 1..MaxKeys /\ callbacks \in 0..MaxKeys

\* What a read of the keys one by one would give, without the chunks that the
\* error handler has agreed to miss.
Expected ==
    LET at == [i \in DOMAIN keys |->
                 IF keys[i] \in table /\ ChunkOf(i) \notin skipped THEN keys[i] ELSE Nil]
        filled(item) == item # Nil
    IN  SelectSeq(at, filled)

\* However chunks interleave, requests are cut short and items come back
\* shuffled, a call that succeeds answers with every stored item asked for, in
\* the order of the keys and once per key, except for what its handler was
\* told is missing ("preserve ordering guarantees", CHANGELOG.md:251).
AlignedResult == stage = "ok" => result = Expected

\* When the call has returned none of its goroutines is at work, nor will one
\* write into the slots or call back.
QuietAfterReturn == Returned => InFlight = {}

\* In the sequential loop nothing is asked for after a chunk failed.
StopsAtError ==
    ~opts.parallel => \A c, d \in Chunks : c < d /\ pc[c] = "error" => pc[d] = "waiting"

\* Progress never runs ahead of the items that are in their slots; when the
\* call succeeds there was a callback for every chunk not skipped, and one of
\* them, in whatever order they came, gave the full count.
Filled == {i \in DOMAIN ordered : ordered[i] # Nil}

ProgressExact ==
    /\ highest <= Cardinality(Filled)
    /\ stage = "ok" => /\ callbacks = Cardinality(Chunks \ skipped)
                       /\ highest = Cardinality(Filled)

\* The call returns, however often DynamoDB leaves keys unprocessed.
CallReturns == <>Returned
==============================================================================
