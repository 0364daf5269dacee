----------------------------- MODULE BatchUpdate -----------------------------
(***************************************************************************)
(* Query.BatchUpdateWithOptions of pkg/query/batch_operations.go: items    *)
(* are updated one UpdateItem at a time, each with retries; batches of     *)
(* them run one after the other, or in goroutines that the calling loop    *)
(* starts as the semaphore has room.                                       *)
(*                                                                         *)
(* An item is its index in the call.  Updates only set fields: an update   *)
(* that is repeated after a lost answer sets the same values, but for how  *)
(* often those of encrypted fields were encrypted.                         *)
(***************************************************************************)
EXTENDS Integers, FiniteSets

CONSTANTS
    MaxBatch,            \* 25 in the code
    DefaultConcurrency,  \* 5 in the code
    MaxRetries,          \* RetryPolicy.MaxRetries
    Sizes, Concurrencies, \* what callers ask for
    MaxItems             \* bound: items per call

VARIABLES
    total, bad,     \* the number of items, and those no key can be extracted from
    opts,
    encrypted,      \* the model has encrypted fields among those to set
    stage,          \* "new", "running", then "ok" or "error"
    pc, item, attempts, current, \* per batch: place, and the locals of its loop
    processed,
    updated,        \* items whose update took effect
    layers, stored, \* per item: how often its values, in the update builder and
                    \* in the table, were encrypted
    reported,       \* history: items of batches whose error the handler took
    highest         \* history: the largest progress reported

args    == <<total, bad, encrypted>>
batch   == <<pc, item, attempts, current>>
effects == <<updated, layers, stored>>
vars    == <<total, bad, opts, encrypted, stage, pc, item, attempts, current, processed,
             updated, layers, stored, reported, highest>>

Options == [size : Sizes, parallel : BOOLEAN, concurrency : Concurrencies,
            retry : BOOLEAN, handler : BOOLEAN]

Init ==
    /\ total \in 0..MaxItems
    /\ bad \in SUBSET (1..total)
    /\ opts \in Options /\ encrypted \in BOOLEAN
    /\ stage = "new"
    /\ pc = [b \in 1..MaxItems |-> "none"]
    /\ item = [b \in 1..MaxItems |-> 0]
    /\ attempts = [b \in 1..MaxItems |-> 0]
    /\ current = [b \in 1..MaxItems |-> 0]
    /\ layers = [i \in 1..MaxItems |-> 0] /\ stored = [i \in 1..MaxItems |-> 0]
    /\ processed = 0 /\ updated = {} /\ reported = {} /\ highest = 0

------------------------------------------------------------------------------
\* Options as the code uses them.
effective(o) ==
    [size        |-> IF o.size <= 0 \/ o.size > MaxBatch THEN MaxBatch ELSE o.size,
     concurrency |-> IF o.concurrency <= 0 THEN DefaultConcurrency ELSE o.concurrency,
     parallel |-> o.parallel, retry |-> o.retry, handler |-> o.handler]

BatchCount(size) == (total + size - 1) \div size

First(b) == (b - 1) * opts.size + 1
Last(b)  == IF b * opts.size > total THEN total ELSE b * opts.size
BatchOf(i) == ((i - 1) \div opts.size) + 1

Batches == {b \in 1..MaxItems : pc[b] # "none"}

prepareBatches ==
    /\ stage = "new" /\ total > 0
    /\ stage' = "running"
    /\ opts' = effective(opts)
    /\ pc' = [b \in 1..MaxItems |->
                IF b <= BatchCount(opts'.size) THEN "waiting" ELSE "none"]
    /\ UNCHANGED <<args, item, attempts, current, processed, effects, reported,
                   highest>>

NothingToDo ==
    /\ stage = "new" /\ total = 0
    /\ stage' = "ok"
    /\ UNCHANGED <<args, opts, batch, processed, effects, reported, highest>>

------------------------------------------------------------------------------
Goto(b, l) == pc' = [pc EXCEPT ![b] = l]

Ended(b) == pc[b] \in {"done", "error"}

\* Who holds a slot of the semaphore.
Holders == {b \in Batches : pc[b] # "waiting" /\ ~Ended(b)}

\* The loop starts batches in their order, when there is a free slot, or, if
\* not parallel, when the batch before went well.
StartBatch(b) ==
    /\ stage = "running" /\ pc[b] = "waiting"
    /\ \A a \in 1..b - 1 : pc[a] # "waiting"
    /\ IF opts.parallel THEN Cardinality(Holders) < opts.concurrency
       ELSE \A a \in 1..b - 1 : pc[a] = "done"
    /\ Goto(b, "update")
    /\ item' = [item EXCEPT ![b] = First(b)]
    /\ UNCHANGED <<args, opts, stage, attempts, current, processed, effects, reported,
                   highest>>

\* No key, no request.
ExtractKeyFails(b) ==
    /\ pc[b] = "update" /\ item[b] \in bad
    /\ Goto(b, "failed")
    /\ UNCHANGED <<args, opts, stage, item, attempts, current, processed, effects,
                   reported, highest>>

\* EncryptUpdateExpressionValues replaces the values in the update builder's own
\* map, whatever it encrypted before.
Encrypt(i) == layers' = [layers EXCEPT ![i] = IF encrypted THEN layers[i] + 1 ELSE layers[i]]

Update(i) ==
    /\ updated' = updated \cup {i}
    /\ stored' = [stored EXCEPT ![i] = layers'[i]]

UpdateItem(b) ==
    /\ pc[b] = "update" /\ item[b] \notin bad
    /\ Encrypt(item[b]) /\ Update(item[b])
    /\ attempts' = [attempts EXCEPT ![b] = 0]
    /\ IF item[b] = Last(b) THEN Goto(b, "progress") /\ UNCHANGED item
       ELSE item' = [item EXCEPT ![b] = @ + 1] /\ UNCHANGED pc
    /\ UNCHANGED <<args, opts, stage, current, processed, reported, highest>>

\* Mutation: retries are not counted.
nextAttemptSame(n) == n

nextAttempt(n) == n + 1

\* Throttling and errors of the server, told by their names, are tried again.
Errors == {"throttled", "server", "condition", "other"}
isRetryableError(err) == err \in {"throttled", "server"}

\* UpdateItem answers with an error, having taken effect or not.
UpdateFails(b) ==
    /\ pc[b] = "update" /\ item[b] \notin bad
    /\ Encrypt(item[b]) /\ (Update(item[b]) \/ UNCHANGED <<updated, stored>>)
    /\ \E err \in Errors :
        IF isRetryableError(err) /\ opts.retry /\ attempts[b] < MaxRetries
        THEN /\ Goto(b, "backoff")
             /\ attempts' = [attempts EXCEPT ![b] = nextAttempt(@)]
        ELSE Goto(b, "failed") /\ UNCHANGED attempts
    /\ UNCHANGED <<args, opts, stage, item, current, processed, reported, highest>>

Backoff(b) ==
    /\ pc[b] = "backoff"
    /\ Goto(b, "update")
    /\ UNCHANGED <<args, opts, stage, item, attempts, current, processed, effects,
                   reported, highest>>

\* The handler may take the error: the batch counts as processed.
HandlerTakes(b) ==
    /\ pc[b] = "failed" /\ opts.handler
    /\ reported' = reported \cup First(b)..Last(b)
    /\ Goto(b, "progress")
    /\ UNCHANGED <<args, opts, stage, item, attempts, current, processed, effects,
                   highest>>

BatchError(b) ==
    /\ pc[b] = "failed"
    /\ Goto(b, "error")
    /\ UNCHANGED <<args, opts, stage, item, attempts, current, processed, effects,
                   reported, highest>>

\* Mutation: the counter is written from a value of the batch's own.
nextProcessedOwn(b) == Last(b) - First(b) + 1

nextProcessed(b) == processed + Last(b) - First(b) + 1

\* The counter under its lock, the callback outside of it.
CountBatch(b) ==
    /\ pc[b] = "progress"
    /\ processed' = nextProcessed(b)
    /\ current' = [current EXCEPT ![b] = processed']
    /\ Goto(b, "callback")
    /\ UNCHANGED <<args, opts, stage, item, attempts, effects, reported, highest>>

ProgressCallback(b) ==
    /\ pc[b] = "callback"
    /\ highest' = IF current[b] > highest THEN current[b] ELSE highest
    /\ Goto(b, "done")
    /\ UNCHANGED <<args, opts, stage, item, attempts, current, processed, effects,
                   reported>>

------------------------------------------------------------------------------
Finished ==
    \/ \A b \in Batches : Ended(b)
    \/ ~opts.parallel /\ \E b \in Batches : pc[b] = "error"

Return ==
    /\ stage = "running" /\ Finished
    /\ stage' = IF \E b \in Batches : pc[b] = "error" THEN "error" ELSE "ok"
    /\ UNCHANGED <<args, opts, batch, processed, effects, reported, highest>>

Batch(b) ==
    \/ StartBatch(b) \/ ExtractKeyFails(b) \/ UpdateItem(b) \/ UpdateFails(b) \/ Backoff(b)
    \/ HandlerTakes(b) \/ BatchError(b) \/ CountBatch(b) \/ ProgressCallback(b)

Caller == prepareBatches \/ NothingToDo \/ Return

Returned == stage \in {"ok", "error"}

Done == Returned /\ UNCHANGED vars

Next == (\E b \in 1..MaxItems : Batch(b)) \/ Caller \/ Done

Spec == Init /\ [][Next]_vars

\* The goroutines run, and the SDK's calls end.
Fairness == (\A b \in 1..MaxItems : WF_vars(Batch(b))) /\ WF_vars(Caller)

FairSpec == Spec /\ Fairness

------------------------------------------------------------------------------
\* A batch is within its items, and its retries within their limit.
TypeOK ==
    /\ total \in 0..MaxItems /\ bad \subseteq 1..total
    /\ stage \in {"new", "running", "ok", "error"}
    /\ pc \in [1..MaxItems -> {"none", "waiting", "update", "backoff", "failed",
                               "progress", "callback", "done", "error"}]
    /\ \A b \in Batches : pc[b] # "waiting" => item[b] \in First(b)..Last(b)
    /\ attempts \in [1..MaxItems -> 0..MaxRetries]
    /\ current \in [1..MaxItems -> 0..total]
    /\ processed \in 0..total /\ highest \in 0..total
    /\ layers \in [1..MaxItems -> 0..MaxRetries + 1] /\ stored \in [1..MaxItems -> Nat]
    /\ updated \subseteq 1..total /\ reported \subseteq 1..total

\* A call that answers nil has updated every item, in whatever order its
\* batches ran, but for the batches its handler was told of.
UpdatedOrReported == stage = "ok" => 1..total \subseteq updated \cup reported

\* Within a batch items are updated in their order, and none after one that
\* failed; without parallelism and a handler this holds of the whole call.
PrefixUpdated ==
    stage # "new" =>
        \A i \in updated, j \in 1..total :
            j < i /\ (BatchOf(j) = BatchOf(i) \/ ~(opts.parallel \/ opts.handler)) =>
                j \in updated

\* When the call has returned none of its goroutines is at work.
QuietAfterReturn ==
    Returned => Holders = {} /\ (opts.parallel => \A b \in Batches : Ended(b))

\* A progress callback tells of no item that is neither updated nor reported,
\* and one of them, whichever comes last, has the total.
ProgressExact ==
    /\ highest <= Cardinality(updated \cup reported)
    /\ stage = "ok" => highest = total

\* Encrypted fields are "encrypted on write and decrypted on read"
\* (docs/development/planning/dynamorm-encryption-tag-roadmap.md:10): decryptItem
\* takes one layer off, so that one layer is what an updated field has.
DecryptedOnRead == encrypted => \A i \in updated : stored[i] = 1

\* The call returns, whatever fails and however often.
CallReturns == <>Returned
==============================================================================
