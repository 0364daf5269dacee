------------------------------ MODULE BatchWrite ------------------------------
(***************************************************************************)
(* BatchCreate (pkg/query/query.go), BatchWriteWithOptions and             *)
(* BatchDeleteWithOptions (pkg/query/batch_operations.go), which share     *)
(* executeBatchWriteWithRetries, over queryExecutor.ExecuteBatchWriteItem  *)
(* (query_executor.go): requests are cut into batches, sent one after the  *)
(* other, and those DynamoDB leaves unprocessed are sent again, a limited  *)
(* number of times.                                                        *)
(*                                                                         *)
(* A request is its index in `input'.  A stored item is the index of the   *)
(* put that wrote it and how often its encrypted fields were encrypted.    *)
(***************************************************************************)
EXTENDS Integers, Sequences, FiniteSets

CONSTANTS
    Keys,
    MaxBatch,    \* 25 in the code: the largest batch
    MaxAttempts, \* 5 in the code
    Sizes,       \* MaxBatchSize, as callers give it
    MaxItems     \* bound: items and keys per call

VARIABLES
    call,      \* "create", "write" or "delete"
    input,     \* what to write: operation, key, whether it can be converted
    size, handler, encrypted, \* options, and whether the model has encrypted fields
    pc,        \* place, and at last the outcome, "ok" or "error"
    built,     \* how many of `input' buildBatchWriteRequests has seen
    todo,      \* requests not yet in a batch
    batch, remaining, attempts, \* the batch under way and its loop
    layers,    \* per request: how often its item was encrypted
    store,
    processed, \* the local counter of items done
    shown,     \* history: what the progress callback was given last
    applied,   \* history: requests that took effect
    reported   \* history: requests the error handler agreed to miss

args    == <<call, input, handler, encrypted>>
current == <<batch, remaining, attempts>>
effects == <<store, layers, applied>>
report  == <<processed, shown>>
vars    == <<call, input, size, handler, encrypted, pc, built, todo, batch, remaining,
             attempts, layers, store, processed, shown, applied, reported>>

Elements(s) == {s[i] : i \in DOMAIN s}

Absent == [id |-> -1, layers |-> 0]
Old    == [id |-> 0, layers |-> 1]

Requests(ops) == [op : ops, key : Keys, ok : BOOLEAN]

SeqUpTo(S) == UNION {[1..n -> S] : n \in 0..MaxItems}

\* BatchWrite takes the items to put first, then the keys to delete.
Inputs(c) ==
    IF c = "create" THEN SeqUpTo(Requests({"put"}))
    ELSE IF c = "delete" THEN SeqUpTo(Requests({"delete"}))
    ELSE {s \in SeqUpTo(Requests({"put", "delete"})) :
            \A i, j \in DOMAIN s : i < j /\ s[i].op = "delete" => s[j].op = "delete"}

Init ==
    /\ call \in {"create", "write", "delete"}
    /\ input \in Inputs(call)
    /\ size \in Sizes
    /\ handler \in IF call = "create" THEN {FALSE} ELSE BOOLEAN
    /\ encrypted \in BOOLEAN
    /\ pc = "new" /\ built = 0 /\ todo = <<>>
    /\ batch = <<>> /\ remaining = {} /\ attempts = 0
    /\ layers = [i \in DOMAIN input |-> 0]
    /\ store = [k \in Keys |-> Old]
    /\ processed = 0 /\ shown = 0
    /\ applied = {} /\ reported = {}

Convertible(ids) == \A i \in ids : input[i].ok

------------------------------------------------------------------------------
(***************************************************************************)
(* Before the first batch.                                                 *)
(***************************************************************************)
\* A size out of range means the largest; BatchCreate always uses that.
effectiveSize(n) == IF call = "create" \/ n <= 0 \/ n > MaxBatch THEN MaxBatch ELSE n

\* BatchWrite builds all its requests before it sends the first.
Begin ==
    /\ pc = "new"
    /\ pc' = IF call = "write" THEN "build" ELSE "next"
    /\ todo' = IF call = "write" THEN <<>> ELSE [i \in DOMAIN input |-> i]
    /\ size' = effectiveSize(size)
    /\ built' = IF call = "write" THEN 0 ELSE Len(input)
    /\ UNCHANGED <<args, current, effects, report, reported>>

BuildRequest ==
    /\ pc = "build" /\ built < Len(input)
    /\ Convertible({built + 1})
    /\ todo' = Append(todo, built + 1)
    /\ built' = built + 1
    /\ UNCHANGED <<args, size, pc, current, effects, report, reported>>

\* The handler may take the error: the item is left out.
BuildSkips ==
    /\ pc = "build" /\ built < Len(input)
    /\ ~Convertible({built + 1}) /\ handler
    /\ built' = built + 1
    /\ reported' = reported \cup {built + 1}
    /\ UNCHANGED <<args, size, pc, todo, current, effects, report>>

BuildFails ==
    /\ pc = "build" /\ built < Len(input)
    /\ ~Convertible({built + 1})
    /\ pc' = "error"
    /\ UNCHANGED <<args, size, built, todo, current, effects, report, reported>>

BuildDone ==
    /\ pc = "build" /\ built = Len(input)
    /\ pc' = "next"
    /\ UNCHANGED <<args, size, built, todo, current, effects, report, reported>>

------------------------------------------------------------------------------
(***************************************************************************)
(* Batch after batch.                                                      *)
(***************************************************************************)
Least(m, n) == IF m < n THEN m ELSE n

\* BatchCreate and BatchDelete convert the items of a batch when it is its
\* turn: batches before it are written by then.
NextBatch ==
    /\ pc = "next" /\ todo # <<>>
    /\ LET n == Least(size, Len(todo))
       IN  /\ batch' = SubSeq(todo, 1, n)
           /\ todo' = SubSeq(todo, n + 1, Len(todo))
           /\ remaining' = Elements(SubSeq(todo, 1, n))
    /\ attempts' = 0
    /\ pc' = IF Convertible(remaining') THEN "send" ELSE "failed"
    /\ UNCHANGED <<args, size, built, effects, report, reported>>

Finish ==
    /\ pc = "next" /\ todo = <<>>
    /\ pc' = "ok"
    /\ UNCHANGED <<args, size, built, todo, current, effects, report, reported>>

\* DynamoDB refuses a request that names a key twice.
Acceptable == \A i, j \in remaining : i # j => input[i].key # input[j].key

\* encryptItem, in place, whatever it encrypted before.
encryptItems ==
    [i \in DOMAIN input |->
        IF encrypted /\ i \in remaining /\ input[i].op = "put" THEN layers[i] + 1 ELSE layers[i]]

\* What DynamoDB stores when it processes some requests of the batch.
Processes(ids) ==
    /\ store' = [k \in Keys |->
                    IF \E i \in ids : input[i].key = k
                    THEN LET i == CHOOSE i \in ids : input[i].key = k
                         IN  IF input[i].op = "delete" THEN Absent
                             ELSE [id |-> i, layers |-> encryptItems[i]]
                    ELSE store[k]]
    /\ applied' = applied \cup ids

HasCallback == call # "create"

\* Mutations: one attempt too many; a batch that is out of attempts counts as
\* done.
exhaustedLate(n) == n > MaxAttempts
outOfAttemptsDone == "next"

exhausted(n) == n >= MaxAttempts
outOfAttempts == "failed"

BatchDone ==
    /\ processed' = processed + Len(batch)
    /\ shown' = IF HasCallback THEN processed + Len(batch) ELSE shown

\* One round of executeBatchWriteWithRetries: unprocessed requests come back
\* as they were sent, encrypted.  The callback is told the batch's own count.
BatchWriteItem ==
    /\ pc = "send" /\ Acceptable
    /\ attempts' = attempts + 1
    /\ layers' = encryptItems
    /\ \E left \in SUBSET remaining :
        /\ Processes(remaining \ left)
        /\ remaining' = left
        /\ IF left = {} THEN pc' = "next" /\ BatchDone
           ELSE /\ pc' = IF exhausted(attempts') THEN outOfAttempts ELSE "backoff"
                /\ shown' = IF HasCallback THEN Len(batch) - Cardinality(left) ELSE shown
                /\ UNCHANGED processed
    /\ UNCHANGED <<args, size, built, todo, batch, reported>>

Backoff ==
    /\ pc = "backoff"
    /\ pc' = "send"
    /\ UNCHANGED <<args, size, built, todo, current, effects, report, reported>>

\* The request fails before it is sent, or is refused, or its answer is lost
\* after some of it took effect.
BatchWriteFails ==
    /\ pc = "send"
    /\ pc' = "failed"
    /\ layers' = encryptItems
    /\ \E ids \in IF Acceptable THEN SUBSET remaining ELSE {{}} : Processes(ids)
    /\ UNCHANGED <<args, size, built, todo, current, report, reported>>

\* The handler may take the error of a batch; the batch counts as processed.
HandlerTakes ==
    /\ pc = "failed" /\ handler
    /\ reported' = reported \cup Elements(batch)
    /\ BatchDone
    /\ pc' = "next"
    /\ UNCHANGED <<args, size, built, todo, current, effects>>

\* Mutation: without a handler the error is forgotten.
BatchErrorIgnored ==
    /\ pc = "failed" /\ ~handler
    /\ BatchDone
    /\ pc' = "next"
    /\ UNCHANGED <<args, size, built, todo, current, effects, reported>>

BatchError ==
    /\ pc = "failed"
    /\ pc' = "error"
    /\ UNCHANGED <<args, size, built, todo, current, effects, report, reported>>

------------------------------------------------------------------------------
Step ==
    \/ Begin \/ BuildRequest \/ BuildSkips \/ BuildFails \/ BuildDone
    \/ NextBatch \/ Finish \/ BatchWriteItem \/ Backoff \/ BatchWriteFails
    \/ HandlerTakes \/ BatchError

Returned == pc \in {"ok", "error"}

Done == Returned /\ UNCHANGED vars

Next == Step \/ Done

Spec == Init /\ [][Next]_vars

\* The caller's goroutine runs, and the SDK's calls end.
Fairness == WF_vars(Step)

FairSpec == Spec /\ Fairness

------------------------------------------------------------------------------
\* Requests are sent within the limits DynamoDB sets.
TypeOK ==
    /\ pc \in {"new", "build", "next", "send", "backoff", "failed", "ok", "error"}
    /\ built \in 0..Len(input) /\ Elements(todo) \subseteq DOMAIN input
    /\ Len(batch) <= MaxBatch /\ remaining \subseteq Elements(batch)
    /\ attempts \in 0..MaxAttempts
    /\ layers \in [DOMAIN input -> 0..MaxAttempts]
    /\ \A k \in Keys : store[k].id \in DOMAIN input \cup {0, -1}
    /\ processed \in 0..Len(input) /\ shown \in 0..Len(input)
    /\ applied \subseteq DOMAIN input /\ reported \subseteq DOMAIN input

\* Puts and deletes of one call take effect in their order, over all batches,
\* retries and lost answers: when the call answers nil, the last request on a
\* key is what the store shows, unless the error handler was told about it.
WrittenOrReported ==
    pc = "ok" =>
        \A i \in DOMAIN input \ reported :
            (\A j \in DOMAIN input : j > i => input[j].key # input[i].key) =>
                store[input[i].key].id = IF input[i].op = "put" THEN i ELSE -1

\* At any time, so also when the call fails, one batch at most is in doubt:
\* those before it are written or reported, and none after it was begun.
Unbegun == Elements(todo) \cup {i \in DOMAIN input : i > built}

OneBatchInDoubt ==
    pc # "new" =>
        /\ applied \cap Unbegun = {}
        /\ DOMAIN input \ (Unbegun \cup Elements(batch)) \subseteq applied \cup reported

\* Progress counts nothing that is neither written nor reported; at the end it
\* counts all requests but those that were never built.
ProgressExact ==
    /\ shown <= Cardinality(applied \cup reported)
    /\ pc = "ok" => processed = Cardinality({i \in DOMAIN input : call # "write" \/ input[i].ok})

\* The call returns, also when DynamoDB keeps leaving requests unprocessed.
CallReturns == <>Returned

\* Encrypted fields are "encrypted on write and decrypted on read"
\* (docs/development/planning/dynamorm-encryption-tag-roadmap.md:10): decryptItem
\* takes one layer off, so that one layer is what a stored item has.
DecryptedOnRead ==
    encrypted => \A k \in Keys : store[k].id > 0 => store[k].layers = 1
==============================================================================
