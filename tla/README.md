# Formal models of DynamORM

TLA+ models of DynamORM, an ORM for DynamoDB in Go: how calls become requests,
requests answers, and values attributes, and the parts of it that are concurrent
or meet failures. TLC checks them on small instances; TLAPS proves most of the
safety properties for all. Paths below are relative to `src/`. `PROJECT.json` maps
every definition to the lines it models and lists the runs, mutants, hazards,
findings and theorems.

## 1. Inventory

| Component | State it keeps | Operations | Interacts with |
|---|---|---|---|
| Token bucket, `pkg/protection/simple_rate_limiter.go` | tokens, time of the last refill, under a mutex | `Allow` | both limits of `ResourceProtector` |
| Request protection, `ResourceProtector.SecureBodyReader` in `pkg/protection/resource_limiter.go` | a semaphore channel, atomic counters | rate limit, slot, counters, a body read in a goroutine, a timeout | token bucket, HTTP handlers |
| Batch protection, `BatchLimiter` (same file) | a semaphore channel, atomic counters, a bucket | `AcquireBatch`, `ReleaseBatch` | token bucket, batch callers |
| Memory monitor, `MemoryMonitor` (same file) | `running`, stop channel, `sync.Once`, wait group, callback, peak | `Start`, `Stop`, the monitor goroutine, alerts | the application's callback, which may call `Stop` |
| Transaction builder, `pkg/transaction/builder.go`, `transaction_conditions.go` | operation list, first error | `Put`, `Create`, `Update`, `UpdateWithBuilder`, `Delete`, `ConditionCheck`, `Execute` with retries and error translation | AWS SDK, DynamoDB, the model registry |
| Legacy transaction, `pkg/transaction/transaction.go` | writes, reads, results | `Create`, `Update`, `Delete`, `Get`, `Commit`, `Rollback` | AWS SDK |
| Multi-account connections, `multiaccount.go` | account map under a mutex, concurrent cache, ticker | `Partner`, `AddPartner`, `RemovePartner`, `Close`, `WithContext`, background refresh | AWS STS, DB facade |
| Lambda initialization, `lambda.go` | a process-wide session behind a `sync.Once` | `NewLambdaOptimized`, `LambdaInit` | DB facade |
| Batch reads, `pkg/query/batch_get.go`, `query_executor.go` | per call: slots for the results, progress counter | chunking, unprocessed keys, alignment, parallel chunks, error handler | executor, DynamoDB |
| Batch writes and updates, `pkg/query/batch_operations.go`, `query.go`, `query_executor.go` | per call: remaining requests, progress | splitting, unprocessed items, parallel batches, error handler | executor, DynamoDB |
| Query and write requests, `pkg/query/query.go`, `update_builder.go` | conditions, filters, index, projection, first error; an update's clauses | `Where`, `Filter`, `OrFilter`, groups, `Index`, `WithCondition`, `Set`, `Add`, `Condition`, and what `Compile`, `Create`, `Update`, `Delete`, `Execute` make of them | expression builder, index selection, executors |
| Expression builder, `internal/expr/builder.go` | placeholders for names and values, terms and operators | adding conditions and updates, `Clone`, `ResetConditions`, `Build` | query, updates, transactions |
| Index selection, `pkg/index/selector.go` | none | the index with the best score | query |
| Query and scan execution, `query.go`, `executor.go`, `query_executor.go`, `pagination.go`, `cursor.go` | per read: items collected, position, limit | `First`, `All`, `Count`, `AllPaginated`, `ScanAllSegments`, retries, cursors | DynamoDB |
| Query optimizer, `pkg/query/optimizer.go` | plans by query, statistics, shared without a lock | `OptimizeQuery`, `Execute`, `RecordExecution`, `ClearCache` | query, parallel scan |
| Aggregates, `pkg/query/aggregates.go` | per `GroupBy`: groups, aggregates, clauses | sums, averages, extremes, `CountDistinct`, `GroupBy`, `Having` | query |
| Item writes and optimistic locking, `query.go`, `update_builder.go`, `query_executor.go`, `pkg/core` | the client's model with its version | `Create`, `CreateOrUpdate`, `Update`, `Delete`, `ConditionVersion` | DynamoDB, other clients |
| Consistency helpers, `pkg/consistency` | none | reads after a write, consistent, retried or verified | item writes |
| Converters and marshalers, `pkg/marshal`, `pkg/types`, `internal/expr/converter.go` | caches of per-type code | four ways to write a value, three to read it | everything that reads or writes |
| Field encryption, `internal/encryption` | none | sealing on each write path, opening on reads, the JSON in between | KMS, all writers |
| Model registry, `pkg/model/registry.go` | models by type and table, under a lock | `Register`, lookups | everything |
| Schema management, `pkg/schema` | none of its own | create, wait, back up, copy, migrate | DynamoDB |
| Validation, naming, errors, sessions, DMS, TypeScript and Python ports, mocks, examples | - | - | - |

**What is hard.** Five kinds of behaviour, the ones a unit test hardly reaches:

* *Interleavings of goroutines over shared state*: compare-and-swap loops, a
  mutex held over a blocking wait, a cache filled by calls that read their
  configuration earlier, a pointer read before a `sync.Once`.
* *Unreliable delivery*: the SDK re-sends requests, replies get lost, old copies
  arrive late; the builder adds its own retries on top, and is used again after
  a failure.
* *Timeouts racing what they bound*: the body of a request, a back-off, an
  expiring session.
* *Partial failure and error translation*: which of several operations is
  blamed, what a later call sees after a failed first one, what is left of a
  batch of which a part failed.
* *Combinations of calls*: what a chain of calls means is decided by maps of
  placeholders, an index chosen later, tags in any order, and pieces of code
  that convert the same value and were written apart.

**What makes each component right.**

* Token bucket: never more calls in a window than burst and rate allow; nobody
  refused without a recent admission.
* Request and batch protection: slots taken = callers inside, on every path out;
  published statistics exact once races are over; everyone gets out.
* Memory monitor: one goroutine at most; a running monitor can be stopped; no
  channel closed twice; `Start` returns.
* Transaction builder: a list takes effect in one step or not at all and the
  answer says which; a builder that is used again does not apply a list twice
  without having warned; `Create` never overwrites; errors name an operation
  that failed; transient cancellations are retried; `Execute` returns.
* Multi-account: a partner gets its own account's connection; cached
  connections do not expire; a removed partner has none; `Close` ends the work.
* Lambda: one session; everyone gets it or an error.
* Batches: results line up with the keys asked for, nothing is returned twice or
  lost without an error, unprocessed items end up written or reported, a failure
  leaves one batch in doubt, progress counts what was done, what was encrypted
  can be decrypted.
* Requests: on every item, what is sent selects what the calls asked for; key
  conditions are ones DynamoDB takes; encrypted fields are never compared.
* Reads: pages, limits, cursors and segments add up to the plain result, each item
  once, although the table changes; every read returns.
* Optimizer and aggregates: a plan fits its query, an estimate has its history; an
  aggregate is what its name says.
* Item writes: no update under the lock is lost, answers are true, the helpers
  read what was written.
* Legacy transactions: all writes once or none.
* Values and encryption: what was written is what is read, by whatever way; nothing
  that is to be encrypted is stored in the clear.
* Registry and schema: a model is what its tags say; a migration that reports
  success has carried over every item.

## 2. Modules

| Module | Models | State and actions |
|---|---|---|
| `SimpleLimiter` | `SimpleLimiter` | a record of the Go struct's fields; `AfterAllow` and `Allowed` are `Allow` as a function of bucket and time, with Go's truncating division and the dropped rest of an interval |
| `RateLimit` | one bucket in use | `Allow`, `TimePasses`; history of admissions |
| `RateLimitProofs` | - | theorems about `RateLimit` |
| `SecureBodyReader` | `SecureBodyReader` | per request a place; one action per atomic operation, channel operation or deferred call; the reader goroutine apart |
| `BatchLimiter` | `AcquireBatch`, `ReleaseBatch` | the same, for callers that come back |
| `MemoryMonitor` | `Start`, `Stop`, `monitorLoop`, `checkMemory` | controllers and monitor goroutines; `mu` is who holds the mutex over `wg.Wait` |
| `ProtectionProofs` | - | theorems about the three parts of `MCProtection` |
| `TransactItems` | operations, conditions, what DynamoDB does with a list | operators |
| `TransactStore` | the abstract transaction store | `Submit`, `Commit`, `Forget`, `Succeed`, `Fail`, `Doubt`, `Refuse` |
| `TransactionBuilder` | `Builder` and, external, SDK and DynamoDB | composing, `Execute` cut at every request, answer and back-off; copies of requests in flight |
| `MCTransactionBuilder` | - | instances for TLC |
| `TransactionBuilderProofs` | - | theorems about `TransactionBuilder`, the refinement among them |
| `MultiAccount` | `MultiAccountDB` | callers, cache, ticker, refresh goroutines, time |
| `LambdaInit` | `NewLambdaOptimized`, `LambdaInit` | per goroutine a place around the `sync.Once` |
| `BatchGet` | `BatchGetWithOptions` over `ExecuteBatchGet` | per chunk a place and its locals; slots by index of the key; requests answered in part and in any order |
| `BatchWrite` | `BatchCreate`, `BatchWriteWithOptions`, `BatchDeleteWithOptions` over `ExecuteBatchWriteItem` | the place of the one goroutine; requests still to send, the batch under way; the store, with the layers of encryption of what is in it |
| `BatchUpdate` | `BatchUpdateWithOptions` over `ExecuteUpdateItem` | per batch a place and its locals; who holds the semaphore; items updated |
| `Expr` | `internal/expr.Builder` | operators on a record of the Go struct's fields; what DynamoDB makes of an expression, external |
| `QueryBuilder` | `Query` and `UpdateBuilder` up to the request, index selection | one action per call of the chain; the requests are operators of the state; `asked` keeps the calls as they were meant |
| `Cursors` | the cursor of a paginated read | conversion of the attributes a key may have, there and back |
| `AttributeJSON` | the plaintext of what is encrypted | the same conversions, and those of nested values |
| `ReadPath` | reads of several requests | the read under way, one worker per segment; items at positions, written to meanwhile; pages of any size |
| `Optimizer` | `QueryOptimizer`, `OptimizedQuery` | goroutines that plan, execute and record; an increment is a read and a write |
| `Aggregates` | aggregates and `GroupByQuery` | one action per call; an average is the fraction it stands for |
| `ItemWrites` | writes of one item, `pkg/consistency` | clients with their model and call; requests and answers lost and repeated; a lagging index, which the conditions of a read may select |
| `LegacyTransaction` | `Transaction`, `DB.TransactionFunc` | recorded writes and reads, the commit in its two requests, answers lost before and after the writes were applied, other clients |
| `Encryption` | every write path of encrypted fields, and reads | stored attributes with the number of seals; an `UpdateBuilder` executed again, with clauses of every form, nested paths among them; KMS that refuses |
| `Values` | four writers and three readers of values | one field, one value, what each writer makes of it, DynamoDB of a set (no duplicates, no order), and each reader of that |
| `Registry` | `Register` | definitions with tags in every order, the models registered |
| `Schema` | `AutoMigrateWithOptions` and what it calls | managers, tables with their items, writes meanwhile, the replica a scan may read; one step per call of DynamoDB |
| `SchemaProofs` | - | theorems about `Schema` and `Registry` |
| `ItemsProofs` | - | theorems about `ItemWrites`, `LegacyTransaction` and `Encryption` |
| `MCProtection` | `ResourceProtector` | `SecureBodyReader`, `BatchLimiter`, `MemoryMonitor` or `RateLimit` in use |
| `MCConnections` | - | `MultiAccount` or `LambdaInit` in use |
| `ConnectionsProofs` | - | theorems about both |
| `MCBatches` | - | one call of `BatchGet`, `BatchWrite` or `BatchUpdate` |
| `MCCalls` | - | `MCConnections` or `MCBatches` |
| `BatchesProofs` | - | theorems about the three |
| `MCQueries` | - | `QueryBuilder`, `ReadPath`, `Optimizer` or `Aggregates`; the table and the calls they are tried on |
| `QueriesProofs` | - | theorems about `QueryBuilder`, `ReadPath` and `Optimizer` |
| `MCItems` | - | `ItemWrites`, `LegacyTransaction`, `Encryption`, `Values`, `Registry` or `Schema`; the types, values and tags they are tried on |

`SecureBodyReader`, `BatchLimiter` and `RateLimit` share `SimpleLimiter`, as the code
does. `TransactionBuilder` and `TransactStore` share `TransactItems`, and the first is
shown to implement the second. `QueryBuilder` extends `Expr`; `ReadPath` and
`AttributeJSON` extend `Cursors`, and `Values` extends `AttributeJSON`. `MCProtection`,
`MCConnections`, `MCBatches`, `MCCalls`, `MCQueries` and `MCItems` put components that
share no state side by side: the initial state chooses which one moves, so that one run
covers each of them as if it were alone. A component keeps its own variables where its
names do not clash with the others' (it is extended), and is instantiated with renamed
ones where they do.

**What the data is reduced to.** An item is the one value its conditions
compare; a condition is existence, absence or equality (version checks, field
comparisons and raw expressions are all of that form); an operation that cannot
be turned into a request item is `buildable = FALSE`; a connection is the
configuration it was made from and its expiry; a body is whether it has
arrived; a stored item is the key, or the index of the request, it comes from. A
request is a sequence of terms over placeholders with the maps sent along, and is
judged by evaluating it on every item of a set; its text is left out. A
reserved word stands for itself: two attributes named by the same reserved word in
different case, which the code gives one placeholder, are left out. An
item that is read is its position in the order of keys and whether it passes the
filter. Ciphertext is a value with a number of seals. Go types are trees of
kinds; a scalar is its number, 0 being the zero value of its type.
Control is kept: every early return, counter, retry and deferred call
is there, in the code's order.

**Grain of atomicity.** A step is one access to shared state: an atomic
operation, a channel operation, a critical section of a mutex (unless it blocks
inside, as `Start` does), a request on the network, the arrival of an answer.
`checkMemory`'s loop on the peak is one step because one monitor at most writes
it, which `OneMonitor` shows.

## 3. Runs

| Run | Question | Bounds |
|---|---|---|
| `protection` | Are slots and statistics exact when bodies race timeouts, do acquire and release of batches stay matched, do starts, stops, restarts and alerts of the monitor fit together, and does the bucket enforce its rate and starve nobody? | 3 requests, 2 slots, 2 tokens: rejection by rate and by capacity both happen, and three-way races on the maximum; 3 batch callers, 2 slots, 2 calls each, an excessive size; 2 controllers, 4 starts, 2 alerts; a bucket with 7 ticks to a second at 2 calls per second, so that the interval truncates, burst 2, 10 ticks: three refills |
| `memory_restart` | *violation*: can the monitor always be restarted? | 3 starts |
| `transaction_race` | Are answers true, and is the store atomic, with two builders racing? | 2 builders, 2 keys, 1 retry, 1 re-send each; builders are symmetric |
| `transaction_single` | What do reuse and retries come to? | 1 builder executed twice, 5 calls to compose from, 1 retry, 1 re-send; code "None" on operations that did not fail, as DynamoDB has it |
| `transaction_canceled` | *violation*: do errors name what failed, and are transient cancellations retried? | the same, executed once |
| `calls` | Right connection, fresh, and quiet after `Close`? One session for all? Is every batch operation complete, in order, truthful and sure to return? | 2 partners, 4 ticks, 1 failed refresh, the shortest session; 3 goroutines, 2 calls each, 1 failed initialization; up to 3 keys or items, chunks and batches of 1 or 2, so that there are several, one of them short; 1 retry, 2 attempts: unprocessed parts are retried and run out; 2 goroutines at a time for 3 chunks |
| `batch_encryption` | *violation*: can what a batch operation wrote be decrypted? | the same |
| `queries` | Does a request mean its calls, does a read of several requests return the plain result, does a plan fit, are aggregates exact? | chains of 3 calls, which take 9 conditions by Go name and attribute name (an encrypted field and a bad name among them), groups of 3, 2 indexes, writes and updates; updates of all fields and of 4 lists of fields; 64 items. Reads over 4 positions, 2 segments, limits 0 and 2, 1 or -1 retries, 1 write, 1 failure, pages of every size. 2 goroutines with 3 queries. 4 results of up to 3 items, 2 aggregates or clauses |
| `or_condition` | *violation*: does `OrCondition` join with OR, from left to right? | updates, chains of 3 calls |
| `filter_groups` | *violation*: does a group beside other filters mean what it says? | the same |
| `items` | Are updates, answers, reads after writes, transactions, encryption, conversions, registrations and migrations right? | 2 clients, 3 writes, 2 tries: a lost answer and a race; 2 operations on 2 keys with 1 foreign write; 2 clauses executed twice, 1 refusal by KMS; 47 types with their zero, negative and nil values and lists of up to 2 elements in any order, duplicates included, tags of a field in every combination; tag sequences up to 3 and 2; 2 managers, 3 items in pages and batches of 2, 2 attempts of a batch, so that it is retried and then put singly, 1 failure, 1 write, before or meanwhile, that scans may miss until it settles |
| `legacy_update` | *violation*: is the Update of a versioned model one DynamoDB takes? | 1 operation |

Each property of a passing run has a mutant: the definition a plausible bug
would change (a missing `wg.Done`, a store in place of a compare-and-swap, a
request token used twice, an uncapped refill), under which TLC finds the
property violated. The mutated forms stand in the modules before the
definitions they mutate.

The code's constants are scaled down where only their order matters: 25 operations to 2, 4
retries to 1 or 2, batches of 25 and chunks of 100 to 2, five attempts to 2, a second to 7
ticks. In `items` no attribute but the encrypted ones takes part in `Encryption`; the
others are stored as they come. The intervals of the multi-account cache keep their ratios
(5, 5 and 10 minutes, sessions of 15). The optimizer's thresholds of 100 and 1000 items
and 10 executions become 2, 3 and 1. Where `CHECK_DEADLOCK FALSE` stands, the calls are
bounded and the model stops when they are used up; the deadlock the code does have is
stated as `StartReturns` and `OnlyAlertsBlockStart`. Clients and managers of `items` and
the builders of `transaction_race` are symmetric; those runs check no liveness.

### Properties

* `WindowBound`, `RefusedOnlyAfterAdmission`: the rate over every window, and no
  starvation although a refill drops the rest of an interval.
* `SlotsMatchHolders`, `GaugeWithinSlots`, `MaximumIsExact`, `RequestsReturn`:
  protection, on every path, with racing compare-and-swaps. `CountersExact`: what the
  statistics say once the calls are over, for requests and for batches, and that no
  counter leaves its range.
* `OneMonitor`, `RunningIsServed`, `NoDoubleClose`: restarts.
  `OnlyAlertsBlockStart`: what the finding below does not touch. Unless an alert
  needs the lock while a `Start` holds it, `Start` returns and stopped goroutines end.
* `ImplementsStore`: the builder over its unreliable network implements
  `TransactStore`. The mapping: a request is open while a copy of it is in flight
  or an `Execute` waits on it, and it is not committed; an answer is "unknown" if
  it is a transport error or the SDK re-sent the request.
* `TruthfulAnswer`, `AppliedAtMostOnce`, `CreateNeverOverwrites`, `ExecuteReturns`.
  `CancellationExact` (violated): the operation blamed is one that failed, a failed
  condition is reported as such, and transient cancellations are retried to the end.
* `StaysFresh`: cached connections are those of the right account and do not expire.
  `Singleton`: one session. `CallsSettle`: `Close` ends the background work, and every
  initialization and every batch operation returns, however often DynamoDB leaves things
  unprocessed.
* `AlignedAndQuiet`: a batch read that succeeds equals the reads of its keys one by
  one, minus the chunks its handler took the errors of, however chunks
  interleave and answers are cut and shuffled; nothing goes on after an error or
  after the return.
* `WrittenOrReported`: what a batch write or update has done when it answers nil, when
  it fails (one batch is in doubt, none behind it was begun), and at any time in
  between; callbacks of parallel batches may come in any order, but none is ahead of
  what is done, and one has the final count.
* `RequestMeansCalls`, `WriteMeansCalls`: for every item, the compiled request
  selects or changes it exactly if the calls, read one by one, say so. What the code does
  not keep is exempted by name: groups beside other conditions (`GroupBlends`, shown by
  `filter_groups`), `OrCondition` with `Execute` and beside `Condition` (`OrAsked`,
  `MixesAndOr`, shown by `or_condition`), an unbracketed `OrFilter` (`OrBlends`), two
  conditions on one key (`RepeatedKey`), an `UpdateBuilder` whose query refused a call
  (`ConditionRefused`). `KeyConditionsValid`, `EncryptedNeverCompared`: what no request
  built by the library contains, read or write, in a group or outside; expressions the
  caller wrote himself are not read.
* `ReadExact`: whatever is written meanwhile and wherever pages end, a read returns every
  item that passed the filter all the time, none that never did, each once, in order, as
  far as the limit lets it go. That no more than the limit come back is said where the
  code keeps it (`LimitBounds`). `ReadsReturn`: every read returns, and a parallel scan
  leaves no goroutine behind although it returns on the first error.
* `PlanJustified`: a cached plan runs the operation its query calls for, and a
  confident estimate has its executions, although racing increments get lost.
  `AggregatesExact`: against sums, extremes and groups defined without loops.
* `NoLostUpdate`, `WriteAnswered`, `ReadsOwnWrite`: optimistic locking over repeated
  requests, and reads after writes, where the table is read or the read is verified.
  `TransactionFuncAtomic`: `DB.TransactionFunc` applies its writes once and together if it
  says so, not at all if it returns a refusal, and at most once after any other error.
* `EncryptedReadsBack`: whichever path wrote it and whatever KMS refused, an encrypted
  attribute is not stored in the clear and reads as what was written; exempted by name
  are a value sealed twice (see the findings) and what a nested ADD leaves beside it.
  `ReadBack`: what any of four writers stored, each of three readers gives back, sets by
  their members; three losses are spelled out, and no other is allowed: fields of nested
  structs under different names (`Blanked`), interfaces that `types.Converter` refuses to
  read, pointers to empty values.
* `RegisteredAsTagged`: whatever the order of tags and fields. `MigrationComplete`: a
  migration that answers nil has copied every item whose last write had settled when it
  began.

### Findings

1. `memory_restart`: `Start` waits for the old goroutine with the mutex held; that
   goroutine, if it is raising an alert, waits for the mutex. Neither returns,
   nor does any later `Start` or `Stop`. A callback that calls `Stop` can take the
   goroutine's place.
2. `batch_encryption`: items are encrypted in place each time they are sent. What
   DynamoDB left unprocessed, and what a batch update tries again, was encrypted
   before and gets one more layer; a read takes one off. An `UpdateBuilder` executed
   again does the same: `Build` hands out the builder's own map of values.
3. `transaction_canceled`: DynamoDB gives the code "None" to operations that did not fail.
   `translateError` takes it for a reason that is not transient, so that one conflict among
   several operations is not retried, and `buildTransactionError` blames the first
   operation with a code, failed or not.
4. `or_condition`: `UpdateBuilder.Execute` joins all conditions with AND, also those of
   `OrCondition`; `ExecuteWithResult` writes them in a row, of which DynamoDB evaluates AND
   before OR, while the changelog promises evaluation from left to right.
5. `filter_groups`: a group numbers its placeholders from one, and its values replace
   those of the filters beside it.
6. `legacy_update`: `Transaction.Update` assigns the version field with the others and
   then once more; DynamoDB refuses an expression that assigns an attribute twice.

### Deviations that have no run

Met while modelling. The models follow the code in them, and where a property would
be broken it names the exception.

* *Transactions.* `Rollback` drops the map of results: a later `Get` and `Commit` write
  into a nil map. A second `Commit` sends the writes again. An error of `TransactionFunc`
  may follow writes that were applied: the reads failed, or the answer to the writes was
  lost, and the request has no token of the caller by which to ask again.
* *Connections.* `Partner` and the refresh store what they made from a configuration
  read earlier; a removal in between is undone in the cache (`RemovedStaysRemoved`).
  The error of a failed `NewLambdaOptimized` is a local variable of the call that ran
  it; later calls get neither a session nor an error (`SessionOrError`).
* *Requests.* An `UpdateBuilder` ignores a `Where` on a field that is no key and an
  error of its query: a `WithCondition` that was refused is missing from what it sends.
  `OrFilter` beside a `Where` that becomes a filter: the operators are not bracketed. Of
  two conditions on one key the last wins in `GetItem`. An index without a sort key takes
  the table's for one. A global index that shares the partition key may beat the table.
  An `Update` of named fields passes over the version and the times among them in silence.
* *Reads.* `Limit` is "the maximum number of items to return" (`query.go:467`): a parallel
  scan applies it to each segment, and `MainExecutor` returns the whole page that reached
  it and ignores a count. `WithRetry` with a negative number sends no request, and
  answers with the empty result and no error. `Offset` is not used. A cursor's index
  and direction are not compared with the query's.
* *Optimizer.* A plan's ID leaves out the limit: a scan with a small limit may get the
  parallel plan of one without, and then the limit holds per segment. `Execute` reports
  no items, so that heuristics always overrule history. Increments get lost.
* *Aggregates.* Zero counts as missing: `Min` of 0 and 5 is 5. A type declared over a
  numeric one is compared as text in `Min` and `Max` ("10" before "2") and never passes
  a HAVING clause on them. A second `Execute` of a `GroupBy` counts every item
  again. An unknown operator accepts every group.
* *Items.* `Update` always compares the version, `Delete` only a nonzero one. A model's
  version is not raised after its update. A consistent read is dropped without an error
  when the conditions select an index (`query.go:1857`), also after `UseMainTable`, which
  then reads an index that lags. `CreateOrUpdate`,
  and a delete followed by a create, reuse versions.
  The executors of `pkg/core` do not report a failed condition as
  `ErrConditionFailed`.
* *Encryption.* `update_expression.go:145` looks up the placeholder of a nested path as
  one name and finds nothing: an `Add` or `Delete` on a path inside an encrypted attribute
  is not refused and is sent in the clear. DynamoDB refuses it when the attribute is
  missing; otherwise an `Add` goes into the envelope, beside the ciphertext. A value that
  an `UpdateBuilder` sealed before KMS failed on the next is sealed again by the next
  `Execute` (the second finding).
* *Values.* Fields of nested structs are written by Go name (`safe_marshaler.go:371`) and
  read by camel case (`converter.go:424`), so that the defaults lose them; what the
  changelog says of consistent names (`CHANGELOG.md:265`) is about structs flagged
  `dynamorm:"json"`; interfaces cannot be read; `[]byte` is a list of numbers on `Create`
  and a binary on `Update`; a pointer to an empty value is stored as nil with `omitempty`.
* *Schema.* A backup of the same name is deleted first, also one another migration is
  making; items that the transformation gives one key overwrite each other; writes
  during the copy are missed, and so may those just before it be, since the scans are
  eventually consistent; `AutoMigrate` never updates an existing table. `UpdateTable`
  refuses more than one change of the indexes, and `BatchUpdateTable`, which is there for
  them, repeats the same call.

### Fairness

* Goroutines inside a call keep running (weak fairness per goroutine): Go
  schedules runnable goroutines. Nothing is assumed of the application: no call
  has to be made, no callback has to call `Stop`.
* `sync.Mutex` serves every waiter: strong fairness for taking the lock in
  `Start`. A `select` on a closed channel is ready for good: strong fairness for
  the refresher's exit, which competes with ticks.
* The goroutines of a batch operation, and its caller, keep running, and the SDK's
  calls end, with or without success: weak fairness per chunk, per batch and of
  the caller.
* A read's caller and the goroutines of its segments keep running: weak fairness each.
* Timers fire and the SDK's call returns: weak fairness of the timeout, of `GiveUp`.
  No body need ever arrive, and DynamoDB need never say yes.

### Assumptions

* At most one request per tick (`RateLimitAssumption`): above it the interval
  truncates to zero (`simple_rate_limiter.go:19`) and `Allow` would divide by it. A
  tick of the code is a nanosecond.
* The intervals of the multi-account cache leave room for the failed refreshes in a row
  that are allowed (`RefreshMargin`): one with the code's intervals. A second one lets the
  connection expire, as the code does.
* A refresh, its start included, is done before the next minute
  (`MultiAccount!Minute`): the call to STS is short against the intervals.
* `Close` is called once: a second call panics, which no document forbids or
  allows.
* DynamoDB honours a request token for as long as copies of the request are
  around (ten minutes).
* No key is the value that stands for a bad key or for nil, the limits of the batch
  operations are positive as the code's are, and the sizes a caller asks for are integers
  of any sign (`BatchesAssumption`).
* A model has finitely many attributes (`EncryptionAssumption`); a process makes some
  number of initialization calls (`InitBounds`).
* Items of a batch read come with their key attributes (`KeysProjected`): nothing
  is projected, or the keys are among it. Without them no item matches a key, and
  all are dropped.
* Callers give batch operations a progress callback (all but `BatchCreate`); callbacks
  and handlers return.
* A caller asks of a sort key only what DynamoDB allows there, and one thing of a key
  (`KeyConditionsValid`): the code checks neither. The fifth finding touches key
  conditions too, so that groups beside other conditions are left out there as well.
* Nobody writes around the optimistic lock between a read and its update
  (`NoLostUpdate`).
* Every field has an attribute of its own and indexes have names of their own; the keys of
  a table are not encrypted and are in each of its items (`QueryAssumption`,
  `CallAssumption`).
* The positions a read walks have keys of their own, made of strings, numbers and
  binaries, as DynamoDB has it; limits are natural, the retries asked for any integer
  (`ReadAssumption`). A process has finitely many goroutines (`OptimizerAssumption`).
* A page and a batch of a migration hold at least one item, as the code's do
  (`SchemaAssumption`).
* The fields of a struct have different names, as Go demands; none is the name that
  stands for a missing key (`RegistryAssumption`).
* DynamoDB evaluates AND before OR, and refuses expressions that assign an attribute
  twice.
* `globalLambdaDB` is read without synchronization; the read is a step that sees
  the pointer or nil.

## 4. Proofs

TLAPS proves the theorems below for every value of the constants that the named
assumptions allow: any number of clients, requests, keys and items, any sizes, retries,
failures and orders. TLC checked each of the properties first.

* **`RateLimitProofs`**: `BucketBounded`, `RateEnforced`, `NoStarvation`. `WindowBound`
  is not inductive: a bucket may hold tokens the window has not paid for. The
  invariant adds `Slack` (tokens left plus calls admitted since the i-th admission
  are paid for by burst and time up to the last refill) and `EmptiedByAdmission`
  (an empty bucket was emptied after its last refill). The arithmetic rests on
  two lemmas, on truncating division and on multiples of the interval.
* **`ProtectionProofs`**: `NoSlotLeaked`, `GaugeBounded`, `MaximumExact` (requests);
  `AtMostOneMonitor`, `RunningServed`, `StopNeverPanics` (monitor);
  `CountersAlwaysExact` (requests and batches together). For requests and for batches the
  invariant says that the gauge is the number of goroutines between their increment and
  decrement, that every call is accounted for in the counters, and `Pending`: either
  the maximum is the highest value so far, or a goroutine that has it as its local is
  inside the compare-and-swap loop, and what it loaded is not newer than what is there. The
  lemmas about that loop are stated once, over the variables, for both limiters. For the
  monitor it adds `ChannelsCounted` (channels made plus calls of `Start` under way never
  exceed the calls made), `Locked` (whoever waits in `wg.Wait` holds the lock, and the
  monitor does not run), `Current` (only the goroutine of the current channel is alive,
  and the wait group counts it) and `Served`.
* **`TransactionBuilderProofs`**: `Truth`, `AtMostOnce`, `CreateGuarded`, and
  `Refinement`: each step of the builder and of its network is a
  step of `TransactStore` or leaves it alone. An answer is true because of what is
  known of copies in flight. The invariant follows that: a request refused before any
  re-send is `Dead` (not committed, no copy left); all copies of a request carry the same
  operations (`Copies`), with tokens no newer than the builder's (`Numbered`); requests that
  ended without doubt stay dead while the builder is used again (`Settled`); every `Create`
  carries its guard, on the wire too. The refinement needs that a commit of a copy is
  the one commit of its request, and that an answer leaves no copy behind unless the SDK
  re-sent it.
* **`ItemsProofs`**, item writes: `Lock`, `Answers`, `ReadAfterWrite`. The key is `Seen`:
  a model read in the epoch the item is in has an older version than the item or is the
  item. An epoch lasts from one write outside the lock to the next, since `CreateOrUpdate`
  and a delete followed by a create reuse versions. With it a write under the lock
  overwrites what its client had read, and overwrites once per epoch however often it is
  sent. Legacy transactions: `FuncAtomic`. The invariant says at each place of the commit
  what has been applied, lost answers included, and that recorded writes compare the
  versions they were given. Encryption: `AtRestAndBack`. An encrypted attribute holds
  nothing, a plaintext from before the tag, or something the library sealed under a
  configured key, once or marked as sealed again; the clauses of a builder stay values of
  the library. An expression is sealed clause by clause up to the first one refused: a
  call that does not fail has refused none, since there would be a first, and has sealed
  them all.
* **`QueriesProofs`**, requests: `ReadsAsAsked`, `KeysAccepted`, `WritesAsAsked`,
  `NeverCompared`. What a request means depends on maps of placeholders that later calls go
  on filling, so that the properties are not inductive. `QueryInv` keeps five things: the
  `Where` conditions are those asked for and none is on an encrypted field; the filters kept
  in the builder hold of an item exactly if those asked for do; the conditions of a write
  are those asked for; so are those of an `UpdateBuilder`; and its updates are one per
  attribute, the one asked for. Of every builder it says that placeholders yet to
  be made are free (`Fresh`), and each step shows that the old ones keep their meaning
  (`Kept`). A term then means the same in the builder that is sent, which has more entries,
  as in the one it was added to. Groups break exactly this, and the theorems exempt them
  where the code does (the fifth finding). Loops over conditions are a recursive function of
  the number of clauses added (`addClauses`); that it exists, adds the terms of the clauses
  in order and keeps what was there is proved by looking at the least number where it would
  not. `KeysAccepted` adds that the index the selector prefers has the partition key of an
  equality.
* **`QueriesProofs`**, reads: `ReadsExact`. `ReadInv` says what a worker holds at each
  place: up to its position every item of its segment that matched throughout, in
  ascending order and none that never matched (`Reached`); once it has stopped, the same
  up to the limit (`Gathered`). A read that was never tried has nothing to show. The merge
  of a parallel scan needs that segments do not overlap; `AllPaginated` that the caller's
  cursor decodes to the position its items reach. Plans: `Justified`. A goroutine
  increments a counter it read earlier, so that the statistics lag behind what was
  reported. `Covered` bounds them from above: what a counter shows, or a goroutine is
  about to write into it, plus the increments still to come, is at most what was reported.
* **`SchemaProofs`**: `Migrated`. The invariant follows a copy: what the source holds at
  the keys before the position of the scan, and nobody touched, is in the target, in the
  items to be written or in the batch under way; retries of unprocessed items keep that.
  `ReplicaInv` says why a scan that lags reads no old item of theirs: while a migration is
  under way, the replica agrees with the source on every key that is not touched, and a
  key whose write has not settled is touched from the beginning. The backup has the same,
  as long as one migration is under way. Registry: `Registered`. Registration never
  changes what is registered, so that all of it is about `parseMetadata`, in three
  inductions: after n tokens of a tag every modifier is with the clause that owns it
  (`SplitAt`); after all parts a field is what its tag says, the last clause for an index
  deciding (`Tagged`, `FieldMeans`); after n fields the keys and indexes are those these
  fields ask for (`Parsed`), each asked for by one field at most, since a second one is an
  error. That an index is local is decided by the first field that names it; it agrees
  with all others unless the tags contradict each other. The library's induction theorems
  cannot be used, so that an induction is a set of numbers: one that has 0 and n + 1 with
  n has all, or there would be a least one missing (`Climb`, from the well-founded order
  of the naturals).
* **`ConnectionsProofs`**: `Freshness` and `OneSession`. Connections: a cached connection
  was made from a configuration of its partner (`Known`), and at the last tick of the
  refresher its remaining life covers the failures that are still allowed, or its refresh
  is pending (`Timely`); it rests on `RefreshMargin`. Session: one goroutine at most is
  inside the `sync.Once`, and there is no session before it is done.
* **`BatchesProofs`**: `ReadsAligned` and `NothingLost`, where items come with their keys
  (`KeysProjected`). Reads (`GetInv`): chunks cut the keys without gap or overlap; what a
  chunk has collected, with what it has still to ask for, is what it was asked for; slots
  are filled by delivered chunks and by no other; the counters are the slots filled. What
  `alignChunkResults` does to a chunk is a recursive function over its keys; that it puts
  every item at its key is proved by looking at the least key where it would not. Updates
  (`UpdateInv`): every batch has updated exactly the items up to where it is, sequential
  batches begin one after another, and the count is that of the batches counted. Writes
  (`WriteInv`): what was applied comes before the batch, which comes before what is still
  to do, each in ascending order; what is sent again is on keys that no applied request of
  the batch has, so that the store shows the last request on each key; processed, under
  way and still to do add up to the requests built.

Only model-checked:

* liveness, which is beyond the prover: `RequestsReturn`, `OnlyAlertsBlockStart`,
  `ExecuteReturns`, `CallsSettle`, `ReadsReturn`;
* `AggregatesExact`: sums, extremes and groups are folds and selections that take an
  operator, in the model and in the definition it is compared with; the provers cannot
  reason about such operators for every length;
* `ReadBack`: conversions are recursive over nested types and values.

## 5. Not modelled

* `GetStats`, `HealthCheck`: reads of counters.
* How an operation of the transaction builder becomes a request item (`buildPut` to
  `mergeRawConditions`): abstracted to whether it succeeds. The text of expressions, of
  JSON and of names: a name is valid or not.
* The AWS SDK, STS and DynamoDB, beyond the answers the code handles.
* Copies of `MultiAccountDB` made by `WithContext`: they share a Go map without a lock,
  and a race on one has no outcome to model.
* Executors that do not offer `ExecuteBatchWriteItem`, `BatchCreateWithResult`, the fluent
  `BatchGetBuilder`.
* Caches of per-type code in the marshalers, custom converters: reflection.
* Cryptography, sessions, DMS parsing, the ports to TypeScript and Python, mocks and
  examples.

## 6. Plan

1. Done: protection, memory monitor, transaction builder with its abstract store,
   multi-account connections, lambda initialization.
2. Done: batch reads, writes and updates.
3. Done: requests, reads, cursors, index selection, optimizer, aggregates.
4. Done: item writes and consistency helpers, legacy transactions, encryption, values,
   registry, schema.
5. Done: theorems about all of these but aggregates and values (section 4).
6. To come: the transaction builder's request items, with `Expr`; its proofs would use
   the lemmas of `QueriesProofs` about placeholders and clauses.
