------------------------------ MODULE MCBatches ------------------------------
(***************************************************************************)
(* One call of a batch operation: a read (BatchGet), a create, write or    *)
(* delete (BatchWrite) or an update (BatchUpdate).  Calls share no state   *)
(* but the table, so they are looked at one at a time; the three modules   *)
(* share the variables of the same name, and the others are None.          *)
(***************************************************************************)
EXTENDS Integers, Sequences, FiniteSets

CONSTANTS Keys, BadKey, Nil, None, KeysProjected,
    MaxChunk, MaxBatch, MaxRetries, MaxAttempts, DefaultConcurrency,
    ChunkSizes, Sizes, Concurrencies, MaxKeys, MaxItems

ASSUME BatchesAssumption ==
    /\ Keys \cap {BadKey, Nil} = {}
    /\ {MaxChunk, MaxBatch, MaxAttempts, DefaultConcurrency} \subseteq Nat \ {0}
    /\ {MaxRetries, MaxKeys, MaxItems} \subseteq Nat
    /\ ChunkSizes \cup Sizes \cup Concurrencies \subseteq Int

VARIABLES operation,
    opts, stage, pc, remaining, attempts, current, processed, reported, highest,
    keys, table, result, collected, ordered, retrieved, skipped, callbacks,
    call, input, size, handler, encrypted, built, todo, batch, layers, store, shown,
    applied,
    total, bad, item, updated, stored

G == INSTANCE BatchGet
W == INSTANCE BatchWrite
U == INSTANCE BatchUpdate

notInGet == <<processed, reported, call, input, size, handler, encrypted, built, todo,
              batch, layers, store, shown, applied, total, bad, item, updated,
              stored>>

notInWrite == <<opts, stage, current, highest, keys, table, result, collected,
                ordered, retrieved, skipped, callbacks, total, bad, item, updated,
                stored>>

notInUpdate == <<remaining, keys, table, result, collected, ordered, retrieved,
                 skipped, callbacks, call, input, size, handler, built, todo, batch,
                 store, shown, applied>>

vars == <<operation, G!vars, notInGet>>

InitGet ==
    /\ operation = "get" /\ G!Init
    /\ processed = None /\ reported = None /\ call = None /\ input = None
    /\ size = None /\ handler = None /\ encrypted = None /\ built = None
    /\ todo = None /\ batch = None /\ layers = None /\ store = None
    /\ shown = None /\ applied = None /\ total = None /\ bad = None
    /\ item = None /\ updated = None /\ stored = None

InitWrite ==
    /\ operation = "write" /\ W!Init
    /\ opts = None /\ stage = None /\ current = None /\ highest = None
    /\ keys = None /\ table = None /\ result = None
    /\ collected = None /\ ordered = None /\ retrieved = None /\ skipped = None
    /\ callbacks = None /\ total = None /\ bad = None /\ item = None
    /\ updated = None /\ stored = None

InitUpdate ==
    /\ operation = "update" /\ U!Init
    /\ remaining = None /\ keys = None /\ table = None
    /\ result = None /\ collected = None /\ ordered = None /\ retrieved = None
    /\ skipped = None /\ callbacks = None /\ call = None /\ input = None
    /\ size = None /\ handler = None /\ built = None
    /\ todo = None /\ batch = None /\ store = None
    /\ shown = None /\ applied = None

Init == InitGet \/ InitWrite \/ InitUpdate

Get(A)    == operation = "get" /\ A /\ UNCHANGED <<operation, notInGet>>
Write(A)  == operation = "write" /\ A /\ UNCHANGED <<operation, notInWrite>>
Update(A) == operation = "update" /\ A /\ UNCHANGED <<operation, notInUpdate>>

Next == Get(G!Next) \/ Write(W!Next) \/ Update(U!Next)

Spec == Init /\ [][Next]_vars

------------------------------------------------------------------------------
\* The types of the operation at hand.
TypeOK ==
    /\ operation = "get" => G!TypeOK
    /\ operation = "write" => W!TypeOK
    /\ operation = "update" => U!TypeOK

\* BatchGet answers with every stored item asked for, in the order of the keys.
\* When BatchGet or BatchUpdate has returned none of its goroutines is at work
\* any more, on the slots or on the table; without parallelism BatchGet asks for
\* nothing after a chunk failed.
AlignedAndQuiet ==
    /\ operation = "get" => G!AlignedResult /\ G!QuietAfterReturn /\ G!StopsAtError
    /\ operation = "update" => U!QuietAfterReturn

\* BatchCreate, BatchWrite, BatchDelete and BatchUpdate do everything they were
\* asked to, in order, or tell.  A failing write leaves one batch in doubt, with
\* those before it done and those after it untouched; within a batch,
\* BatchUpdate touches nothing after the item that failed.  The progress
\* callbacks of all batch operations neither run ahead nor fall short.
WrittenOrReported ==
    /\ TypeOK
    /\ operation = "get" => G!ProgressExact
    /\ operation = "write" => W!WrittenOrReported /\ W!OneBatchInDoubt /\ W!ProgressExact
    /\ operation = "update" => U!UpdatedOrReported /\ U!PrefixUpdated /\ U!ProgressExact

\* What batch operations leave in encrypted fields is what a read decrypts.
DecryptedOnRead ==
    /\ operation = "write" => W!DecryptedOnRead
    /\ operation = "update" => U!DecryptedOnRead
==============================================================================
