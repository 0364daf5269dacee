------------------------------ MODULE MCCalls ------------------------------
(***************************************************************************)
(* Calls that wait for others and must return: those that get a connection *)
(* (MCConnections) and the batch operations (MCBatches).  The two share no *)
(* state: one is looked at while the other rests.                          *)
(***************************************************************************)
EXTENDS MCConnections, MCBatches

VARIABLE calling

batchesVars ==
    <<operation, opts, stage, pc, remaining, attempts, current, processed, reported,
      highest, keys, table, result, collected, ordered, retrieved, skipped, callbacks,
      call, input, size, handler, encrypted, built, todo, batch, layers, store, shown,
      applied, total, bad, item, updated, stored>>

allVars == <<calling, all, batchesVars>>

noConnections == ConnectionsInit /\ used = "session" /\ accounts = [p \in Partners |-> Nobody]
noBatches == InitGet /\ keys = <<>> /\ table = {} /\ opts = CHOOSE o \in G!Options : TRUE

CallsInit ==
    \/ calling = "connections" /\ ConnectionsInit /\ noBatches
    \/ calling = "batches" /\ Init /\ noConnections

Connections(A) == calling = "connections" /\ A /\ UNCHANGED <<calling, batchesVars>>
Batches(A)     == calling = "batches" /\ A /\ UNCHANGED <<calling, all>>

CallsNext == Connections(ConnectionsNext) \/ Batches(Next)

\* The fairness of the two modules.
CallsFairness ==
    /\ \A g \in Goroutines : WF_allVars(Connections(Starting(L!Step(g))))
    /\ WF_allVars(Connections(Connecting(Refresher)))
    /\ SF_allVars(Connections(Connecting(RefreshExit)))
    /\ \A x \in Pairs : WF_allVars(Connections(Connecting(Refresh(x))))
    /\ WF_allVars(Batches(Get(G!Return)))
    /\ \A c \in 1..MaxKeys : WF_allVars(Batches(Get(G!Chunk(c))))
    /\ WF_allVars(Batches(Write(W!Step)))
    /\ WF_allVars(Batches(Update(U!Caller)))
    /\ \A b \in 1..MaxItems : WF_allVars(Batches(Update(U!Batch(b))))

CallsSpec == CallsInit /\ [][CallsNext]_allVars /\ CallsFairness

-----------------------------------------------------------------------------
BatchReturned == IF operation = "write" THEN W!Returned ELSE stage \in {"ok", "error"}

Quiet ==
    /\ calling = "batches" => BatchReturned
    /\ \A g \in Goroutines : place[g] = "idle"
    /\ stopped => refresher = "gone" /\ \A x \in Pairs : refreshing[x] = 0

\* Everything comes to rest: a batch operation returns, however often DynamoDB
\* leaves keys or items unprocessed; every call for the session returns, also
\* those that wait for another's initialization; after Close the background work
\* of the partners' connections ends and stays ended (batch_get.go,
\* batch_operations.go, lambda.go, multiaccount.go).
CallsSettle == <>[]Quiet
=============================================================================
