------------------------------- MODULE Schema -------------------------------
(***************************************************************************)
(* Migrations of pkg/schema: AutoMigrateWithOptions makes a backup of the  *)
(* source table (a native one or, where that fails, a copy), creates the   *)
(* target table and copies the items page by page, batch by batch.         *)
(*                                                                         *)
(* Every call of DynamoDB is a step.  The application keeps writing to the *)
(* source table, and several processes may migrate at once, as the         *)
(* instances of a service do when they start.  The scans of a copy are     *)
(* eventually consistent: they may read an item as it was before its last  *)
(* write, until that write has settled.                                    *)
(***************************************************************************)
EXTENDS Integers, Sequences, FiniteSets, Functions

CONSTANTS
    Managers,        \* processes that migrate
    LastKey,         \* the source table holds the keys 1..LastKey, scanned in order
    PageSize,        \* WithBatchSize
    MaxBatch,        \* requests in one BatchWriteItem (10 for a backup, 25)
    MaxBatchRetries, \* attempts of a batch before single puts (5)
    TargetKey,       \* source key -> the key of the transformed item
    Indexes,         \* names of global indexes
    Wanted,          \* those of the model
    MaxRuns, MaxTableWrites, MaxFailures

ASSUME SchemaAssumption ==
    LastKey \in Nat /\ PageSize \in Nat \ {0} /\ MaxBatch \in Nat \ {0} /\ MaxBatchRetries \in Nat

Keys == 1..LastKey
NoItems == <<>>

VARIABLES
    table,     \* name -> its status and items
    gsis,      \* the global indexes of the target table
    mig,       \* manager -> its migration
    replica,   \* key of the source -> its item where a scan may read it
    touched,   \* keys written while a migration was running, or not settled when it began
    runs, writes, failures

schemaVars == <<table, gsis, mig, replica, touched, runs, writes, failures>>

Idle == [pc |-> "idle", backup |-> FALSE, copy |-> FALSE, to |-> "target", after |-> 0,
         todo |-> <<>>, batch |-> {}, attempt |-> 0, alone |-> TRUE, copied |-> FALSE]

NoTable == [status |-> "absent", items |-> NoItems]
Active(items) == [status |-> "active", items |-> items]

SchemaInit ==
    /\ \E target \in {NoTable, Active(NoItems)}, backup \in {NoTable, Active(NoItems)} :
          table = [source |-> Active([k \in Keys |-> [of |-> k, val |-> 0]]),
                   target |-> target, backup |-> backup]
    /\ gsis \in SUBSET Indexes
    /\ replica = table.source.items
    /\ mig = [m \in Managers |-> Idle]
    /\ touched = {}
    /\ runs = 0 /\ writes = 0 /\ failures = 0

Returned == {"idle", "done", "failed"}
Running == {m \in Managers : mig[m].pc \notin Returned}

At(m, pc) == mig[m].pc = pc
Goto(m, pc) == mig' = [mig EXCEPT ![m].pc = pc]

(***************************************************************************)
(* The service (external): a table takes time to come and to go.           *)
(***************************************************************************)
TableReady(t) ==
    /\ \/ table[t].status = "creating" /\ table' = [table EXCEPT ![t] = Active(@.items)]
       \/ table[t].status = "deleting" /\ table' = [table EXCEPT ![t] = NoTable]
    /\ UNCHANGED <<gsis, mig, replica, touched, runs, writes, failures>>

\* The application writes to the source table.
WriteSource(k) ==
    /\ writes < MaxTableWrites
    /\ LET items == table.source.items
       IN  table' = [table EXCEPT !.source = Active([items EXCEPT ![k] = [of |-> k, val |-> items[k].val + 1]])]
    /\ touched' = IF Running = {} THEN touched ELSE touched \cup {k}
    /\ writes' = writes + 1
    /\ UNCHANGED <<gsis, mig, replica, runs, failures>>

\* Keys whose last write a scan may still miss.
Unsettled == {k \in Keys : replica[k] # table.source.items[k]}

\* A write reaches every replica of the source table.
Settle(k) ==
    /\ k \in Unsettled
    /\ replica' = [replica EXCEPT ![k] = table.source.items[k]]
    /\ UNCHANGED <<table, gsis, mig, touched, runs, writes, failures>>

\* A call fails, or waiting for a table times out.
CallFails(m) ==
    /\ m \in Running
    /\ failures < MaxFailures
    /\ failures' = failures + 1
    /\ Goto(m, "failed")
    /\ UNCHANGED <<table, gsis, replica, touched, runs, writes>>

TableExists(t) == table[t].status # "absent"

(***************************************************************************)
(* The steps of a migration.                                               *)
(***************************************************************************)
AutoMigrateWithOptions(m, backup, copy) ==
    /\ mig[m].pc \in Returned
    /\ runs < MaxRuns
    /\ runs' = runs + 1
    /\ mig' = [n \in Managers |->
                  IF n = m THEN [Idle EXCEPT !.pc = IF backup THEN "backup" ELSE "ensure",
                                             !.backup = backup, !.copy = copy,
                                             !.alone = Running = {}]
                  ELSE IF n \in Running THEN [mig[n] EXCEPT !.alone = FALSE]
                  ELSE mig[n]]
    /\ touched' = IF Running = {} THEN Unsettled ELSE touched
    /\ UNCHANGED <<table, gsis, replica, writes, failures>>

\* DB.AutoMigrate and DB.EnsureTable: a table that exists is left as it is.
AutoMigrate(m) == AutoMigrateWithOptions(m, FALSE, FALSE)

\* A native backup; where CreateBackup fails, a copy of the table.
createBackup(m) ==
    /\ At(m, "backup")
    /\ \E pc \in {"ensure", "copyTable"} : Goto(m, pc)
    /\ UNCHANGED <<table, gsis, replica, touched, runs, writes, failures>>

copyTable(m) ==
    /\ At(m, "copyTable")
    /\ Goto(m, IF TableExists("backup") THEN "delete" ELSE "create")
    /\ UNCHANGED <<table, gsis, replica, touched, runs, writes, failures>>

\* The old backup goes before the new one is made, also where another
\* migration is deleting it; one that is being created cannot be deleted.
deleteBackup(m) ==
    /\ At(m, "delete")
    /\ IF table.backup.status \in {"active", "deleting"}
       THEN table' = [table EXCEPT !.backup = [status |-> "deleting", items |-> NoItems]] /\ Goto(m, "gone")
       ELSE Goto(m, "failed") /\ UNCHANGED table
    /\ UNCHANGED <<gsis, replica, touched, runs, writes, failures>>

Creating == [status |-> "creating", items |-> NoItems]

createCopy(m) ==
    /\ \/ At(m, "gone") /\ ~TableExists("backup")
       \/ At(m, "create")
    /\ IF TableExists("backup")
       THEN Goto(m, "failed") /\ UNCHANGED table
       ELSE table' = [table EXCEPT !.backup = Creating] /\ Goto(m, "active")
    /\ UNCHANGED <<gsis, replica, touched, runs, writes, failures>>

copyTableData(m) ==
    /\ At(m, "active")
    /\ table.backup.status = "active"
    /\ mig' = [mig EXCEPT ![m] = [@ EXCEPT !.pc = "scan", !.to = "backup", !.copied = TRUE]]
    /\ UNCHANGED <<table, gsis, replica, touched, runs, writes, failures>>

\* Behind ensureTargetTable.
copyDataIfRequested(m) ==
    mig' = [mig EXCEPT ![m] = [@ EXCEPT !.pc = IF mig[m].copy THEN "scan" ELSE "done",
                                        !.to = "target", !.after = 0]]

\* A table that is still being created counts as one that exists.
ensureTargetTable(m) ==
    /\ At(m, "ensure")
    /\ IF TableExists("target") THEN copyDataIfRequested(m) ELSE Goto(m, "createTarget")
    /\ UNCHANGED <<table, gsis, replica, touched, runs, writes, failures>>

\* "Table already exists, which is fine": without waiting for it.
CreateTable(m) ==
    /\ At(m, "createTarget")
    /\ IF TableExists("target")
       THEN copyDataIfRequested(m) /\ UNCHANGED table
       ELSE table' = [table EXCEPT !.target = Creating] /\ Goto(m, "targetActive")
    /\ UNCHANGED <<gsis, replica, touched, runs, writes, failures>>

waitForTableActive(m) ==
    /\ At(m, "targetActive")
    /\ table.target.status = "active"
    /\ copyDataIfRequested(m)
    /\ UNCHANGED <<table, gsis, replica, touched, runs, writes, failures>>

(***************************************************************************)
(* The copy.                                                               *)
(***************************************************************************)
Take(s, n) == SubSeq(s, 1, IF Len(s) < n THEN Len(s) ELSE n)
Drop(s, n) == SubSeq(s, n + 1, Len(s))

\* A full page has a LastEvaluatedKey, also where nothing follows.
pageAfter(k) == [i \in 1..(IF LastKey - k < PageSize THEN LastKey - k ELSE PageSize) |-> k + i]

transformed(to, item) ==
    [key |-> IF to = "target" THEN TargetKey[item.of] ELSE item.of, item |-> item]

\* The copy of a table ended: the backup, or the migration.
copied(g) == [g EXCEPT !.pc = IF g.to = "backup" THEN "ensure" ELSE "done", !.after = 0, !.batch = {}]

\* The next batch of the page, the next page, or the end (after < 0).
nextBatch(g) ==
    CASE g.todo # <<>> ->
            [g EXCEPT !.pc = "write", !.batch = Range(Take(g.todo, MaxBatch)),
                      !.todo = Drop(g.todo, MaxBatch), !.attempt = 1]
      [] g.todo = <<>> /\ g.after >= 0 -> [g EXCEPT !.pc = "scan", !.batch = {}]
      [] g.todo = <<>> /\ g.after < 0  -> copied(g)

\* What a scan without ConsistentRead reads of the key k, where stale are
\* the keys it reads from a replica that is behind.
scanned(stale, k) == IF k \in stale THEN replica[k] ELSE table.source.items[k]

scanTablePage(m) ==
    /\ At(m, "scan")
    /\ \E stale \in SUBSET Unsettled :
          LET g == mig[m]
              page == pageAfter(g.after)
              requests == [i \in 1..Len(page) |-> transformed(g.to, scanned(stale, page[i]))]
          IN  mig' = [mig EXCEPT ![m] =
                         nextBatch([g EXCEPT !.todo = requests,
                                             !.after = IF Len(page) < PageSize THEN -1 ELSE page[PageSize]])]
    /\ UNCHANGED <<table, gsis, replica, touched, runs, writes, failures>>

\* The transform fails on an item of the page, or leaves out a key of the target.
TransformWithValidation(m) ==
    /\ At(m, "scan")
    /\ mig[m].to = "target"
    /\ mig[m].after < LastKey
    /\ Goto(m, "failed")
    /\ UNCHANGED <<table, gsis, replica, touched, runs, writes, failures>>

\* What the retries left is forgotten (mutant).
afterRetriesDropped(g, remaining) ==
    IF remaining # {} /\ g.attempt < MaxBatchRetries
    THEN [g EXCEPT !.batch = remaining, !.attempt = @ + 1]
    ELSE nextBatch(g)

\* What the service left unprocessed is tried again, in the end one by one.
afterRetries(g, remaining) ==
    CASE remaining = {} -> nextBatch(g)
      [] remaining # {} /\ g.attempt < MaxBatchRetries -> [g EXCEPT !.batch = remaining, !.attempt = @ + 1]
      [] remaining # {} /\ g.attempt >= MaxBatchRetries -> [g EXCEPT !.pc = "put", !.batch = remaining]

\* The items of a table with those of the requests put in.
WithItems(items, requests) ==
    [k \in DOMAIN items \cup {r.key : r \in requests} |->
        IF \E r \in requests : r.key = k THEN (CHOOSE r \in requests : r.key = k).item ELSE items[k]]

\* Two requests for one key are refused, and so is a table that is not active.
\* The service returns what it left unprocessed, in any order.
batchWriteWithRetries(m) ==
    /\ At(m, "write")
    /\ LET g == mig[m]
           refused == \/ table[g.to].status # "active"
                      \/ Cardinality({r.key : r \in g.batch}) < Cardinality(g.batch)
       IN  \/ refused /\ Goto(m, "failed") /\ UNCHANGED table
           \/ /\ ~refused
              /\ \E unprocessed \in SUBSET g.batch :
                    /\ table' = [table EXCEPT ![g.to] = Active(WithItems(@.items, g.batch \ unprocessed))]
                    /\ mig' = [mig EXCEPT ![m] = afterRetries(g, unprocessed)]
    /\ UNCHANGED <<gsis, replica, touched, runs, writes, failures>>

putWriteRequestsIndividually(m) ==
    /\ At(m, "put")
    /\ LET g == mig[m]
       IN  \/ table[g.to].status # "active" /\ Goto(m, "failed") /\ UNCHANGED table
           \/ /\ table[g.to].status = "active"
              /\ \E r \in g.batch :
                    /\ table' = [table EXCEPT ![g.to] = Active(WithItems(@.items, {r}))]
                    /\ mig' = [mig EXCEPT ![m] = IF g.batch = {r} THEN nextBatch(g)
                                                 ELSE [g EXCEPT !.batch = @ \ {r}]]
    /\ UNCHANGED <<gsis, replica, touched, runs, writes, failures>>

(***************************************************************************)
(* UpdateTable: one change of the global indexes in a call, more than one  *)
(* is an error that changes nothing.  BatchUpdateTable repeats it; the     *)
(* options WithGSICreate and WithGSIDelete say nothing to it.              *)
(***************************************************************************)
calculateGSIUpdates == [ToCreate |-> Wanted \ gsis, ToDelete |-> gsis \ Wanted]

UpdateTable ==
    /\ table.target.status = "active"
    /\ LET plan == calculateGSIUpdates
       IN  /\ Cardinality(plan.ToCreate) + Cardinality(plan.ToDelete) = 1
           /\ gsis' = (gsis \cup plan.ToCreate) \ plan.ToDelete
    /\ UNCHANGED <<table, mig, replica, touched, runs, writes, failures>>

SchemaNext ==
    \/ \E t \in {"target", "backup"} : TableReady(t)
    \/ \E k \in Keys : WriteSource(k) \/ Settle(k)
    \/ UpdateTable
    \/ \E m \in Managers :
          \/ AutoMigrate(m)
          \/ \E backup, copy \in BOOLEAN : (backup \/ copy) /\ AutoMigrateWithOptions(m, backup, copy)
          \/ createBackup(m) \/ copyTable(m) \/ deleteBackup(m) \/ createCopy(m) \/ copyTableData(m)
          \/ ensureTargetTable(m) \/ CreateTable(m) \/ waitForTableActive(m)
          \/ scanTablePage(m) \/ TransformWithValidation(m) \/ batchWriteWithRetries(m)
          \/ putWriteRequestsIndividually(m)
          \/ CallFails(m)

SchemaSpec == SchemaInit /\ [][SchemaNext]_schemaVars

(***************************************************************************)
(* Properties.                                                             *)
(***************************************************************************)
\* The items of the source that nobody wrote meanwhile, or so shortly before
\* that the write had not settled, are in the table t, under the keys keyOf
\* gives them; of items that share a key one is there.
Arrived(t, keyOf) ==
    \A k \in Keys \ touched :
        /\ keyOf[k] \in DOMAIN table[t].items
        /\ LET item == table[t].items[keyOf[k]]
           IN  /\ keyOf[item.of] = keyOf[k]
               /\ item.of \in touched \/ item = table.source.items[item.of]

\* A migration that returns no error has copied every item whose last write
\* had settled when the first of the migrations now under way began, whatever
\* the service left unprocessed, whatever failed before it and whoever else
\* migrates; and so it has the backup, if no other migration replaced it
\* (automigrate.go:304, automigrate.go:456).  A write that had not settled may
\* be missed with no error: the scans have no ConsistentRead
\* (automigrate.go:319, automigrate.go:417).
CompleteOnReturn ==
    \A m \in Managers :
        (mig[m].pc \notin Returned /\ mig'[m].pc = "done") =>
            /\ mig[m].copy => Arrived("target", TargetKey)'
            /\ (mig[m].copied /\ mig[m].alone) => Arrived("backup", [k \in Keys |-> k])'

MigrationComplete == [][CompleteOnReturn]_schemaVars
=============================================================================
