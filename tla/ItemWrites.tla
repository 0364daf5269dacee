----------------------------- MODULE ItemWrites -----------------------------
(***************************************************************************)
(* The writes of one item by several clients: Create, CreateOrUpdate,      *)
(* Update and Delete of pkg/query with optimistic locking on a version     *)
(* field, updates by an UpdateBuilder, the three executors behind them,    *)
(* and the helpers of pkg/consistency that read what was just written.     *)
(*                                                                         *)
(* A request or its response may be lost; the SDK then sends the request   *)
(* again.  An index lags behind the table.  The attributes other than the  *)
(* version are one stamp, different for every write that was applied.      *)
(***************************************************************************)
EXTENDS Integers, Sequences, FiniteSets

CONSTANTS
    Clients,
    MaxWrites, \* bound on the writes that are applied
    MaxTries,  \* how often the SDK sends a request
    MaxRetries \* of the configured read retries

VARIABLES
    item,     \* in the table
    index,    \* the same item in a global secondary index
    stamp,    \* of the last write that was applied
    copy,     \* client -> its model: what it read or created
    call      \* client -> its call

itemVars == <<item, index, stamp, copy, call>>

Item(version, s, epoch) == [there |-> TRUE, version |-> version, stamp |-> s, epoch |-> epoch]

\* There is no version in an item that an UpdateBuilder brought into being.
NoVersion == -1

NoItem(s) == [there |-> FALSE, version |-> NoVersion, stamp |-> s, epoch |-> s]

\* A new struct; a missing version is read as zero.
Model(i) == [version |-> IF i.version = NoVersion THEN 0 ELSE i.version,
             stamp |-> i.stamp, epoch |-> i.epoch]

NoCall == [pc |-> "idle"]

ItemInit ==
    /\ item = NoItem(0)
    /\ index = NoItem(0)
    /\ stamp = 0
    /\ copy = [c \in Clients |-> Model(NoItem(0))]
    /\ call = [c \in Clients |-> NoCall]

(***************************************************************************)
(* The requests.  A write outside the lock begins an epoch: versions are   *)
(* compared only with versions of the same epoch.                          *)
(***************************************************************************)
Creates == {"Create", "CreateIfNotExists", "CreateOrUpdate"}
Updates == {"Update", "SetVersioned", "Set"}

\* Delete compares a version unless it is zero.
deleteCondition(m) == m.version # 0

locked(op, m) == op \in {"Update", "SetVersioned"} \/ (op = "Delete" /\ deleteCondition(m))

\* The version is not compared (mutant).
existence(op, m) ==
    /\ op = "CreateIfNotExists" => ~item.there
    /\ locked(op, m) => item.there

condition(op, m) ==
    /\ op = "CreateIfNotExists" => ~item.there
    /\ locked(op, m) => item.there /\ item.version = m.version

\* The version is kept (mutant).
sameVersion(i) == i.version

\* The version is increased by the database, from what is stored.
incrementedVersion(i) == i.version + 1

written(op, m, s) ==
    CASE op \in Creates                   -> Item(m.version, s, s)
      [] op \in {"Update", "SetVersioned"} -> Item(incrementedVersion(item), s, item.epoch)
      [] op = "Set"                       -> Item(item.version, s, s)
      [] op = "Delete"                    -> NoItem(s)

(***************************************************************************)
(* The executors send one request and make an answer of its outcome:       *)
(* "condition" is ErrConditionFailed, "error" any other error.             *)
(***************************************************************************)
Executors == {"db", "main", "batch"}

\* The exception of a failed condition is told apart, or wrapped like any other.
Mapped(outcome) == IF outcome = "refused" THEN "condition" ELSE "ok"
Wrapped(outcome) == IF outcome = "refused" THEN "error" ELSE "ok"

ExecutePutItem(outcome) == Mapped(outcome)
ExecuteUpdateItem(outcome) == Mapped(outcome)
ExecuteDeleteItem(outcome) == Mapped(outcome)

executeConditionalWrite(outcome) == Mapped(outcome)
UpdateExecutorExecute(outcome) == Wrapped(outcome)

batchExecutePutItem(outcome) == Wrapped(outcome)
batchExecuteDeleteItem(outcome) == Wrapped(outcome)

executed(exec, op, outcome) ==
    CASE exec = "db" /\ op \in Creates          -> ExecutePutItem(outcome)
      [] exec = "db" /\ op \in Updates          -> ExecuteUpdateItem(outcome)
      [] exec = "db" /\ op = "Delete"           -> ExecuteDeleteItem(outcome)
      [] exec = "main" /\ op \notin Updates     -> executeConditionalWrite(outcome)
      [] exec # "db" /\ op \in Updates          -> UpdateExecutorExecute(outcome)
      [] exec = "batch" /\ op \in Creates       -> batchExecutePutItem(outcome)
      [] exec = "batch" /\ op = "Delete"        -> batchExecuteDeleteItem(outcome)

(***************************************************************************)
(* A write.  "over" lists what its applications overwrote, "then" what a   *)
(* helper does afterwards.  Which executor sent it shows in the error of a *)
(* refused write only, and is chosen there.                                *)
(***************************************************************************)
Begin(c, op, then) ==
    /\ call[c] = NoCall
    /\ stamp < MaxWrites
    /\ call' = [call EXCEPT ![c] =
           [pc |-> "sent", op |-> op, then |-> then, model |-> copy[c], tries |-> 1,
            over |-> <<>>, mine |-> 0, behind |-> FALSE, outcome |-> "none", answer |-> "none",
            mode |-> "none", byIndex |-> FALSE, attempt |-> 0, read |-> 0]]
    /\ UNCHANGED <<item, index, stamp, copy>>

Create(c) == Begin(c, "Create", "return")
CreateIfNotExists(c) == Begin(c, "CreateIfNotExists", "return")
CreateOrUpdate(c) == Begin(c, "CreateOrUpdate", "return")
Update(c) == Begin(c, "Update", "return")
Delete(c) == Begin(c, "Delete", "return")

\* An UpdateBuilder that sets attributes, and one that asks for the version and counts it.
UpdateBuilderSet(c) == Begin(c, "Set", "return")
ConditionVersion(c) == Begin(c, "SetVersioned", "return")

CreateWithConsistency(c) == Begin(c, "Create", "verify")
UpdateWithConsistency(c) == Begin(c, "Update", "copyBack")
UpdateAndVerify(c) == Begin(c, "Update", "copyBack")
CreateAndQueryGSI(c) == Begin(c, "Create", "queryGSI")

\* DynamoDB answers a request; a late one too.
Arrive(c) ==
    /\ call[c].pc = "sent"
    /\ stamp < MaxWrites
    /\ LET r == call[c]
       IN  IF condition(r.op, r.model)
           THEN /\ stamp' = stamp + 1
                /\ item' = written(r.op, r.model, stamp + 1)
                /\ call' = [call EXCEPT ![c] = [r EXCEPT !.pc = "responding", !.outcome = "ok",
                               !.mine = stamp + 1, !.behind = index.there /\ r.then = "queryGSI",
                               !.over = Append(r.over, [stamp |-> item.stamp, epoch |-> item.epoch])]]
           ELSE /\ call' = [call EXCEPT ![c] = [r EXCEPT !.pc = "responding", !.outcome = "refused"]]
                /\ UNCHANGED <<stamp, item>>
    /\ UNCHANGED <<index, copy>>

\* The SDK sends a request again when it gets no answer, and gives up at last.
Lose(c) ==
    /\ call[c].pc \in {"sent", "responding"}
    /\ LET r == call[c]
       IN  call' = [call EXCEPT ![c] =
               IF r.tries < MaxTries THEN [r EXCEPT !.pc = "sent", !.tries = r.tries + 1]
                                     ELSE [r EXCEPT !.pc = "done", !.answer = "error"]]
    /\ UNCHANGED <<item, index, stamp, copy>>

\* The model of a Create is the item; Update does not touch its model.
modelAfter(r, m) ==
    IF r.op \in Creates THEN [m EXCEPT !.stamp = r.mine, !.epoch = r.mine] ELSE m

Respond(c) ==
    /\ call[c].pc = "responding"
    /\ LET r == call[c]
       IN  IF r.outcome = "refused"
           THEN /\ \E exec \in Executors :
                      call' = [call EXCEPT ![c] =
                                  [r EXCEPT !.pc = "done", !.answer = executed(exec, r.op, "refused")]]
                /\ UNCHANGED copy
           ELSE /\ copy' = [copy EXCEPT ![c] = modelAfter(r, @)]
                /\ call' = [call EXCEPT ![c] =
                      CASE r.then = "return"   -> [r EXCEPT !.pc = "done", !.answer = "ok"]
                        [] r.then = "queryGSI" -> [r EXCEPT !.pc = "reading", !.mode = "retry", !.byIndex = TRUE]
                        [] OTHER               -> [r EXCEPT !.pc = "reading", !.mode = "main"]]
    /\ UNCHANGED <<item, index, stamp>>

Return(c) ==
    /\ call[c].pc = "done"
    /\ call' = [call EXCEPT ![c] = NoCall]
    /\ UNCHANGED <<item, index, stamp, copy>>

(***************************************************************************)
(* Reads of the item.  A consistent read goes to the table; an index, and  *)
(* a table that is not asked for consistency, lag behind.  A client wants  *)
(* what the last write it knows of wrote.                                  *)
(*                                                                         *)
(* UseMainTable ignores Index() only: the conditions may still select an   *)
(* index, and then the read is not consistent.  The verification of a      *)
(* write has no conditions and gets the item by its key.                   *)
(***************************************************************************)
QueryAfterWrite(c, mode, byIndex) ==
    /\ call[c] = NoCall
    /\ mode # "main" => byIndex
    /\ call' = [call EXCEPT ![c] =
           [pc |-> "reading", op |-> "Query", then |-> "take", mode |-> mode, byIndex |-> byIndex, attempt |-> 0,
            over |-> <<>>, mine |-> copy[c].stamp, behind |-> FALSE, answer |-> "none",
            read |-> 0, model |-> copy[c], tries |-> 1, outcome |-> "none"]]
    /\ UNCHANGED <<item, index, stamp, copy>>

\* The fallback reads as the first attempt did (mutant).
ConsistentNever(r) == FALSE

\* applyCompiledSettings drops it when an index was selected.
ConsistentRead(r) == r.mode = "main" /\ ~r.byIndex

seen(r) == IF ConsistentRead(r) THEN item ELSE index

\* Also executeWithRetry with the default condition: its destination is never nil.
firstWithRetry(r, i) == ~i.there /\ r.attempt < MaxRetries

verified(r, i) == i.there /\ i.stamp >= r.mine

RetryWithVerification(r, i) == ~verified(r, i) /\ r.attempt < MaxRetries

again(r, i) ==
    CASE r.mode = "retry"  -> firstWithRetry(r, i)
      [] r.mode = "verify" -> RetryWithVerification(r, i)
      [] OTHER             -> FALSE

\* The answer of the last attempt.
answer(r, i) ==
    CASE r.mode = "verify" -> IF verified(r, i) THEN "ok" ELSE "error"
      [] OTHER             -> IF i.there THEN "ok" ELSE "notfound"

\* CreateAndQueryGSI turns to the table, unless an index has the same key.
fallsBack(r, i) == r.then = "queryGSI" /\ r.mode = "retry" /\ answer(r, i) # "ok"

Read(c) ==
    /\ call[c].pc = "reading"
    /\ LET r == call[c]
           i == seen(r)
       IN  CASE again(r, i) ->
                   /\ call' = [call EXCEPT ![c].attempt = @ + 1]
                   /\ UNCHANGED copy
             [] ~again(r, i) /\ fallsBack(r, i) ->
                   /\ \E byIndex \in BOOLEAN :
                         call' = [call EXCEPT ![c] = [r EXCEPT !.mode = "main", !.byIndex = byIndex]]
                   /\ UNCHANGED copy
             [] ~again(r, i) /\ ~fallsBack(r, i) ->
                   /\ call' = [call EXCEPT ![c] = [r EXCEPT !.pc = "done", !.answer = answer(r, i), !.read = i.stamp]]
                   /\ copy' = IF answer(r, i) = "ok" /\ r.then \in {"copyBack", "take"}
                              THEN [copy EXCEPT ![c] = Model(i)]
                              ELSE copy
    /\ UNCHANGED <<item, index, stamp>>

\* A write arrives in the index.
Propagate ==
    /\ index # item
    /\ index' = item
    /\ UNCHANGED <<item, stamp, copy, call>>

ClientStep(c) == Arrive(c) \/ Respond(c) \/ Lose(c) \/ Read(c) \/ Return(c)

ItemNext ==
    \/ \E c \in Clients :
          \/ Create(c) \/ CreateIfNotExists(c) \/ CreateOrUpdate(c)
          \/ Update(c) \/ Delete(c) \/ UpdateBuilderSet(c) \/ ConditionVersion(c)
          \/ CreateWithConsistency(c) \/ UpdateWithConsistency(c) \/ UpdateAndVerify(c)
          \/ CreateAndQueryGSI(c)
          \/ \E mode \in {"main", "plain", "retry", "verify"}, byIndex \in BOOLEAN : QueryAfterWrite(c, mode, byIndex)
          \/ ClientStep(c)
    \/ Propagate

ItemSpec == ItemInit /\ [][ItemNext]_itemVars

(***************************************************************************)
(* Properties.                                                             *)
(***************************************************************************)
Writing(c) == call[c] # NoCall /\ call[c].op # "Query"

\* A write under the lock (Update, Delete of a version, an UpdateBuilder
\* with ConditionVersion and an increment) overwrites only what its client
\* had read, whatever others write and whatever the SDK repeats, as long as
\* nobody writes around the lock in between (query.go:945, query.go:1061).
NoLostUpdate ==
    \A c \in Clients : Writing(c) =>
        LET r == call[c]
        IN  locked(r.op, r.model) =>
                \A i \in 1..Len(r.over) :
                    r.over[i].epoch = r.model.epoch => r.over[i].stamp = r.model.stamp

\* No error means that the write was applied; ErrConditionFailed on the
\* first attempt means that it was not; and one under the lock is applied once,
\* however often it is sent (query_executor.go:810, executor.go:383).
WriteAnswered ==
    \A c \in Clients : Writing(c) /\ call[c].pc = "done" =>
        LET r == call[c]
        IN  /\ r.answer = "ok" => r.over # <<>>
            /\ (r.answer = "condition" /\ r.tries = 1) => r.over = <<>>
            /\ locked(r.op, r.model) =>
                  \A i, j \in 1..Len(r.over) : r.over[i].epoch = r.over[j].epoch => i = j

\* The main table was asked for, and the conditions select no index.
TableSelected(r) == r.mode = "main" /\ ~r.byIndex

\* What a helper says it read includes the caller's write: after a
\* verified write, with a verification and from the main table always; from
\* an index after CreateAndQueryGSI if it held nothing of the item before
\* (readafterwrite.go:32, readafterwrite.go:193, retry.go:86).  UseMainTable
\* promises nothing where its conditions select an index: the consistent
\* read is dropped without an error (query.go:1857).
ReadsOwnWrite ==
    \A c \in Clients :
        (call[c].pc = "done" /\ call[c].answer = "ok") =>
            LET r == call[c]
            IN  (TableSelected(r) \/ r.mode = "verify" \/ (r.then = "queryGSI" /\ ~r.behind)) =>
                    r.read >= r.mine
=============================================================================
