------------------------- MODULE LegacyTransaction -------------------------
(***************************************************************************)
(* Transaction of pkg/transaction/transaction.go: operations are recorded  *)
(* as write and read requests, Commit sends the writes in one              *)
(* TransactWriteItems and then the reads in one TransactGetItems, Rollback *)
(* forgets them.  DB.TransactionFunc wraps a function in one transaction.  *)
(* Other clients write the same items in between.                          *)
(***************************************************************************)
EXTENDS Integers, Sequences, Functions

CONSTANTS
    TxKeys,
    MaxRecorded, \* operations recorded in one transaction
    MaxOthers,   \* writes of other clients
    MaxCommits   \* commits of one transaction

VARIABLES
    fields,   \* does the tag of the version, and of updated_at, say omitempty?
    stored,   \* key -> the item, or NoRow
    others,   \* what is left of MaxOthers
    tx,       \* the transaction
    applied   \* what its applied writes overwrote

txVars == <<fields, stored, others, tx, applied>>

NoRow == [there |-> FALSE, version |-> 0]
Row(version) == [there |-> TRUE, version |-> version]

\* results holds the positions of the reads that found an item.
NewTransaction(mode) ==
    [mode |-> mode, pc |-> "open", writes |-> <<>>, reads |-> <<>>, results |-> {}, nilMap |-> FALSE,
     commits |-> 0, answer |-> "none"]

NoTransaction == [mode |-> "none", pc |-> "none", answer |-> "none"]

TxInit ==
    /\ fields \in [versionOmitEmpty : BOOLEAN, updatedAtOmitEmpty : BOOLEAN]
    /\ stored \in [TxKeys -> {NoRow, Row(1)}]
    /\ others = MaxOthers
    /\ tx = NoTransaction
    /\ applied = <<>>

\* A model holds a version and an updated_at, either of which may be zero.
TxModels == [key : TxKeys, version : 0..1, updatedAt : {"zero", "read"}]

(***************************************************************************)
(* The requests.  "sets" lists the attributes an update assigns.           *)
(***************************************************************************)
Write(op, m, sets, version) ==
    [op |-> op, key |-> m.key, sets |-> sets, version |-> version, put |-> m.version]

\* No version is compared.
AnyVersion == -1

CreateWrite(m) == Write("Create", m, <<>>, AnyVersion)

When(condition, s) == IF condition THEN s ELSE <<>>

\* Every attribute that is not a key, the version and updated_at among them.
buildUpdateExpression(m) ==
    <<"value">>
    \o When(~(fields.versionOmitEmpty /\ m.version = 0), <<"version">>)
    \o When(~(fields.updatedAtOmitEmpty /\ m.updatedAt = "zero"), <<"updatedAt">>)

applyVersionUpdate(m) == When(m.version # 0, <<"version">>)

applyUpdatedAtUpdate(m) == When(m.updatedAt = "zero", <<"updatedAt">>)

versionCondition(m) == IF m.version # 0 THEN m.version ELSE AnyVersion

UpdateWrite(m) ==
    Write("Update", m, buildUpdateExpression(m) \o applyVersionUpdate(m) \o applyUpdatedAtUpdate(m),
          versionCondition(m))

\* The version is not compared (mutant).
DeleteAnyVersion(m) == Write("Delete", m, <<>>, AnyVersion)

DeleteWrite(m) == Write("Delete", m, <<>>, versionCondition(m))

Record(w) ==
    /\ tx.pc = "open"
    /\ Len(tx.writes) + Len(tx.reads) < MaxRecorded
    /\ tx' = [tx EXCEPT !.writes = Append(@, w)]
    /\ UNCHANGED <<fields, stored, others, applied>>

TxCreate(m) == Record(CreateWrite(m))
TxUpdate(m) == Record(UpdateWrite(m))
TxDelete(m) == Record(DeleteWrite(m))

Get(k) ==
    /\ tx.pc = "open"
    /\ Len(tx.writes) + Len(tx.reads) < MaxRecorded
    /\ tx' = [tx EXCEPT !.reads = Append(@, k)]
    /\ UNCHANGED <<fields, stored, others, applied>>

(***************************************************************************)
(* DynamoDB: all writes of a request or none.                              *)
(***************************************************************************)
invalid(writes) ==
    \/ \E i, j \in 1..Len(writes) : i # j /\ writes[i].key = writes[j].key
    \/ \E i \in 1..Len(writes) :
          LET sets == writes[i].sets
          IN  \E a, b \in 1..Len(sets) : a # b /\ sets[a] = sets[b]

holds(w) ==
    /\ w.op = "Create" => ~stored[w.key].there
    /\ w.version # AnyVersion => stored[w.key].there /\ stored[w.key].version = w.version

\* A version that is not assigned stays; a missing one reads as zero.
rowAfter(w) ==
    CASE w.op = "Create" -> Row(w.put)
      [] w.op = "Update" -> Row(IF "version" \in Range(w.sets) THEN w.put ELSE stored[w.key].version)
      [] w.op = "Delete" -> NoRow

rowsAfter(writes) ==
    [k \in TxKeys |->
        IF \E i \in 1..Len(writes) : writes[i].key = k
        THEN rowAfter(writes[CHOOSE i \in 1..Len(writes) : writes[i].key = k])
        ELSE stored[k]]

\* Errors of a request that applied nothing: "canceled" is a conflict with
\* another transaction, "failed" any other error, of a request that never
\* arrived for one.
handleTransactionError(writes) ==
    IF invalid(writes) THEN {"validation"}
    ELSE {"canceled", "failed"} \cup (IF \A i \in 1..Len(writes) : holds(writes[i])
                                      THEN {} ELSE {"condition"})

(***************************************************************************)
(* Commit keeps its writes and reads: it can be called again.              *)
(***************************************************************************)
Commit ==
    /\ tx.pc = "open"
    /\ tx.commits < MaxCommits
    /\ tx' = [tx EXCEPT !.pc = IF tx.writes = <<>> THEN "reading" ELSE "writing",
                        !.answer = "none", !.commits = @ + 1]
    /\ UNCHANGED <<fields, stored, others, applied>>

Apply ==
    /\ tx.pc = "writing"
    /\ ~invalid(tx.writes)
    /\ \A i \in 1..Len(tx.writes) : holds(tx.writes[i])
    /\ stored' = rowsAfter(tx.writes)
    /\ applied' = Append(applied, [i \in 1..Len(tx.writes) |-> stored[tx.writes[i].key]])

WritesApplied ==
    /\ Apply
    /\ tx' = [tx EXCEPT !.pc = "reading"]
    /\ UNCHANGED <<fields, others>>

Finished == IF tx.mode = "func" THEN "done" ELSE "open"

\* The writes are applied and the answer is lost, or late for the context:
\* the call ends in the same error as a request that never arrived.
AnswerLost ==
    /\ Apply
    /\ tx' = [tx EXCEPT !.pc = Finished, !.answer = "failed"]
    /\ UNCHANGED <<fields, others>>

WritesRefused ==
    /\ tx.pc = "writing"
    /\ \E e \in handleTransactionError(tx.writes) : tx' = [tx EXCEPT !.pc = Finished, !.answer = e]
    /\ UNCHANGED <<fields, stored, others, applied>>

\* Responses are kept by their position; absent items are left out.
ReadsAnswered ==
    /\ tx.pc = "reading"
    /\ LET found == {i \in 1..Len(tx.reads) : stored[tx.reads[i]].there}
       IN  tx' = IF tx.nilMap /\ found # {}
                 THEN [tx EXCEPT !.pc = "done", !.answer = "panic"]
                 ELSE [tx EXCEPT !.pc = Finished, !.answer = "ok", !.results = @ \cup found]
    /\ UNCHANGED <<fields, stored, others, applied>>

ReadsFailed ==
    /\ tx.pc = "reading"
    /\ tx.reads # <<>>
    /\ tx' = [tx EXCEPT !.pc = Finished, !.answer = "readFailed"]
    /\ UNCHANGED <<fields, stored, others, applied>>

\* The map of results is nil afterwards: writing it panics.
rolledBack == [tx EXCEPT !.writes = <<>>, !.reads = <<>>, !.results = {}, !.nilMap = TRUE]

Rollback ==
    /\ tx.pc = "open"
    /\ tx.mode = "direct"
    /\ tx' = rolledBack
    /\ UNCHANGED <<fields, stored, others, applied>>

\* The function fails, in its own code or in an operation it could not record.
TransactionFuncFails ==
    /\ tx.pc = "open"
    /\ tx.mode = "func"
    /\ tx' = [rolledBack EXCEPT !.pc = "done", !.answer = "fn"]
    /\ UNCHANGED <<fields, stored, others, applied>>

TxBegin(mode) ==
    /\ tx = NoTransaction
    /\ tx' = NewTransaction(mode)
    /\ UNCHANGED <<fields, stored, others, applied>>

\* Another client creates, deletes or updates an item under the lock.
OtherWrite(k) ==
    /\ tx.pc \in {"open", "writing", "reading"}
    /\ others > 0
    /\ others' = others - 1
    /\ \/ stored[k].there /\ stored' = [stored EXCEPT ![k] = NoRow]
       \/ ~stored[k].there /\ stored' = [stored EXCEPT ![k] = Row(0)]
       \/ stored[k].there /\ stored' = [stored EXCEPT ![k] = Row(stored[k].version + 1)]
    /\ UNCHANGED <<fields, tx, applied>>

TxNext ==
    \/ \E mode \in {"func", "direct"} : TxBegin(mode)
    \/ \E m \in TxModels : TxCreate(m) \/ TxUpdate(m) \/ TxDelete(m)
    \/ \E k \in TxKeys : Get(k) \/ OtherWrite(k)
    \/ Commit \/ WritesApplied \/ AnswerLost \/ WritesRefused \/ ReadsAnswered \/ ReadsFailed
    \/ Rollback \/ TransactionFuncFails

TxSpec == TxInit /\ [][TxNext]_txVars

(***************************************************************************)
(* Properties.                                                             *)
(***************************************************************************)
\* The writes a TransactionFunc could not have applied: its error says so.
Refused(answer) == answer \in {"validation", "condition", "canceled", "fn"}

\* TransactionFunc applies the writes of its function once and together
\* if it returns nil or if only its reads failed, not at all if it returns
\* a refusal or the error of its function, and at most once if the outcome
\* is in doubt: any other error of the request, which carries no token of
\* the caller, is returned whether its writes were applied or not.  Every
\* Delete of a nonzero version overwrote that version, whatever others wrote
\* between the recording and the commit; an Update of one would too, but is
\* refused as invalid (VersionedUpdateValid) (query_support.go:148,
\* transaction.go:349, transaction.go:361).
TransactionFuncAtomic ==
    (tx.pc = "done" /\ tx.mode = "func") =>
        /\ tx.answer # "panic"
        /\ tx.answer \in {"ok", "readFailed"} => Len(applied) = IF tx.writes = <<>> THEN 0 ELSE 1
        /\ Refused(tx.answer) => applied = <<>>
        /\ Len(applied) <= 1
        /\ \A n \in 1..Len(applied) :
              \A i \in 1..Len(tx.writes) :
                  (tx.writes[i].op # "Create" /\ tx.writes[i].put # 0) =>
                      applied[n][i].there /\ applied[n][i].version = tx.writes[i].put

\* An Update of a version that is current is applied or meets another
\* client, "for optimistic locking" (transaction.go:111): it is not itself
\* invalid.
VersionedUpdateValid ==
    (tx.pc = "writing" /\ Len(tx.writes) = 1) => ~invalid(tx.writes)
=============================================================================
