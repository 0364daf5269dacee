---------------------------- MODULE QueryBuilder ----------------------------
(***************************************************************************)
(* A Query of pkg/query from its first call to the requests it compiles:   *)
(* Where, Filter, OrFilter, FilterGroup, Index, the write conditions, the  *)
(* calls of an UpdateBuilder, then the choice of an index, of GetItem,     *)
(* Query or Scan, and the condition of a write.                            *)
(*                                                                         *)
(* The caller's calls are kept beside the query as he meant them, so that  *)
(* the requests can be compared with the calls on every possible item.     *)
(***************************************************************************)
EXTENDS Expr, FiniteSets, SequencesExt

CONSTANTS
    DBName,     \* Go field name -> attribute name
    PrimaryKey, \* [pk, sk]: Go field names
    Indexes,    \* sequence of [name, type, pk, sk]; a key that is not there is ""
    Encrypted,  \* Go field names with the tag "encrypted"
    VersionField, \* the Go field with the tag "version"
    CreatedAt, UpdatedAt, \* the Go fields with these tags
    OmitEmpty,  \* those with the tag "omitempty"
    FieldLists, \* the fields given to Update, by either name; <<>> for all
    Modes,      \* what the query is for: "read", "write", "update"
    Conditions, \* the conditions a caller may ask for: [field, op, vals]
    GroupConditions, \* those of them used in groups and in raw expressions
    RawValues,  \* placeholders a raw condition expression may bring along
    UpdateFields, \* the fields an UpdateBuilder may update
    Models,     \* mode -> the models behind the query: Go field name -> value, 0 if unset
    Items,      \* the items a table may hold: attribute -> value
    MaxCalls    \* calls of one query

\* Every field has an attribute of its own; the keys of the table and of its indexes
\* are fields, those of the table in every item; indexes have names of their own.
\* Registration refuses encrypted keys; nothing refuses an encrypted version, which
\* would never compare equal and is left out here.
ASSUME QueryAssumption ==
    /\ DBName \in [DOMAIN DBName -> STRING] /\ IsInjective(DBName)
    /\ IsFiniteSet(DOMAIN DBName) /\ DOMAIN DBName \subseteq STRING \ {""}
    /\ Encrypted \subseteq DOMAIN DBName
    /\ PrimaryKey \in [pk : DOMAIN DBName \ Encrypted, sk : (DOMAIN DBName \ Encrypted) \cup {""}]
    /\ VersionField \in DOMAIN DBName \ Encrypted
    /\ CreatedAt \cup UpdatedAt \cup OmitEmpty \subseteq DOMAIN DBName
    /\ Indexes \in Seq([name : STRING \ {""}, type : STRING, projection : STRING,
                       pk : DOMAIN DBName, sk : DOMAIN DBName \cup {""}])
    /\ \A i, j \in 1..Len(Indexes) : Indexes[i].name = Indexes[j].name => i = j

ASSUME CallAssumption ==
    /\ Conditions \cup GroupConditions \subseteq [field : STRING, op : STRING, vals : Seq(Nat)]
    /\ UpdateFields \subseteq STRING /\ FieldLists \subseteq Seq(STRING)
    /\ \A m \in Modes : Models[m] \subseteq [DOMAIN DBName -> Nat]
    /\ Items \subseteq [{DBName[f] : f \in DOMAIN DBName} -> Int]
    /\ \A item \in Items, f \in {PrimaryKey.pk, PrimaryKey.sk} \ {""} : item[DBName[f]] # Absent
    /\ MaxCalls \in Nat

VARIABLES
    mode,
    q,          \* the Query
    ub,         \* its UpdateBuilder
    asked       \* what the calls asked for, as the caller meant it

queryVars == <<mode, q, ub, asked>>

NoBuilder == [none |-> TRUE]
Nil == [none |-> TRUE]
Zero == 0       \* the zero value of a Go field

(***************************************************************************)
(* Names.  A field is named by its Go name or by its attribute name.       *)
(***************************************************************************)
\* The field of that name, if there is one; a Go name is found first.
AttributeMetadata(f) ==
    IF f \in DOMAIN DBName THEN {f} ELSE {g \in DOMAIN DBName : DBName[g] = f}

resolveGoFieldName(f) ==
    IF AttributeMetadata(f) = {} THEN f ELSE CHOOSE g \in AttributeMetadata(f) : TRUE

resolveAttributeName(f) ==
    IF AttributeMetadata(f) = {} THEN f ELSE DBName[resolveGoFieldName(f)]

\* Only the Go name is looked up (mutant).
rejectEncryptedGoName(f) == f \in Encrypted

rejectEncryptedConditionField(f) == resolveGoFieldName(f) \in Encrypted

(***************************************************************************)
(* The calls.                                                              *)
(***************************************************************************)
keyFields == {PrimaryKey.pk, PrimaryKey.sk} \ {""}

\* The item an UpdateBuilder is for has been named by a call of Where for each key.
named ==
    LET is(f) == [field |-> f, op |-> "=", vals |-> <<1>>]
    IN  IF mode # "update" THEN <<>>
        ELSE IF PrimaryKey.sk = "" THEN <<is(PrimaryKey.pk)>>
        ELSE <<is(PrimaryKey.pk), is(PrimaryKey.sk)>>

QueryInit ==
    /\ mode \in Modes
    /\ \E m \in Models[mode] :
          q = [conditions |-> named, builder |-> NoBuilder, index |-> "",
               writeConditions |-> <<>>, raw |-> <<>>, model |-> m, builderErr |-> FALSE]
    /\ ub = [expr |-> EmptyBuilder, conditions |-> <<>>, buildErr |-> FALSE]
    /\ asked = [calls |-> 0, where |-> named, filters |-> <<>>, operators |-> <<>>,
                writes |-> <<>>, updates |-> <<>>, updateOps |-> <<>>, effects |-> <<>>]

Called == asked.calls < MaxCalls

recordBuilderError(query) == [query EXCEPT !.builderErr = TRUE]

Where(c) ==
    /\ Called
    /\ IF rejectEncryptedConditionField(c.field)
       THEN q' = recordBuilderError(q)
       ELSE q' = [q EXCEPT !.conditions = Append(@, c)]
    /\ asked' = [asked EXCEPT !.calls = @ + 1, !.where = Append(@, c)]
    /\ UNCHANGED <<mode, ub>>

newBuilder(query) == IF query.builder = NoBuilder THEN EmptyBuilder ELSE query.builder

withFilter(b, logicalOp, c) ==
    AddFilterCondition(b, logicalOp, resolveAttributeName(c.field), c.op, c.vals)

\* A call that fails leaves its error with the query.
keepBuilder(query, b) ==
    [query EXCEPT !.builder = [b EXCEPT !.err = FALSE],
                  !.builderErr = @ \/ b.err]

askFilter(logicalOp, f) ==
    asked' = [asked EXCEPT !.calls = @ + 1,
                           !.filters = Append(@, f),
                           !.operators = linked(@, asked.filters, logicalOp)]

addFilter(logicalOp, c) ==
    /\ Called
    /\ mode = "read"
    /\ IF rejectEncryptedConditionField(c.field)
       THEN q' = recordBuilderError(q)
       ELSE q' = keepBuilder(q, withFilter(newBuilder(q), logicalOp, c))
    /\ askFilter(logicalOp, [group |-> <<c>>, operators |-> <<>>, grouped |-> FALSE])
    /\ UNCHANGED <<mode, ub>>

Filter(c) == addFilter("AND", c)

OrFilter(c) == addFilter("OR", c)

anyEncrypted(cs) == \E i \in 1..Len(cs) : rejectEncryptedConditionField(cs[i].field)

\* Filter or OrFilter inside a group: a refused condition adds nothing.
withGroupFilter(b, logicalOp, c) ==
    IF rejectEncryptedConditionField(c.field) THEN b ELSE withFilter(b, logicalOp, c)

\* The function given to FilterGroup calls Filter or OrFilter on a query of its own.
groupBuilder(g) ==
    LET first  == withGroupFilter(EmptyBuilder, "AND", g.group[1])
    IN  IF Len(g.group) = 1 THEN first
        ELSE withGroupFilter(first, g.operators[1], g.group[2])

addFilterGroup(logicalOp, g) ==
    /\ Called
    /\ mode = "read"
    /\ LET sub == groupBuilder(g)
       IN  q' = [keepBuilder(q, AddGroupFilter(newBuilder(q), logicalOp, sub)) EXCEPT
                     !.builderErr = @ \/ sub.err \/ anyEncrypted(g.group)]
    /\ askFilter(logicalOp, g)
    /\ UNCHANGED <<mode, ub>>

FilterGroup(g) == addFilterGroup("AND", g)

OrFilterGroup(g) == addFilterGroup("OR", g)

Index(name) ==
    /\ Called
    /\ mode = "read"
    /\ q.index = ""
    /\ q' = [q EXCEPT !.index = name]
    /\ asked' = [asked EXCEPT !.calls = @ + 1]
    /\ UNCHANGED <<mode, ub>>

addPrimaryKeyCondition(op) ==
    LET on(f) == [field |-> resolveAttributeName(f), op |-> op, vals |-> <<>>]
    IN  IF PrimaryKey.sk # "" /\ op = "ATTRIBUTE_EXISTS"
        THEN <<on(PrimaryKey.pk), on(PrimaryKey.sk)>>
        ELSE <<on(PrimaryKey.pk)>>

IfExistence(op) ==
    /\ Called
    /\ mode # "read"
    /\ q' = [q EXCEPT !.writeConditions = @ \o addPrimaryKeyCondition(op)]
    /\ asked' = [asked EXCEPT !.calls = @ + 1,
                              !.writes = Append(@, [field |-> PrimaryKey.pk, op |-> op,
                                                    vals |-> <<>>])]
    /\ UNCHANGED <<mode, ub>>

IfNotExists == IfExistence("ATTRIBUTE_NOT_EXISTS")

IfExists == IfExistence("ATTRIBUTE_EXISTS")

WithCondition(c) ==
    /\ Called
    /\ mode # "read"
    /\ IF rejectEncryptedConditionField(c.field)
       THEN q' = recordBuilderError(q)
       ELSE q' = [q EXCEPT !.writeConditions =
                      Append(@, [c EXCEPT !.field = resolveAttributeName(@)])]
    /\ asked' = [asked EXCEPT !.calls = @ + 1, !.writes = Append(@, c)]
    /\ UNCHANGED <<mode, ub>>

\* A condition the caller wrote himself, with the placeholders of its values.
WithConditionExpression(c, placeholders) ==
    /\ Called
    /\ mode # "read"
    /\ q' = [q EXCEPT !.raw = Append(@, [cond |-> c, holders |-> placeholders])]
    /\ asked' = [asked EXCEPT !.calls = @ + 1, !.writes = Append(@, c)]
    /\ UNCHANGED <<mode, ub>>

\* One attribute is updated once: DynamoDB refuses overlapping paths.
updateCall(f, effect, b) ==
    /\ Called
    /\ mode = "update"
    /\ resolveAttributeName(f) \notin DOMAIN asked.effects
    /\ ub' = [ub EXCEPT !.expr = [b EXCEPT !.err = FALSE], !.buildErr = @ \/ b.err]
    /\ asked' = [asked EXCEPT !.calls = @ + 1,
                              !.effects = over([a \in {resolveAttributeName(f)} |-> effect], @)]
    /\ UNCHANGED <<mode, q>>

UpdateSet(f, v) == updateCall(f, <<"SET", v>>, AddUpdateSet(ub.expr, resolveAttributeName(f), v))

UpdateAdd(f, v) == updateCall(f, <<"ADD", v>>, AddUpdateAdd(ub.expr, resolveAttributeName(f), v))

UpdateRemove(f) == updateCall(f, <<"REMOVE">>, AddUpdateRemove(ub.expr, resolveAttributeName(f)))

UpdateSetIfNotExists(f, v) ==
    updateCall(f, <<"DEFAULT", v>>, AddUpdateFunction(ub.expr, resolveAttributeName(f), v))

updateCondition(logicOp, c) ==
    /\ Called
    /\ mode = "update"
    /\ IF ~ub.buildErr /\ rejectEncryptedConditionField(c.field)
       THEN ub' = [ub EXCEPT !.buildErr = TRUE]
       ELSE ub' = [ub EXCEPT !.conditions = Append(@, [cond |-> c, logicOp |-> logicOp])]
    /\ asked' = [asked EXCEPT !.calls = @ + 1,
                              !.updates = Append(@, c),
                              !.updateOps = linked(@, asked.updates, logicOp)]
    /\ UNCHANGED <<mode, q>>

Condition(c) == updateCondition("AND", c)

OrCondition(c) == updateCondition("OR", c)

(***************************************************************************)
(* The index a query is sent to (pkg/index, selectBestIndex).              *)
(***************************************************************************)
IndexList ==
    <<[name |-> "", type |-> "PRIMARY", projection |-> "",
       pk |-> PrimaryKey.pk, sk |-> PrimaryKey.sk]>> \o Indexes

\* The first equality names the partition key; the sort key is the first
\* other field from there on, or else before it.
AnalyzeConditions(cs) ==
    LET go(i)  == resolveGoFieldName(cs[i].field)
        eqs    == {i \in 1..Len(cs) : canonical(cs[i].op) = "="}
        at     == Min(eqs)
        others == {i \in 1..Len(cs) : go(i) # go(at)}
        after  == {i \in others : i > at}
        sort   == IF after # {} THEN Min(after) ELSE Min(others)
    IN  IF eqs = {} THEN [pk |-> "", sk |-> "", op |-> ""]
        ELSE IF others = {} THEN [pk |-> go(at), sk |-> "", op |-> ""]
        ELSE [pk |-> go(at), sk |-> go(sort), op |-> canonical(cs[sort].op)]

scoreIndex(idx, required) ==
    IF idx.pk # required.pk THEN 0
    ELSE 100
         + (IF required.sk = "" \/ idx.sk # required.sk THEN 0
            ELSE CASE required.op = "="                                  -> 50
                   [] required.op = "BEGINS_WITH"                        -> 40
                   [] required.op \in {"BETWEEN", "<", "<=", ">", ">="}  -> 30
                   [] OTHER                                              -> 0)
         + (IF idx.type = "GSI" THEN 10 ELSE 0)
         + (IF idx.projection = "ALL" THEN 5 ELSE 0)

SelectOptimal(required) ==
    LET score(i) == scoreIndex(IndexList[i], required)
        best     == {i \in 1..Len(IndexList) :
                        /\ score(i) > 0
                        /\ \A j \in 1..Len(IndexList) :
                              score(j) < score(i) \/ (score(j) = score(i) /\ i <= j)}
    IN  IF required.pk = "" \/ best = {} THEN Nil
        ELSE IndexList[CHOOSE i \in best : TRUE]

\* A key the index does not have is taken from the table.
keyNamesForIndex(idx) ==
    IF idx = Nil THEN PrimaryKey
    ELSE [pk |-> IF idx.pk = "" THEN PrimaryKey.pk ELSE idx.pk,
          sk |-> IF idx.sk = "" THEN PrimaryKey.sk ELSE idx.sk]

isPartitionKey(keys, c) == keys.pk # "" /\ resolveGoFieldName(c.field) = keys.pk

isSortKey(keys, c) == keys.sk # "" /\ resolveGoFieldName(c.field) = keys.sk

\* The table's sort key, whatever the index (mutant).
splitByTableSortKey(keys, c) == isPartitionKey(keys, c) \/ isSortKey(PrimaryKey, c)

\* The index was chosen: every condition on one of its keys is a key condition.
splitConditionsByKey(keys, c) == isPartitionKey(keys, c) \/ isSortKey(keys, c)

\* The index was named: only what DynamoDB allows of a key is a key condition.
partitionConditionsForKeys(keys, c) ==
    \/ isPartitionKey(keys, c) /\ c.op = "="
    \/ /\ ~isPartitionKey(keys, c)
       /\ isSortKey(keys, c)
       /\ c.op \in {"=", "<", "<=", ">", ">=", "BETWEEN", "BEGINS_WITH"}

(***************************************************************************)
(* Compile: a Query with key and filter conditions, or a Scan that filters *)
(***************************************************************************)
\* The chosen conditions, for one of the lists of a builder.
clausesOf(cs, chosen, to) ==
    [i \in 1..Len(cs) |->
        [to |-> IF i \in chosen THEN to ELSE "none", link |-> "AND",
         name |-> resolveAttributeName(cs[i].field), op |-> cs[i].op, vals |-> cs[i].vals]]

\* The key conditions first, then the others.
applyKeyAndFilterConditions(b, keys) ==
    addClauses(addClauses(b, clausesOf(q.conditions, keys, "keyConditions")),
               clausesOf(q.conditions, DOMAIN q.conditions \ keys, "filterConditions"))

effectiveBuilder == IF q.builder = NoBuilder THEN EmptyBuilder ELSE Clone(q.builder)

applyScanConditions ==
    addClauses(effectiveBuilder, clausesOf(q.conditions, DOMAIN q.conditions, "filterConditions"))

indexSchemaByName(name) ==
    LET hits == {i \in 1..Len(Indexes) : Indexes[i].name = name}
    IN  IF hits = {} THEN Nil ELSE Indexes[CHOOSE i \in hits : TRUE]

compileWithExplicitIndex ==
    LET keys  == keyNamesForIndex(indexSchemaByName(q.index))
        keyed == {i \in DOMAIN q.conditions : partitionConditionsForKeys(keys, q.conditions[i])}
    IN  IF \E i \in keyed : isPartitionKey(keys, q.conditions[i])
        THEN [op |-> "Query", index |-> q.index,
              b |-> applyKeyAndFilterConditions(effectiveBuilder, keyed)]
        ELSE [op |-> "Scan", index |-> q.index, b |-> applyScanConditions]

compileWithBestIndex ==
    LET best  == SelectOptimal(AnalyzeConditions(q.conditions))
        keyed == {i \in DOMAIN q.conditions :
                     splitConditionsByKey(keyNamesForIndex(best), q.conditions[i])}
    IN  IF best # Nil
        THEN [op |-> "Query", index |-> best.name,
              b |-> applyKeyAndFilterConditions(effectiveBuilder, keyed)]
        ELSE [op |-> "Scan", index |-> "", b |-> applyScanConditions]

Compile == IF q.index # "" THEN compileWithExplicitIndex ELSE compileWithBestIndex

compileScan == [op |-> "Scan", index |-> q.index, b |-> applyScanConditions]

(***************************************************************************)
(* The primary key of a request: from the conditions, else from the model. *)
(***************************************************************************)
onField(cs, f) == {i \in 1..Len(cs) : resolveGoFieldName(cs[i].field) = f}

\* The last condition on the field counts.
keyValue(f) ==
    IF onField(q.conditions, f) = {} THEN q.model[f]
    ELSE q.conditions[Max(onField(q.conditions, f))].vals[1]

keyByEquality ==
    \A f \in keyFields : \A i \in onField(q.conditions, f) : q.conditions[i].op = "="

buildPrimaryKeyMap ==
    IF \/ ~keyByEquality
       \/ \E f \in keyFields : onField(q.conditions, f) = {} /\ q.model[f] = Zero
    THEN Nil
    ELSE [a \in {DBName[f] : f \in keyFields} |->
             keyValue(CHOOSE f \in keyFields : DBName[f] = a)]

compileGetItem ==
    IF \/ q.index # "" \/ q.builder # NoBuilder
       \/ \E i \in 1..Len(q.conditions) :
             resolveGoFieldName(q.conditions[i].field) \notin keyFields
    THEN Nil ELSE buildPrimaryKeyMap

(***************************************************************************)
(* Writes: the condition of a PutItem, UpdateItem or DeleteItem.           *)
(***************************************************************************)
addWriteConditions(b) ==
    IF anyEncrypted(q.writeConditions) THEN failed(b)
    ELSE addClauses(b, [i \in 1..Len(q.writeConditions) |->
                           [to |-> "conditions", link |-> "AND", name |-> q.writeConditions[i].field,
                            op |-> q.writeConditions[i].op, vals |-> q.writeConditions[i].vals]])

addWhereConditions(b) ==
    IF anyEncrypted(q.conditions) THEN failed(b)
    ELSE addClauses(b, clausesOf(q.conditions,
                                 {i \in DOMAIN q.conditions :
                                     ~splitConditionsByKey(PrimaryKey, q.conditions[i])},
                                 "conditions"))

\* A raw expression must not bring a placeholder that is taken.
mergeConditionExpressions(b) ==
    LET clash(i) == \/ q.raw[i].holders \in DOMAIN b.values
                    \/ \E j \in 1..(i - 1) : q.raw[j].holders = q.raw[i].holders
    IN  IF \E i \in 1..Len(q.raw) : clash(i) THEN failed(b) ELSE b

buildConditionExpression(b, includeWhere) ==
    mergeConditionExpressions(IF includeWhere THEN addWhereConditions(addWriteConditions(b))
                                              ELSE addWriteConditions(b))

versionCondition(b) ==
    AddConditionExpression(b, DBName[VersionField], "=", <<q.model[VersionField]>>)

Now == 1        \* the time of the call

\* Nobody asks for these fields; Update sets the last two of them itself.
keptBack == CreatedAt \cup UpdatedAt \cup {VersionField}

metadataFieldsToUpdate ==
    {f \in DOMAIN DBName \ (keyFields \cup keptBack) : f \in OmitEmpty => q.model[f] # Zero}

\* updateFieldMetadata knows the field, and it is no key.
updatable(f) ==
    AttributeMetadata(f) # {} /\ resolveGoFieldName(f) \notin keyFields

\* The fields named, or those of the model; then the time, and the version checked
\* and counted up.
buildUpdateExpression(fields) ==
    LET chosen  == IF fields = <<>> THEN SetToSeq(metadataFieldsToUpdate) ELSE fields
        times   == SetToSeq(UpdatedAt)
        updates == [i \in 1..(Len(chosen) + Len(times)) |->
                       IF i <= Len(chosen)
                       THEN [field |-> chosen[i], op |-> "SET",
                             vals |-> <<q.model[resolveGoFieldName(chosen[i])]>>]
                       ELSE [field |-> times[i - Len(chosen)], op |-> "SET", vals |-> <<Now>>]]
        passed  == {i \in 1..Len(chosen) : resolveGoFieldName(chosen[i]) \in keptBack}
        sets    == addClauses(EmptyBuilder, clausesOf(updates, DOMAIN updates \ passed, "updates"))
    IN  IF \E i \in 1..Len(fields) : ~updatable(fields[i]) THEN failed(EmptyBuilder)
        ELSE AddUpdateAdd(versionCondition(sets), DBName[VersionField], 1)

CreateRequest == [key |-> Nil, b |-> buildConditionExpression(EmptyBuilder, FALSE)]

UpdateRequest(fields) ==
    [key |-> buildPrimaryKeyMap, b |-> buildConditionExpression(buildUpdateExpression(fields), TRUE)]

DeleteRequest ==
    [key |-> buildPrimaryKeyMap,
     b |-> buildConditionExpression(
               IF q.model[VersionField] # Zero THEN versionCondition(EmptyBuilder)
                                                 ELSE EmptyBuilder, TRUE)]

(***************************************************************************)
(* UpdateBuilder.Execute and ExecuteWithResult.  Its own conditions and    *)
(* those of the query are two expressions, joined by AND.                  *)
(***************************************************************************)
populateKeyValues ==
    IF \E f \in keyFields : onField(q.conditions, f) = {} THEN Nil ELSE buildPrimaryKeyMap

withUpdateConditions(keepLogicOp) ==
    addClauses(ub.expr, [i \in 1..Len(ub.conditions) |->
        [to |-> "conditions", link |-> IF keepLogicOp THEN ub.conditions[i].logicOp ELSE "AND",
         name |-> resolveAttributeName(ub.conditions[i].cond.field),
         op |-> ub.conditions[i].cond.op, vals |-> ub.conditions[i].cond.vals]])

joined(b) ==
    [key |-> populateKeyValues, own |-> b,
     b |-> buildConditionExpression(ResetConditions(Clone(b)), FALSE)]

UpdateExecute == joined(withUpdateConditions(FALSE))

ExecuteWithResult == joined(withUpdateConditions(TRUE))

Groups == {[group |-> <<c>>, operators |-> <<>>, grouped |-> TRUE] : c \in GroupConditions}
          \cup {[group |-> <<c, d>>, operators |-> <<"OR">>, grouped |-> TRUE] :
                    c \in GroupConditions, d \in GroupConditions}

QueryNext ==
    \/ \E c \in Conditions : \/ Where(c) \/ Filter(c) \/ OrFilter(c)
                             \/ WithCondition(c) \/ Condition(c) \/ OrCondition(c)
    \/ \E c \in GroupConditions, p \in RawValues : WithConditionExpression(c, p)
    \/ \E g \in Groups : FilterGroup(g) \/ OrFilterGroup(g)
    \/ \E i \in 1..Len(Indexes) : Index(Indexes[i].name)
    \/ IfNotExists \/ IfExists
    \/ \E f \in UpdateFields : \/ UpdateSet(f, 2) \/ UpdateAdd(f, 1)
                              \/ UpdateRemove(f) \/ UpdateSetIfNotExists(f, 1)

QuerySpec == QueryInit /\ [][QueryNext]_queryVars

(***************************************************************************)
(* What the calls mean, and what the requests do.                          *)
(***************************************************************************)
Says(c, item) == Compare(canonical(c.op), item[resolveAttributeName(c.field)], c.vals)

AllSay(cs, item) == \A i \in 1..Len(cs) : Says(cs[i], item)

GroupSays(g, item) ==
    AndOr([i \in 1..Len(g.group) |-> Says(g.group[i], item)], g.operators)

Meant(item) ==
    /\ AllSay(asked.where, item)
    /\ AndOr([i \in 1..Len(asked.filters) |-> GroupSays(asked.filters[i], item)],
             asked.operators)

ands(terms) == [i \in 1..Len(terms) |-> "AND"]

Selected(r, item) ==
    /\ ExpressionHolds(r.b.keyConditions, ands(r.b.keyConditions), r.b, item)
    /\ ExpressionHolds(r.b.filterConditions, r.b.filterOperators, r.b, item)

\* An index holds the items that have its keys.
Indexed(item, index) ==
    \A i \in 1..Len(Indexes) : Indexes[i].name = index =>
        \A k \in {Indexes[i].pk, Indexes[i].sk} \ {""} : item[DBName[k]] # Absent

HasKey(item, key) == \A a \in DOMAIN key : item[a] = key[a]

\* OrFilter with a Where that is not a key condition: the Where joins the last AND.
OrBlends(r) ==
    /\ "OR" \in Range(asked.operators)
    /\ Len(r.b.filterConditions) > Len(asked.filters)

\* A group beside any other condition: both number their placeholders from one.
GroupBlends ==
    /\ \E i \in 1..Len(asked.filters) : asked.filters[i].grouped
    /\ Len(asked.filters) + Len(asked.where) > 1

RepeatedKey ==
    \E f \in keyFields : \E i, j \in onField(asked.where, f) : i # j

ReadMeans(r) ==
    r.b.err \/ OrBlends(r) \/ \A item \in Items :
        Indexed(item, r.index) => (Selected(r, item) <=> Meant(item))

\* A read finds what its calls ask for: for every item the index holds, the key
\* and filter conditions of the Query or Scan that was compiled (query.go:1362,
\* 1863) hold exactly if every Where and the chain of filters hold, and the item
\* that First fetches by its key satisfies every Where (query.go:1925).  Left out:
\* OrFilter beside a Where that becomes a filter, groups beside other conditions,
\* two conditions on one key field.
RequestMeansCalls ==
    (mode = "read" /\ ~q.builderErr) =>
        /\ GroupBlends \/ (ReadMeans(Compile) /\ ReadMeans(compileScan))
        /\ (compileGetItem # Nil /\ ~RepeatedKey) =>
              \A item \in Items : HasKey(item, compileGetItem) => AllSay(asked.where, item)

\* FilterGroup "adds a grouped AND filter condition" (query.go:2282), whatever
\* else the query asks for.
GroupsMeanCalls ==
    (mode = "read" /\ ~q.builderErr) => ReadMeans(compileScan)

\* A compiled Query is one DynamoDB accepts: an equality on the partition key of
\* the index, at most one other condition, on its sort key (query.go:1712).  It takes
\* a caller who asks one thing of a field, of a sort key only what DynamoDB allows, who
\* does not name the table's sort key when the index has none, and who has no group
\* beside other conditions: nothing of this is checked by the code.
KeyConditionsValid ==
    LET r     == Compile
        keys  == [i \in 1..Len(r.b.keyConditions) |-> r.b.names[r.b.keyConditions[i].name]]
        idx   == IF r.index = "" THEN IndexList[1] ELSE indexSchemaByName(r.index)
        once  == \A i, j \in 1..Len(q.conditions) :
                     i # j => resolveGoFieldName(q.conditions[i].field)
                                # resolveGoFieldName(q.conditions[j].field)
        plain == \A i \in 1..Len(q.conditions) :
                     /\ q.conditions[i].op \in {"=", "EQ", "<", ">", "BETWEEN", "BEGINS_WITH"}
                     /\ idx.sk = "" => resolveGoFieldName(q.conditions[i].field) # PrimaryKey.sk
    IN  (mode = "read" /\ r.op = "Query" /\ ~r.b.err /\ once /\ plain /\ ~GroupBlends) =>
            /\ IsInjective(keys)
            /\ \E i \in 1..Len(keys) : /\ keys[i] = DBName[idx.pk]
                                       /\ r.b.keyConditions[i].op = "="
            /\ Range(keys) \subseteq {DBName[k] : k \in {idx.pk, idx.sk} \ {""}}

WriteHolds(r, item) ==
    /\ ExpressionHolds(r.b.conditions, r.b.conditionOperators, r.b, item)
    /\ AllSay([i \in 1..Len(q.raw) |-> q.raw[i].cond], item)

Sent(r) == ~r.b.err /\ ~q.builderErr

NoItem == [a \in {DBName[f] : f \in DOMAIN DBName} |-> Absent]

Stored(key) == {NoItem} \cup {item \in Items : key = Nil \/ HasKey(item, key)}

\* What the calls ask of the stored item, the key apart.
WriteMeant(item) ==
    /\ AllSay(asked.writes, item)
    /\ \A i \in 1..Len(asked.where) :
          splitConditionsByKey(PrimaryKey, asked.where[i]) \/ Says(asked.where[i], item)

EffectOf(a, x) ==
    IF a \notin DOMAIN asked.effects THEN x
    ELSE LET e == asked.effects[a]
         IN  CASE e[1] = "SET"     -> e[2]
               [] e[1] = "ADD"     -> IF x = Absent THEN e[2] ELSE x + e[2]
               [] e[1] = "REMOVE"  -> Absent
               [] e[1] = "DEFAULT" -> IF x = Absent THEN e[2] ELSE x

OrAsked == "OR" \in Range(asked.updateOps)

\* What the conditions of an UpdateBuilder say, all of them joined alike.
UpdateSays(item) ==
    IF OrAsked
    THEN \E i \in 1..Len(asked.updates) : Says(asked.updates[i], item)
    ELSE AllSay(asked.updates, item)

MixesAndOr == {"AND", "OR"} \subseteq Range(asked.updateOps)

\* An UpdateBuilder's request changes an item, and to what.
UpdateDone(r, item) ==
    /\ ExpressionHolds(r.own.conditions, r.own.conditionOperators, r.b, item)
    /\ WriteHolds(r, item)

\* The error the query recorded is not asked for.
BuilderSends(r) == ~ub.buildErr /\ ~r.own.err /\ ~r.b.err /\ r.key # Nil

\* A write condition was refused, and is not in the request.
ConditionRefused == q.builderErr

UpdateAsAsked(r) ==
    BuilderSends(r) => \A item \in Stored(r.key) :
        /\ UpdateDone(r, item) <=> AllSay(asked.writes, item) /\ UpdateSays(item)
        /\ Updated(r.own, item) = [a \in DOMAIN item |-> EffectOf(a, item[a])]

\* A write happens exactly if what its calls ask of the stored item holds: the
\* write conditions for Create (query.go:701), these, every Where on a field that
\* is no key and the model's version for Update and Delete (query.go:813, 1043), the
\* conditions of an UpdateBuilder and those of its query for its two Executes
\* (update_builder.go:320, 416); and an UpdateBuilder changes what it was told to.
\* Left to OrConditionMeansOr, which the code does not keep: any OrCondition with
\* Execute, and OrCondition beside Condition with ExecuteWithResult.  Left out: an
\* UpdateBuilder of a query that refused a call, which sends the rest (README).
WriteMeansCalls ==
    /\ mode = "write" =>
        /\ Sent(CreateRequest) => \A item \in Stored(Nil) :
              WriteHolds(CreateRequest, item) <=> AllSay(asked.writes, item)
        /\ \A fields \in FieldLists :
              LET r == UpdateRequest(fields)
              IN  (Sent(r) /\ r.key # Nil) => \A item \in Stored(r.key) :
                      WriteHolds(r, item) <=>
                          /\ WriteMeant(item)
                          /\ item[DBName[VersionField]] = q.model[VersionField]
        /\ (Sent(DeleteRequest) /\ DeleteRequest.key # Nil) => \A item \in Stored(DeleteRequest.key) :
              WriteHolds(DeleteRequest, item) <=>
                  /\ WriteMeant(item)
                  /\ q.model[VersionField] \in {Zero, item[DBName[VersionField]]}
    /\ (mode = "update" /\ ~ConditionRefused) =>
        /\ OrAsked \/ UpdateAsAsked(UpdateExecute)
        /\ MixesAndOr \/ UpdateAsAsked(ExecuteWithResult)

\* One condition after the other, each joined to all before it.
LeftToRight(holds, operators) ==
    LET upTo[n \in 0..Len(holds)] ==
            CASE n = 0                                -> TRUE
              [] n = 1                                -> holds[1]
              [] n > 1 /\ operators[n - 1] = "AND"    -> upTo[n - 1] /\ holds[n]
              [] n > 1 /\ operators[n - 1] = "OR"     -> upTo[n - 1] \/ holds[n]
    IN  upTo[Len(holds)]

\* OrCondition "adds a condition with OR logic" (update_builder.go:202), and
\* "supports mixing AND/OR conditions with left-to-right evaluation"
\* (CHANGELOG.md:289), whichever of the two Executes sends the update
\* (update_builder.go:331, 445).  The code keeps neither (README).
OrConditionMeansOr ==
    (mode = "update" /\ ~ConditionRefused) => \A r \in {UpdateExecute, ExecuteWithResult} :
        BuilderSends(r) => \A item \in Stored(r.key) :
            UpdateDone(r, item) <=>
                /\ AllSay(asked.writes, item)
                /\ LeftToRight([i \in 1..Len(asked.updates) |-> Says(asked.updates[i], item)],
                               asked.updateOps)

comparedNames(terms, b) ==
    UNION {IF terms[i].op = "GROUP"
           THEN {b.names[terms[i].terms[j].name] : j \in 1..Len(terms[i].terms)}
           ELSE {b.names[terms[i].name]} : i \in 1..Len(terms)}

\* No condition the library builds compares an encrypted attribute with a value,
\* of whichever request and through whichever call: the ciphertext would never match
\* (query.go:106).  A condition expression the caller wrote himself is passed on
\* unread (query.go:2320) and not looked at here.
EncryptedNeverCompared ==
    LET secret == {DBName[f] : f \in Encrypted}
        none(terms, b) == b.err \/ comparedNames(terms, b) \cap secret = {}
    IN  /\ mode = "read" /\ ~q.builderErr =>
              \A r \in {Compile, compileScan} :
                  none(r.b.keyConditions, r.b) /\ none(r.b.filterConditions, r.b)
        /\ mode = "write" /\ ~q.builderErr =>
              \A r \in {CreateRequest, DeleteRequest} \cup {UpdateRequest(fields) : fields \in FieldLists} :
                  none(r.b.conditions, r.b)
        /\ mode = "update" /\ ~ub.buildErr =>
              \A r \in {UpdateExecute, ExecuteWithResult} :
                  none(r.own.conditions, r.own) /\ none(r.b.conditions, r.b)
=============================================================================
