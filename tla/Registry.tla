------------------------------ MODULE Registry ------------------------------
(***************************************************************************)
(* The model registry of pkg/model: struct tags are parsed into metadata,  *)
(* which every other part of the library reads.                            *)
(*                                                                         *)
(* A tag is a sequence of tokens, as between the commas.  An index token   *)
(* names its index; the tokens pk, sk and sparse behind it belong to it.   *)
(***************************************************************************)
EXTENDS Integers, Sequences, Functions, FiniteSets

CONSTANTS
    Definitions,   \* the ways the struct types may be declared: type -> its
                   \* fields and table name
    IndexNames,
    IsLSIName(_)   \* does the name of an index begin with "lsi-"?

Index(name) == [k |-> "index", name |-> name]
LSI(name) == [k |-> "lsi", name |-> name]
Tag(k) == [k |-> k, name |-> ""]

Modifiers == {"pk", "sk", "sparse"}
IndexClause(t) == t.k \in {"index", "lsi"}

None == "none"

Tokens == [k : STRING, name : STRING]
StructFields == [name : STRING \ {None}, type : STRING, tag : Seq(Tokens)]

\* The fields of a struct have different names.
ASSUME RegistryAssumption ==
    \A types \in Definitions : \A t \in DOMAIN types :
        LET fields == types[t].fields
        IN  /\ fields \in Seq(StructFields)
            /\ \A i, j \in 1..Len(fields) : fields[i].name = fields[j].name => i = j
            /\ \A i \in 1..Len(fields) : \A j \in 1..Len(fields[i].tag) :
                  IndexClause(fields[i].tag[j]) => fields[i].tag[j].name \in IndexNames

\* An entry put into a Go map.
put(map, key, value) ==
    [x \in DOMAIN map \cup {key} |-> IF x = key THEN value ELSE map[x]]

(***************************************************************************)
(* One field.                                                              *)
(***************************************************************************)
\* Every modifier belongs to the field itself (mutant).
splitTagsFlat(tag) == [i \in 1..Len(tag) |-> [head |-> tag[i], modifiers |-> <<>>]]

\* A clause is open until a token that is not a modifier.
addToken(parts, t) ==
    IF parts # <<>> /\ IndexClause(parts[Len(parts)].head) /\ t.k \in Modifiers
    THEN [parts EXCEPT ![Len(parts)].modifiers = Append(@, t.k)]
    ELSE Append(parts, [head |-> t, modifiers |-> <<>>])

splitTags(tag) ==
    LET after[n \in 0..Len(tag)] == IF n = 0 THEN <<>> ELSE addToken(after[n - 1], tag[n])
    IN  after[Len(tag)]

NewField(f) ==
    [name |-> f.name, type |-> f.type, flags |-> {}, roles |-> <<>>, lsi |-> {}, err |-> FALSE]

Role(modifiers) == [pk |-> "pk" \in Range(modifiers), sk |-> "sk" \in Range(modifiers)]

parseIndexTag(meta, part) ==
    [meta EXCEPT !.roles = put(@, part.head.name, IF part.modifiers = <<>>
                                                  THEN [pk |-> TRUE, sk |-> FALSE]
                                                  ELSE Role(part.modifiers))]

\* The only modifier of a local index is sk.
parseLSITag(meta, part) ==
    IF \A i \in 1..Len(part.modifiers) : part.modifiers[i] = "sk"
    THEN [meta EXCEPT !.roles = put(@, part.head.name, [pk |-> FALSE, sk |-> TRUE]),
                      !.lsi = @ \cup {part.head.name}]
    ELSE [meta EXCEPT !.err = TRUE]

SimpleTags == {"pk", "sk", "version", "ttl", "created_at", "updated_at", "set", "omitempty",
               "binary", "json", "encrypted"}

applySimpleTag(meta, k) ==
    IF k \in SimpleTags THEN [meta EXCEPT !.flags = @ \cup {k}] ELSE [meta EXCEPT !.err = TRUE]

applyTagPart(meta, part) ==
    CASE meta.err                                -> meta
      [] ~meta.err /\ part.head.k = "index"      -> parseIndexTag(meta, part)
      [] ~meta.err /\ part.head.k = "lsi"        -> parseLSITag(meta, part)
      [] ~meta.err /\ ~IndexClause(part.head)    -> applySimpleTag(meta, part.head.k)

implicitTimestamp(f) ==
    IF f.type = "time" /\ f.name \in {"created_at", "updated_at"} THEN {f.name} ELSE {}

\* A slice of any type may be a set; ttl is int64 or uint64.
validFieldType(meta) ==
    /\ "version" \in meta.flags => meta.type \in {"int", "int64"}
    /\ "ttl" \in meta.flags => meta.type = "int64"
    /\ "set" \in meta.flags => meta.type = "slice"
    /\ meta.flags \cap {"created_at", "updated_at"} # {} => meta.type = "time"

parseDynamormTag(start, parts) ==
    LET after[n \in 0..Len(parts)] == IF n = 0 THEN start ELSE applyTagPart(after[n - 1], parts[n])
    IN  after[Len(parts)]

parseFieldMetadata(f) ==
    LET start == [NewField(f) EXCEPT !.flags = implicitTimestamp(f)]
        meta == parseDynamormTag(start, splitTags(f.tag))
    IN  IF f.tag = <<>> \/ validFieldType(meta) THEN meta ELSE [meta EXCEPT !.err = TRUE]

(***************************************************************************)
(* The model.                                                              *)
(***************************************************************************)
newMetadata(d) ==
    [table |-> d.table, fields |-> {}, pk |-> None, sk |-> None, version |-> None, ttl |-> None,
     createdAt |-> None, updatedAt |-> None, indexes |-> <<>>, err |-> FALSE]

Wrong(metadata) == [metadata EXCEPT !.err = TRUE]

applyKeyFields(metadata, f) ==
    IF ("pk" \in f.flags /\ metadata.pk # None) \/ ("sk" \in f.flags /\ metadata.sk # None)
    THEN Wrong(metadata)
    ELSE [metadata EXCEPT !.pk = IF "pk" \in f.flags THEN f.name ELSE @,
                          !.sk = IF "sk" \in f.flags THEN f.name ELSE @]

applySpecialFields(metadata, f) ==
    [metadata EXCEPT !.version = IF "version" \in f.flags THEN f.name ELSE @,
                     !.ttl = IF "ttl" \in f.flags THEN f.name ELSE @,
                     !.createdAt = IF "created_at" \in f.flags THEN f.name ELSE @,
                     !.updatedAt = IF "updated_at" \in f.flags THEN f.name ELSE @]

\* The field that names an index first decides its type.
getOrCreateIndexSchema(metadata, f, name) ==
    IF name \in DOMAIN metadata.indexes THEN metadata.indexes[name]
    ELSE [lsi |-> IsLSIName(name) \/ name \in f.lsi, pk |-> None, sk |-> None]

takenRole(index, role) == (role.pk /\ index.pk # None) \/ (role.sk /\ index.sk # None)

\* The indexes of a field, in any order.
applyFieldIndexes(metadata, f) ==
    LET index(name) == getOrCreateIndexSchema(metadata, f, name)
    IN  IF \E name \in DOMAIN f.roles : takenRole(index(name), f.roles[name])
        THEN Wrong(metadata)
        ELSE [metadata EXCEPT !.indexes =
                 [name \in DOMAIN @ \cup DOMAIN f.roles |->
                     IF name \notin DOMAIN f.roles THEN @[name]
                     ELSE [index(name) EXCEPT !.pk = IF f.roles[name].pk THEN f.name ELSE @,
                                              !.sk = IF f.roles[name].sk THEN f.name ELSE @]]]

encryptedKey(f) == "encrypted" \in f.flags /\ (f.flags \cap {"pk", "sk"} # {} \/ f.roles # <<>>)

parseField(metadata, f) ==
    LET meta == parseFieldMetadata(f)
        withField == [metadata EXCEPT !.fields = @ \cup {meta.name}]
        keyed == applyKeyFields(withField, meta)
    IN  CASE metadata.err                                               -> metadata
          [] ~metadata.err /\ (meta.err \/ encryptedKey(meta))          -> Wrong(metadata)
          [] ~metadata.err /\ ~meta.err /\ ~encryptedKey(meta) /\ keyed.err -> keyed
          [] ~metadata.err /\ ~meta.err /\ ~encryptedKey(meta) /\ ~keyed.err ->
                 applyFieldIndexes(applySpecialFields(keyed, meta), meta)

\* Fields tagged "-" are left out; those of embedded structs come in their place.
parseFields(d) ==
    LET after[n \in 0..Len(d.fields)] ==
            IF n = 0 THEN newMetadata(d) ELSE parseField(after[n - 1], d.fields[n])
    IN  after[Len(d.fields)]

registerIndexes(metadata) ==
    IF \E name \in DOMAIN metadata.indexes :
          ~metadata.indexes[name].lsi /\ metadata.indexes[name].pk = None
    THEN Wrong(metadata)
    ELSE [metadata EXCEPT !.indexes =
             [name \in DOMAIN @ |-> IF @[name].lsi THEN [@[name] EXCEPT !.pk = metadata.pk] ELSE @[name]]]

parseMetadata(d) ==
    LET metadata == parseFields(d)
    IN  IF metadata.err \/ metadata.pk = None THEN Wrong(metadata) ELSE registerIndexes(metadata)

(***************************************************************************)
(* The table CreateTable makes for a model.                                *)
(***************************************************************************)
buildKeySchema(metadata) == <<metadata.pk, metadata.sk>>

\* A local index starts with the partition key of the table.
buildIndexes(metadata) ==
    [name \in DOMAIN metadata.indexes |->
        <<IF metadata.indexes[name].lsi THEN metadata.pk ELSE metadata.indexes[name].pk,
          metadata.indexes[name].sk>>]

buildAttributeDefinitions(metadata) ==
    ({metadata.pk, metadata.sk} \cup UNION {{index.pk, index.sk} : index \in Range(metadata.indexes)}) \ {None}

(***************************************************************************)
(* The registry.                                                           *)
(***************************************************************************)
VARIABLES
    def,        \* type -> its definition
    models,     \* type -> its metadata, for the registered types
    tables,     \* table name -> the type registered for it last
    refused     \* types whose registration failed

registryVars == <<def, models, tables, refused>>

RegistryInit ==
    /\ def \in Definitions
    /\ models = <<>>
    /\ tables = <<>>
    /\ refused = {}

\* Under the lock of the registry; a second registration changes nothing.
Register(t) ==
    /\ t \notin DOMAIN models
    /\ t \notin refused
    /\ LET metadata == parseMetadata(def[t])
       IN  IF metadata.err
           THEN /\ refused' = refused \cup {t}
                /\ UNCHANGED <<models, tables>>
           ELSE /\ models' = put(models, t, metadata)
                /\ tables' = put(tables, metadata.table, t)
                /\ UNCHANGED refused
    /\ UNCHANGED def

RegistryNext == \E t \in DOMAIN def : Register(t)

RegistrySpec == RegistryInit /\ [][RegistryNext]_registryVars

(***************************************************************************)
(* Properties: what the tags of a model say, without an order.             *)
(***************************************************************************)
\* The clause a modifier at position i belongs to; 0 is the field itself.
owner(tag, i) ==
    LET before == {j \in 1..i - 1 : IndexClause(tag[j]) /\ \A k \in j + 1..i - 1 : tag[k].k \in Modifiers}
    IN  IF tag[i].k \in Modifiers /\ before # {} THEN CHOOSE j \in before : TRUE ELSE 0

Says(f, k) == \E i \in 1..Len(f.tag) : f.tag[i].k = k /\ owner(f.tag, i) = 0

clauses(f, name) == {i \in 1..Len(f.tag) : IndexClause(f.tag[i]) /\ f.tag[i].name = name}

\* The last clause for an index counts.
SaysIndex(f, name, k) ==
    /\ clauses(f, name) # {}
    /\ LET c == CHOOSE i \in clauses(f, name) : \A j \in clauses(f, name) : j <= i
           own == {f.tag[i].k : i \in {i \in 1..Len(f.tag) : owner(f.tag, i) = c}}
       IN  IF f.tag[c].k = "lsi" THEN k = "sk" ELSE k \in own \/ (own = {} /\ k = "pk")

KeysOf(d, k) == {i \in 1..Len(d.fields) : Says(d.fields[i], k)}
IndexKeysOf(d, name, k) == {i \in 1..Len(d.fields) : SaysIndex(d.fields[i], name, k)}
Named(d, name) == \E i \in 1..Len(d.fields) : clauses(d.fields[i], name) # {}
LocalIndex(d, name) ==
    IsLSIName(name) \/ \E i \in 1..Len(d.fields) : \E j \in clauses(d.fields[i], name) : d.fields[i].tag[j].k = "lsi"

\* An index whose tags contradict each other is what the first one says.
Contradictory(d) ==
    \E name \in IndexNames : ~IsLSIName(name) /\
        {tag.k : tag \in {t \in UNION {Range(d.fields[i].tag) : i \in 1..Len(d.fields)} :
                            IndexClause(t) /\ t.name = name}} = {"index", "lsi"}

\* A model is registered exactly as its tags say, in whatever order they
\* and its fields are written: its keys, the keys of each index (those of a local
\* index start with the partition key of the table), no encrypted key; and the
\* table made for it defines the attributes of its keys and no other, as DynamoDB
\* demands (registry.go:163, registry.go:631, manager.go:145).
RegisteredAsTagged ==
    \A t \in DOMAIN models : ~Contradictory(def[t]) =>
        LET d == def[t]
            at(set) == IF set = {} THEN None ELSE d.fields[CHOOSE i \in set : TRUE].name
        IN  /\ Cardinality(KeysOf(d, "pk")) = 1
            /\ models[t].pk = at(KeysOf(d, "pk"))
            /\ Cardinality(KeysOf(d, "sk")) <= 1
            /\ models[t].sk = at(KeysOf(d, "sk"))
            /\ DOMAIN models[t].indexes = {name \in IndexNames : Named(d, name)}
            /\ \A name \in DOMAIN models[t].indexes :
                  LET index == models[t].indexes[name]
                  IN  /\ index.lsi = LocalIndex(d, name)
                      /\ index.pk = IF index.lsi THEN models[t].pk ELSE at(IndexKeysOf(d, name, "pk"))
                      /\ index.sk = at(IndexKeysOf(d, name, "sk"))
            /\ \A i \in 1..Len(d.fields) :
                  Says(d.fields[i], "encrypted") =>
                      d.fields[i].name \notin {models[t].pk, models[t].sk}
                          \cup UNION {{x.pk, x.sk} : x \in Range(models[t].indexes)}
            /\ LET keys == {buildKeySchema(models[t])} \cup Range(buildIndexes(models[t]))
               IN  buildAttributeDefinitions(models[t]) = (UNION {Range(k) : k \in keys}) \ {None}
=============================================================================
