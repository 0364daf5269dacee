------------------------------ MODULE MCItems ------------------------------
(***************************************************************************)
(* Writing, and what the tables of a model look like: single items under   *)
(* the optimistic lock (ItemWrites), the older transactions                *)
(* (LegacyTransaction), encrypted fields (Encryption), the conversion of   *)
(* values (Values), the registration of models (Registry) and migrations   *)
(* (Schema).  They share no state, so that they are looked at one at a     *)
(* time.                                                                   *)
(***************************************************************************)
EXTENDS ItemWrites, LegacyTransaction, Encryption, Schema, Registry, TLC

CONSTANT Parts  \* the parts looked at

VARIABLES part,
    field, value, attr, got

-----------------------------------------------------------------------------
(* Fields of models, with some values of each type, zero and negative ones *)
(* among them, lists of up to two elements in any order and with           *)
(* duplicates, and structs whose field has any of its names.               *)

T(k) == [k |-> k]
Of(k, e) == [k |-> k, e |-> e]
Struct(name, a, json, omit, e) ==
    [k |-> "struct", name |-> name, attr |-> a, json |-> json, omit |-> omit, e |-> e]

camelCase == [F |-> "f"]

Basic == {T(k) : k \in {"string", "int", "float", "bool", "time", "bytes", "any"}}

Types ==
    Basic \cup {Struct(n, a, j, o, T("string")) : n \in {"F", "PK"}, a \in {"", "x"}, j \in {"", "j"}, o \in BOOLEAN}
          \cup {Of(k, e) : k \in {"ptr", "slice", "map"}, e \in Basic \cup {Struct("F", "", "", FALSE, T("int"))}}

Fields ==
    {f \in [t : Types, omitEmpty : BOOLEAN, isSet : BOOLEAN, isTTL : BOOLEAN, isEncrypted : BOOLEAN] :
        (f.isSet => f.t.k = "slice") /\ (f.isTTL => f.t.k = "int")}

SeqsUpTo(S, n) == UNION {[1..k -> S] : k \in 0..n}

RECURSIVE ValuesOf(_)
ValuesOf(t) ==
    CASE t.k \in {"string", "bool"} -> {[v |-> 0], [v |-> 1]}
      [] t.k = "int"   -> {[v |-> 0], [v |-> 1], [v |-> -1]}
      [] t.k = "float" -> {[v |-> 0], [v |-> 2], [v |-> 3], [v |-> -3]}
      [] t.k = "time"  -> {[v |-> 0], [v |-> 2], [v |-> 3]}
      [] t.k = "bytes" -> {[nil |-> TRUE], [elems |-> <<>>], [elems |-> <<1>>]}
      [] t.k = "any" -> {[nil |-> TRUE]} \cup {[dyn |-> d, val |-> [v |-> 1]] : d \in {T("string"), T("int")}}
      [] t.k = "ptr" -> {[nil |-> TRUE]} \cup {[to |-> x] : x \in ValuesOf(t.e)}
      [] t.k = "slice" -> {[nil |-> TRUE]} \cup {[elems |-> s] : s \in SeqsUpTo(ValuesOf(t.e), 2)}
      [] t.k = "map" -> {[nil |-> TRUE], [entries |-> <<>>]} \cup {[entries |-> [a |-> x]] : x \in ValuesOf(t.e)}
      [] t.k = "struct" -> {[field |-> x] : x \in ValuesOf(t.e)}

-----------------------------------------------------------------------------
(* A model with two fields and tags in any order, and one for the same     *)
(* table.                                                                  *)

IndexTag(k, name) == [k |-> k, name |-> name]

KeyTags == {Tag("pk"), Tag("sk"), Tag("sparse"), IndexTag("index", "a")}
OtherTags == {Tag(k) : k \in {"pk", "sk", "encrypted", "version", "naming"}}
             \cup {IndexTag("index", n) : n \in IndexNames} \cup {IndexTag("lsi", "b")}

Field(name, type, tag) == [name |-> name, type |-> type, tag |-> tag]

definitions ==
    {[T1 |-> [table |-> "x", fields |-> <<Field("A", "int", s1), Field("B", "string", s2)>>],
      T2 |-> [table |-> "x", fields |-> <<Field("A", "string", <<Tag("pk")>>)>>]] :
        s1 \in SeqsUpTo(KeyTags, 3), s2 \in SeqsUpTo(OtherTags, 2)}

isLSIName(n) == n = "l"

\* The transformation gives the last item the key of the first.
targetKey == [k \in 1..LastKey |-> IF k = LastKey THEN 1 ELSE k]

V == INSTANCE Values

-----------------------------------------------------------------------------
valueVars == <<field, value, attr, got>>

noItem == ItemInit
noTx == /\ TxInit
        /\ fields = [versionOmitEmpty |-> FALSE, updatedAtOmitEmpty |-> FALSE]
        /\ stored = [k \in TxKeys |-> NoRow]
noEnc == EncInit /\ keyARN /\ row = [a \in Attributes |-> Missing]
noValue == field = None /\ value = None /\ attr = None /\ got = None
noModel == def = <<>> /\ models = <<>> /\ tables = <<>> /\ refused = {}
noSchema == SchemaInit /\ gsis = {} /\ table.target = NoTable /\ table.backup = NoTable

ItemsInit ==
    /\ part \in Parts
    /\ \/ part = "item" /\ ItemInit /\ noTx /\ noEnc /\ noValue /\ noModel /\ noSchema
       \/ part = "tx" /\ TxInit /\ noItem /\ noEnc /\ noValue /\ noModel /\ noSchema
       \/ part = "enc" /\ EncInit /\ noItem /\ noTx /\ noValue /\ noModel /\ noSchema
       \/ part = "value" /\ V!ValuesInit /\ noItem /\ noTx /\ noEnc /\ noModel /\ noSchema
       \/ part = "registry" /\ RegistryInit /\ noItem /\ noTx /\ noEnc /\ noValue /\ noSchema
       \/ part = "schema" /\ SchemaInit /\ noItem /\ noTx /\ noEnc /\ noValue /\ noModel

Alone(p, A, rest) == part = p /\ A /\ UNCHANGED part /\ UNCHANGED rest

ItemsNext ==
    \/ Alone("item", ItemNext, <<txVars, encVars, valueVars, registryVars, schemaVars>>)
    \/ Alone("tx", TxNext, <<itemVars, encVars, valueVars, registryVars, schemaVars>>)
    \/ Alone("enc", EncNext, <<itemVars, txVars, valueVars, registryVars, schemaVars>>)
    \/ Alone("value", V!ValuesNext, <<itemVars, txVars, encVars, registryVars, schemaVars>>)
    \/ Alone("registry", RegistryNext, <<itemVars, txVars, encVars, valueVars, schemaVars>>)
    \/ Alone("schema", SchemaNext, <<itemVars, txVars, encVars, valueVars, registryVars>>)

ItemsSpec ==
    ItemsInit /\ [][ItemsNext]_<<part, itemVars, txVars, encVars, valueVars, registryVars, schemaVars>>

\* Clients, and managers, are alike.
ItemsSymmetry == Permutations(Clients) \cup Permutations(Managers)

-----------------------------------------------------------------------------
\* What one way of writing makes of a value, the ways of reading give back.
ReadBack == part = "value" => V!ReadBack
=============================================================================
