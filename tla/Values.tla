------------------------------- MODULE Values -------------------------------
(***************************************************************************)
(* One field of a model on its way into DynamoDB and back.  Four pieces of *)
(* code turn a Go value into an attribute value: SafeMarshaler (Create,    *)
(* the default), Marshaler (Create, on request), types.Converter (keys,    *)
(* custom types) and expr.ConvertToAttributeValue (conditions, Update).    *)
(* Three turn it back: types.Converter (reads), query.UnmarshalItem        *)
(* (streams) and expr.ConvertFromAttributeValue (ExecuteWithResult).       *)
(* They were written apart; what one writes another must read.             *)
(*                                                                         *)
(* A Go type is [k] with the type e of its elements; a struct has one      *)
(* exported field.  A value is [v] for a scalar, 0 being its zero value,   *)
(* [nil], [to], [elems], [entries], [field], or for an interface           *)
(* [dyn, val].  Floats and times are counted in halves, so that an odd one *)
(* has a fraction.  A number in DynamoDB has a value and no format.  A set *)
(* is the list of the request or of the answer: DynamoDB refuses a list    *)
(* with duplicates and gives the members back in an order of its own.      *)
(***************************************************************************)
EXTENDS AttributeJSON

CONSTANTS
    camelCase,  \* Go name -> the name in camel case
    Fields,     \* the fields of models: [t, omitEmpty, isSet, isTTL, isEncrypted]
    ValuesOf(_) \* the values of a type

VARIABLES
    field, value,
    attr,       \* writer -> the attribute it makes, if any
    got         \* writer, reader -> what the one makes of the other's attribute

valueVars == <<field, value, attr, got>>

Null == [t |-> "NULL"]
Absent == [t |-> "absent"]
Error == [t |-> "error"]
S(x) == [t |-> "S", v |-> x]
N(x) == [t |-> "N", v |-> x]
L(xs) == IF Error \in Range(xs) THEN Error ELSE [t |-> "L", v |-> xs]
M(f) == IF \E x \in DOMAIN f : f[x] = Error THEN Error ELSE [t |-> "M", v |-> f]

IsNil(v) == "nil" \in DOMAIN v
Elems(v) == IF IsNil(v) THEN <<>> ELSE v.elems
Entries(v) == IF IsNil(v) THEN <<>> ELSE v.entries

RECURSIVE IsZero(_, _), Zero(_), ConvertToAttributeValue(_, _), toAttributeValue(_, _),
          marshalValue(_, _, _), marshalComplexValue(_, _),
          attributeValueToInterface(_), fromAttributeValue(_, _),
          unmarshalAttributeValue(_, _), exprUnmarshal(_, _)

IsZero(t, v) ==
    CASE t.k \in {"ptr", "slice", "map", "bytes", "any"} -> IsNil(v)
      [] t.k = "struct"                                  -> IsZero(t.e, v.field)
      [] OTHER                                           -> v.v = 0

\* Empty, as omitempty sees it in internal/expr: a struct never is.
isZeroValue(t, v) ==
    CASE t.k \in {"slice", "bytes"} -> Elems(v) = <<>>
      [] t.k = "map"                -> Entries(v) = <<>>
      [] t.k \in {"struct", "time"} -> FALSE
      [] OTHER                      -> IsZero(t, v)

scalar(t, v) ==
    CASE t.k = "string"            -> S(<<"text", v.v>>)
      [] t.k = "int"               -> N(2 * v.v)
      [] t.k = "float"             -> N(v.v)
      [] t.k = "bool"              -> [t |-> "BOOL", v |-> v.v]

\* time.RFC3339Nano keeps the fraction, RFC3339 does not (mutant).
formatSeconds(v) == S(<<"time", 2 * (v.v \div 2)>>)

formatTime(v) == S(<<"time", v.v>>)

isScalar(t) == t.k \in {"string", "int", "float", "bool"}

(***************************************************************************)
(* The names of a struct's field: the Go name, the one of its tags, the    *)
(* Go name in camel case.                                                  *)
(***************************************************************************)
DefaultAttrName(name) == IF name \in {"PK", "SK"} THEN name ELSE camelCase[name]

ResolveAttrName(t) == IF t.attr # "" THEN t.attr ELSE DefaultAttrName(t.name)

marshalFieldName(t) ==
    CASE t.attr # "" -> t.attr [] t.attr = "" /\ t.json # "" -> t.json [] OTHER -> t.name

(***************************************************************************)
(* Writers.                                                                *)
(***************************************************************************)
ConvertToAttributeValue(t, v) ==
    CASE isScalar(t)   -> scalar(t, v)
      [] t.k = "time"  -> formatTime(v)
      [] t.k = "any"   -> IF IsNil(v) THEN Null ELSE ConvertToAttributeValue(v.dyn, v.val)
      [] t.k = "ptr"   -> IF IsNil(v) THEN Null ELSE ConvertToAttributeValue(t.e, v.to)
      [] t.k = "bytes" -> [t |-> "B", v |-> Elems(v)]
      [] t.k = "slice" -> L([i \in 1..Len(Elems(v)) |-> ConvertToAttributeValue(t.e, v.elems[i])])
      [] t.k = "map"   -> M([x \in DOMAIN Entries(v) |-> ConvertToAttributeValue(t.e, v.entries[x])])
      [] t.k = "struct" -> IF t.omit /\ isZeroValue(t.e, v.field) THEN M(<<>>)
                           ELSE M(marshalFieldName(t) :> ConvertToAttributeValue(t.e, v.field))

\* One pointer is followed, an interface within a list or a map is not.
toAttributeValue(t, v) ==
    CASE isScalar(t)   -> scalar(t, v)
      [] t.k = "time"  -> formatTime(v)
      [] t.k = "any"   -> Error
      [] t.k = "ptr"   -> IF IsNil(v) THEN Null
                          ELSE IF t.e.k = "ptr" THEN Error ELSE toAttributeValue(t.e, v.to)
      [] t.k = "bytes" -> [t |-> "B", v |-> Elems(v)]
      [] t.k = "slice" -> L([i \in 1..Len(Elems(v)) |-> toAttributeValue(t.e, v.elems[i])])
      [] t.k = "map"   -> M([x \in DOMAIN Entries(v) |-> toAttributeValue(t.e, v.entries[x])])
      [] t.k = "struct" -> IF IsZero(t.e, v.field) THEN M(<<>>)
                           ELSE M(t.name :> toAttributeValue(t.e, v.field))

ToAttributeValue(t, v) ==
    IF t.k # "any" THEN toAttributeValue(t, v)
    ELSE IF IsNil(v) THEN Null ELSE toAttributeValue(v.dyn, v.val)

ConvertToSet(t, v) ==
    IF t.k # "slice" THEN Error
    ELSE IF Elems(v) = <<>> THEN Null
    ELSE CASE t.e.k = "string"           -> [t |-> "SS", v |-> [i \in 1..Len(v.elems) |-> v.elems[i].v]]
           [] t.e.k \in {"int", "float"} -> [t |-> "NS", v |-> [i \in 1..Len(v.elems) |-> scalar(t.e, v.elems[i]).v]]
           [] t.e.k = "bytes"            -> [t |-> "BS", v |-> [i \in 1..Len(v.elems) |-> Elems(v.elems[i])]]
           [] OTHER                      -> Error

NoTags == [omitEmpty |-> FALSE, isSet |-> FALSE, isTTL |-> FALSE]

\* SafeMarshaler; []byte is a slice like any other.
marshalValue(t, v, tags) ==
    IF t.k = "ptr"
    THEN IF IsNil(v) THEN Null
         ELSE IF t.e.k = "ptr" THEN Error ELSE marshalValue(t.e, v.to, tags)
    ELSE IF tags.omitEmpty /\ IsZero(t, v) THEN Null
    ELSE CASE t.k = "time"  -> IF tags.isTTL THEN N(2 * (v.v \div 2)) ELSE formatTime(v)
           [] isScalar(t)   -> scalar(t, v)
           [] t.k \in {"any", "bytes", "slice", "map"} /\ IsNil(v) -> Null
           [] t.k = "any" /\ ~IsNil(v)   -> marshalValue(v.dyn, v.val, tags)
           [] t.k = "bytes" /\ ~IsNil(v) -> L([i \in 1..Len(v.elems) |-> N(2 * v.elems[i])])
           [] t.k = "slice" /\ ~IsNil(v) ->
                 IF tags.isSet /\ t.e.k = "string" THEN ConvertToSet(t, v)
                 ELSE L([i \in 1..Len(v.elems) |-> marshalValue(t.e, v.elems[i], NoTags)])
           [] t.k = "map" /\ ~IsNil(v) ->
                 M([x \in DOMAIN v.entries |-> marshalValue(t.e, v.entries[x], NoTags)])
           [] t.k = "struct" -> IF IsZero(t.e, v.field) THEN M(<<>>)
                                ELSE M(t.name :> marshalValue(t.e, v.field, NoTags))

\* Marshaler, below the top of a field.
marshalComplexValue(t, v) ==
    CASE t.k \in {"ptr", "any", "bytes", "slice", "map"} /\ IsNil(v) -> Null
      [] isScalar(t)                 -> scalar(t, v)
      [] t.k = "time"                -> IF v.v = 0 THEN Null ELSE formatTime(v)
      [] t.k = "ptr" /\ ~IsNil(v)    -> marshalComplexValue(t.e, v.to)
      [] t.k = "any" /\ ~IsNil(v)    -> marshalComplexValue(v.dyn, v.val)
      [] t.k = "bytes" /\ ~IsNil(v)  -> L([i \in 1..Len(v.elems) |-> N(2 * v.elems[i])])
      [] t.k = "slice" /\ ~IsNil(v)  -> L([i \in 1..Len(v.elems) |-> marshalComplexValue(t.e, v.elems[i])])
      [] t.k = "map" /\ ~IsNil(v)    -> M([x \in DOMAIN v.entries |-> marshalComplexValue(t.e, v.entries[x])])
      [] t.k = "struct" ->
            IF t.omit /\ IsZero(t.e, v.field) THEN M(<<>>)
            ELSE M((IF t.json # "" THEN t.json ELSE DefaultAttrName(t.name))
                      :> marshalComplexValue(t.e, v.field))

\* Marshaler, the function built for a field: nil lists and maps of strings are empty.
buildMarshalFunc(t, v, tags) ==
    IF t.k = "ptr" /\ IsNil(v) THEN Null
    ELSE LET u == IF t.k = "ptr" THEN t.e ELSE t
             x == IF t.k = "ptr" THEN v.to ELSE v
         IN  CASE u.k = "bool"                        -> scalar(u, x)
               [] u.k # "bool" /\ tags.omitEmpty /\ IsZero(u, x) -> Null
               [] u.k = "time" /\ ~(tags.omitEmpty /\ IsZero(u, x)) ->
                     IF tags.isTTL THEN N(2 * (x.v \div 2)) ELSE formatTime(x)
               [] u.k = "slice" /\ u.e.k = "string" /\ tags.isSet -> ConvertToSet(u, x)
               [] u.k = "slice" /\ u.e.k = "string" /\ ~tags.isSet ->
                     IF Elems(x) = <<>> /\ tags.omitEmpty THEN Null
                     ELSE L([i \in 1..Len(Elems(x)) |-> scalar(u.e, x.elems[i])])
               [] u.k = "map" /\ u.e.k = "string" /\ ~(tags.omitEmpty /\ IsNil(x)) ->
                     M([y \in DOMAIN Entries(x) |-> scalar(u.e, x.entries[y])])
               [] OTHER -> marshalComplexValue(u, x)

\* The item: a NULL is left out of a field with omitempty.
stored(av, tags) == IF av = Null /\ tags.omitEmpty THEN Absent ELSE av

marshalAttributeValue(f, v) ==
    IF f.omitEmpty /\ IsZero(f.t, v) THEN Absent
    ELSE IF f.isSet THEN ConvertToSet(f.t, v)
    ELSE IF f.isTTL /\ f.t.k = "time" /\ v.v # 0 THEN N(2 * (v.v \div 2))
    ELSE ToAttributeValue(f.t, v)

Writers == {"safe", "unsafe", "converter", "expr"}

Written(w, f, v) ==
    CASE w = "safe"      -> stored(marshalValue(f.t, v, f), f)
      [] w = "unsafe"    -> stored(buildMarshalFunc(f.t, v, f), f)
      [] w = "converter" -> stored(marshalAttributeValue(f, v), f)
      [] w = "expr"      -> ConvertToAttributeValue(f.t, v)

(***************************************************************************)
(* Readers.  Each starts from the zero value of the field.                 *)
(***************************************************************************)
Zero(t) ==
    CASE t.k \in {"ptr", "slice", "map", "bytes", "any"} -> [nil |-> TRUE]
      [] t.k = "struct"                                  -> [field |-> Zero(t.e)]
      [] OTHER                                           -> [v |-> 0]

slice(xs) == IF Error \in Range(xs) THEN Error ELSE [elems |-> xs]
map(f) == IF \E x \in DOMAIN f : f[x] = Error THEN Error ELSE [entries |-> f]
pointer(x) == IF x = Error THEN Error ELSE [to |-> x]
struct(x) == IF x = Error THEN Error ELSE [field |-> x]
text(av) == IF av.v[1] = "text" THEN [v |-> av.v[2]] ELSE Error

\* ParseInt refuses a fraction.
number(av, t) ==
    CASE t.k = "int" /\ av.v % 2 = 0 -> [v |-> av.v \div 2]
      [] t.k = "float"               -> [v |-> av.v]
      [] OTHER                       -> Error

parseTime(av) == IF av.t = "S" /\ av.v[1] = "time" THEN [v |-> av.v[2]] ELSE Error

octets(av) == [elems |-> IF av.t = "B" THEN av.v ELSE [i \in 1..Len(av.v) |-> av.v[i].v \div 2]]

\* A set, into a slice of strings, of any numbers or of binaries.
setToSlice(av, e) ==
    CASE av.t = "SS" /\ e.k = "string" -> [elems |-> [i \in 1..Len(av.v) |-> [v |-> av.v[i]]]]
      [] av.t = "NS"                   -> slice([i \in 1..Len(av.v) |-> number(N(av.v[i]), e)])
      [] av.t = "BS" /\ e.k = "bytes"  -> [elems |-> [i \in 1..Len(av.v) |-> [elems |-> av.v[i]]]]
      [] OTHER                         -> Error

\* types.Converter: NULL changes nothing; nothing can be read into an interface.
fromAttributeValue(av, t) ==
    CASE av.t \in {"NULL", "absent"} -> Zero(t)
      [] av.t \notin {"NULL", "absent"} ->
         CASE t.k = "time"                        -> parseTime(av)
           [] t.k = "ptr"                         ->
                 IF t.e.k = "ptr" THEN Error ELSE pointer(fromAttributeValue(av, t.e))
           [] t.k = "string" /\ av.t = "S"        -> text(av)
           [] t.k \in {"int", "float"} /\ av.t = "N" -> number(av, t)
           [] t.k = "bool" /\ av.t = "BOOL"       -> [v |-> av.v]
           [] t.k = "bytes" /\ av.t \in {"B", "L"} -> octets(av)
           [] t.k = "slice" /\ av.t = "L"         ->
                 slice([i \in 1..Len(av.v) |-> fromAttributeValue(av.v[i], t.e)])
           [] t.k = "slice" /\ av.t \in {"SS", "NS", "BS"} -> setToSlice(av, t.e)
           [] t.k = "map" /\ av.t = "M"           ->
                 map([x \in DOMAIN av.v |-> fromAttributeValue(av.v[x], t.e)])
           [] t.k = "struct" /\ av.t = "M"        ->
                 IF ResolveAttrName(t) \notin DOMAIN av.v THEN Zero(t)
                 ELSE struct(fromAttributeValue(av.v[ResolveAttrName(t)], t.e))
           [] OTHER                               -> Error

\* The same for the three packages that read into an interface.
attributeValueToInterface(av) ==
    LET holds(kind, x) == IF x = Error THEN Error ELSE [dyn |-> kind, val |-> x]
        any == [k |-> "any"]
    IN  CASE av.t \in {"NULL", "absent"} -> [nil |-> TRUE]
          [] av.t = "S"    -> holds([k |-> "string"], [v |-> av.v[2]])
          [] av.t = "N"    -> IF av.v % 2 = 0 THEN holds([k |-> "int"], [v |-> av.v \div 2])
                                             ELSE holds([k |-> "float"], [v |-> av.v])
          [] av.t = "BOOL" -> holds([k |-> "bool"], [v |-> av.v])
          [] av.t = "B"    -> holds([k |-> "bytes"], octets(av))
          [] av.t = "SS"   -> holds([k |-> "slice", e |-> [k |-> "string"]], setToSlice(av, [k |-> "string"]))
          [] av.t = "L"    -> holds([k |-> "slice", e |-> any],
                                    slice([i \in 1..Len(av.v) |-> attributeValueToInterface(av.v[i])]))
          [] av.t = "M"    -> holds([k |-> "map", e |-> any],
                                    map([x \in DOMAIN av.v |-> attributeValueToInterface(av.v[x])]))

\* query.UnmarshalItem: a number into a type that is none is dropped, a struct
\* is filled by the Go names of its fields.
unmarshalAttributeValue(av, t) ==
    CASE av.t \in {"NULL", "absent"} -> Zero(t)
      [] av.t \notin {"NULL", "absent"} ->
         CASE t.k = "ptr"                         -> pointer(unmarshalAttributeValue(av, t.e))
           [] t.k = "any"                         -> attributeValueToInterface(av)
           [] t.k = "time" /\ av.t = "S"          -> parseTime(av)
           [] t.k \in {"int", "float"} /\ av.t = "N" -> number(av, t)
           [] t.k \notin {"int", "float", "ptr", "any"} /\ av.t = "N" -> Zero(t)
           [] t.k = "string" /\ av.t = "S"        -> text(av)
           [] t.k = "bool" /\ av.t = "BOOL"       -> [v |-> av.v]
           [] t.k = "bytes" /\ av.t \in {"B", "L"} -> octets(av)
           [] t.k = "slice" /\ av.t = "L"         ->
                 slice([i \in 1..Len(av.v) |-> unmarshalAttributeValue(av.v[i], t.e)])
           [] t.k = "slice" /\ av.t \in {"SS", "NS", "BS"} -> setToSlice(av, t.e)
           [] t.k = "map" /\ av.t = "M"           ->
                 map([x \in DOMAIN av.v |-> unmarshalAttributeValue(av.v[x], t.e)])
           [] t.k = "struct" /\ av.t = "M"        ->
                 IF t.name \notin DOMAIN av.v THEN Zero(t)
                 ELSE struct(unmarshalAttributeValue(av.v[t.name], t.e))
           [] OTHER                               -> Error

\* expr.ConvertFromAttributeValue.
exprUnmarshal(av, t) ==
    CASE av.t \in {"NULL", "absent"} -> Zero(t)
      [] av.t \notin {"NULL", "absent"} ->
         CASE t.k = "ptr"                         -> pointer(exprUnmarshal(av, t.e))
           [] t.k = "any"                         -> attributeValueToInterface(av)
           [] t.k = "time" /\ av.t = "S"          -> parseTime(av)
           [] t.k \in {"int", "float"} /\ av.t = "N" -> number(av, t)
           [] t.k = "string" /\ av.t = "S"        -> text(av)
           [] t.k = "bool" /\ av.t = "BOOL"       -> [v |-> av.v]
           [] t.k = "bytes" /\ av.t \in {"B", "L"} -> octets(av)
           [] t.k = "slice" /\ av.t = "L"         ->
                 slice([i \in 1..Len(av.v) |-> exprUnmarshal(av.v[i], t.e)])
           [] t.k = "slice" /\ av.t \in {"SS", "NS", "BS"} -> setToSlice(av, t.e)
           [] t.k = "map" /\ av.t = "M"           ->
                 map([x \in DOMAIN av.v |-> exprUnmarshal(av.v[x], t.e)])
           [] t.k = "struct" /\ av.t = "M"        ->
                 IF marshalFieldName(t) \notin DOMAIN av.v THEN Zero(t)
                 ELSE struct(exprUnmarshal(av.v[marshalFieldName(t)], t.e))
           [] OTHER                               -> Error

Readers == {"converter", "stream", "expr"}

Read(r, t, av) ==
    CASE r = "converter" -> fromAttributeValue(av, t)
      [] r = "stream"    -> unmarshalAttributeValue(av, t)
      [] r = "expr"      -> exprUnmarshal(av, t)

(***************************************************************************)
(* One value is written by everyone, and everything written is read by     *)
(* everyone.                                                               *)
(***************************************************************************)
Nothing == [none |-> TRUE]

ValuesInit ==
    /\ field \in Fields
    /\ value \in ValuesOf(field.t)
    /\ attr = Nothing
    /\ got = Nothing

Marshal ==
    /\ attr = Nothing
    /\ attr' = [w \in Writers |-> Written(w, field, value)]
    /\ UNCHANGED <<field, value, got>>

\* An encrypted field is JSON inside its envelope.
opened(av) ==
    IF field.isEncrypted /\ av # Absent THEN unmarshalAVJSON(marshalAVJSON(av)) ELSE av

isSetValue(av) == ~field.isEncrypted /\ av.t \in {"SS", "NS", "BS"}

\* DynamoDB: the members of a set differ, and have no order.
accepted(av) == av # Error /\ (isSetValue(av) => IsInjective(av.v))

returned(av, reversed) ==
    IF isSetValue(av) /\ reversed THEN [av EXCEPT !.v = Reverse(@)] ELSE opened(av)

Unmarshal ==
    /\ attr # Nothing
    /\ got = Nothing
    /\ \E reversed \in BOOLEAN :
          got' = [w \in {x \in Writers : accepted(attr[x])} |->
                    LET av == returned(attr[w], reversed) IN [r \in Readers |-> Read(r, field.t, av)]]
    /\ UNCHANGED <<field, value, attr>>

ValuesNext == Marshal \/ Unmarshal

(***************************************************************************)
(* Properties.                                                             *)
(***************************************************************************)
RECURSIVE Same(_, _, _), Blanked(_, _, _, _), HoldsInterface(_)

\* Equal but for what Go programs do not tell apart, nil and empty.
Same(t, v, w) ==
    CASE t.k = "bytes"  -> Elems(v) = Elems(w)
      [] t.k = "slice"  -> /\ Len(Elems(v)) = Len(Elems(w))
                           /\ \A i \in 1..Len(Elems(v)) : Same(t.e, v.elems[i], w.elems[i])
      [] t.k = "map"    -> /\ DOMAIN Entries(v) = DOMAIN Entries(w)
                           /\ \A x \in DOMAIN Entries(v) : Same(t.e, v.entries[x], w.entries[x])
      [] t.k = "struct" -> Same(t.e, v.field, w.field)
      [] t.k = "ptr"    -> IsNil(v) = IsNil(w) /\ (~IsNil(v) => Same(t.e, v.to, w.to))
      [] t.k = "any"    -> /\ IsNil(v) = IsNil(w)
                           /\ ~IsNil(v) => v.dyn.k = w.dyn.k /\ Same(v.dyn, v.val, w.val)
      [] OTHER          -> v.v = w.v

nameWritten(w, t) ==
    CASE w \in {"safe", "converter"} -> t.name
      [] w = "unsafe" -> IF t.json # "" THEN t.json ELSE DefaultAttrName(t.name)
      [] w = "expr"   -> marshalFieldName(t)

nameRead(r, t) ==
    CASE r = "converter" -> ResolveAttrName(t)
      [] r = "stream"    -> t.name
      [] r = "expr"      -> marshalFieldName(t)

\* What is left of a value: a field of a struct inside it, which writer and
\* reader call by different names, is lost.
Blanked(w, r, t, v) ==
    CASE t.k = "slice"  -> [elems |-> [i \in 1..Len(Elems(v)) |-> Blanked(w, r, t.e, v.elems[i])]]
      [] t.k = "map"    -> [entries |-> [x \in DOMAIN Entries(v) |-> Blanked(w, r, t.e, v.entries[x])]]
      [] t.k = "ptr"    -> IF IsNil(v) THEN v ELSE [to |-> Blanked(w, r, t.e, v.to)]
      [] t.k = "struct" -> IF nameWritten(w, t) = nameRead(r, t) THEN v ELSE Zero(t)
      [] OTHER          -> v

\* A set is equal to another with the same members.
SameField(f, v, w) ==
    IF ~f.isSet THEN Same(f.t, v, w)
    ELSE /\ Len(Elems(v)) = Len(Elems(w))
         /\ \A x \in Range(Elems(v)) : \E y \in Range(Elems(w)) : Same(f.t.e, x, y)
         /\ \A y \in Range(Elems(w)) : \E x \in Range(Elems(v)) : Same(f.t.e, x, y)

HoldsInterface(t) == t.k = "any" \/ (t.k \in {"ptr", "slice", "map"} /\ HoldsInterface(t.e))

\* A pointer to an empty value is written like a nil one, with omitempty.
EmptyPointer(t, v) == t.k = "ptr" /\ ~IsNil(v) /\ IsZero(t.e, v.to)

\* What any of the four writers stored without an error, each of the three
\* readers gives back: fractions of seconds, negative and zero numbers,
\* binaries, lists and maps with their order and duplicates, sets with their
\* members.  Three things are lost, and no more than these: the field of a
\* nested struct that the writer and the reader call by different names, as
\* SafeMarshaler and types.Converter, the defaults, do (safe_marshaler.go:371,
\* converter.go:424), is read as zero; types.Converter has no interface to
\* read into and says so; a pointer to an empty value may come back nil.
ReadBack ==
    got # Nothing =>
        \A w \in DOMAIN got, r \in Readers :
            \/ EmptyPointer(field.t, value)
            \/ got[w][r] = Error /\ r = "converter" /\ HoldsInterface(field.t)
            \/ got[w][r] # Error /\ SameField(field, Blanked(w, r, field.t, value), got[w][r])
=============================================================================
