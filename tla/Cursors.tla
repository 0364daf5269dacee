------------------------------- MODULE Cursors -------------------------------
(***************************************************************************)
(* The cursor of a paginated read (pkg/query/cursor.go), which a caller    *)
(* keeps between two pages: where DynamoDB stopped, as JSON.               *)
(*                                                                         *)
(* An attribute value is [t, v].  JSON knows strings, so that a binary     *)
(* becomes one in base64.  The attributes of a key are strings, numbers    *)
(* and binaries; cursor.go has a case for each of the other types too,     *)
(* which no key can have.  The text of the JSON, and the base64 around a   *)
(* whole cursor, are left out.                                             *)
(***************************************************************************)

Str(x) == <<"string", x>>
base64(b) == Str(<<"base64", b>>)
unbase64(x) == x[2][2]

\* An object with one field, named after the type.
attributeValueToJSON(av) == <<av.t, IF av.t = "B" THEN base64(av.v) ELSE Str(av.v)>>

jsonBinaryToAttributeValue(x) == unbase64(x)

jsonToAttributeValue(j) ==
    [t |-> j[1], v |-> IF j[1] = "B" THEN jsonBinaryToAttributeValue(j[2]) ELSE j[2][2]]

NoCursor == [none |-> TRUE]

\* The index and the direction travel along; nobody looks at them again.
EncodeCursor(lastKey, indexName, sortDirection) ==
    IF lastKey = NoCursor THEN NoCursor
    ELSE [lastKey |-> [a \in DOMAIN lastKey |-> attributeValueToJSON(lastKey[a])],
          index |-> indexName, sort |-> sortDirection]

DecodeCursor(cursor) ==
    IF cursor = NoCursor THEN NoCursor
    ELSE [a \in DOMAIN cursor.lastKey |-> jsonToAttributeValue(cursor.lastKey[a])]

\* The attributes of a key: one at least, each a string, a number or a binary.
IsKey(key) ==
    /\ key = [a \in DOMAIN key |-> key[a]]
    /\ key # NoCursor
    /\ \A a \in DOMAIN key : key[a] = [t |-> key[a].t, v |-> key[a].v] /\ key[a].t \in {"S", "N", "B"}
==============================================================================
