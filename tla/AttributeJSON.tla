--------------------------- MODULE AttributeJSON ---------------------------
(***************************************************************************)
(* The plaintext of an encrypted attribute                                 *)
(* (internal/encryption/attribute_value_json.go): how an attribute value   *)
(* becomes JSON before it is sealed, and comes back.                       *)
(*                                                                         *)
(* An attribute value is [t, v].  JSON knows strings, booleans, lists and  *)
(* objects; a binary becomes a string in base64, a set a list.             *)
(***************************************************************************)
EXTENDS Integers, Sequences, SequencesExt, Cursors

RECURSIVE marshalAVJSON(_), unmarshalAVJSON(_)

\* A set is listed by its members, in the order of the request.
inSetOrder(av) ==
    [i \in 1..Len(av.v) |-> IF av.t = "BS" THEN base64(av.v[i]) ELSE Str(av.v[i])]

\* A record with a field per type, those that are empty left out.
present(type, field, x, empty) ==
    IF empty THEN ("t" :> type) ELSE ("t" :> type) @@ (field :> x)

marshalAVJSON(av) ==
    CASE av.t \in {"S", "N"}   -> present(av.t, "x", Str(av.v), FALSE)
      [] av.t = "B"            -> present(av.t, "x", base64(av.v), FALSE)
      [] av.t = "BOOL"         -> present(av.t, "x", av.v, FALSE)
      [] av.t = "NULL"         -> present(av.t, "x", TRUE, FALSE)
      [] av.t = "L"            -> present(av.t, "x", [i \in 1..Len(av.v) |-> marshalAVJSON(av.v[i])],
                                          av.v = <<>>)
      [] av.t = "M"            -> present(av.t, "x", [y \in DOMAIN av.v |-> marshalAVJSON(av.v[y])],
                                          DOMAIN av.v = {})
      [] av.t \in {"SS", "NS", "BS"} -> present(av.t, "x", inSetOrder(av), av.v = <<>>)

unmarshalAVJSON(enc) ==
    LET x == IF "x" \in DOMAIN enc THEN enc["x"] ELSE <<>>
    IN  CASE enc["t"] \in {"S", "N"}   -> [t |-> enc["t"], v |-> x[2]]
          [] enc["t"] = "B"            -> [t |-> "B", v |-> unbase64(x)]
          [] enc["t"] = "BOOL"         -> [t |-> "BOOL", v |-> x]
          [] enc["t"] = "NULL"         -> [t |-> "NULL"]
          [] enc["t"] = "L"            -> [t |-> "L", v |-> [i \in 1..Len(x) |-> unmarshalAVJSON(x[i])]]
          [] enc["t"] = "M"            -> [t |-> "M", v |-> [y \in DOMAIN x |-> unmarshalAVJSON(x[y])]]
          [] enc["t"] \in {"SS", "NS"} -> [t |-> enc["t"], v |-> [i \in 1..Len(x) |-> x[i][2]]]
          [] enc["t"] = "BS"           -> [t |-> "BS", v |-> [i \in 1..Len(x) |-> unbase64(x[i])]]
============================================================================
