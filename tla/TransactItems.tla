---------------------------- MODULE TransactItems ----------------------------
(***************************************************************************)
(* The operations of a write transaction and what DynamoDB does with them. *)
(* An item is one value (the attribute its conditions compare, such as the *)
(* version field), Absent when the key has no item.                        *)
(***************************************************************************)
EXTENDS Integers, Sequences

CONSTANTS
    Keys,     \* primary keys of one table
    MaxValue  \* bound: the values an item may hold are 1..MaxValue

ASSUME TransactItemsAssumption == MaxValue \in Nat /\ 0 \notin Keys

Absent == 0
Values == 1..MaxValue
Items  == {Absent} \cup Values

OpTypes == {"Put", "Create", "Update", "UpdateWithBuilder", "Delete",
            "ConditionCheck"}

\* A condition is a kind and, unless it is about existence, a value to equal:
\* field comparisons, raw expressions and version checks are all of that form.
IfExists     == <<"pk_exists", 0>>
IfNotExists  == <<"pk_not_exists", 0>>
AtVersion(v) == <<"version", v>>
Conditions   == {IfExists, IfNotExists} \cup {AtVersion(v) : v \in Values}

\* `buildable' is false when the operation cannot be turned into a request
\* item: a missing key value, an unknown field, an empty update expression.
Operations == [ typ : OpTypes, key : Keys, val : Values,
                conditions : SUBSET Conditions, buildable : BOOLEAN ]

Satisfies(item, cond) ==
    CASE cond = IfExists    -> item # Absent
      [] cond = IfNotExists -> item = Absent
      [] OTHER              -> item = cond[2]

Holds(op, t) == \A c \in op.conditions : Satisfies(t[op.key], c)

AllHold(ops, t) == \A i \in 1..Len(ops) : Holds(ops[i], t)

\* The item an operation leaves behind.
After(op, item) ==
    CASE op.typ = "Delete"         -> Absent
      [] op.typ = "ConditionCheck" -> item
      [] OTHER                     -> op.val

\* DynamoDB refuses a transaction that names an item twice.
DistinctKeys(ops) ==
    \A i, j \in 1..Len(ops) : ops[i].key = ops[j].key => i = j

Apply(ops, t) ==
    [ k \in Keys |->
        IF \E i \in 1..Len(ops) : ops[i].key = k
        THEN After(ops[CHOOSE i \in 1..Len(ops) : ops[i].key = k], t[k])
        ELSE t[k] ]
==============================================================================
