-------------------------------- MODULE Expr --------------------------------
(***************************************************************************)
(* The expression builder of internal/expr: how the conditions, filters    *)
(* and updates of one request become expressions over placeholders, and    *)
(* what DynamoDB makes of them.                                            *)
(*                                                                         *)
(* An expression is a sequence of terms and, between them, the logical     *)
(* operators of the calls that added them; its text is left out.  A term   *)
(* names its attribute and its values by placeholders only, so that what   *)
(* it means depends on the two maps sent along with it, as in the code.    *)
(* A dotted path counts as one name, and a value is whatever the           *)
(* converter made of it.                                                   *)
(***************************************************************************)
EXTENDS Integers, Sequences, Functions

CONSTANTS
    reservedWords,  \* names that are reserved words of DynamoDB, no two of them the same
                    \* but for the case of their letters
    InvalidNames    \* field names that pkg/validation refuses

Absent == -1        \* no such attribute; the values of attributes are 0, 1, 2, ...,
                    \* as texts their one or two decimal digits

EmptyBuilder ==
    [names |-> <<>>, values |-> <<>>, nameCounter |-> 0, valueCounter |-> 0,
     keyConditions |-> <<>>,
     filterConditions |-> <<>>, filterOperators |-> <<>>,
     conditions |-> <<>>, conditionOperators |-> <<>>,
     updates |-> <<>>, err |-> FALSE]

\* The entries of f, over those of g: entries put into a Go map.
over(f, g) == [p \in DOMAIN f \cup DOMAIN g |-> IF p \in DOMAIN f THEN f[p] ELSE g[p]]

(***************************************************************************)
(* Placeholders.  A reserved word has a placeholder of its own, any other  *)
(* name the next number; a name that has one keeps it.                     *)
(***************************************************************************)
isReservedWord(name) == name \in reservedWords

namePlaceholder(b, name) ==
    IF isReservedWord(name) THEN <<"#", name>> ELSE <<"#n", b.nameCounter + 1>>

holders(b, name) == {p \in DOMAIN b.names : b.names[p] = name}

nameRef(b, name) ==
    IF holders(b, name) # {} THEN CHOOSE p \in holders(b, name) : TRUE
                             ELSE namePlaceholder(b, name)

addNameSecure(b, name) ==
    IF holders(b, name) # {} THEN b
    ELSE [b EXCEPT !.names = over([p \in {namePlaceholder(b, name)} |-> name], @),
                   !.nameCounter = @ + 1]

valueRefs(b, vals) == [i \in 1..Len(vals) |-> <<":v", b.valueCounter + i>>]

addValueSecure(b, vals) ==
    [b EXCEPT !.values = over([p \in Range(valueRefs(b, vals)) |->
                                  vals[p[2] - b.valueCounter]], @),
              !.valueCounter = @ + Len(vals)]

(***************************************************************************)
(* One condition.  The values are a sequence: two for BETWEEN, any number  *)
(* for IN, none for the tests of existence, one for the rest.              *)
(***************************************************************************)
canonical(op) ==
    CASE op \in {"=", "EQ"}                         -> "="
      [] op \in {"!=", "<>", "NE"}                  -> "<>"
      [] op \in {"<", "LT"}                         -> "<"
      [] op \in {"<=", "LE"}                        -> "<="
      [] op \in {">", "GT"}                         -> ">"
      [] op \in {">=", "GE"}                        -> ">="
      [] op \in {"EXISTS", "ATTRIBUTE_EXISTS"}         -> "EXISTS"
      [] op \in {"NOT_EXISTS", "ATTRIBUTE_NOT_EXISTS"} -> "NOT_EXISTS"
      [] op \in {"BETWEEN", "IN", "BEGINS_WITH", "CONTAINS"} -> op
      [] OTHER                                      -> "unsupported"

MaxInValues == 100

ValidateFieldName(name) == name \notin InvalidNames

badCondition(name, op, vals) ==
    \/ ~ValidateFieldName(name)
    \/ canonical(op) = "unsupported"
    \/ op = "BETWEEN" /\ Len(vals) # 2
    \/ op = "IN" /\ Len(vals) > MaxInValues

term(b, name, op, vals) ==
    [op |-> canonical(op), name |-> nameRef(b, name), vals |-> valueRefs(b, vals)]

withTerm(b, name, vals) == addValueSecure(addNameSecure(b, name), vals)

failed(b) == [b EXCEPT !.err = TRUE]

AddKeyCondition(b, name, op, vals) ==
    IF badCondition(name, op, vals) THEN failed(b)
    ELSE [withTerm(b, name, vals) EXCEPT
              !.keyConditions = Append(@, term(b, name, op, vals))]

\* The operator before a term; the first term has none.
linked(operators, terms, logicalOp) ==
    IF terms = <<>> THEN operators ELSE Append(operators, logicalOp)

AddFilterCondition(b, logicalOp, name, op, vals) ==
    IF badCondition(name, op, vals) THEN failed(b)
    ELSE [withTerm(b, name, vals) EXCEPT
              !.filterConditions = Append(@, term(b, name, op, vals)),
              !.filterOperators = linked(@, b.filterConditions, logicalOp)]

AddConditionExpressionWithOp(b, logicalOp, name, op, vals) ==
    IF badCondition(name, op, vals) THEN failed(b)
    ELSE [withTerm(b, name, vals) EXCEPT
              !.conditions = Append(@, term(b, name, op, vals)),
              !.conditionOperators = linked(@, b.conditions, logicalOp)]

AddConditionExpression(b, name, op, vals) ==
    AddConditionExpressionWithOp(b, "AND", name, op, vals)

\* The filter of another builder as one term; its placeholders replace equal ones.
AddGroupFilter(b, logicalOp, group) ==
    LET merged == [b EXCEPT !.names = over(group.names, @), !.values = over(group.values, @)]
    IN  IF group.filterConditions = <<>> THEN merged
        ELSE [merged EXCEPT
                 !.filterConditions = Append(@, [op |-> "GROUP",
                                                 terms |-> group.filterConditions,
                                                 operators |-> group.filterOperators]),
                 !.filterOperators = linked(@, b.filterConditions, logicalOp)]

(***************************************************************************)
(* Updates: SET, SET if_not_exists and ADD carry a value, REMOVE none.     *)
(***************************************************************************)
addUpdate(b, action, name, vals) ==
    IF ~ValidateFieldName(name) THEN failed(b)
    ELSE [withTerm(b, name, vals) EXCEPT
              !.updates = Append(@, [action |-> action, name |-> nameRef(b, name),
                                     vals |-> valueRefs(b, vals)])]

AddUpdateSet(b, name, val) == addUpdate(b, "SET", name, <<val>>)

AddUpdateAdd(b, name, val) == addUpdate(b, "ADD", name, <<val>>)

AddUpdateRemove(b, name) == addUpdate(b, "REMOVE", name, <<>>)

AddUpdateFunction(b, name, val) == addUpdate(b, "IF_NOT_EXISTS", name, <<val>>)

\* The loops of a query add clause after clause; one that is not for them is passed over.
addClause(b, c) ==
    CASE c.to = "keyConditions"    -> AddKeyCondition(b, c.name, c.op, c.vals)
      [] c.to = "filterConditions" -> AddFilterCondition(b, c.link, c.name, c.op, c.vals)
      [] c.to = "conditions"       -> AddConditionExpressionWithOp(b, c.link, c.name, c.op, c.vals)
      [] c.to = "updates"          -> addUpdate(b, c.op, c.name, c.vals)
      [] c.to = "none"             -> b

addClauses(b, clauses) ==
    LET after[n \in 0..Len(clauses)] ==
            IF n = 0 THEN b ELSE addClause(after[n - 1], clauses[n])
    IN  after[Len(clauses)]

\* The conditions stay (mutant).
ResetNothing(b) == b

ResetConditions(b) == [b EXCEPT !.conditions = <<>>, !.conditionOperators = <<>>]

\* A copy that numbers its placeholders from one again (mutant).
CloneRecounting(b) == [b EXCEPT !.nameCounter = 0, !.valueCounter = 0]

\* A copy with everything of the original, the counters included.
Clone(b) == b

(***************************************************************************)
(* DynamoDB: what a term says of an item, what an expression of several    *)
(* terms says (AND binds tighter than OR), what an update leaves behind.   *)
(***************************************************************************)
Compare(op, x, vals) ==
    CASE op = "="          -> x = vals[1]
      [] op = "<>"         -> x # vals[1]
      [] op = "EXISTS"     -> x # Absent
      [] op = "NOT_EXISTS" -> x = Absent
      [] op = "<"          -> x # Absent /\ x < vals[1]
      [] op = "<="         -> x # Absent /\ x <= vals[1]
      [] op = ">"          -> x # Absent /\ x > vals[1]
      [] op = ">="         -> x # Absent /\ x >= vals[1]
      [] op = "IN"         -> x \in Range(vals)
      [] op = "BETWEEN"    -> x # Absent /\ x \in vals[1]..vals[2]
      [] op = "BEGINS_WITH" -> x # Absent /\ vals[1] \in {x, x \div 10}
      [] op = "CONTAINS"   -> x # Absent /\ vals[1] \in {x, x \div 10, x % 10}

AndOr(holds, operators) ==
    LET n == Len(holds)
    IN  n = 0 \/ \E i, j \in 1..n :
            /\ i <= j
            /\ i = 1 \/ operators[i - 1] = "OR"
            /\ j = n \/ operators[j] = "OR"
            /\ \A k \in i..j : holds[k] /\ (k < j => operators[k] = "AND")

simpleHolds(t, b, item) ==
    Compare(t.op, item[b.names[t.name]], [i \in 1..Len(t.vals) |-> b.values[t.vals[i]]])

termHolds(t, b, item) ==
    IF t.op = "GROUP"
    THEN AndOr([i \in 1..Len(t.terms) |-> simpleHolds(t.terms[i], b, item)], t.operators)
    ELSE simpleHolds(t, b, item)

ExpressionHolds(terms, operators, b, item) ==
    AndOr([i \in 1..Len(terms) |-> termHolds(terms[i], b, item)], operators)

\* The value an update leaves where x was.
changed(b, u, x) ==
    CASE u.action = "SET"           -> b.values[u.vals[1]]
      [] u.action = "ADD"           -> IF x = Absent THEN b.values[u.vals[1]] ELSE x + b.values[u.vals[1]]
      [] u.action = "IF_NOT_EXISTS" -> IF x = Absent THEN b.values[u.vals[1]] ELSE x
      [] u.action = "REMOVE"        -> Absent

\* All updates read the item as it was.
Updated(b, item) ==
    [a \in DOMAIN item |->
        LET mine == {i \in 1..Len(b.updates) : b.names[b.updates[i].name] = a}
        IN  IF mine = {} THEN item[a]
            ELSE changed(b, b.updates[CHOOSE i \in mine : TRUE], item[a])]
=============================================================================
