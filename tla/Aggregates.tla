----------------------------- MODULE Aggregates -----------------------------
(***************************************************************************)
(* The aggregates of pkg/query/aggregates.go: Sum, Average, Min, Max,      *)
(* Aggregate and CountDistinct over the items a query returns, and GroupBy *)
(* with its chain of aggregates and HAVING clauses.                        *)
(*                                                                         *)
(* A field holds an integer: the number itself, or the place of a text in  *)
(* the order of texts.  0 is the zero value of the field's type.  What the *)
(* code does with a value depends on the field's type (TypeOf): "number",  *)
(* one of Go's own numeric types; "named", a type declared over one        *)
(* (type Cents int64), which has a numeric Kind but matches no case of the *)
(* type switch in toFloat64; "text", everything else.                      *)
(***************************************************************************)
EXTENDS Integers, Sequences, FiniteSets, SequencesExt, FiniteSetsExt

CONSTANTS
    FieldsOf,     \* the fields of the model
    TypeOf,       \* [FieldsOf -> {"number", "named", "text"}]
    Results,      \* what the query may return: sequences of items
    TextOf(_),    \* the place of a number's text in the order of texts
    Ops,          \* the operators given to Having
    Bounds,       \* the values given to Having
    TextBounds,   \* those of them that are no numbers
    MaxChained    \* bound: calls chained to a GroupBy

VARIABLES
    group,        \* the GroupByQuery under construction
    answer        \* the answer of the last call

aggVars == <<group, answer>>

nil == [nil |-> TRUE]
NoGroup == [on |-> FALSE]
NoAnswer == [call |-> "none"]

-----------------------------------------------------------------------------
(* Values.  An item has no value for a field that is absent or zero.       *)

isNumeric(f) == f \in FieldsOf /\ TypeOf[f] \in {"number", "named"}
extractFieldValue(item, f) ==
    IF f \notin FieldsOf \/ item[f] = 0 THEN nil ELSE [nil |-> FALSE, n |-> item[f], t |-> TypeOf[f]]
toFloat64Fails(v) == v.t # "number"

byText(v) == IF v.t = "named" THEN TextOf(v.n) ELSE v.n
compareValues(a, b) ==
    IF ~toFloat64Fails(a) /\ ~toFloat64Fails(b) THEN a.n - b.n ELSE byText(a) - byText(b)

values(items, f) == SelectSeq([i \in DOMAIN items |-> extractFieldValue(items[i], f)], LAMBDA v : ~v.nil)

extremeFieldValue(items, f, pickMax) ==
    LET better(v, w) == IF pickMax THEN compareValues(v, w) > 0 ELSE compareValues(v, w) < 0
    IN FoldLeft(LAMBDA best, v : IF best.nil \/ better(v, best) THEN v ELSE best, nil, values(items, f))

sumAndCountNumeric(items, f) ==
    IF isNumeric(f) THEN <<FoldLeft(LAMBDA s, item : s + item[f], 0, items), Len(items)>> ELSE <<0, 0>>

\* An average is kept as the sum and the count it divides.
average(items, f) ==
    LET sc == sumAndCountNumeric(items, f) IN [sum |-> sc[1], count |-> IF sc[2] = 0 THEN 1 ELSE sc[2]]

AggregateResult == [Count |-> 0, Sum |-> 0, Average |-> [sum |-> 0, count |-> 1], Min |-> nil, Max |-> nil]

-----------------------------------------------------------------------------
(* Aggregates over the whole result.                                       *)

Answer(call, f, items, value) == answer' = [call |-> call, field |-> f, items |-> items, value |-> value]

\* getAllItems fails with the query; every aggregate then returns the error.
getAllItemsFails ==
    /\ answer' = [call |-> "error"]
    /\ group' = NoGroup

Sum(f) == \E items \in Results :
    /\ Answer("Sum", f, items, sumAndCountNumeric(items, f)[1])
    /\ UNCHANGED group

Average(f) == \E items \in Results :
    /\ Answer("Average", f, items, average(items, f))
    /\ UNCHANGED group

\* Min and Max; an error when there is no value.
extremeValue(f, direction) == \E items \in Results :
    LET v == extremeFieldValue(items, f, direction > 0)
    IN /\ Answer(IF direction > 0 THEN "Max" ELSE "Min", f, items, v)
       /\ UNCHANGED group

\* Several aggregates of the first field, in one pass.
Aggregate(f) == \E items \in Results :
    /\ Answer("Aggregate", f, items,
              [AggregateResult EXCEPT !.Count = Len(items), !.Sum = sumAndCountNumeric(items, f)[1],
                                      !.Average = average(items, f),
                                      !.Min = extremeFieldValue(items, f, FALSE),
                                      !.Max = extremeFieldValue(items, f, TRUE)])
    /\ UNCHANGED group

CountDistinct(f) == \E items \in Results :
    /\ Answer("CountDistinct", f, items, Cardinality({byText(v) : v \in ToSet(values(items, f))}))
    /\ UNCHANGED group

-----------------------------------------------------------------------------
(* GroupBy.                                                                *)

GroupBy(f) == \E items \in Results :
    /\ group' = [on |-> TRUE, items |-> items, groupBy |-> f, groups |-> <<>>,
                 aggregates |-> <<>>, having |-> <<>>, executed |-> 0]
    /\ answer' = NoAnswer

Chained == Len(group.aggregates) + Len(group.having)

\* Count, Sum, Avg, Min and Max: one more aggregate, under an alias.
addAggregate(function, f, alias) ==
    /\ group.on /\ Chained < MaxChained
    /\ group' = [group EXCEPT !.aggregates = Append(@, [function |-> function, field |-> f, alias |-> alias])]
    /\ UNCHANGED answer

Having(aggregate, operator, value) ==
    /\ group.on /\ Chained < MaxChained
    /\ group' = [group EXCEPT !.having = Append(@, [aggregate |-> aggregate, operator |-> operator, value |-> value])]
    /\ UNCHANGED answer

calculateAggregate(items, agg) ==
    [AggregateResult EXCEPT
        !.Count = IF agg.function = "COUNT" THEN Len(items) ELSE 0,
        !.Sum = IF agg.function = "SUM" THEN sumAndCountNumeric(items, agg.field)[1] ELSE 0,
        !.Average = IF agg.function = "AVG" THEN average(items, agg.field) ELSE @,
        !.Min = IF agg.function = "MIN" THEN extremeFieldValue(items, agg.field, FALSE) ELSE nil,
        !.Max = IF agg.function = "MAX" THEN extremeFieldValue(items, agg.field, TRUE) ELSE nil]

\* A result says which aggregate it is by the field that is set.  An answer is
\* a fraction, or no number.
Fraction(n) == [ok |-> TRUE, sum |-> n, count |-> 1]
NotANumber == [ok |-> FALSE]
aggregateResultValue(r) ==
    CASE ~r.Min.nil -> IF toFloat64Fails(r.Min) THEN NotANumber ELSE Fraction(r.Min.n)
      [] r.Min.nil /\ ~r.Max.nil -> IF toFloat64Fails(r.Max) THEN NotANumber ELSE Fraction(r.Max.n)
      [] r.Min.nil /\ r.Max.nil ->
            CASE r.Count # 0 -> Fraction(r.Count)
              [] r.Count = 0 /\ r.Sum # 0 -> Fraction(r.Sum)
              [] OTHER -> [ok |-> TRUE] @@ r.Average

aggregateValue(g, aggregate) ==
    IF aggregate = "COUNT(*)" THEN Fraction(g.Count)
    ELSE IF aggregate \notin DOMAIN g.Aggregates THEN NotANumber
    ELSE aggregateResultValue(g.Aggregates[aggregate])

\* The comparison of the fraction sum / count with value; an operator the
\* switch does not know accepts every group.
compareHaving(v, operator, value) ==
    LET d == v.sum - value * v.count
    IN CASE operator = "=" -> d = 0
         [] operator = ">" -> d > 0
         [] operator = ">=" -> d >= 0
         [] operator = "<" -> d < 0
         [] operator = "<=" -> d <= 0
         [] operator = "!=" -> d # 0
         [] OTHER -> TRUE

\* One clause that holds is enough (mutant).
evaluateAnyHaving(g, having) ==
    having = <<>> \/ \E i \in DOMAIN having :
        LET v == aggregateValue(g, having[i].aggregate)
        IN v.ok /\ having[i].value \notin TextBounds /\ compareHaving(v, having[i].operator, having[i].value)

evaluateHaving(g, having) ==
    \A i \in DOMAIN having :
        LET v == aggregateValue(g, having[i].aggregate)
        IN v.ok /\ having[i].value \notin TextBounds /\ compareHaving(v, having[i].operator, having[i].value)


\* Items join the group of their key's text; groups outlive the call.
grouped(groups, items, f) ==
    LET join(gs, item) ==
            LET key == extractFieldValue(item, f) IN
            IF key.nil THEN gs
            ELSE IF byText(key) \in DOMAIN gs
                 THEN [gs EXCEPT ![byText(key)] = [@ EXCEPT !.Count = @ + 1, !.Items = Append(@, item)]]
                 ELSE gs @@ (byText(key) :> [Key |-> key, Count |-> 1, Items |-> <<item>>, Aggregates |-> <<>>])
    IN FoldLeft(join, groups, items)

aggregated(groups, aggregates) ==
    [k \in DOMAIN groups |->
        [groups[k] EXCEPT !.Aggregates =
            FoldLeft(LAMBDA r, agg : (agg.alias :> calculateAggregate(groups[k].Items, agg)) @@ r, @, aggregates)]]

Execute ==
    /\ group.on
    /\ group.executed < 2
    /\ LET gs == aggregated(grouped(group.groups, group.items, group.groupBy), group.aggregates)
           filteredGroups == {gs[k] : k \in {j \in DOMAIN gs : evaluateHaving(gs[j], group.having)}}
       IN /\ group' = [group EXCEPT !.groups = gs, !.executed = @ + 1]
          /\ answer' = [call |-> "Execute", by |-> group, groups |-> filteredGroups]

-----------------------------------------------------------------------------
AggInit == group = NoGroup /\ answer = NoAnswer

Aliases == {"a", "b"}
AggNext ==
    \/ group.on = FALSE /\ getAllItemsFails
    \/ \E f \in FieldsOf :
         \/ group.on = FALSE /\ (Sum(f) \/ Average(f) \/ Aggregate(f) \/ CountDistinct(f) \/ GroupBy(f))
         \/ group.on = FALSE /\ \E d \in {-1, 1} : extremeValue(f, d)
         \/ \E function \in {"COUNT", "SUM", "AVG", "MIN", "MAX"}, alias \in Aliases :
                addAggregate(function, f, alias)
    \/ \E aggregate \in Aliases \cup {"COUNT(*)"}, operator \in Ops, value \in Bounds :
         Having(aggregate, operator, value)
    \/ Execute

AggSpec == AggInit /\ [][AggNext]_aggVars

-----------------------------------------------------------------------------
(* What the aggregates promise, said without the loops: the values of a    *)
(* field are the nonzero ones, and a named type is compared by its text,   *)
(* so that only the other types are judged.                                *)

Judged(f) == TypeOf[f] # "named"
Nonzero(items, f) == {items[i][f] : i \in DOMAIN items} \ {0}
Total(items, f) == IF isNumeric(f) THEN MapThenSumSet(LAMBDA i : items[i][f], DOMAIN items) ELSE 0
IsExtreme(v, items, f, pickMax) ==
    IF Nonzero(items, f) = {} THEN v.nil
    ELSE /\ ~v.nil /\ v.n \in Nonzero(items, f)
         /\ \A n \in Nonzero(items, f) : IF pickMax THEN n <= v.n ELSE n >= v.n
IsAverage(a, items, f) == a.sum * Len(items) = Total(items, f) * a.count

DirectExact ==
    LET f == answer.field
        items == answer.items
        v == answer.value
    IN /\ answer.call = "Sum" => v = Total(items, f)
       /\ answer.call = "Average" /\ items # <<>> /\ isNumeric(f) => IsAverage(v, items, f)
       /\ answer.call \in {"Min", "Max"} /\ Judged(f) => IsExtreme(v, items, f, answer.call = "Max")
       /\ answer.call = "CountDistinct" => v = Cardinality(Nonzero(items, f))
       /\ answer.call = "Aggregate" =>
            /\ v.Count = Len(items) /\ v.Sum = Total(items, f)
            /\ Judged(f) => IsExtreme(v.Min, items, f, FALSE) /\ IsExtreme(v.Max, items, f, TRUE)

\* Whether the members of a group pass a clause: what its aggregate amounts to,
\* a missing extreme counting as zero, compared with the clause's value.
Passes(members, aggregates, clause) ==
    LET named == {i \in DOMAIN aggregates : aggregates[i].alias = clause.aggregate}
        agg == aggregates[CHOOSE i \in named : \A j \in named : j <= i]
        holds(sum, count) ==
            LET bound == clause.value * count
            IN /\ clause.operator \in (IF sum = bound THEN {"=", ">=", "<="}
                                    ELSE IF sum > bound THEN {">", ">=", "!="} ELSE {"<", "<=", "!="})
                                   \cup (Ops \ {"=", ">=", "<=", ">", "<", "!="})
               /\ clause.value \notin TextBounds
        extremes == Nonzero(members, agg.field)
    IN IF clause.aggregate = "COUNT(*)" THEN holds(Len(members), 1)
       ELSE /\ named # {}
            /\ CASE agg.function = "COUNT" -> holds(Len(members), 1)
                 [] agg.function = "SUM" -> holds(Total(members, agg.field), 1)
                 [] agg.function = "AVG" -> holds(Total(members, agg.field), Len(members))
                 [] OTHER ->
                      IF extremes = {} THEN holds(0, 1)
                      ELSE /\ TypeOf[agg.field] = "number"
                           /\ holds(IF agg.function = "MIN" THEN Min(extremes) ELSE Max(extremes), 1)

GroupsExact ==
    LET q == answer.by
        members(n) == SelectSeq(q.items, LAMBDA item : item[q.groupBy] = n)
        keys == Nonzero(q.items, q.groupBy)
        kept == {n \in keys : \A i \in DOMAIN q.having : Passes(members(n), q.aggregates, q.having[i])}
    IN q.executed = 0 =>
        /\ {g.Key.n : g \in answer.groups} = kept
        /\ Cardinality(answer.groups) = Cardinality(kept)
        /\ \A g \in answer.groups : g.Items = members(g.Key.n) /\ g.Count = Len(g.Items)

\* Every aggregate is what its name says of the items the query returned; a
\* first Execute of a GroupBy puts each item into the group of its key, leaves
\* out no group but those a HAVING clause refuses, and refuses those only.
AggregatesExact ==
    /\ answer.call \in {"Sum", "Average", "Min", "Max", "CountDistinct", "Aggregate"} => DirectExact
    /\ answer.call = "Execute" => GroupsExact
=============================================================================
