----------------------------- MODULE MCQueries -----------------------------
(***************************************************************************)
(* Reading, from the calls that build a request to what comes back: the    *)
(* requests a Query compiles (QueryBuilder), the reads that take several   *)
(* requests (ReadPath), the plans of a shared optimizer (Optimizer) and    *)
(* the aggregates over what was read (Aggregates).  Each hands a finished  *)
(* value to the next, so that they are looked at one at a time.            *)
(***************************************************************************)
EXTENDS QueryBuilder, ReadPath, Optimizer

CONSTANTS Parts, \* the parts looked at
    FieldsOf, Ops, Bounds, TextBounds, MaxChained

VARIABLES part,
    group, answer

-----------------------------------------------------------------------------
(* A table with a sort key, a global index that shares its partition key   *)
(* and a global index without a sort key; a reserved word, an encrypted    *)
(* field, a version and two times.                                         *)

dbName == [PK |-> "pk", SK |-> "sk", G |-> "g", Status |-> "status", Version |-> "ver", Secret |-> "sec",
           Made |-> "made", Changed |-> "changed"]

primaryKey == [pk |-> "PK", sk |-> "SK"]

indexes == <<[name |-> "byStatus", type |-> "GSI", projection |-> "", pk |-> "PK", sk |-> "Status"],
             [name |-> "byG", type |-> "GSI", projection |-> "", pk |-> "G", sk |-> ""]>>

Cond(f, op, vals) == [field |-> f, op |-> op, vals |-> vals]

conditions == {Cond("PK", "=", <<1>>), Cond("pk", "<>", <<2>>), Cond("SK", ">", <<1>>),
               Cond("sk", "EQ", <<1>>), Cond("G", "=", <<1>>), Cond("status", "IN", <<1, 2>>),
               Cond("Status", "BEGINS_WITH", <<1>>), Cond("sec", "=", <<1>>), Cond("bad name", "=", <<1>>)}

groupConditions == {Cond("sk", "EQ", <<1>>), Cond("Status", "BETWEEN", <<2, 2>>), Cond("sec", "=", <<1>>)}

\* All fields, one by its Go name, two by their attributes, a key, a field there is not.
fieldLists == {<<>>, <<"Status">>, <<"ver", "g">>, <<"SK">>, <<"nowhere">>}

rawValues == {<<":v", 1>>, <<":mine", 1>>}

full(v) == [PK |-> 1, SK |-> 1, G |-> 1, Status |-> 2, Version |-> v, Secret |-> 0,
            Made |-> 1, Changed |-> 1]

sparse == [PK |-> 0, SK |-> 1, G |-> 0, Status |-> 0, Version |-> 1, Secret |-> 0,
           Made |-> 0, Changed |-> 0]

models == [read |-> {full(1), sparse}, write |-> {full(0), full(1), sparse}, update |-> {sparse}]

\* An attribute of -1 is absent.
tableItems == [pk : {1, 2}, sk : {1, 2}, g : {-1, 1}, status : {-1, 1, 2, 12}, ver : {0, 1}, sec : {-1},
               made : {1}, changed : {1}]

\* WithRetry is given as it comes.
retryCounts == {-1, 1}

\* A parallel scan deals out the positions in turn; the sort key is binary.
segmentOf(p) == p % 2

keyOf(p) == [pk |-> [t |-> "S", v |-> 1], sk |-> [t |-> "B", v |-> p]]

\* A scan, the same scan with a small limit, and a query.
plannedQueries == {[conds |-> <<>>, proj |-> <<>>, limit |-> 0],
                   [conds |-> <<>>, proj |-> <<>>, limit |-> 1],
                   [conds |-> <<[field |-> "f", op |-> "="]>>, proj |-> <<>>, limit |-> 0]}

\* Zero values, ties, negative numbers; 10 comes before 2 as text.
TypeOf == [N |-> "number", C |-> "named", S |-> "text"]

Item(n, c, s) == [N |-> n, C |-> c, S |-> s]

Results == {<<>>, <<Item(0, 0, 1), Item(0, 2, 2)>>,
            <<Item(-1, 2, 1), Item(2, 10, 1), Item(2, 0, 2)>>,
            <<Item(1, 2, 2), Item(1, 10, 1), Item(-2, 1, 0)>>}

TextOf(n) == CASE n = 10 -> 2 [] n = 2 -> 3 [] OTHER -> n

A == INSTANCE Aggregates

-----------------------------------------------------------------------------
aggVars == <<group, answer>>

None == "none"
noQuery == mode = None /\ q = None /\ ub = None /\ asked = None
noRead == ReadInit /\ \A p \in Positions : table[p] = "none"
noPlan == OptInit /\ ~config.adaptive /\ ~config.parallel
noAggregate == group = None /\ answer = None

QueriesInit ==
    /\ part \in Parts
    /\ \/ part = "query" /\ QueryInit /\ noRead /\ noPlan /\ noAggregate
       \/ part = "read" /\ ReadInit /\ noQuery /\ noPlan /\ noAggregate
       \/ part = "plan" /\ OptInit /\ noQuery /\ noRead /\ noAggregate
       \/ part = "aggregate" /\ A!AggInit /\ noQuery /\ noRead /\ noPlan

Asking(B) == part = "query" /\ B /\ UNCHANGED <<part, readVars, optVars, aggVars>>
Reading(B) == part = "read" /\ B /\ UNCHANGED <<part, queryVars, optVars, aggVars>>
Planning(B) == part = "plan" /\ B /\ UNCHANGED <<part, queryVars, readVars, aggVars>>
Adding(B) == part = "aggregate" /\ B /\ UNCHANGED <<part, queryVars, readVars, optVars>>

QueriesNext == Asking(QueryNext) \/ Reading(ReadNext) \/ Planning(OptNext) \/ Adding(A!AggNext)

all == <<part, queryVars, readVars, optVars, aggVars>>

\* The fairness of ReadPath.
QueriesSpec ==
    /\ QueriesInit /\ [][QueriesNext]_all
    /\ \A w \in Segments : WF_all(Reading(Step(w)))
    /\ WF_all(Reading(ExecutePage \/ SetCursor \/ Return))

-----------------------------------------------------------------------------
\* Aggregates and groups are those of the items read.
AggregatesExact == part = "aggregate" => A!AggregatesExact
=============================================================================
