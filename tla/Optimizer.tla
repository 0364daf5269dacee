------------------------------ MODULE Optimizer ------------------------------
(***************************************************************************)
(* QueryOptimizer and OptimizedQuery of pkg/query/optimizer.go, shared by  *)
(* several goroutines: a cache of plans, each good for a while, and        *)
(* statistics of past executions that make later estimates.                *)
(*                                                                         *)
(* The maps are sync.Maps; what they point at is shared without a lock.    *)
(* RecordExecution increments the counters of a QueryStatistics that       *)
(* another goroutine may be incrementing: each increment is a read and a   *)
(* write, with anything in between.  Durations, capacity units and hints   *)
(* are left out; estimates keep their sources.                             *)
(***************************************************************************)
EXTENDS Integers, Sequences, FiniteSets, FiniteSetsExt

CONSTANTS
    Users,             \* goroutines that share the optimizer
    Queries,           \* [conds, proj, limit]: fields and operators, projected names, limit
    maxParallelism,
    planCacheTTL,      \* ticks a plan is good for
    FewItems,          \* below this limit a scan is sequential (100)
    ManyItems,         \* below this limit a scan has few segments (1000)
    FewSegments,       \* at most so many (4)
    Enough,            \* executions history needs (10)
    MaxTime,           \* bound: ticks
    MaxRecords         \* bound: executions recorded

ASSUME OptimizerAssumption == IsFiniteSet(Users) /\ Enough \in Nat

VARIABLES
    cache,             \* planCache: plan ID -> plan
    statistics,        \* the QueryStatistics made so far
    queryStats,        \* statistics key -> index of its QueryStatistics
    time,
    user,              \* the call of each goroutine
    recorded,          \* history: statistics key -> executions reported
    config             \* [adaptive, parallel]

optVars == <<cache, statistics, queryStats, time, user, recorded, config>>

Away == [pc |-> "away"]

\* Store of a sync.Map.
Store(map, key, x) == [k \in DOMAIN map \cup {key} |-> IF k = key THEN x ELSE map[k]]

Counters == <<"executions", "items">>

-----------------------------------------------------------------------------
\* The conditions are left out (mutant).
planIDOfTable(q) == <<q.proj>>

generatePlanID(q) == <<q.conds, q.proj>>

generateStatsKey(q) == [i \in DOMAIN q.conds |-> q.conds[i].field]

Lesser(a, b) == IF a < b THEN a ELSE b
calculateOptimalSegments(q) ==
    CASE q.limit > 0 /\ q.limit < FewItems -> 1
      [] q.limit >= FewItems /\ q.limit < ManyItems -> Lesser(maxParallelism, FewSegments)
      [] OTHER -> maxParallelism

\* suggestIndexes suggests nothing yet: a plan never names an index.
analyzeQueryConditions == [op |-> "Query", segments |-> 0]
analyzeScanOperation(q) ==
    [op |-> "Scan", segments |-> IF config.parallel THEN calculateOptimalSegments(q) ELSE 0]

\* History counts above Enough executions, and is overruled by rules of thumb
\* when it comes to no items.
applyHeuristicEstimates(q) == IF q.limit > 0 THEN "limit" ELSE "default"
estimateCost(q) ==
    LET key == generateStatsKey(q)
        historical == key \in DOMAIN queryStats /\ statistics[queryStats[key]].executions > Enough
        items == IF historical
                 THEN statistics[queryStats[key]].items \div statistics[queryStats[key]].executions ELSE 0
    IN [confident |-> historical, source |-> IF items = 0 THEN applyHeuristicEstimates(q) ELSE "history"]

fresh(plan) == time - plan.cachedAt < planCacheTTL

-----------------------------------------------------------------------------
OptInit ==
    /\ cache = <<>>
    /\ statistics = <<>>
    /\ queryStats = <<>>
    /\ time = 0
    /\ user = [u \in Users |-> Away]
    /\ recorded = [k \in {generateStatsKey(q) : q \in Queries} |-> 0]
    /\ config \in [adaptive : BOOLEAN, parallel : BOOLEAN]

\* OptimizeQuery finds a plan that is still good, ...
CachedPlan(u, q) ==
    /\ user[u].pc = "away"
    /\ generatePlanID(q) \in DOMAIN cache
    /\ fresh(cache[generatePlanID(q)])
    /\ user' = [user EXCEPT ![u] = [pc |-> "planned", q |-> q, plan |-> cache[generatePlanID(q)]]]
    /\ UNCHANGED <<cache, statistics, queryStats, time, recorded, config>>

\* ... or makes one, ...
MakePlan(u, q) ==
    /\ user[u].pc = "away"
    /\ generatePlanID(q) \in DOMAIN cache => ~fresh(cache[generatePlanID(q)])
    /\ LET found == IF q.conds # <<>> THEN analyzeQueryConditions ELSE analyzeScanOperation(q)
           cost == estimateCost(q)
       IN user' = [user EXCEPT ![u] =
            [pc |-> "made", q |-> q,
             plan |-> [op |-> found.op, segments |-> found.segments, cachedAt |-> time,
                       confident |-> cost.confident, source |-> cost.source]]]
    /\ UNCHANGED <<cache, statistics, queryStats, time, recorded, config>>

\* ... which the last to store it leaves in the cache.
StorePlan(u) ==
    /\ user[u].pc = "made"
    /\ cache' = Store(cache, generatePlanID(user[u].q), user[u].plan)
    /\ user' = [user EXCEPT ![u] = [pc |-> "planned", q |-> @.q, plan |-> @.plan]]
    /\ UNCHANGED <<statistics, queryStats, time, recorded, config>>

ClearCache ==
    /\ cache # <<>>
    /\ cache' = <<>>
    /\ UNCHANGED <<statistics, queryStats, time, user, recorded, config>>

\* OptimizedQuery.Execute: the read its plan says, then its record.  It reports
\* no items, whatever it returned.
ReadOf(plan) ==
    CASE plan.op = "Query" -> "All"
      [] plan.op = "Scan" /\ plan.segments > 1 -> "ScanAllSegments"
      [] OTHER -> "Scan"
Execute(u) ==
    /\ user[u].pc = "planned"
    /\ user' = [user EXCEPT ![u] = [pc |-> "executed", q |-> @.q, read |-> ReadOf(@.plan),
                                    result |-> [executions |-> 1, items |-> 0]]]
    /\ UNCHANGED <<cache, statistics, queryStats, time, recorded, config>>

\* A caller that executes its queries itself reports the items as well.
Report(u, q, n) ==
    /\ user[u].pc = "away"
    /\ user' = [user EXCEPT ![u] = [pc |-> "reports", q |-> q, result |-> [executions |-> 1, items |-> n]]]
    /\ UNCHANGED <<cache, statistics, queryStats, time, recorded, config>>

Reporting(u) == user[u].pc \in {"executed", "reports"}

RecordDisabled(u) ==
    /\ Reporting(u) /\ ~config.adaptive
    /\ user' = [user EXCEPT ![u] = Away]
    /\ UNCHANGED <<cache, statistics, queryStats, time, recorded, config>>

\* RecordExecution takes the statistics of the query, or makes new ones.
RecordExecution(u) ==
    /\ Reporting(u) /\ config.adaptive
    /\ LET key == generateStatsKey(user[u].q)
           known == key \in DOMAIN queryStats
       IN /\ MapThenSumSet(LAMBDA k : recorded[k], DOMAIN recorded) < MaxRecords
          /\ recorded' = [recorded EXCEPT ![key] = @ + 1]
          /\ statistics' = IF known THEN statistics ELSE Append(statistics, [executions |-> 0, items |-> 0])
          /\ user' = [user EXCEPT ![u] = [pc |-> "read", q |-> @.q, result |-> @.result, at |-> 1,
                                          stats |-> IF known THEN queryStats[key] ELSE Len(statistics) + 1]]
    /\ UNCHANGED <<cache, queryStats, time, config>>

\* One counter after the other: its value is read, and written back increased.
ReadCounter(u) ==
    /\ user[u].pc = "read"
    /\ user' = [user EXCEPT ![u] = [pc |-> "write", q |-> @.q, result |-> @.result, at |-> @.at, stats |-> @.stats,
                                    value |-> statistics[@.stats][Counters[@.at]]]]
    /\ UNCHANGED <<cache, statistics, queryStats, time, recorded, config>>

WriteCounter(u) ==
    /\ user[u].pc = "write"
    /\ LET c == Counters[user[u].at]
       IN /\ statistics' = [statistics EXCEPT ![user[u].stats][c] = user[u].value + user[u].result[c]]
          /\ user' = [user EXCEPT ![u] =
                [pc |-> IF @.at = Len(Counters) THEN "store" ELSE "read", q |-> @.q, result |-> @.result,
                 at |-> @.at + 1, stats |-> @.stats]]
    /\ UNCHANGED <<cache, queryStats, time, recorded, config>>

\* The statistics are stored again; of two made at once the last stays.
StoreStatistics(u) ==
    /\ user[u].pc = "store"
    /\ queryStats' = Store(queryStats, generateStatsKey(user[u].q), user[u].stats)
    /\ user' = [user EXCEPT ![u] = Away]
    /\ UNCHANGED <<cache, statistics, time, recorded, config>>

Clock ==
    /\ time < MaxTime
    /\ time' = time + 1
    /\ UNCHANGED <<cache, statistics, queryStats, user, recorded, config>>

OptNext ==
    \/ Clock \/ ClearCache
    \/ \E u \in Users :
        \/ \E q \in Queries : CachedPlan(u, q) \/ MakePlan(u, q) \/ Report(u, q, 2)
        \/ StorePlan(u) \/ Execute(u) \/ RecordDisabled(u) \/ RecordExecution(u)
        \/ ReadCounter(u) \/ WriteCounter(u) \/ StoreStatistics(u)

OptSpec == OptInit /\ [][OptNext]_optVars

-----------------------------------------------------------------------------
\* A plan never outlives what it was made from: a query is executed by the
\* operation its own conditions call for, whoever made the cached plan, and an
\* estimate that claims to rest on history has had as many executions reported
\* for that query's fields, however the reports raced.
PlanJustified ==
    \A u \in Users :
        /\ user[u].pc = "executed" => (user[u].read = "All" <=> user[u].q.conds # <<>>)
        /\ user[u].pc \in {"made", "planned"} /\ user[u].plan.confident =>
                recorded[generateStatsKey(user[u].q)] > Enough
=============================================================================
