----------------------------- MODULE LambdaInit -----------------------------
(***************************************************************************)
(* NewLambdaOptimized and LambdaInit of lambda.go, called by several       *)
(* goroutines: the process-wide session is made once, by the first to get  *)
(* through a sync.Once; `err' is a local of the call that made it.         *)
(***************************************************************************)
EXTENDS Integers, FiniteSets

CONSTANTS
    Goroutines,
    MaxFailures, \* bound: how often createLambdaDB fails
    MaxCalls     \* bound: calls of LambdaInit per goroutine

VARIABLES
    globalLambdaDB, \* the session, 0 when nil; sessions are numbered
    lambdaOnce,     \* "new", "running" or "done"
    pc, db, err,    \* per goroutine: place, and the locals of the call
    answer,         \* per goroutine: what LambdaInit returned
    sessions,       \* how many sessions were made
    failures, calls

shared == <<globalLambdaDB, lambdaOnce, sessions, failures>>
vars   == <<globalLambdaDB, lambdaOnce, pc, db, err, answer, sessions, failures, calls>>

nil == 0

Init ==
    /\ globalLambdaDB = nil /\ lambdaOnce = "new"
    /\ pc = [g \in Goroutines |-> "idle"]
    /\ db = [g \in Goroutines |-> nil]
    /\ err = [g \in Goroutines |-> FALSE]
    /\ answer = [g \in Goroutines |-> "none"]
    /\ sessions = 0 /\ failures = 0
    /\ calls = [g \in Goroutines |-> 0]

Goto(g, l) == pc' = [pc EXCEPT ![g] = l]

LambdaInit(g) ==
    /\ pc[g] = "idle"
    /\ calls[g] < MaxCalls
    /\ calls' = [calls EXCEPT ![g] = @ + 1]
    /\ err' = [err EXCEPT ![g] = FALSE]
    /\ Goto(g, "check")
    /\ UNCHANGED <<shared, db, answer>>

------------------------------------------------------------------------------
(***************************************************************************)
(* NewLambdaOptimized.                                                     *)
(***************************************************************************)
\* The warm start: the pointer is read without synchronization.
WarmStart(g) ==
    /\ pc[g] = "check"
    /\ globalLambdaDB # nil
    /\ db' = [db EXCEPT ![g] = globalLambdaDB]
    /\ Goto(g, "new")
    /\ UNCHANGED <<shared, err, answer, calls>>

ColdStart(g) ==
    /\ pc[g] = "check"
    /\ globalLambdaDB = nil
    /\ Goto(g, "once")
    /\ UNCHANGED <<shared, db, err, answer, calls>>

\* Mutation: nobody is kept from initializing at the same time.
OnceEnterUnguarded(g) ==
    /\ pc[g] = "once"
    /\ lambdaOnce' = "running"
    /\ Goto(g, "create")
    /\ UNCHANGED <<globalLambdaDB, sessions, failures, db, err, answer, calls>>

OnceEnter(g) ==
    /\ pc[g] = "once"
    /\ lambdaOnce = "new"
    /\ lambdaOnce' = "running"
    /\ Goto(g, "create")
    /\ UNCHANGED <<globalLambdaDB, sessions, failures, db, err, answer, calls>>

\* Everyone else waits for the one inside, and then skips.
OnceSkip(g) ==
    /\ pc[g] = "once"
    /\ lambdaOnce = "done"
    /\ Goto(g, "load")
    /\ UNCHANGED <<shared, db, err, answer, calls>>

Create(g) ==
    /\ pc[g] = "create"
    /\ globalLambdaDB' = sessions + 1
    /\ sessions' = sessions + 1
    /\ lambdaOnce' = "done"
    /\ Goto(g, "load")
    /\ UNCHANGED <<failures, db, err, answer, calls>>

\* Mutation: a failure leaves the once unfinished.
CreateFailsHanging(g) ==
    /\ pc[g] = "create"
    /\ failures < MaxFailures
    /\ failures' = failures + 1
    /\ err' = [err EXCEPT ![g] = TRUE]
    /\ Goto(g, "load")
    /\ UNCHANGED <<globalLambdaDB, lambdaOnce, sessions, db, answer, calls>>

CreateFails(g) ==
    /\ pc[g] = "create"
    /\ failures < MaxFailures
    /\ failures' = failures + 1
    /\ err' = [err EXCEPT ![g] = TRUE]
    /\ lambdaOnce' = "done"
    /\ Goto(g, "load")
    /\ UNCHANGED <<globalLambdaDB, sessions, db, answer, calls>>

Load(g) ==
    /\ pc[g] = "load"
    /\ db' = [db EXCEPT ![g] = globalLambdaDB]
    /\ Goto(g, "new")
    /\ UNCHANGED <<shared, err, answer, calls>>

------------------------------------------------------------------------------
\* The rest of LambdaInit uses the session: a nil pointer is dereferenced if
\* there is neither a session nor an error.
Return(g) ==
    /\ pc[g] = "new"
    /\ answer' = [answer EXCEPT ![g] = IF err[g] THEN "error"
                                       ELSE IF db[g] = nil THEN "panic" ELSE "session"]
    /\ Goto(g, "idle")
    /\ UNCHANGED <<shared, db, err, calls>>

Step(g) == \/ WarmStart(g) \/ ColdStart(g) \/ OnceEnter(g) \/ OnceSkip(g)
           \/ Create(g) \/ CreateFails(g) \/ Load(g) \/ Return(g)

AllIdle == \A g \in Goroutines : pc[g] = "idle"

Done == AllIdle /\ UNCHANGED vars

Next == (\E g \in Goroutines : LambdaInit(g) \/ Step(g)) \/ Done

Spec == Init /\ [][Next]_vars

\* Goroutines inside a call keep running, sync.Once lets waiters go.
FairSpec == Spec /\ \A g \in Goroutines : WF_vars(Step(g))

------------------------------------------------------------------------------
\* Only ever one session is made.
TypeOK ==
    /\ sessions \in 0..1 /\ globalLambdaDB \in 0..sessions
    /\ lambdaOnce \in {"new", "running", "done"}
    /\ pc \in [Goroutines -> {"idle", "check", "once", "create", "load", "new"}]
    /\ db \in [Goroutines -> Nat] /\ err \in [Goroutines -> BOOLEAN]
    /\ answer \in [Goroutines -> {"none", "session", "error", "panic"}]
    /\ failures \in 0..MaxFailures
    /\ calls \in [Goroutines -> 0..MaxCalls]

\* All calls, cold or warm and however they overlap, answer with one session.
Singleton ==
    \A g, h \in Goroutines :
        /\ pc[g] = "idle" /\ answer[g] = "session"
        /\ pc[h] = "idle" /\ answer[h] = "session"
        => db[g] = db[h]

\* A call answers with a session or with an error, whoever did the work.  The
\* code does not keep this after a failed initialization (README).
SessionOrError == \A g \in Goroutines : answer[g] # "panic"

\* Every call returns, also those that wait for another's initialization.
InitReturns == \A g \in Goroutines : pc[g] # "idle" ~> pc[g] = "idle"
==============================================================================
